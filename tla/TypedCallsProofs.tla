---- MODULE TypedCallsProofs ----
(***************************************************************************)
(* Proofs about TypedCalls, for any services, hashes and numbers of calls, *)
(* provided no two traits have one name.  First the registry: a service    *)
(* with a server keeps its entry and its ids whatever is registered later  *)
(* and whoever panics.  Then the path of a value: a frame of a call was    *)
(* made by an arm of the id the client sent, in a server that is live, so  *)
(* that the registry's having one method for that id decides whose it is.  *)
(***************************************************************************)
EXTENDS TypedCalls, SequenceTheorems, TLAPS

\* Every service entry stands under its own name.
Named(r) == /\ r.services \in [Names -> Services \cup {Nothing}]
            /\ r.methods \in [Ids -> (Names \X MethodNames) \cup {Nothing}]
            /\ \A n \in Names : r.services[n] # Nothing => NameOf[r.services[n]] = n

\* All of service s is in registry r.
Whole(r, s) == /\ r.services[NameOf[s]] = s
               /\ \A i \in DOMAIN Trait[s] :
                     r.methods[Id(<<s, i>>)] = <<NameOf[s], MName(<<s, i>>)>>

RegInv == /\ hash \in Hashes
          /\ registry \in [Procs -> [services : [Names -> Services \cup {Nothing}],
                                     methods : [Ids -> (Names \X MethodNames) \cup {Nothing}]]]
          /\ live \subseteq Services
          /\ \A p \in Procs : Named(registry[p])
          /\ \A s \in live : Whole(registry[ServerProc], s)

LEMMA NothingIsNew ==
    Nothing \notin Services /\ Nothing \notin Methods /\ Nothing \notin Names \X MethodNames
BY TypedCallsAssumption

\* Within a service, an id or a name is one method's.
LEMMA OneMethod ==
    ASSUME hash \in Hashes, NEW s \in Services, NEW i \in DOMAIN Trait[s], NEW j \in DOMAIN Trait[s],
           Id(<<s, i>>) = Id(<<s, j>>) \/ MName(<<s, i>>) = MName(<<s, j>>)
    PROVE  i = j
<1>1. <<s, i>> \in Methods /\ <<s, j>> \in Methods
  BY DEF Methods
<1>2. Id(<<s, i>>) = Id(<<s, j>>)
  BY DEF Id, IdOf, MName
<1>3. Compiles(hash)
  BY TypedCallsAssumption
<1>4. <<s, i>>[1] = <<s, j>>[1] /\ <<s, i>> = <<s, j>>
  BY <1>1, <1>2, <1>3 DEF Compiles, Id
<1> QED BY <1>4

LEMMA MethodFacts ==
    ASSUME hash \in Hashes, NEW m \in Methods
    PROVE  /\ m[1] \in Services /\ m[2] \in DOMAIN Trait[m[1]] /\ m = <<m[1], m[2]>>
           /\ NameOf[m[1]] \in Names /\ MName(m) \in MethodNames /\ Id(m) \in Ids
<1>0. PICK s \in Services : \E i \in DOMAIN Trait[s] : m = <<s, i>>
  BY DEF Methods
<1>1. PICK i \in DOMAIN Trait[s] : m = <<s, i>>
  BY <1>0
<1>2. Trait[s] \in Seq([name : MethodNames, streaming : BOOLEAN])
  BY TypedCallsAssumption
<1>3. Trait[s][i] \in [name : MethodNames, streaming : BOOLEAN]
  <2> DEFINE T == [name : MethodNames, streaming : BOOLEAN]
             f == Trait[s]
  <2>1. f \in Seq(T) /\ i \in DOMAIN f
    BY <1>2
  <2> HIDE DEF T, f
  <2>2. f[i] \in T
    BY <2>1
  <2> QED BY <2>2 DEF T, f
<1>4. NameOf[s] \in Names /\ MName(m) \in MethodNames
  BY <1>1, <1>3 DEF Names, MName
<1>5. hash \in [Names \X MethodNames -> Ids]
  BY TypedCallsAssumption
<1>6. Id(m) \in Ids
  BY <1>1, <1>4, <1>5 DEF Id, IdOf
<1> QED BY <1>1, <1>4, <1>6

-----------------------------------------------------------------------------
(* Registration. *)

\* x_register leaves a well-formed registry, and what was in it stays in it.
LEMMA RegisterKeeps ==
    ASSUME NamesDistinct, hash \in Hashes, NEW t \in Services, NEW r,
           r \in [services : [Names -> Services \cup {Nothing}],
                  methods : [Ids -> (Names \X MethodNames) \cup {Nothing}]],
           Named(r)
    PROVE  /\ Registered(hash, r, t) \in
                  [services : [Names -> Services \cup {Nothing}],
                   methods : [Ids -> (Names \X MethodNames) \cup {Nothing}]]
           /\ Named(Registered(hash, r, t))
           /\ \A s \in Services : Whole(r, s) => Whole(Registered(hash, r, t), s)
           /\ ~Collides(hash, r, t) => Whole(Registered(hash, r, t), t)
<1> DEFINE q == Registered(hash, r, t)
           New(id) == \E i \in Added(hash, r, t) : IdOf(hash, <<t, i>>) = id
           The(id) == CHOOSE m \in Methods :
                          m[1] = t /\ m[2] \in Added(hash, r, t) /\ IdOf(hash, m) = id
<1>1. Added(hash, r, t) \subseteq DOMAIN Trait[t]
  BY DEF Added
<1>2. \A i \in DOMAIN Trait[t] : <<t, i>> \in Methods
  BY DEF Methods
<1>3. ASSUME NEW id \in Ids, New(id)
      PROVE  The(id) \in Methods /\ The(id)[1] = t /\ The(id)[2] \in Added(hash, r, t)
             /\ IdOf(hash, The(id)) = id
  <2>1. PICK i \in Added(hash, r, t) : IdOf(hash, <<t, i>>) = id
    BY <1>3
  <2>2. <<t, i>> \in Methods /\ <<t, i>>[1] = t /\ <<t, i>>[2] = i
    BY <2>1, <1>1, <1>2
  <2>3. \E m \in Methods : m[1] = t /\ m[2] \in Added(hash, r, t) /\ IdOf(hash, m) = id
    BY <2>1, <2>2
  <2> QED BY <2>3
<1>4. NameOf[t] \in Names
  BY DEF Names
<1>5. q.services \in [Names -> Services \cup {Nothing}]
  <2>1. CASE Collides(hash, r, t)
    BY <2>1 DEF Registered, Named
  <2>2. CASE ~Collides(hash, r, t)
    BY <2>2, <1>4 DEF Registered, Named
  <2> QED BY <2>1, <2>2
<1>6. \A id \in Ids : New(id) => <<NameOf[t], MName(The(id))>> \in Names \X MethodNames
  BY <1>3, <1>4, MethodFacts
<1>7. q.methods \in [Ids -> (Names \X MethodNames) \cup {Nothing}]
  <2>1. q.methods = [id \in Ids |-> IF New(id) THEN <<NameOf[t], MName(The(id))>> ELSE r.methods[id]]
    BY DEF Registered
  <2> QED BY <2>1, <1>6 DEF Named
<1>8. q \in [services : [Names -> Services \cup {Nothing}],
             methods : [Ids -> (Names \X MethodNames) \cup {Nothing}]]
  <2>1. q = [services |-> q.services, methods |-> q.methods]
    BY DEF Registered
  <2> QED BY <2>1, <1>5, <1>7
<1>9. Named(q)
  <2>1. ASSUME NEW n \in Names, q.services[n] # Nothing PROVE NameOf[q.services[n]] = n
    <3>1. CASE Collides(hash, r, t)
      BY <3>1, <2>1 DEF Registered, Named
    <3>2. CASE ~Collides(hash, r, t)
      <4>1. q.services = [r.services EXCEPT ![NameOf[t]] = t]
        BY <3>2 DEF Registered
      <4> QED BY <4>1, <2>1, <1>4 DEF Named
    <3> QED BY <3>1, <3>2
  <2> QED BY <2>1, <1>5, <1>7 DEF Named
<1>10. \A i \in DOMAIN Trait[t] : i \in Added(hash, r, t) => r.methods[IdOf(hash, <<t, i>>)] = Nothing
  <2>1. Trait[t] \in Seq([name : MethodNames, streaming : BOOLEAN])
    BY TypedCallsAssumption
  <2>2. \A i \in DOMAIN Trait[t] : i \in 1 .. i
    BY <2>1
  <2> QED BY <2>2 DEF Added, Taken
<1>11. ASSUME NEW s \in Services, Whole(r, s) PROVE Whole(q, s)
  <2>1. q.services[NameOf[s]] = s
    <3>1. NameOf[s] \in Names
      BY DEF Names
    <3>2. CASE Collides(hash, r, t)
      BY <3>2, <1>11 DEF Registered, Whole
    <3>3. CASE ~Collides(hash, r, t) /\ s = t
      BY <3>3, <1>4 DEF Registered, Named
    <3>4. CASE ~Collides(hash, r, t) /\ s # t
      <4>1. NameOf[s] # NameOf[t]
        BY <3>4 DEF NamesDistinct
      <4> QED BY <4>1, <3>4, <3>1, <1>11 DEF Registered, Whole, Named
    <3> QED BY <3>2, <3>3, <3>4
  <2>2. ASSUME NEW i \in DOMAIN Trait[s]
        PROVE  q.methods[Id(<<s, i>>)] = <<NameOf[s], MName(<<s, i>>)>>
    <3>1. <<s, i>> \in Methods
      BY DEF Methods
    <3>2. Id(<<s, i>>) \in Ids /\ <<NameOf[s], MName(<<s, i>>)>> \in Names \X MethodNames
      BY <3>1, MethodFacts
    <3>3. r.methods[Id(<<s, i>>)] = <<NameOf[s], MName(<<s, i>>)>>
      BY <1>11 DEF Whole
    <3>4. r.methods[Id(<<s, i>>)] # Nothing
      BY <3>2, <3>3, NothingIsNew
    <3>5. ~New(Id(<<s, i>>))
      BY <3>4, <1>1, <1>10
    <3> QED BY <3>2, <3>3, <3>5 DEF Registered
  <2> QED BY <2>1, <2>2 DEF Whole
<1>12. ASSUME ~Collides(hash, r, t) PROVE Whole(q, t)
  <2>1. q.services[NameOf[t]] = t
    BY <1>12, <1>4 DEF Registered, Named
  <2>2. Added(hash, r, t) = DOMAIN Trait[t]
    <3>1. Trait[t] \in Seq([name : MethodNames, streaming : BOOLEAN])
      BY TypedCallsAssumption
    <3>2. \A i \in DOMAIN Trait[t] : \A j \in 1 .. i : j \in DOMAIN Trait[t]
      BY <3>1
    <3> QED BY <1>12, <3>2 DEF Added, Collides
  <2>3. ASSUME NEW i \in DOMAIN Trait[t]
        PROVE  q.methods[Id(<<t, i>>)] = <<NameOf[t], MName(<<t, i>>)>>
    <3>1. Id(<<t, i>>) \in Ids /\ New(Id(<<t, i>>))
      BY <1>2, <2>2, MethodFacts DEF Id
    <3>2. /\ The(Id(<<t, i>>)) \in Methods /\ The(Id(<<t, i>>))[1] = t
          /\ The(Id(<<t, i>>))[2] \in DOMAIN Trait[t] /\ IdOf(hash, The(Id(<<t, i>>))) = Id(<<t, i>>)
      BY <3>1, <1>3, <1>1
    <3>3. The(Id(<<t, i>>)) = <<t, i>>
      BY <3>2, OneMethod, MethodFacts DEF Id
    <3> QED BY <3>1, <3>3 DEF Registered
  <2> QED BY <2>1, <2>3 DEF Whole
<1> QED BY <1>8, <1>9, <1>11, <1>12

-----------------------------------------------------------------------------
(* The registry of the server's process. *)

LEMMA RegInductive == ASSUME NamesDistinct, RegInv, [Next]_vars PROVE RegInv'
<1> USE DEF RegInv
<1>1. ASSUME NEW p \in Procs, NEW s \in Services, Register(p, s) PROVE RegInv'
  <2>1. /\ registry' = [registry EXCEPT ![p] = Registered(hash, registry[p], s)]
        /\ hash' = hash /\ live' = live
    BY <1>1 DEF Register
  <2>2. /\ Named(Registered(hash, registry[p], s))
        /\ \A t \in Services : Whole(registry[p], t) => Whole(Registered(hash, registry[p], s), t)
        /\ Registered(hash, registry[p], s) \in
              [services : [Names -> Services \cup {Nothing}],
               methods : [Ids -> (Names \X MethodNames) \cup {Nothing}]]
    BY RegisterKeeps
  <2>3. \A q \in Procs : Named(registry'[q])
    BY <2>1, <2>2
  <2>4. \A t \in live : Whole(registry'[ServerProc], t)
    BY <2>1, <2>2, TypedCallsAssumption
  <2> QED BY <2>1, <2>2, <2>3, <2>4 DEF Whole, Named, Id
<1>2. ASSUME NEW s \in Services, NewServer(s) PROVE RegInv'
  <2> DEFINE r == registry[ServerProc]
  <2>1. /\ registry' = [registry EXCEPT ![ServerProc] = Registered(hash, r, s)]
        /\ hash' = hash
        /\ live' = IF Collides(hash, r, s) THEN live ELSE live \cup {s}
    BY <1>2 DEF NewServer
  <2>2. ServerProc \in Procs
    BY TypedCallsAssumption
  <2>3. /\ Named(Registered(hash, r, s))
        /\ \A t \in Services : Whole(r, t) => Whole(Registered(hash, r, s), t)
        /\ ~Collides(hash, r, s) => Whole(Registered(hash, r, s), s)
        /\ Registered(hash, r, s) \in
              [services : [Names -> Services \cup {Nothing}],
               methods : [Ids -> (Names \X MethodNames) \cup {Nothing}]]
    BY <2>2, RegisterKeeps
  <2>4. \A q \in Procs : Named(registry'[q])
    BY <2>1, <2>3
  <2>5. \A t \in live' : Whole(registry'[ServerProc], t)
    <3>1. registry'[ServerProc] = Registered(hash, r, s)
      BY <2>1, <2>2
    <3> QED BY <2>1, <2>3, <3>1
  <2>6. live' \subseteq Services
    BY <2>1
  <2>7. registry' \in [Procs -> [services : [Names -> Services \cup {Nothing}],
                                 methods : [Ids -> (Names \X MethodNames) \cup {Nothing}]]]
    BY <2>1, <2>2, <2>3
  <2>8. hash' \in Hashes /\ (\A t \in live : Whole(registry[ServerProc], t))'
    BY <2>1, <2>5 DEF Whole, Id
  <2>9. (\A q \in Procs : Named(registry[q]))'
    BY <2>4 DEF Named
  <2> QED BY <2>6, <2>7, <2>8, <2>9
<1>3. ASSUME UNCHANGED <<hash, registry, live>> PROVE RegInv'
  BY <1>3 DEF Whole, Named, Id
<1>4. CASE ServerStep
  BY <1>1, <1>2, <1>3, <1>4 DEF ServerStep, ServeOne, ServeCell, SetDispatcher
<1>5. CASE Demux
  BY <1>3, <1>5 DEF Demux, serverVars
<1>6. ASSUME NEW c \in Calls, ClientStep(c) PROVE RegInv'
  BY <1>3, <1>6 DEF ClientStep, CallUnary, CallStream, Sends, ReceiveAnswer, CallTimeout,
                    RouteChunk, NextItem, serverVars
<1>7. ASSUME NEW c \in Calls, Start(c) PROVE RegInv'
  BY <1>3, <1>7 DEF Start, serverVars
<1>8. ASSUME NEW c \in Calls, Handler(c) PROVE RegInv'
  BY <1>3, <1>8 DEF Handler, HandlerReturns, EncodeFails, HandlerPanics, YieldItem, YieldError,
                    FinishStream, taskFrame, serverVars
<1>9. CASE UNCHANGED vars
  BY <1>3, <1>9 DEF vars
<1> QED BY <1>4, <1>5, <1>6, <1>7, <1>8, <1>9 DEF Next

LEMMA RegInitially == Init => RegInv
<1> SUFFICES ASSUME Init PROVE RegInv
  OBVIOUS
<1>1. Empty \in [services : [Names -> Services \cup {Nothing}],
                 methods : [Ids -> (Names \X MethodNames) \cup {Nothing}]]
  BY DEF Empty
<1>2. Named(Empty)
  BY NothingIsNew, <1>1 DEF Named, Empty
<1> QED BY <1>1, <1>2 DEF Init, RegInv

\* What the registry says of a name is the service of that name.
LEMMA LookupRight ==
    ASSUME NamesDistinct, hash \in Hashes, NEW s \in Services, NEW i \in DOMAIN Trait[s], NEW r,
           Named(r)
    PROVE  /\ LookupMethod(r, NameOf[s], MName(<<s, i>>)) \in {<<s, i>>, Nothing}
           /\ r.services[NameOf[s]] = s => LookupMethod(r, NameOf[s], MName(<<s, i>>)) = <<s, i>>
<1> DEFINE found == {m \in Methods : m[1] = r.services[NameOf[s]] /\ MName(m) = MName(<<s, i>>)}
<1>1. NameOf[s] \in Names
  BY DEF Names
<1>2. ASSUME NEW m \in found PROVE m = <<s, i>>
  <2>1. m[1] \in Services /\ m[2] \in DOMAIN Trait[m[1]] /\ m = <<m[1], m[2]>>
    BY <1>2, MethodFacts
  <2>2. NameOf[m[1]] = NameOf[s]
    BY <1>1, <1>2, <2>1, NothingIsNew DEF Named
  <2>3. m[1] = s
    BY <2>1, <2>2 DEF NamesDistinct
  <2>4. m[2] = i
    BY <1>2, <2>1, <2>3, OneMethod
  <2> QED BY <2>1, <2>3, <2>4
<1>3. r.services[NameOf[s]] = s => <<s, i>> \in found
  BY DEF Methods
<1>4. LookupMethod(r, NameOf[s], MName(<<s, i>>)) =
        IF found = {} THEN Nothing ELSE CHOOSE m \in found : TRUE
  BY DEF LookupMethod
<1>5. found # {} => (CHOOSE m \in found : TRUE) \in found
  OBVIOUS
<1> HIDE DEF found
<1> QED BY <1>2, <1>3, <1>4, <1>5

\* Asked about a service that has a server, the registry names that service and its
\* methods, by id and by name, whichever registrations panicked.
THEOREM RegistryIsFaithful == ASSUME NamesDistinct PROVE Spec => []RegistryFaithful
<1>1. RegInv => RegistryFaithful
  <2> SUFFICES ASSUME RegInv, NEW s \in live
               PROVE  LET r == registry[ServerProc]
                      IN  /\ \A i \in DOMAIN Trait[s] :
                               /\ MethodById(r, Id(<<s, i>>)) = <<s, i>>
                               /\ ResolveMethodId(hash, r, s, i) = Id(<<s, i>>)
                          /\ \E e \in ListServices(hash, r) :
                               e.name = NameOf[s] /\ {m.id : m \in e.methods} = MethodIds(s)
    BY DEF RegistryFaithful
  <2> DEFINE r == registry[ServerProc]
  <2>1. s \in Services /\ hash \in Hashes /\ Named(r) /\ Whole(r, s)
    BY TypedCallsAssumption DEF RegInv
  <2>2. ASSUME NEW i \in DOMAIN Trait[s]
        PROVE  /\ MethodById(r, Id(<<s, i>>)) = <<s, i>>
               /\ ResolveMethodId(hash, r, s, i) = Id(<<s, i>>)
    <3>1. LookupMethod(r, NameOf[s], MName(<<s, i>>)) = <<s, i>>
      BY <2>1, LookupRight DEF Whole
    <3>2. r.methods[Id(<<s, i>>)] = <<NameOf[s], MName(<<s, i>>)>>
      BY <2>1 DEF Whole
    <3>3. <<s, i>> \in Methods
      BY <2>1 DEF Methods
    <3>4. <<NameOf[s], MName(<<s, i>>)>> \in Names \X MethodNames
      BY <2>1, <3>3, MethodFacts
    <3>5. MethodById(r, Id(<<s, i>>)) = <<s, i>>
      BY <3>1, <3>2, <3>4, NothingIsNew DEF MethodById
    <3>6. <<s, i>> # Nothing
      BY <3>3, NothingIsNew
    <3>7. MName(<<s, i>>) = Trait[s][i].name
      BY DEF MName
    <3> QED BY <3>1, <3>5, <3>6, <3>7 DEF ResolveMethodId, Id
  <2>3. \E e \in ListServices(hash, r) :
           e.name = NameOf[s] /\ {m.id : m \in e.methods} = MethodIds(s)
    <3> DEFINE own == {m \in Methods : m[1] = s}
               listed == {[id |-> IdOf(hash, m), streaming |-> Streaming(m)] : m \in own}
               e == [name |-> NameOf[s], methods |-> listed]
    <3>1. NameOf[s] \in {n \in Names : r.services[n] # Nothing} /\ r.services[NameOf[s]] = s
      BY <2>1, NothingIsNew DEF Whole, Names
    <3>2. e \in ListServices(hash, r)
      BY <3>1 DEF ListServices
    <3>3. {m.id : m \in listed} = {IdOf(hash, m) : m \in own}
      <4> DEFINE entry(m) == [id |-> IdOf(hash, m), streaming |-> Streaming(m)]
      <4>1. \A m \in own : entry(m) \in listed /\ entry(m).id = IdOf(hash, m)
        OBVIOUS
      <4>2. \A x \in listed : \E m \in own : x = entry(m)
        OBVIOUS
      <4> HIDE DEF own, listed, entry
      <4>3. \A x \in listed : \E m \in own : x.id = IdOf(hash, m)
        BY <4>1, <4>2
      <4> QED BY <4>1, <4>3
    <3>4. own = {<<s, i>> : i \in DOMAIN Trait[s]}
      BY <2>1, MethodFacts DEF Methods
    <3>5. {IdOf(hash, m) : m \in own} = MethodIds(s)
      BY <3>4 DEF MethodIds, Id
    <3> QED BY <3>2, <3>3, <3>5
  <2> QED BY <2>2, <2>3
<1> QED BY <1>1, RegInitially, RegInductive, PTL DEF Spec

-----------------------------------------------------------------------------
(* The path of a value. *)

Numbers == {ErrorCode[x] : x \in Codes}
Frames == [kind : {"item"}, by : Methods, n : Nat, eos : BOOLEAN] \cup
          [kind : {"error"}, code : Codes \cup Numbers, eos : {TRUE}] \cup {End}

\* The methods a server that is live runs for the id of call c, and their frames.
Reached(c) == {m \in Methods : m[1] \in live /\ Id(m) = client[c].id}
Fit(c) == {f \in Frames : f.kind = "item" => f.by \in Reached(c)}

\* A dispatcher in place hands requests to servers that are live.
Leads(d) == \/ \E s \in live : d = Serving(s)
            \/ \E t \in [Ids -> live \cup {Nothing}] : d = Cell(t)

Asked == {c \in Calls : client[c].pc # "idle"}

ClientType == [pc : {"idle", "waiting", "done", "timedOut"}, method : Methods \cup {Nothing},
               id : Ids \cup {Nothing}, got : Seq(Frames), open : BOOLEAN]
TaskType == [pc : {"none", "dropped", "spawned", "running", "done", "panicked"},
             via : Dispatchers, arm : Methods \cup {Nothing}, streams : BOOLEAN,
             said : Seq(Frames)]

PathTypes ==
    /\ dispatcher \in Dispatchers
    /\ client \in [Calls -> ClientType] /\ task \in [Calls -> TaskType]
    /\ requests \in Seq(Asked)
    /\ down \in [Calls -> Seq(Frames)] /\ chunks \in [Calls -> Seq(Frames)]

CallInv(c) ==
    /\ client[c].pc = "idle" => /\ task[c].pc = "none" /\ ~client[c].open
                                /\ down[c] = <<>> /\ chunks[c] = <<>> /\ client[c].got = <<>>
    /\ client[c].pc # "idle" => /\ client[c].method \in Methods
                                /\ client[c].id = Id(client[c].method)
    /\ task[c].pc = "spawned" => Leads(task[c].via)
    /\ task[c].pc = "running" => task[c].arm \in Reached(c)
    /\ down[c] \in Seq(Fit(c)) /\ chunks[c] \in Seq(Fit(c)) /\ client[c].got \in Seq(Fit(c))

PathInv == /\ dispatcher = NoDispatcher \/ Leads(dispatcher)
           /\ \A c \in Calls : CallInv(c)

\* Sequences of a larger set, their heads, tails and extensions.
LEMMA SeqFacts ==
    ASSUME NEW S, NEW T, NEW q \in Seq(S), S \subseteq T
    PROVE  /\ q \in Seq(T)
           /\ \A x \in T : Append(q, x) \in Seq(T)
           /\ q # <<>> => Head(q) \in S /\ Tail(q) \in Seq(S)
BY ElementOfSeq, HeadTailProperties

\* A call that no step touches keeps its part of the invariant while servers are added.
LEMMA CallKept ==
    ASSUME NEW c \in Calls, CallInv(c), hash' = hash, live \subseteq live',
           client'[c] = client[c], task'[c] = task[c], down'[c] = down[c], chunks'[c] = chunks[c]
    PROVE  CallInv(c)'
<1>1. \A m : Id(m)' = Id(m)
  BY DEF Id
<1>2. Reached(c) \subseteq Reached(c)'
  BY <1>1 DEF Reached
<1>3. Fit(c) \subseteq Fit(c)'
  BY <1>2 DEF Fit
<1>4. ASSUME Leads(task[c].via) PROVE Leads(task[c].via)'
  <2>1. CASE \E s \in live : task[c].via = Serving(s)
    BY <2>1 DEF Leads
  <2>2. CASE \E t \in [Ids -> live \cup {Nothing}] : task[c].via = Cell(t)
    <3>1. PICK t \in [Ids -> live \cup {Nothing}] : task[c].via = Cell(t)
      BY <2>2
    <3>2. t \in [Ids -> live' \cup {Nothing}]
      OBVIOUS
    <3> QED BY <3>1, <3>2 DEF Leads
  <2> QED BY <1>4, <2>1, <2>2 DEF Leads
<1>5. \A q \in Seq(Fit(c)) : q \in Seq(Fit(c)')
  BY <1>3, SeqFacts
<1> QED BY <1>1, <1>2, <1>4, <1>5 DEF CallInv

\* A registry sends a client to the method it asked for, or to none.
LEMMA IdIsRight ==
    ASSUME NamesDistinct, RegInv, NEW m \in Methods, NEW id \in ClientIds(m)
    PROVE  id = Id(m) /\ id \in Ids
<1>1. /\ m[1] \in Services /\ m[2] \in DOMAIN Trait[m[1]] /\ m = <<m[1], m[2]>>
      /\ Id(m) \in Ids
  BY MethodFacts DEF RegInv
<1>2. ASSUME NEW p \in Procs, Resolves(p, m[1])
      PROVE  ResolveMethodId(hash, registry[p], m[1], m[2]) = Id(m)
  <2>1. ResolveMethodId(hash, registry[p], m[1], m[2]) # Nothing
    BY <1>1, <1>2 DEF Resolves
  <2>2. LookupMethod(registry[p], NameOf[m[1]], MName(<<m[1], m[2]>>)) \in {<<m[1], m[2]>>, Nothing}
    BY <1>1, LookupRight DEF RegInv
  <2>3. MName(<<m[1], m[2]>>) = Trait[m[1]][m[2]].name
    BY DEF MName
  <2> QED BY <1>1, <2>1, <2>2, <2>3 DEF ResolveMethodId, Id
<1> QED BY <1>1, <1>2 DEF ClientIds

\* Errors become frames, and frames errors.
LEMMA CodesAreCodes ==
    /\ {"Internal", "InvalidArgument", "Unimplemented", "Cancelled", "DeadlineExceeded"} \subseteq Codes
    /\ \A x \in Codes : ErrorCode[x] \in Numbers
BY DEF Codes, ErrorCode, Numbers

LEMMA ErrorTypes ==
    /\ \A code \in Codes : Status(code) \in ErrorType /\ Failure(code) \in Frames
    /\ [kind |-> "Serialize"] \in ErrorType
    /\ \A e \in ErrorType : /\ Meant(e) \in Frames /\ ErrorFrame(e) \in Frames
                            /\ ErrorFrame(e).kind # "item"
    /\ \A f \in Frames : ParseError(f) \in Frames
    /\ \A x : Failure(x).kind = "error"
<1>1. \A x \in Codes \cup Numbers : Failure(x) \in Frames
  BY DEF Failure, Frames
<1>2. \A x : Failure(x).kind = "error"
  BY DEF Failure
<1>3. \A code \in Codes : Status(code) \in ErrorType
  BY DEF Status, ErrorType
<1>4. [kind |-> "Serialize"] \in ErrorType
  BY DEF ErrorType
<1>5. ASSUME NEW e \in ErrorType PROVE Meant(e) \in Frames /\ ErrorFrame(e) \in Frames
  <2>1. e.kind = "Status" => e.code \in Codes
    BY DEF ErrorType
  <2>2. CodeOf(e) \in Numbers
    BY <2>1, CodesAreCodes DEF CodeOf
  <2> QED BY <1>1, <2>1, <2>2, CodesAreCodes DEF Meant, ErrorFrame
<1>6. \A v : FromU32(v) \in Codes
  BY CodesAreCodes DEF FromU32
<1> QED BY <1>1, <1>2, <1>3, <1>4, <1>5, <1>6 DEF ParseError, ErrorFrame

\* A step that touches one call.
LEMMA OneCall ==
    ASSUME PathInv, NEW c \in Calls, UNCHANGED <<hash, live, dispatcher>>, CallInv(c)',
           \A d \in Calls \ {c} : /\ client'[d] = client[d] /\ task'[d] = task[d]
                                  /\ down'[d] = down[d] /\ chunks'[d] = chunks[d]
    PROVE  PathInv'
<1>1. \A d \in Calls : CallInv(d)'
  <2> SUFFICES ASSUME NEW d \in Calls PROVE CallInv(d)'
    OBVIOUS
  <2>1. CASE d = c
    BY <2>1
  <2>2. CASE d # c
    BY <2>2, CallKept DEF PathInv
  <2> QED BY <2>1, <2>2
<1>2. (dispatcher = NoDispatcher \/ Leads(dispatcher))'
  BY DEF PathInv, Leads
<1> QED BY <1>1, <1>2 DEF PathInv

\* What a call keeps while its request, its id and the servers stay.
LEMMA FitKept ==
    ASSUME NEW c \in Calls, UNCHANGED <<hash, live>>, client'[c].id = client[c].id
    PROVE  Fit(c)' = Fit(c) /\ Reached(c)' = Reached(c) /\ \A m : Id(m)' = Id(m)
BY DEF Fit, Reached, Id

LEMMA LeadsKept == ASSUME live' = live PROVE \A d : Leads(d)' = Leads(d)
BY DEF Leads

LEMMA ServerKeeps ==
    ASSUME RegInv, PathTypes, PathInv, ServerStep
    PROVE  PathTypes' /\ PathInv'
<1>1. /\ UNCHANGED <<hash, client, requests, task, down, chunks>> /\ live \subseteq live'
  BY DEF ServerStep, Register, NewServer, ServeOne, ServeCell, SetDispatcher
<1>2. \A c \in Calls : CallInv(c)'
  BY <1>1, CallKept DEF PathInv
<1>3. ASSUME dispatcher' = dispatcher
      PROVE  dispatcher' \in Dispatchers /\ (dispatcher = NoDispatcher \/ Leads(dispatcher))'
  <2>1. \A t : t \in [Ids -> live \cup {Nothing}] => t \in [Ids -> live' \cup {Nothing}]
    BY <1>1
  <2> QED BY <1>1, <1>3, <2>1 DEF Leads, PathTypes, PathInv
<1>4. dispatcher' \in Dispatchers /\ (dispatcher = NoDispatcher \/ Leads(dispatcher))'
  <2>1. CASE dispatcher' = dispatcher
    BY <1>3, <2>1
  <2>2. ASSUME NEW s \in Services, ServeOne(s)
        PROVE  dispatcher' \in Dispatchers /\ Leads(dispatcher)'
    BY <2>2 DEF ServeOne, SetDispatcher, Dispatchers, Leads
  <2>3. ASSUME NEW S \in SUBSET Services, ServeCell(S)
        PROVE  dispatcher' \in Dispatchers /\ Leads(dispatcher)'
    <3>1. S \subseteq live /\ dispatcher' = Cell(Table(S)) /\ live' = live
      BY <2>3 DEF ServeCell, SetDispatcher
    <3>2. Table(S) \in [Ids -> S \cup {Nothing}]
      BY DEF Table
    <3>3. Table(S) \in [Ids -> live \cup {Nothing}] /\ Table(S) \in [Ids -> Services \cup {Nothing}]
      BY <3>1, <3>2
    <3> QED BY <3>1, <3>3 DEF Dispatchers, Leads
  <2> QED BY <2>1, <2>2, <2>3 DEF ServerStep, Register, NewServer
<1>5. PathTypes'
  BY <1>1, <1>4 DEF PathTypes, ClientType, TaskType, Asked
<1> QED BY <1>2, <1>4, <1>5 DEF PathInv

LEMMA DemuxKeeps ==
    ASSUME RegInv, PathTypes, PathInv, Demux
    PROVE  PathTypes' /\ PathInv'
<1>1. /\ requests # <<>> /\ requests' = Tail(requests)
      /\ UNCHANGED <<hash, live, dispatcher, client, down, chunks>>
  BY DEF Demux, serverVars
<1>2. Head(requests) \in Asked /\ Tail(requests) \in Seq(Asked)
  BY <1>1, HeadTailProperties DEF PathTypes, ClientType, TaskType
<1>3. PICK c \in Calls : c = Head(requests) /\ client[c].pc # "idle"
  BY <1>2 DEF Asked
<1> DEFINE pc == IF dispatcher = NoDispatcher THEN "dropped" ELSE "spawned"
<1>4. task' = [task EXCEPT ![c] = [task[c] EXCEPT !.via = dispatcher, !.pc = pc]]
  BY <1>3 DEF Demux, PathTypes
<1>5. task'[c].via = dispatcher /\ task'[c].pc = pc
  BY <1>4 DEF PathTypes, ClientType, TaskType
<1>6. Leads(dispatcher)' = Leads(dispatcher) /\ (pc = "spawned" => Leads(dispatcher))
  BY <1>1 DEF Leads, PathInv
<1>7. CallInv(c)'
  <2>1. Leads(task[c].via)' = Leads(dispatcher)'
    BY <1>1, <1>5 DEF Leads
  <2>2. client'[c].id = client[c].id
    BY <1>1
  <2>3. Fit(c)' = Fit(c) /\ Reached(c)' = Reached(c) /\ \A m : Id(m)' = Id(m)
    BY <1>1, <2>2, FitKept
  <2> QED BY <1>1, <1>3, <1>5, <1>6, <2>1, <2>3 DEF CallInv, PathInv
<1>8. \A d \in Calls \ {c} : task'[d] = task[d]
  BY <1>4 DEF PathTypes, ClientType, TaskType
<1>9. PathInv'
  BY <1>1, <1>7, <1>8, OneCall
<1>10. PathTypes'
  <2>1. task'[c] \in [pc : {"none", "dropped", "spawned", "running", "done", "panicked"},
                      via : Dispatchers, arm : Methods \cup {Nothing}, streams : BOOLEAN,
                      said : Seq(Frames)]
    BY <1>4 DEF PathTypes, ClientType, TaskType
  <2> QED BY <1>1, <1>2, <1>4, <2>1 DEF PathTypes, ClientType, TaskType, Asked
<1> QED BY <1>9, <1>10

LEMMA SendKeeps ==
    ASSUME NamesDistinct, RegInv, PathTypes, PathInv, NEW c \in Calls, NEW m \in Methods,
           NEW id \in ClientIds(m), Sends(c, m, id)
    PROVE  PathTypes' /\ PathInv'
<1>1. /\ client[c].pc = "idle"
      /\ client' = [client EXCEPT ![c] = [pc |-> "waiting", method |-> m, id |-> id,
                                          got |-> <<>>, open |-> Streaming(m)]]
      /\ requests' = Append(requests, c)
      /\ UNCHANGED <<hash, live, dispatcher, task, down, chunks>>
  BY DEF Sends, serverVars
<1>2. id = Id(m) /\ id \in Ids
  BY IdIsRight
<1>3. client'[c] = [pc |-> "waiting", method |-> m, id |-> id, got |-> <<>>, open |-> Streaming(m)]
  BY <1>1 DEF PathTypes, ClientType, TaskType
<1>4. Streaming(m) \in BOOLEAN
  <2>1. m[1] \in Services /\ m[2] \in DOMAIN Trait[m[1]]
    BY MethodFacts DEF RegInv
  <2>2. Trait[m[1]] \in Seq([name : MethodNames, streaming : BOOLEAN])
    BY <2>1, TypedCallsAssumption
  <2> DEFINE T == [name : MethodNames, streaming : BOOLEAN]
             f == Trait[m[1]]
  <2>3. f \in Seq(T) /\ m[2] \in DOMAIN f
    BY <2>1, <2>2
  <2> HIDE DEF T, f
  <2>4. f[m[2]] \in T
    BY <2>3
  <2> QED BY <2>4 DEF T, f, Streaming
<1>5. CallInv(c)'
  <2>1. \A S : <<>> \in Seq(S)
    OBVIOUS
  <2>2. task[c].pc = "none" /\ down[c] = <<>> /\ chunks[c] = <<>>
    BY <1>1 DEF PathInv, CallInv
  <2>3. Id(m)' = Id(m)
    BY <1>1 DEF Id
  <2> QED BY <1>1, <1>2, <1>3, <2>1, <2>2, <2>3 DEF CallInv
<1>6. PathInv'
  BY <1>1, <1>5, OneCall DEF PathTypes, ClientType, TaskType
<1>7. requests' \in Seq(Asked')
  <2>1. Asked \subseteq Asked' /\ c \in Asked'
    BY <1>1, <1>3 DEF Asked, PathTypes
  <2> QED BY <1>1, <2>1, SeqFacts DEF PathTypes, ClientType, TaskType
<1>8. PathTypes'
  BY <1>1, <1>2, <1>4, <1>7 DEF PathTypes, ClientType, TaskType
<1> QED BY <1>6, <1>8

\* What the client makes of a frame that fits is a result that fits.
LEMMA DecodedFits ==
    ASSUME NEW c \in Calls, NEW f \in Fit(c), NEW r \in Decoded(c, f)
    PROVE  r \in Fit(c) /\ r \in Frames
BY ErrorTypes, CodesAreCodes DEF Decoded, Fit

\* The way a frame takes, seen from its call.
LEMMA FramesMove ==
    ASSUME PathTypes, PathInv, NEW c \in Calls, UNCHANGED <<hash, live, dispatcher, requests>>,
           client[c].pc # "idle", NEW x \in ClientType, client' = [client EXCEPT ![c] = x],
           x.pc # "idle", x.id = client[c].id, x.method = client[c].method, x.got \in Seq(Fit(c)),
           NEW y \in TaskType, task' = [task EXCEPT ![c] = y],
           y.pc = "spawned" => Leads(y.via), y.pc = "running" => y.arm \in Reached(c),
           NEW p \in Seq(Fit(c)), down' = [down EXCEPT ![c] = p],
           NEW q \in Seq(Fit(c)), chunks' = [chunks EXCEPT ![c] = q]
    PROVE  PathTypes' /\ PathInv'
<1>1. Fit(c) \subseteq Frames /\ p \in Seq(Frames) /\ q \in Seq(Frames)
  BY SeqFacts DEF Fit
<1>2. /\ client'[c] = x /\ task'[c] = y /\ down'[c] = p /\ chunks'[c] = q
      /\ \A d \in Calls \ {c} : /\ client'[d] = client[d] /\ task'[d] = task[d]
                                /\ down'[d] = down[d] /\ chunks'[d] = chunks[d]
  BY DEF PathTypes
<1>3. Fit(c)' = Fit(c) /\ Reached(c)' = Reached(c) /\ \A m : Id(m)' = Id(m)
  BY <1>2, FitKept
<1>4. Leads(task[c].via)' = Leads(y.via)
  BY <1>2 DEF Leads
<1>5. CallInv(c)'
  BY <1>2, <1>3, <1>4 DEF CallInv, PathInv
<1>6. PathInv'
  BY <1>2, <1>5, OneCall
<1>7. Asked' = Asked
  BY <1>2 DEF Asked
<1> QED BY <1>1, <1>6, <1>7 DEF PathTypes

LEMMA ReceiveKeeps ==
    ASSUME RegInv, PathTypes, PathInv, NEW c \in Calls,
           ReceiveAnswer(c) \/ CallTimeout(c) \/ RouteChunk(c) \/ NextItem(c)
    PROVE  PathTypes' /\ PathInv'
<1>1. /\ UNCHANGED <<hash, live, dispatcher, requests, task>> /\ client[c].pc # "idle"
  BY DEF ReceiveAnswer, CallTimeout, RouteChunk, NextItem, serverVars, PathInv, CallInv
<1>2. /\ client[c] \in ClientType /\ task[c] \in TaskType
      /\ task[c].pc = "spawned" => Leads(task[c].via)
      /\ task[c].pc = "running" => task[c].arm \in Reached(c)
      /\ down[c] \in Seq(Fit(c)) /\ chunks[c] \in Seq(Fit(c)) /\ client[c].got \in Seq(Fit(c))
      /\ task' = [task EXCEPT ![c] = task[c]]
  BY <1>1 DEF PathTypes, PathInv, CallInv
<1>3. /\ down[c] # <<>> => Head(down[c]) \in Fit(c) /\ Tail(down[c]) \in Seq(Fit(c))
      /\ chunks[c] # <<>> => Head(chunks[c]) \in Fit(c) /\ Tail(chunks[c]) \in Seq(Fit(c))
      /\ \A f \in Fit(c) : /\ Append(chunks[c], f) \in Seq(Fit(c))
                           /\ Append(client[c].got, f) \in Seq(Fit(c)) /\ <<f>> \in Seq(Fit(c))
  BY <1>2, SeqFacts
<1>4. Fit(c) \subseteq Frames /\ \A g \in Seq(Fit(c)) : g \in Seq(Frames)
  BY SeqFacts DEF Fit
<1>5. ASSUME NEW x \in ClientType, client' = [client EXCEPT ![c] = x],
             x.pc # "idle", x.id = client[c].id, x.method = client[c].method,
             x.got \in Seq(Fit(c)),
             NEW p \in Seq(Fit(c)), down' = [down EXCEPT ![c] = p],
             NEW q \in Seq(Fit(c)), chunks' = [chunks EXCEPT ![c] = q]
      PROVE  PathTypes' /\ PathInv'
  BY <1>1, <1>2, <1>5, FramesMove
<1>6. /\ client = [client EXCEPT ![c] = client[c]] /\ down = [down EXCEPT ![c] = down[c]]
      /\ chunks = [chunks EXCEPT ![c] = chunks[c]]
  BY DEF PathTypes
<1>7. CASE ReceiveAnswer(c)
  <2>1. down' = [down EXCEPT ![c] = Tail(down[c])] /\ down[c] # <<>> /\ chunks' = chunks
    BY <1>7 DEF ReceiveAnswer
  <2>2. CASE client' = client
    BY <1>1, <1>2, <1>3, <1>5, <1>6, <2>1, <2>2
  <2>3. CASE client' # client
    <3>1. PICK r \in Decoded(c, Head(down[c])) :
             client' = [client EXCEPT ![c].pc = "done", ![c].got = <<r>>]
      BY <1>7, <2>3 DEF ReceiveAnswer
    <3>2. r \in Fit(c)
      BY <1>3, <2>1, DecodedFits
    <3> DEFINE x == [client[c] EXCEPT !.pc = "done", !.got = <<r>>]
    <3>3. client' = [client EXCEPT ![c] = x]
      BY <3>1 DEF PathTypes
    <3>4. /\ x \in ClientType /\ x.pc # "idle" /\ x.id = client[c].id
          /\ x.method = client[c].method /\ x.got \in Seq(Fit(c))
      BY <1>2, <1>3, <1>4, <3>2 DEF ClientType
    <3> HIDE DEF x
    <3> QED BY <1>3, <1>5, <1>6, <1>2, <2>1, <3>3, <3>4
  <2> QED BY <2>2, <2>3
<1>8. CASE CallTimeout(c)
  <2> DEFINE x == [client[c] EXCEPT !.pc = "timedOut"]
  <2>1. client' = [client EXCEPT ![c] = x] /\ UNCHANGED <<down, chunks>>
    BY <1>8 DEF CallTimeout, PathTypes
  <2>2. /\ x \in ClientType /\ x.pc # "idle" /\ x.id = client[c].id
        /\ x.method = client[c].method /\ x.got \in Seq(Fit(c))
    BY <1>2 DEF ClientType
  <2> HIDE DEF x
  <2> QED BY <1>2, <1>5, <1>6, <2>1, <2>2
<1>9. CASE RouteChunk(c)
  <2>1. /\ down[c] # <<>> /\ down' = [down EXCEPT ![c] = Tail(down[c])]
        /\ chunks' = [chunks EXCEPT ![c] = Append(chunks[c], Head(down[c]))]
    BY <1>9 DEF RouteChunk, PathTypes
  <2>2. PICK b \in BOOLEAN : client' = [client EXCEPT ![c].open = b]
    BY <1>9 DEF RouteChunk
  <2> DEFINE x == [client[c] EXCEPT !.open = b]
  <2>3. client' = [client EXCEPT ![c] = x]
    BY <2>2 DEF PathTypes
  <2>4. /\ x \in ClientType /\ x.pc # "idle" /\ x.id = client[c].id
        /\ x.method = client[c].method /\ x.got \in Seq(Fit(c))
    BY <1>1, <1>2, <2>2 DEF ClientType
  <2> HIDE DEF x
  <2> QED BY <1>2, <1>3, <1>5, <2>1, <2>3, <2>4
<1>10. CASE NextItem(c)
  <2>1. /\ down' = down
        /\ \/ chunks' = chunks
           \/ chunks[c] # <<>> /\ chunks' = [chunks EXCEPT ![c] = Tail(chunks[c])]
    BY <1>10 DEF NextItem
  <2>2. \E q \in Seq(Fit(c)) : chunks' = [chunks EXCEPT ![c] = q]
    BY <1>2, <1>3, <1>6, <2>1
  <2>3. \/ client' = [client EXCEPT ![c].pc = "done"]
        \/ \E r \in Fit(c) : client' = [client EXCEPT ![c].got = Append(client[c].got, r)]
    <3>1. ASSUME chunks[c] # <<>>, Head(chunks[c]).kind = "error"
          PROVE  ParseError(Head(chunks[c])) \in Fit(c)
      BY <1>3, <1>4, <3>1, ErrorTypes DEF ParseError, Fit
    <3>2. chunks[c] # <<>> => \A r \in Decoded(c, Head(chunks[c])) : r \in Fit(c)
      BY <1>3, DecodedFits
    <3>3. client[c] \in ClientType /\ c \in DOMAIN client
      BY <1>2 DEF PathTypes
    <3> QED BY <1>10, <3>1, <3>2, <3>3 DEF NextItem
  <2>4. CASE client' = [client EXCEPT ![c].pc = "done"]
    <3> DEFINE x == [client[c] EXCEPT !.pc = "done"]
    <3>1. client' = [client EXCEPT ![c] = x]
      BY <2>4 DEF PathTypes
    <3>2. /\ x \in ClientType /\ x.pc # "idle" /\ x.id = client[c].id
          /\ x.method = client[c].method /\ x.got \in Seq(Fit(c))
      BY <1>2 DEF ClientType
    <3> HIDE DEF x
    <3> QED BY <1>2, <1>5, <1>6, <2>1, <2>2, <3>1, <3>2
  <2>5. ASSUME NEW r \in Fit(c), client' = [client EXCEPT ![c].got = Append(client[c].got, r)]
        PROVE  PathTypes' /\ PathInv'
    <3> DEFINE x == [client[c] EXCEPT !.got = Append(client[c].got, r)]
    <3>1. client' = [client EXCEPT ![c] = x]
      BY <2>5 DEF PathTypes
    <3>2. /\ x \in ClientType /\ x.pc # "idle" /\ x.id = client[c].id
          /\ x.method = client[c].method /\ x.got \in Seq(Fit(c))
      BY <1>1, <1>2, <1>3, <1>4, <2>5 DEF ClientType
    <3> HIDE DEF x
    <3> QED BY <1>2, <1>5, <1>6, <2>1, <2>2, <3>1, <3>2
  <2> QED BY <2>3, <2>4, <2>5
<1> QED BY <1>7, <1>8, <1>9, <1>10

\* An arm that runs is of the id that was sent, in a server that is live.
LEMMA ArmIsReached ==
    ASSUME RegInv, PathTypes, PathInv, NEW c \in Calls, client[c].id \in Ids, task[c].pc = "spawned",
           NEW s, s = TargetOf(task[c].via, client[c].id), s # Nothing,
           ArmOf(s, client[c].id) # Nothing
    PROVE  ArmOf(s, client[c].id) \in Reached(c)
<1>1. Leads(task[c].via)
  BY DEF PathInv, CallInv
<1>2. s \in live /\ s \in Services
  <2>1. CASE \E t \in live : task[c].via = Serving(t)
    BY <2>1 DEF TargetOf, Serving, RegInv
  <2>2. CASE \E t \in [Ids -> live \cup {Nothing}] : task[c].via = Cell(t)
    BY <2>2 DEF TargetOf, Cell, RegInv
  <2> QED BY <1>1, <2>1, <2>2 DEF Leads
<1>3. PICK i \in DOMAIN Trait[s] : Id(<<s, i>>) = client[c].id /\ ArmOf(s, client[c].id) = <<s, i>>
  BY DEF ArmOf
<1> QED BY <1>2, <1>3 DEF Reached, Methods

\* What a task does to its call: it says something, and may send a frame that fits.
LEMMA TaskMoves ==
    ASSUME PathTypes, PathInv, NEW c \in Calls, UNCHANGED taskFrame, UNCHANGED live,
           task[c].pc \in {"spawned", "running"}, NEW y \in TaskType,
           task' = [task EXCEPT ![c] = y], y.pc # "spawned", y.pc = "running" => y.arm \in Reached(c),
           down' = down \/ \E f \in Fit(c) : down' = [down EXCEPT ![c] = Append(down[c], f)]
    PROVE  PathTypes' /\ PathInv'
<1>1. /\ client[c] \in ClientType /\ client[c].pc # "idle"
      /\ down[c] \in Seq(Fit(c)) /\ chunks[c] \in Seq(Fit(c)) /\ client[c].got \in Seq(Fit(c))
  BY DEF PathTypes, PathInv, CallInv
<1>2. \A f \in Fit(c) : Append(down[c], f) \in Seq(Fit(c))
  BY <1>1, SeqFacts
<1>3. \E p \in Seq(Fit(c)) : down' = [down EXCEPT ![c] = p]
  BY <1>1, <1>2 DEF PathTypes
<1>4. client' = [client EXCEPT ![c] = client[c]] /\ chunks' = [chunks EXCEPT ![c] = chunks[c]]
  BY DEF PathTypes, taskFrame
<1>5. UNCHANGED <<hash, live, dispatcher, requests>>
  BY DEF taskFrame, serverVars
<1> QED BY <1>1, <1>3, <1>4, <1>5, FramesMove

\* ... in the form of the code: Ends.
LEMMA EndsKeeps ==
    ASSUME PathTypes, PathInv, NEW c \in Calls, UNCHANGED taskFrame, UNCHANGED live,
           task[c].pc \in {"spawned", "running"},
           NEW pc \in {"running", "done"}, NEW arm \in Methods \cup {Nothing}, NEW streams \in BOOLEAN,
           NEW said \in Seq(Frames), NEW frame \in Fit(c), Ends(c, pc, arm, streams, frame, said),
           pc = "running" => arm \in Reached(c)
    PROVE  PathTypes' /\ PathInv'
<1> DEFINE y == [task[c] EXCEPT !.pc = pc, !.arm = arm, !.streams = streams, !.said = said]
<1>1. task' = [task EXCEPT ![c] = y]
  BY DEF Ends, PathTypes
<1>2. y \in TaskType /\ y.pc = pc /\ y.arm = arm
  BY DEF PathTypes, TaskType
<1>3. down' = down \/ down' = [down EXCEPT ![c] = Append(down[c], frame)]
  BY DEF Ends, PathTypes
<1> HIDE DEF y
<1> QED BY <1>1, <1>2, <1>3, TaskMoves

LEMMA FailsKeeps ==
    ASSUME PathTypes, PathInv, NEW c \in Calls, UNCHANGED taskFrame, UNCHANGED live,
           task[c].pc \in {"spawned", "running"}, NEW arm \in Methods \cup {Nothing},
           NEW streams \in BOOLEAN, NEW e \in ErrorType,
           Ends(c, "done", arm, streams, ErrorFrame(e), Append(task[c].said, Meant(e)))
    PROVE  PathTypes' /\ PathInv'
<1>1. ErrorFrame(e) \in Fit(c) /\ Meant(e) \in Frames
  BY ErrorTypes DEF Fit
<1>2. Append(task[c].said, Meant(e)) \in Seq(Frames)
  BY <1>1 DEF PathTypes, TaskType
<1> QED BY <1>1, <1>2, EndsKeeps

LEMMA StartKeeps ==
    ASSUME RegInv, PathTypes, PathInv, NEW c \in Calls, Start(c)
    PROVE  PathTypes' /\ PathInv'
<1> DEFINE id == client[c].id
           via == task[c].via
           s == TargetOf(via, id)
           arm == IF s = Nothing THEN Nothing ELSE ArmOf(s, id)
           streams == via.kind = "service" /\ IsStreamingId(id)
<1>1. UNCHANGED taskFrame /\ UNCHANGED live /\ task[c].pc = "spawned"
  BY DEF Start, taskFrame, serverVars
<1>2. client[c].pc # "idle"
  BY <1>1 DEF PathInv, CallInv
<1>3. id \in Ids
  BY <1>2, MethodFacts DEF PathInv, CallInv, RegInv
<1>4. arm # Nothing => arm \in Reached(c)
  BY <1>1, <1>3, ArmIsReached
<1>5. arm \in Methods \cup {Nothing} /\ streams \in BOOLEAN
  BY <1>4 DEF Reached
<1>6. \A code \in Codes : Status(code) \in ErrorType
  BY ErrorTypes
<1>7. {"InvalidArgument", "Unimplemented", "Internal"} \subseteq Codes
  BY CodesAreCodes
<1>8. \/ \E a \in {arm, Nothing}, code \in {"InvalidArgument", "Unimplemented", "Internal"} :
            Fails(c, "done", a, streams, Status(code))
      \/ /\ arm # Nothing /\ down' = down
         /\ task' = [task EXCEPT ![c].pc = "running", ![c].arm = arm, ![c].streams = streams]
  BY DEF Start
<1> HIDE DEF arm, streams
<1>9. CASE \E a \in {arm, Nothing}, code \in {"InvalidArgument", "Unimplemented", "Internal"} :
              Fails(c, "done", a, streams, Status(code))
  BY <1>1, <1>5, <1>6, <1>7, <1>9, FailsKeeps DEF Fails
<1>10. CASE /\ arm # Nothing /\ down' = down
            /\ task' = [task EXCEPT ![c].pc = "running", ![c].arm = arm, ![c].streams = streams]
  <2> DEFINE y == [task[c] EXCEPT !.pc = "running", !.arm = arm, !.streams = streams]
  <2>1. task' = [task EXCEPT ![c] = y]
    BY <1>10 DEF PathTypes
  <2>2. y \in TaskType /\ y.pc = "running" /\ y.arm = arm
    BY <1>5 DEF PathTypes, TaskType
  <2> HIDE DEF y
  <2> QED BY <1>1, <1>4, <1>10, <2>1, <2>2, TaskMoves
<1> QED BY <1>8, <1>9, <1>10

LEMMA HandlerKeeps ==
    ASSUME RegInv, PathTypes, PathInv, NEW c \in Calls, Handler(c)
    PROVE  PathTypes' /\ PathInv'
<1> DEFINE arm == task[c].arm
           streams == task[c].streams
           said == task[c].said
<1>1. UNCHANGED taskFrame /\ UNCHANGED live /\ task[c].pc = "running"
  BY DEF Handler, HandlerReturns, EncodeFails, HandlerPanics, YieldItem, YieldError, FinishStream,
         Runs, taskFrame, serverVars
<1>2. /\ arm \in Methods \cup {Nothing} /\ streams \in BOOLEAN /\ said \in Seq(Frames)
      /\ arm \in Reached(c) /\ arm \in Methods /\ task[c] \in TaskType
  BY <1>1 DEF PathTypes, TaskType, PathInv, CallInv, Reached
<1>3. \A f \in Frames : Append(said, f) \in Seq(Frames)
  BY <1>2
<1>4. ASSUME NEW n \in Nat PROVE Item(arm, n) \in Fit(c) /\ Item(arm, n) \in Frames
  <2>1. Item(arm, n) \in Frames
    BY <1>2 DEF Item, Frames
  <2>2. Item(arm, n).by = arm
    BY DEF Item
  <2> QED BY <1>2, <2>1, <2>2 DEF Fit
<1>5. Answer(arm) \in Fit(c) /\ Answer(arm) \in Frames /\ <<Answer(arm)>> \in Seq(Frames)
  <2>1. Answer(arm) \in Frames
    BY <1>2 DEF Answer, Frames
  <2>2. Answer(arm).by = arm
    BY DEF Answer
  <2> QED BY <1>2, <2>1, <2>2 DEF Fit
<1>6. End \in Fit(c)
  BY DEF End, Fit, Frames
<1>7. CASE HandlerReturns(c)
  <2>1. Ends(c, "done", arm, streams, Answer(arm), <<Answer(arm)>>)
    BY <1>7 DEF HandlerReturns, Here
  <2> QED BY <1>1, <1>2, <1>5, <2>1, EndsKeeps
<1>8. CASE EncodeFails(c)
  <2> DEFINE e == [kind |-> "Serialize"]
  <2>1. Ends(c, "done", arm, streams, ErrorFrame(e), Append(said, Meant(e)))
    BY <1>8 DEF EncodeFails, Here
  <2>2. e \in ErrorType
    BY ErrorTypes
  <2> HIDE DEF e
  <2> QED BY <1>1, <1>2, <2>1, <2>2, FailsKeeps
<1>9. CASE HandlerPanics(c)
  <2> DEFINE y == [task[c] EXCEPT !.pc = "panicked"]
             f == ErrorFrame(Status("Internal"))
  <2>1. task' = [task EXCEPT ![c] = y] /\ (down' = down \/ down' = [down EXCEPT ![c] = Append(down[c], f)])
    BY <1>9 DEF HandlerPanics, PathTypes
  <2>2. y \in TaskType /\ y.pc = "panicked"
    BY <1>2 DEF TaskType
  <2>3. f \in Fit(c)
    BY ErrorTypes, CodesAreCodes DEF Fit
  <2> HIDE DEF y, f
  <2> QED BY <1>1, <2>1, <2>2, <2>3, TaskMoves
<1>10. CASE YieldItem(c)
  <2> DEFINE item == Item(arm, Len(said) + 1)
  <2>1. Ends(c, "running", arm, streams, item, Append(said, item))
    BY <1>10 DEF YieldItem, Here
  <2>2. Len(said) + 1 \in Nat
    BY <1>2
  <2>3. item \in Fit(c) /\ item \in Frames
    BY <1>4, <2>2
  <2> HIDE DEF item
  <2> QED BY <1>1, <1>2, <1>3, <2>1, <2>3, EndsKeeps
<1>11. ASSUME NEW e \in Errors, YieldError(c, e) PROVE PathTypes' /\ PathInv'
  <2>1. Ends(c, "done", arm, streams, ErrorFrame(e), Append(said, Meant(e)))
    BY <1>11 DEF YieldError, Here
  <2>2. e \in ErrorType
    BY TypedCallsAssumption
  <2> QED BY <1>1, <1>2, <2>1, <2>2, FailsKeeps
<1>12. CASE FinishStream(c)
  <2>1. Ends(c, "done", arm, streams, End, said)
    BY <1>12 DEF FinishStream, Here
  <2> QED BY <1>1, <1>2, <1>6, <2>1, EndsKeeps
<1> QED BY <1>7, <1>8, <1>9, <1>10, <1>11, <1>12 DEF Handler

LEMMA PathInitially == ASSUME Init PROVE PathTypes /\ PathInv
<1>1. \A S : <<>> \in Seq(S)
  OBVIOUS
<1>2. PathTypes
  BY <1>1 DEF Init, PathTypes, ClientType, TaskType, Dispatchers
<1>3. \A c \in Calls : CallInv(c)
  BY <1>1 DEF Init, CallInv
<1> QED BY <1>2, <1>3 DEF Init, PathInv

\* What holds of the registry, of the types and of the path, at every moment.
LEMMA PathAlways == ASSUME NamesDistinct PROVE Spec => [](RegInv /\ PathTypes /\ PathInv)
<1> DEFINE Inv == RegInv /\ PathTypes /\ PathInv
<1>1. Init => Inv
  BY RegInitially, PathInitially
<1>2. Inv /\ [Next]_vars => Inv'
  <2> SUFFICES ASSUME Inv, [Next]_vars PROVE Inv'
    OBVIOUS
  <2>1. RegInv'
    BY RegInductive
  <2>2. CASE ServerStep
    BY <2>1, <2>2, ServerKeeps
  <2>3. CASE Demux
    BY <2>1, <2>3, DemuxKeeps
  <2>4. ASSUME NEW c \in Calls, ClientStep(c) PROVE Inv'
    <3>1. ASSUME NEW m \in Methods, NEW id \in ClientIds(m), CallUnary(c, m, id) \/ CallStream(c, m, id)
          PROVE  Inv'
      BY <2>1, <3>1, SendKeeps DEF CallUnary, CallStream
    <3> QED BY <2>1, <2>4, <3>1, ReceiveKeeps DEF ClientStep
  <2>5. ASSUME NEW c \in Calls, Start(c) \/ Handler(c) PROVE Inv'
    BY <2>1, <2>5, StartKeeps, HandlerKeeps
  <2>6. CASE UNCHANGED vars
    BY <2>1, <2>6 DEF vars, serverVars, PathTypes, PathInv, CallInv, Asked, Fit, Reached, Leads, Id
  <2> QED BY <2>2, <2>3, <2>4, <2>5, <2>6 DEF Next
<1> QED BY <1>1, <1>2, PTL DEF Spec

\* A value a client gets for a service that has a server is its own method's,
\* whatever ids collide, whatever is registered, and whatever dispatcher is in place.
THEOREM AnswersComeFromTheMethod == ASSUME NamesDistinct PROVE Spec => []RightMethod
<1> DEFINE Inv == RegInv /\ PathTypes /\ PathInv
<1>1. Inv => RightMethod
  <2> SUFFICES ASSUME Inv, NEW c \in Calls, NEW k \in DOMAIN client[c].got,
                      client[c].got[k].kind = "item", client[c].method[1] \in live
               PROVE  client[c].got[k].by = client[c].method
    BY DEF RightMethod
  <2> DEFINE m == client[c].method
             n == client[c].got[k].by
             r == registry[ServerProc]
  <2>1. client[c].got \in Seq(Fit(c))
    BY DEF PathInv, CallInv
  <2>2. client[c].got[k] \in Fit(c)
    BY <2>1, ElementOfSeq
  <2>3. n \in Methods /\ n[1] \in live /\ Id(n) = client[c].id
    BY <2>2 DEF Fit, Reached
  <2>4. client[c].pc # "idle"
    BY DEF PathInv, CallInv
  <2>5. m \in Methods /\ Id(m) = client[c].id
    BY <2>4 DEF PathInv, CallInv
  <2>6. /\ m[1] \in Services /\ m[2] \in DOMAIN Trait[m[1]] /\ m = <<m[1], m[2]>>
        /\ n[1] \in Services /\ n[2] \in DOMAIN Trait[n[1]] /\ n = <<n[1], n[2]>>
    BY <2>3, <2>5, MethodFacts DEF RegInv
  <2>7. <<NameOf[m[1]], MName(m)>> = <<NameOf[n[1]], MName(n)>>
    <3>1. Whole(r, m[1]) /\ Whole(r, n[1])
      BY <2>3 DEF RegInv
    <3>2. r.methods[Id(m)] = <<NameOf[m[1]], MName(m)>>
      BY <2>6, <3>1 DEF Whole
    <3>3. r.methods[Id(n)] = <<NameOf[n[1]], MName(n)>>
      BY <2>6, <3>1 DEF Whole
    <3> QED BY <2>3, <2>5, <3>2, <3>3
  <2>8. m[1] = n[1] /\ MName(m) = MName(n)
    BY <2>6, <2>7 DEF NamesDistinct
  <2>9. m[2] = n[2]
    <3> DEFINE i == m[2]
               j == n[2]
    <3>1. MName(<<m[1], i>>) = MName(<<m[1], j>>) /\ i \in DOMAIN Trait[m[1]] /\ j \in DOMAIN Trait[m[1]]
      BY <2>6, <2>8
    <3>2. hash \in Hashes
      BY DEF RegInv
    <3> HIDE DEF i, j, m
    <3>3. i = j
      BY <2>6, <3>1, <3>2, OneMethod
    <3> QED BY <3>3 DEF i, j
  <2> QED BY <2>6, <2>8, <2>9
<1> QED BY <1>1, PathAlways, PTL

-----------------------------------------------------------------------------
(* The way of a stream. *)

\* Frame f carries r, which the service said, to a client of method m ...
Carries(f, r, m) ==
    /\ f.kind = r.kind
    /\ \/ f.kind = "item" /\ f.n = r.n /\ f.by = m
       \/ f.kind = "error" /\ FromU32(f.code) = r.code

\* ... and g is what the client makes of it.
Means(g, r) ==
    /\ g.kind = r.kind
    /\ \/ g.kind = "item" /\ g.n = r.n
       \/ g.kind = "error" /\ g.code = r.code

\* What was said has been got or is on its way, in order; the end is the last frame.
Conveyed(got, way, said, m) ==
    /\ Len(got) <= Len(said) /\ Len(said) <= Len(got) + Len(way)
    /\ \A k \in 1 .. Len(got) : Means(got[k], said[k])
    /\ \A j \in 1 .. Len(way) : \/ way[j].kind = "end" /\ Len(got) + j = Len(said) + 1
                                \/ Len(got) + j <= Len(said) /\ Carries(way[j], said[Len(got) + j], m)
    /\ \A j \in 1 .. Len(way) : way[j].eos => j = Len(way)

\* Codes go out as numbers and come back as the same codes.
LEMMA CodesReturn ==
    /\ \A x \in Codes : FromU32(ErrorCode[x]) = x
    /\ \A e \in ErrorType : Carries(ErrorFrame(e), Meant(e), e)
<1>1. \A x, y \in Codes : ErrorCode[x] = ErrorCode[y] => x = y
  BY DEF Codes, ErrorCode
<1>2. \A x \in Codes : FromU32(ErrorCode[x]) = x
  BY <1>1 DEF FromU32
<1>3. ASSUME NEW e \in ErrorType PROVE Carries(ErrorFrame(e), Meant(e), e)
  <2>1. e.kind = "Status" => e.code \in Codes
    BY DEF ErrorType
  <2> QED BY <1>2, <2>1, CodesAreCodes DEF ErrorFrame, Meant, CodeOf, Failure, Carries
<1> QED BY <1>2, <1>3

LEMMA SameMeaning ==
    ASSUME NEW g, NEW x, NEW p, g.kind = "item", Carries(g, x, p) PROVE Means(g, x)
BY DEF Carries, Means

LEMMA WayFacts ==
    ASSUME NEW a \in Seq(Frames), NEW b \in Seq(Frames)
    PROVE  /\ a \o b \in Seq(Frames) /\ Len(a \o b) = Len(a) + Len(b)
           /\ \A f \in Frames : a \o Append(b, f) = Append(a \o b, f)
           /\ b # <<>> => Append(a, Head(b)) \o Tail(b) = a \o b
           /\ b # <<>> => (a \o b)[Len(a) + 1] = Head(b)
           /\ a # <<>> => Head(a \o b) = Head(a) /\ Tail(a \o b) = Tail(a) \o b /\ a \o b # <<>>
<1> DEFINE w == a \o b
<1>1. /\ w \in Seq(Frames) /\ Len(w) = Len(a) + Len(b)
      /\ \A i \in 1 .. Len(a) + Len(b) : w[i] = IF i <= Len(a) THEN a[i] ELSE b[i - Len(a)]
      /\ Len(a) \in Nat /\ Len(b) \in Nat
  BY ConcatProperties, LenProperties
<1>2. ASSUME NEW f \in Frames PROVE a \o Append(b, f) = Append(w, f)
  <2>1. /\ <<f>> \in Seq(Frames) /\ Append(b, f) = b \o <<f>> /\ Append(w, f) = w \o <<f>>
    BY <1>1, AppendIsConcat
  <2> QED BY <2>1, ConcatAssociative
<1>3. ASSUME b # <<>> PROVE Append(a, Head(b)) \o Tail(b) = w /\ w[Len(a) + 1] = Head(b)
  <2>1. /\ Head(b) \in Frames /\ Tail(b) \in Seq(Frames) /\ <<Head(b)>> \in Seq(Frames)
        /\ <<Head(b)>> \o Tail(b) = b
    BY <1>3, HeadTailProperties, ConcatSimplifications
  <2>2. Append(a, Head(b)) = a \o <<Head(b)>>
    BY <2>1, AppendIsConcat
  <2>3. w[Len(a) + 1] = b[1] /\ b[1] = Head(b)
    BY <1>1, <1>3, EmptySeq
  <2> QED BY <2>1, <2>2, <2>3, ConcatAssociative
<1>4. ASSUME a # <<>> PROVE Head(w) = Head(a) /\ Tail(w) = Tail(a) \o b /\ w # <<>>
  BY <1>4, ConcatSimplifications
<1> QED BY <1>1, <1>2, <1>3, <1>4

LEMMA ShortWays ==
    /\ \A w \in Seq(Frames) : Len(w) \in Nat /\ (Len(w) = 0 <=> w = <<>>)
    /\ \A w \in Seq(Frames) : Len(w) = 1 => Tail(w) = <<>>
    /\ <<>> \o <<>> = <<>>
<1>1. ASSUME NEW w \in Seq(Frames) PROVE Len(w) \in Nat /\ (Len(w) = 0 <=> w = <<>>)
  BY LenProperties, EmptySeq
<1>2. ASSUME NEW w \in Seq(Frames), Len(w) = 1 PROVE Tail(w) = <<>>
  <2>1. w # <<>>
    BY <1>2
  <2>2. Tail(w) \in Seq(Frames) /\ Len(Tail(w)) = 0
    BY <1>2, <2>1, HeadTailProperties
  <2> QED BY <1>1, <2>2
<1>3. <<>> \in Seq(Frames)
  OBVIOUS
<1> QED BY <1>1, <1>2, <1>3, ConcatEmptySeq

\* A frame leaves the way and becomes a result.
LEMMA ConveyTake ==
    ASSUME NEW got \in Seq(Frames), NEW way \in Seq(Frames), NEW said \in Seq(Frames), NEW m,
           Conveyed(got, way, said, m), way # <<>>, Head(way).kind # "end", NEW r \in Frames,
           \A x : Carries(Head(way), x, m) => Means(r, x)
    PROVE  Conveyed(Append(got, r), Tail(way), said, m)
<1> DEFINE more == Append(got, r)
           rest == Tail(way)
<1>1. /\ more \in Seq(Frames) /\ Len(more) = Len(got) + 1 /\ more[Len(got) + 1] = r
      /\ \A k \in 1 .. Len(got) : more[k] = got[k]
  OBVIOUS
<1>2. /\ rest \in Seq(Frames) /\ Len(rest) = Len(way) - 1
      /\ \A j \in 1 .. Len(rest) : rest[j] = way[j + 1] /\ j + 1 \in 1 .. Len(way)
      /\ Head(way) = way[1] /\ 1 \in 1 .. Len(way)
  OBVIOUS
<1>3. Len(got) \in Nat /\ Len(said) \in Nat /\ Len(way) \in Nat /\ Len(more) \in Nat /\ Len(rest) \in Nat
  BY <1>1, <1>2
<1> HIDE DEF more, rest
<1>4. Len(got) + 1 <= Len(said) /\ Carries(way[1], said[Len(got) + 1], m)
  BY <1>2, <1>3 DEF Conveyed
<1>5. ASSUME NEW k \in 1 .. Len(more) PROVE Means(more[k], said[k])
  <2>1. CASE k = Len(got) + 1
    BY <1>1, <1>2, <1>4, <2>1
  <2>2. CASE k # Len(got) + 1
    <3>1. k \in 1 .. Len(got)
      BY <1>1, <1>3, <2>2
    <3> QED BY <1>1, <3>1 DEF Conveyed
  <2> QED BY <2>1, <2>2
<1>6. ASSUME NEW j \in 1 .. Len(rest)
      PROVE  /\ \/ rest[j].kind = "end" /\ Len(more) + j = Len(said) + 1
                \/ Len(more) + j <= Len(said) /\ Carries(rest[j], said[Len(more) + j], m)
             /\ rest[j].eos => j = Len(rest)
  <2>1. rest[j] = way[j + 1] /\ j + 1 \in 1 .. Len(way) /\ Len(more) + j = Len(got) + (j + 1)
    BY <1>1, <1>2, <1>3
  <2> QED BY <1>2, <1>3, <2>1 DEF Conveyed
<1>7. Len(more) <= Len(said) /\ Len(said) <= Len(more) + Len(rest)
  BY <1>1, <1>2, <1>3, <1>4 DEF Conveyed
<1>8. Conveyed(more, rest, said, m)
  BY <1>5, <1>6, <1>7 DEF Conveyed
<1> QED BY <1>8 DEF more, rest

\* As long as no frame ended the stream, all that was said is got or on its way.
LEMMA ConveyCount ==
    ASSUME NEW got \in Seq(Frames), NEW way \in Seq(Frames), NEW said \in Seq(Frames), NEW m,
           Conveyed(got, way, said, m), \A j \in 1 .. Len(way) : way[j].kind # "end"
    PROVE  Len(got) + Len(way) = Len(said)
<1>1. Len(got) \in Nat /\ Len(said) \in Nat /\ Len(way) \in Nat
  OBVIOUS
<1>2. CASE Len(way) = 0
  BY <1>1, <1>2 DEF Conveyed
<1>3. CASE Len(way) > 0
  BY <1>1, <1>3 DEF Conveyed
<1> QED BY <1>1, <1>2, <1>3

\* The service says something, and a frame carries it ...
LEMMA ConveySay ==
    ASSUME NEW got \in Seq(Frames), NEW way \in Seq(Frames), NEW said \in Seq(Frames), NEW m,
           Conveyed(got, way, said, m), \A j \in 1 .. Len(way) : way[j].kind # "end" /\ ~way[j].eos,
           NEW f \in Frames, NEW x \in Frames, Carries(f, x, m)
    PROVE  Conveyed(got, Append(way, f), Append(said, x), m)
<1> DEFINE more == Append(way, f)
           all == Append(said, x)
<1>1. Len(got) + Len(way) = Len(said)
  BY ConveyCount
<1>2. /\ Len(more) = Len(way) + 1 /\ more[Len(way) + 1] = f
      /\ \A j \in 1 .. Len(way) : more[j] = way[j]
      /\ Len(all) = Len(said) + 1 /\ all[Len(said) + 1] = x
      /\ \A j \in 1 .. Len(said) : all[j] = said[j]
      /\ Len(got) \in Nat /\ Len(said) \in Nat /\ Len(way) \in Nat
  OBVIOUS
<1> HIDE DEF more, all
<1>3. \A k \in 1 .. Len(got) : Means(got[k], all[k])
  BY <1>2 DEF Conveyed
<1>4. ASSUME NEW j \in 1 .. Len(more)
      PROVE  /\ Len(got) + j <= Len(all) /\ Carries(more[j], all[Len(got) + j], m)
             /\ more[j].eos => j = Len(more)
  <2>1. CASE j = Len(way) + 1
    <3>1. Len(got) + j = Len(said) + 1
      BY <1>1, <1>2, <2>1
    <3> QED BY <1>2, <2>1, <3>1
  <2>2. CASE j # Len(way) + 1
    <3>1. j \in 1 .. Len(way) /\ Len(got) + j \in 1 .. Len(said)
      BY <1>1, <1>2, <2>2
    <3> QED BY <1>2, <3>1 DEF Conveyed
  <2> QED BY <2>1, <2>2
<1>5. Conveyed(got, more, all, m)
  BY <1>1, <1>2, <1>3, <1>4 DEF Conveyed
<1> QED BY <1>5 DEF more, all

\* ... or it is at its end.
LEMMA ConveyEnd ==
    ASSUME NEW got \in Seq(Frames), NEW way \in Seq(Frames), NEW said \in Seq(Frames), NEW m,
           Conveyed(got, way, said, m), \A j \in 1 .. Len(way) : way[j].kind # "end" /\ ~way[j].eos
    PROVE  Conveyed(got, Append(way, End), said, m)
<1> DEFINE more == Append(way, End)
<1>1. Len(got) + Len(way) = Len(said)
  BY ConveyCount
<1>2. End \in Frames /\ End.kind = "end"
  BY DEF Frames, End
<1>3. /\ Len(more) = Len(way) + 1 /\ more[Len(way) + 1] = End
      /\ \A j \in 1 .. Len(way) : more[j] = way[j]
      /\ Len(got) \in Nat /\ Len(said) \in Nat /\ Len(way) \in Nat
  BY <1>2
<1> HIDE DEF more
<1>4. ASSUME NEW j \in 1 .. Len(more)
      PROVE  /\ \/ more[j].kind = "end" /\ Len(got) + j = Len(said) + 1
                \/ Len(got) + j <= Len(said) /\ Carries(more[j], said[Len(got) + j], m)
             /\ more[j].eos => j = Len(more)
  <2>1. CASE j = Len(way) + 1
    <3>1. Len(got) + j = Len(said) + 1
      BY <1>1, <1>3, <2>1
    <3> QED BY <1>2, <1>3, <2>1, <3>1
  <2>2. CASE j # Len(way) + 1
    BY <1>1, <1>3, <2>2, SMTT(60) DEF Conveyed
  <2> QED BY <2>1, <2>2
<1>5. Conveyed(got, more, said, m)
  BY <1>1, <1>3, <1>4 DEF Conveyed
<1> QED BY <1>5 DEF more

\* No frame of c has come to the client or is on its way.
Quiet(c) ==
    /\ client[c].got = <<>> /\ chunks[c] = <<>> /\ down[c] = <<>>
    /\ client[c].pc = "waiting" /\ client[c].open

\* The frames of c convey what the service says.  The one with EOS is the task's last,
\* takes the tunnel out of the session's map, and lets the client stop.
Way(c) == chunks[c] \o down[c]
Flowing(c) ==
    /\ Conveyed(client[c].got, Way(c), task[c].said, client[c].method)
    /\ \A j \in 1 .. Len(Way(c)) : Way(c)[j].eos => task[c].pc = "done"
    /\ client[c].open \/ down[c] = <<>>
    /\ client[c].open \/ task[c].pc = "done"
    /\ client[c].pc = "done" => Way(c) = <<>> /\ task[c].pc = "done"

Unstarted(c) == task[c].pc \in {"none", "dropped", "spawned"}
StreamInv(c) ==
    /\ Unstarted(c) => task[c].said = <<>> /\ task[c].arm = Nothing
    /\ task[c].pc = "running" /\ Streaming(task[c].arm) => task[c].streams
    /\ client[c].pc # "idle" /\ IsStream(c) =>
          /\ Unstarted(c) \/ (task[c].arm = client[c].method /\ ~task[c].streams) => Quiet(c)
          /\ task[c].arm = client[c].method /\ task[c].streams => Flowing(c)

\* A request is on its way once, and nobody has taken it up.
Fresh ==
    /\ \A i \in DOMAIN requests : task[requests[i]].pc = "none"
    /\ \A i, j \in DOMAIN requests : requests[i] = requests[j] => i = j

Streams == Fresh /\ \A c \in Calls : StreamInv(c)

LEMMA StreamKept ==
    ASSUME NEW c \in Calls, StreamInv(c),
           client'[c] = client[c], task'[c] = task[c], down'[c] = down[c], chunks'[c] = chunks[c]
    PROVE  StreamInv(c)'
BY DEF StreamInv, Unstarted, Quiet, Flowing, Way, IsStream

LEMMA OneStream ==
    ASSUME PathTypes, Streams, NEW c \in Calls, requests' = requests, StreamInv(c)',
           task[c].pc = "none" => task'[c].pc = "none",
           \A d \in Calls \ {c} : /\ client'[d] = client[d] /\ task'[d] = task[d]
                                  /\ down'[d] = down[d] /\ chunks'[d] = chunks[d]
    PROVE  Streams'
<1>1. \A d \in Calls : StreamInv(d)'
  BY StreamKept DEF Streams
<1>2. \A i \in DOMAIN requests : requests[i] \in Calls
  BY LenProperties, ElementOfSeq DEF PathTypes, Asked
<1>3. \A d \in Calls : task[d].pc = "none" => task'[d].pc = "none"
  OBVIOUS
<1>4. Fresh'
  BY <1>2, <1>3 DEF Streams, Fresh
<1> QED BY <1>1, <1>4 DEF Streams

LEMMA StreamSend ==
    ASSUME PathTypes, PathInv, Streams, NEW c \in Calls, NEW m \in Methods, NEW id, Sends(c, m, id)
    PROVE  Streams'
<1>1. /\ client[c].pc = "idle"
      /\ client'[c] = [pc |-> "waiting", method |-> m, id |-> id, got |-> <<>>, open |-> Streaming(m)]
      /\ \A d \in Calls \ {c} : client'[d] = client[d]
      /\ requests' = Append(requests, c) /\ UNCHANGED <<task, down, chunks>>
  BY DEF Sends, PathTypes
<1>2. task[c].pc = "none" /\ down[c] = <<>> /\ chunks[c] = <<>> /\ m # Nothing
  BY <1>1, NothingIsNew DEF PathInv, CallInv
<1>3. StreamInv(c)'
  BY <1>1, <1>2 DEF Streams, StreamInv, Unstarted, Quiet, IsStream
<1>4. \A d \in Calls \ {c} : StreamInv(d)'
  BY <1>1, StreamKept DEF Streams
<1>5. Fresh'
  <2>1. requests \in Seq(Asked) /\ c \notin Asked
    BY <1>1 DEF PathTypes, Asked
  <2>2. requests \in Seq(Calls)
    BY <2>1, SeqMonotonic DEF Asked
  <2>3. /\ DOMAIN requests = 1 .. Len(requests) /\ Len(requests) \in Nat
        /\ DOMAIN requests' = 1 .. Len(requests) + 1
        /\ requests'[Len(requests) + 1] = c
        /\ \A i \in 1 .. Len(requests) : requests'[i] = requests[i]
    BY <1>1, <2>2, AppendProperties, LenProperties
  <2>4. \A i \in 1 .. Len(requests) : requests[i] # c
    BY <2>1, ElementOfSeq
  <2> QED BY <1>1, <1>2, <2>3, <2>4 DEF Streams, Fresh
<1> QED BY <1>3, <1>4, <1>5 DEF Streams

LEMMA StreamDemux ==
    ASSUME PathTypes, PathInv, Streams, Demux
    PROVE  Streams'
<1>1. requests # <<>> /\ requests' = Tail(requests) /\ UNCHANGED <<client, down, chunks>>
  BY DEF Demux
<1>2. /\ requests \in Seq(Calls) /\ DOMAIN requests = 1 .. Len(requests) /\ Len(requests) \in Nat
      /\ 1 \in DOMAIN requests /\ Head(requests) = requests[1] /\ requests[1] \in Calls
  <2>1. requests \in Seq(Calls)
    BY SeqMonotonic DEF PathTypes, Asked
  <2> QED BY <1>1, <2>1, LenProperties, EmptySeq, ElementOfSeq
<1>3. PICK c \in Calls : c = requests[1]
  BY <1>2
<1> DEFINE pc == IF dispatcher = NoDispatcher THEN "dropped" ELSE "spawned"
<1>4. /\ task'[c] = [task[c] EXCEPT !.via = dispatcher, !.pc = pc]
      /\ \A d \in Calls \ {c} : task'[d] = task[d]
  BY <1>2, <1>3 DEF Demux, PathTypes
<1>5. /\ task'[c].pc \in {"dropped", "spawned"} /\ task'[c].said = task[c].said
      /\ task'[c].arm = task[c].arm /\ task'[c].streams = task[c].streams
  BY <1>4 DEF PathTypes, TaskType
<1>6. /\ task[c].pc = "none"
      /\ \A i \in DOMAIN requests : task[requests[i]].pc = "none" /\ (requests[i] = c => i = 1)
      /\ \A i, j \in DOMAIN requests : requests[i] = requests[j] => i = j
  <2>1. Fresh
    BY DEF Streams
  <2> QED BY <1>2, <1>3, <2>1 DEF Fresh
<1>7. StreamInv(c)'
  <2>1. StreamInv(c) /\ Unstarted(c)
    BY <1>6 DEF Streams, Unstarted
  <2>2. UNCHANGED <<client, down, chunks>>
    BY <1>1
  <2>3. client[c].pc # "idle" /\ IsStream(c) => Quiet(c) /\ client[c].method # Nothing
    BY <2>1, <2>2, NothingIsNew DEF StreamInv, PathInv, CallInv
  <2> QED BY <1>5, <2>1, <2>2, <2>3 DEF StreamInv, Unstarted, Quiet, IsStream
<1>8. \A d \in Calls \ {c} : StreamInv(d)'
  BY <1>1, <1>4, StreamKept DEF Streams
<1>9. Fresh'
  <2>1. /\ DOMAIN requests' = 1 .. Len(requests) - 1
        /\ \A i \in 1 .. Len(requests) - 1 : requests'[i] = requests[i + 1]
    BY <1>1, <1>2, HeadTailProperties, LenProperties
  <2>2. \A i \in 1 .. Len(requests) - 1 : i + 1 \in DOMAIN requests /\ requests[i + 1] \in Calls \ {c}
    <3> SUFFICES ASSUME NEW i \in 1 .. Len(requests) - 1
                 PROVE  i + 1 \in DOMAIN requests /\ requests[i + 1] \in Calls \ {c}
      OBVIOUS
    <3>1. i + 1 \in DOMAIN requests /\ i + 1 \in 1 .. Len(requests) /\ i + 1 # 1
      BY <1>2
    <3> QED BY <1>2, <1>6, <3>1, ElementOfSeq
  <2>3. \A i \in DOMAIN requests' : requests'[i] = requests[i + 1] /\ task'[requests'[i]].pc = "none"
    BY <1>4, <1>6, <2>1, <2>2
  <2>4. ASSUME NEW i \in DOMAIN requests', NEW j \in DOMAIN requests', requests'[i] = requests'[j]
        PROVE  i = j
    <3>1. i + 1 = j + 1 /\ i \in Nat /\ j \in Nat
      BY <1>2, <1>6, <2>1, <2>2, <2>4
    <3> QED BY <3>1
  <2> QED BY <2>3, <2>4 DEF Fresh
<1> QED BY <1>7, <1>8, <1>9 DEF Streams

\* The types of one call.
LEMMA CallTypes ==
    ASSUME PathTypes, NEW c \in Calls
    PROVE  /\ client[c] \in ClientType /\ client[c].got \in Seq(Frames)
           /\ task[c] \in TaskType /\ task[c].said \in Seq(Frames)
           /\ down[c] \in Seq(Frames) /\ chunks[c] \in Seq(Frames) /\ Way(c) \in Seq(Frames)
<1>1. down[c] \in Seq(Frames) /\ chunks[c] \in Seq(Frames)
  BY DEF PathTypes
<1> QED BY <1>1, WayFacts DEF PathTypes, ClientType, TaskType, Way

LEMMA StreamRoute ==
    ASSUME PathTypes, PathInv, Streams, NEW c \in Calls, RouteChunk(c)
    PROVE  Streams'
<1>1. /\ client[c].open /\ down[c] # <<>>
      /\ down'[c] = Tail(down[c]) /\ chunks'[c] = Append(chunks[c], Head(down[c]))
      /\ client'[c] = [client[c] EXCEPT !.open = ~Head(down[c]).eos]
      /\ UNCHANGED <<requests, task>>
      /\ \A d \in Calls \ {c} : /\ client'[d] = client[d] /\ down'[d] = down[d]
                                /\ chunks'[d] = chunks[d]
  BY DEF RouteChunk, PathTypes
<1>2. /\ client'[c].got = client[c].got /\ client'[c].pc = client[c].pc
      /\ client'[c].method = client[c].method /\ client'[c].open = ~Head(down[c]).eos
  BY <1>1, CallTypes DEF ClientType
<1>3. Way(c)' = Way(c) /\ Len(Way(c)) = Len(chunks[c]) + Len(down[c])
      /\ Way(c)[Len(chunks[c]) + 1] = Head(down[c])
  <2>1. PICK a \in Seq(Frames), b \in Seq(Frames) : a = chunks[c] /\ b = down[c]
    BY CallTypes
  <2>2. /\ Append(a, Head(b)) \o Tail(b) = a \o b /\ Len(a \o b) = Len(a) + Len(b)
        /\ (a \o b)[Len(a) + 1] = Head(b)
    <3>1. b # <<>>
      BY <1>1, <2>1
    <3> HIDE <1>1, <2>1
    <3> QED BY <3>1, WayFacts
  <2>3. Way(c) = a \o b /\ Way(c)' = Append(a, Head(b)) \o Tail(b)
    BY <1>1, <2>1 DEF Way
  <2> QED BY <2>1, <2>2, <2>3
<1>4. ASSUME Flowing(c) PROVE Flowing(c)'
  <2> DEFINE n == Len(chunks[c]) + 1
  <2>1. n \in 1 .. Len(Way(c)) /\ (n = Len(Way(c)) => down'[c] = <<>>)
    <3>1. /\ down[c] \in Seq(Frames) /\ Len(down[c]) \in Nat /\ Len(down[c]) # 0
          /\ Len(chunks[c]) \in Nat
      BY <1>1, CallTypes, ShortWays
    <3>2. PICK x \in Nat, y \in Nat : x = Len(chunks[c]) /\ y = Len(down[c])
      BY <3>1
    <3>3. y # 0 /\ n = x + 1 /\ Len(Way(c)) = x + y
      BY <1>3, <3>1, <3>2
    <3>4. n \in 1 .. Len(Way(c)) /\ (n = Len(Way(c)) => y = 1)
      BY <3>3
    <3> QED BY <1>1, <3>1, <3>2, <3>4, ShortWays
  <2> HIDE DEF n
  <2>2. Way(c)[n] = Head(down[c])
    BY <1>3 DEF n
  <2>3. Head(down[c]).eos => task[c].pc = "done" /\ down'[c] = <<>>
    BY <1>4, <2>1, <2>2 DEF Flowing, Conveyed
  <2>4. client[c].pc # "done"
    <3>1. Way(c) # <<>>
      BY <2>1, CallTypes
    <3> QED BY <1>4, <3>1 DEF Flowing
  <2> QED BY <1>1, <1>2, <1>3, <1>4, <2>3, <2>4 DEF Flowing
<1>5. ~Quiet(c)
  BY <1>1 DEF Quiet
<1>6. StreamInv(c)'
  BY <1>1, <1>2, <1>4, <1>5 DEF Streams, StreamInv, Unstarted, IsStream
<1> QED BY <1>1, <1>6, OneStream

LEMMA StreamNext ==
    ASSUME PathTypes, PathInv, Streams, NEW c \in Calls, NextItem(c)
    PROVE  Streams'
<1>1. /\ client[c].pc = "waiting" /\ UNCHANGED <<requests, task, down>>
      /\ \A d \in Calls \ {c} : client'[d] = client[d] /\ chunks'[d] = chunks[d]
  BY DEF NextItem, PathTypes
<1>2. /\ client[c] \in ClientType /\ client[c].got \in Seq(Frames) /\ chunks[c] \in Seq(Frames)
      /\ down[c] \in Seq(Frames) /\ Way(c) \in Seq(Frames) /\ task[c].said \in Seq(Frames)
  BY CallTypes
<1>3. ~Quiet(c)
  BY DEF NextItem, Quiet
<1>4. client'[c].method = client[c].method /\ client'[c].open = client[c].open
  BY <1>2 DEF NextItem, PathTypes, ClientType
<1>5. ASSUME Flowing(c) PROVE Flowing(c)'
  <2>1. CASE chunks[c] # <<>>
    <3> DEFINE f == Head(chunks[c])
    <3>1. /\ Way(c) # <<>> /\ Head(Way(c)) = f /\ Tail(Way(c)) = Tail(chunks[c]) \o down[c]
          /\ chunks'[c] = Tail(chunks[c])
      BY <1>2, <2>1, WayFacts DEF NextItem, PathTypes, Way
    <3>2. Way(c)' = Tail(Way(c))
      BY <1>1, <3>1 DEF Way
    <3>3. /\ Len(Way(c)) \in Nat /\ Len(Tail(Way(c))) = Len(Way(c)) - 1
          /\ \A j \in 1 .. Len(Tail(Way(c))) : /\ Tail(Way(c))[j] = Way(c)[j + 1]
                                             /\ j + 1 \in 1 .. Len(Way(c))
          /\ 1 \in 1 .. Len(Way(c)) /\ Head(Way(c)) = Way(c)[1] /\ Way(c)[1] \in Frames
      BY <1>2, <3>1, HeadTailProperties, EmptySeq, LenProperties, ElementOfSeq
    <3>4. \A j \in 1 .. Len(Way(c)') : Way(c)'[j].eos => task'[c].pc = "done"
      BY <1>1, <1>5, <3>2, <3>3 DEF Flowing
    <3>5. CASE f.kind = "end"
      <4>1. client'[c].got = client[c].got
        BY <1>2, <2>1, <3>5 DEF NextItem, PathTypes, ClientType
      <4>2. Way(c)[1].eos /\ Len(Way(c)) = 1 /\ task[c].pc = "done"
        <5>1. Way(c)[1].kind = "end" /\ Way(c)[1] \in Frames
          BY <3>1, <3>3, <3>5
        <5>2. \A e \in Frames : e.kind = "end" => e = End
          BY DEF Frames
        <5>3. Way(c)[1].eos
          BY <5>1, <5>2 DEF End
        <5> QED BY <1>5, <3>3, <5>3 DEF Flowing, Conveyed
      <4>3. Tail(Way(c)) = <<>>
        BY <1>2, <4>2, ShortWays
      <4>4. Len(client[c].got) = Len(task[c].said)
        <5>1. Way(c)[1].kind = "end"
          BY <3>1, <3>3, <3>5
        <5>2. ~Carries(Way(c)[1], task[c].said[Len(client[c].got) + 1], client[c].method)
          BY <5>1 DEF Carries
        <5>3. Len(client[c].got) \in Nat /\ Len(task[c].said) \in Nat
          BY <1>2, LenProperties
        <5>4. Len(client[c].got) + 1 = Len(task[c].said) + 1
          BY <1>5, <3>3, <5>2 DEF Flowing, Conveyed
        <5> QED BY <5>3, <5>4
      <4>5. Conveyed(client[c].got, <<>>, task[c].said, client[c].method)
        BY <1>2, <1>5, <4>4 DEF Flowing, Conveyed
      <4> QED BY <1>1, <1>4, <1>5, <3>2, <3>4, <4>1, <4>2, <4>3, <4>5 DEF Flowing
    <3>6. CASE f.kind # "end"
      <4>1. Carries(f, task[c].said[Len(client[c].got) + 1], client[c].method)
        BY <1>2, <1>5, <3>1, <3>3, <3>6 DEF Flowing, Conveyed
      <4>2. /\ f.kind = "item" => f.by = client[c].method
            /\ f.kind \in {"item", "error"}
        BY <4>1 DEF Carries
      <4>3. PICK r \in {f, ParseError(f)} :
               /\ client'[c] = [client[c] EXCEPT !.got = Append(client[c].got, r)]
               /\ f.kind = "item" => r = f
               /\ f.kind = "error" => r = ParseError(f)
        BY <2>1, <4>2 DEF NextItem, Decoded, PathTypes
      <4>4. r \in Frames
        BY <3>1, <3>3, ErrorTypes
      <4>5. client'[c].got = Append(client[c].got, r) /\ client'[c].pc = "waiting"
        BY <1>1, <1>2, <4>3 DEF ClientType
      <4>6. \A x : Carries(f, x, client[c].method) => Means(r, x)
        <5> HIDE DEF f
        <5>1. CASE f.kind = "item"
          <6>1. r = f
            BY <4>3, <5>1
          <6> QED BY <5>1, <6>1, SameMeaning
        <5>2. CASE f.kind = "error"
          <6>1. r.kind = "error" /\ r.code = FromU32(f.code)
            BY <4>3, <5>2 DEF ParseError, Failure
          <6> QED BY <5>2, <6>1 DEF Carries, Means
        <5> QED BY <4>2, <5>1, <5>2
      <4>7. Conveyed(Append(client[c].got, r), Tail(Way(c)), task[c].said, client[c].method)
        BY <1>2, <1>5, <3>1, <3>6, <4>4, <4>6, ConveyTake DEF Flowing
      <4> QED BY <1>1, <1>4, <1>5, <3>2, <3>4, <4>5, <4>7 DEF Flowing
    <3> QED BY <3>5, <3>6
  <2>2. CASE chunks[c] = <<>>
    <3>1. /\ ~client[c].open /\ chunks' = chunks /\ client'[c] = [client[c] EXCEPT !.pc = "done"]
      BY <2>2 DEF NextItem, PathTypes
    <3>2. client'[c].got = client[c].got
      BY <1>2, <3>1 DEF ClientType
    <3>3. Way(c) = <<>> /\ Way(c)' = Way(c)
      <4>1. chunks[c] = <<>> /\ down[c] = <<>>
        BY <1>5, <2>2, <3>1 DEF Flowing
      <4>2. Way(c) = <<>>
        BY <4>1, ShortWays DEF Way
      <4> QED BY <1>1, <3>1, <4>2 DEF Way
    <3> QED BY <1>1, <1>4, <1>5, <3>1, <3>2, <3>3 DEF Flowing
  <2> QED BY <2>1, <2>2
<1>6. StreamInv(c)'
  BY <1>1, <1>3, <1>4, <1>5 DEF Streams, StreamInv, Unstarted, IsStream
<1> QED BY <1>1, <1>6, OneStream

\* The answer to a unary call is no matter here.
LEMMA StreamAnswer ==
    ASSUME PathTypes, PathInv, Streams, NEW c \in Calls, ReceiveAnswer(c) \/ CallTimeout(c)
    PROVE  Streams'
<1>1. /\ ~IsStream(c) /\ UNCHANGED <<requests, task, chunks>>
      /\ \A d \in Calls \ {c} : client'[d] = client[d] /\ down'[d] = down[d]
      /\ client'[c].method = client[c].method
  BY DEF ReceiveAnswer, CallTimeout, PathTypes, ClientType
<1>2. StreamInv(c)'
  BY <1>1 DEF Streams, StreamInv, Unstarted, IsStream
<1> QED BY <1>1, <1>2, OneStream

\* What Ends does, in parts.
LEMMA EndsParts ==
    ASSUME PathTypes, NEW c \in Calls, NEW pc, NEW arm, NEW streams, NEW frame, NEW said,
           Ends(c, pc, arm, streams, frame, said)
    PROVE  /\ task'[c].pc = pc /\ task'[c].arm = arm /\ task'[c].streams = streams
           /\ task'[c].said = said
           /\ NoReply(c) /\ ~streams => down'[c] = down[c]
           /\ streams => down'[c] = Append(down[c], frame)
           /\ \A d \in Calls \ {c} : task'[d] = task[d] /\ down'[d] = down[d]
BY DEF Ends, PathTypes, TaskType

\* A task is started: nothing is on its way yet, and nothing comes of a failed start
\* for a call without a reply.
LEMMA StreamStart ==
    ASSUME RegInv, PathTypes, PathInv, Streams, NEW c \in Calls, Start(c)
    PROVE  Streams'
<1> DEFINE id == client[c].id
           via == task[c].via
           s == TargetOf(via, id)
           arm == IF s = Nothing THEN Nothing ELSE ArmOf(s, id)
           streams == via.kind = "service" /\ IsStreamingId(id)
<1>1. UNCHANGED <<client, requests, chunks>> /\ task[c].pc = "spawned"
  BY DEF Start
<1>2. client[c].pc # "idle" /\ client[c].method # Nothing
  BY <1>1, NothingIsNew DEF PathInv, CallInv
<1>3. task[c].said = <<>> /\ (IsStream(c) => Quiet(c))
  BY <1>1, <1>2 DEF Streams, StreamInv, Unstarted
<1>4. \/ \E code \in {"InvalidArgument", "Unimplemented", "Internal"} :
            \/ Fails(c, "done", Nothing, streams, Status(code))
            \/ Fails(c, "done", arm, streams, Status(code)) /\ (~streams \/ arm # client[c].method)
      \/ /\ Streaming(arm) => streams
         /\ down' = down
         /\ task' = [task EXCEPT ![c].pc = "running", ![c].arm = arm, ![c].streams = streams]
  BY DEF Start
<1> HIDE DEF arm, streams
<1>5. ASSUME NEW a, NEW e, Fails(c, "done", a, streams, e), ~streams \/ a # client[c].method
      PROVE  Streams'
  <2>1. /\ task'[c].pc = "done" /\ task'[c].arm = a /\ task'[c].streams = streams
        /\ NoReply(c) /\ ~streams => down'[c] = down[c]
        /\ \A d \in Calls \ {c} : task'[d] = task[d] /\ down'[d] = down[d]
    BY <1>5, EndsParts DEF Fails
  <2>2. StreamInv(c)'
    BY <1>1, <1>2, <1>3, <1>5, <2>1 DEF StreamInv, Unstarted, Quiet, IsStream, NoReply
  <2> QED BY <1>1, <2>1, <2>2, OneStream
<1>6. CASE /\ Streaming(arm) => streams
           /\ down' = down
           /\ task' = [task EXCEPT ![c].pc = "running", ![c].arm = arm, ![c].streams = streams]
  <2>1. /\ task'[c].pc = "running" /\ task'[c].arm = arm /\ task'[c].streams = streams
        /\ task'[c].said = task[c].said
        /\ \A d \in Calls \ {c} : task'[d] = task[d]
    BY <1>6 DEF PathTypes, TaskType
  <2>2. ASSUME IsStream(c) PROVE Flowing(c)'
    <3>1. Way(c)' = <<>> /\ client'[c].got = <<>> /\ task'[c].said = <<>>
      BY <1>1, <1>3, <1>6, <2>1, <2>2, ShortWays DEF Quiet, Way
    <3>2. Conveyed(client[c].got, Way(c), task[c].said, client[c].method)'
      BY <3>1 DEF Conveyed
    <3> QED BY <1>1, <1>3, <1>6, <2>1, <2>2, <3>1, <3>2 DEF Flowing, Quiet
  <2>3. StreamInv(c)'
    BY <1>1, <1>6, <2>1, <2>2 DEF StreamInv, Unstarted, IsStream
  <2> QED BY <1>1, <1>6, <2>1, <2>3, OneStream
<1> QED BY <1>2, <1>4, <1>5, <1>6

\* A running task says something, or comes to its end.
LEMMA Flows ==
    ASSUME PathTypes, NEW c \in Calls, Flowing(c), task[c].pc = "running",
           UNCHANGED <<client, chunks>>, NEW f \in Frames, down'[c] = Append(down[c], f),
           f.eos => task'[c].pc = "done",
           Conveyed(client[c].got, Append(Way(c), f), task'[c].said, client[c].method)
    PROVE  Flowing(c)'
<1>1. Way(c)' = Append(Way(c), f)
  <2>1. PICK a \in Seq(Frames), b \in Seq(Frames) : a = chunks[c] /\ b = down[c]
    BY CallTypes
  <2>2. a \o Append(b, f) = Append(a \o b, f)
    BY WayFacts
  <2> QED BY <2>1, <2>2 DEF Way
<1>2. client[c].open /\ client[c].pc # "done" /\ \A j \in 1 .. Len(Way(c)) : ~Way(c)[j].eos
  BY DEF Flowing
<1>3. \A j \in 1 .. Len(Way(c)') : Way(c)'[j].eos => task'[c].pc = "done"
  <2>1. Way(c) \in Seq(Frames)
    BY CallTypes
  <2>2. /\ Len(Append(Way(c), f)) = Len(Way(c)) + 1 /\ Append(Way(c), f)[Len(Way(c)) + 1] = f
        /\ \A j \in 1 .. Len(Way(c)) : Append(Way(c), f)[j] = Way(c)[j]
        /\ Len(Way(c)) \in Nat
    BY <2>1, AppendProperties, LenProperties
  <2>3. \A j \in 1 .. Len(Way(c)) + 1 : j \in 1 .. Len(Way(c)) \/ j = Len(Way(c)) + 1
    BY <2>2
  <2> QED BY <1>1, <1>2, <2>2, <2>3
<1> QED BY <1>1, <1>2, <1>3 DEF Flowing

LEMMA StreamHandler ==
    ASSUME RegInv, PathTypes, PathInv, Streams, NEW c \in Calls, Handler(c)
    PROVE  Streams'
<1> DEFINE arm == task[c].arm
           streams == task[c].streams
           said == task[c].said
           m == client[c].method
<1>1. UNCHANGED <<client, requests, chunks>> /\ task[c].pc = "running"
  BY DEF Handler, HandlerReturns, EncodeFails, HandlerPanics, YieldItem, YieldError, FinishStream,
         Runs, taskFrame
<1>2. client[c].pc # "idle" /\ arm \in Reached(c)
  BY <1>1 DEF PathInv, CallInv
<1>3. /\ said \in Seq(Frames) /\ client[c].got \in Seq(Frames) /\ Way(c) \in Seq(Frames)
      /\ arm \in Methods
  BY <1>2, CallTypes DEF Reached
<1>4. /\ Streaming(arm) => streams
      /\ IsStream(c) /\ arm = m => Streaming(arm) /\ streams /\ Flowing(c)
  BY <1>1, <1>2 DEF Streams, StreamInv, IsStream
<1>5. ASSUME NEW y, task'[c].pc = y, y \in {"running", "done", "panicked"},
             task'[c].arm = arm, task'[c].streams = streams,
             \A d \in Calls \ {c} : task'[d] = task[d] /\ down'[d] = down[d],
             IsStream(c) /\ arm = m => Flowing(c)'
      PROVE  Streams'
  <2>1. StreamInv(c)'
    BY <1>1, <1>4, <1>5 DEF StreamInv, Unstarted, IsStream
  <2> QED BY <1>1, <1>5, <2>1, OneStream
<1>6. ASSUME IsStream(c), arm = m
      PROVE  /\ Conveyed(client[c].got, Way(c), said, m)
             /\ \A j \in 1 .. Len(Way(c)) : Way(c)[j].kind # "end" /\ ~Way(c)[j].eos
  <2>1. Flowing(c)
    BY <1>4, <1>6
  <2>2. \A f \in Frames : f.kind = "end" => f = End
    BY DEF Frames
  <2>3. \A j \in 1 .. Len(Way(c)) : Way(c)[j] \in Frames
    BY <1>3, ElementOfSeq, LenProperties
  <2> QED BY <1>1, <2>1, <2>2, <2>3 DEF Flowing, End
<1>7. ASSUME NEW e \in ErrorType, Here(c, "done", ErrorFrame(e), Append(said, Meant(e)))
      PROVE  Streams'
  <2>1. /\ task'[c].pc = "done" /\ task'[c].arm = arm /\ task'[c].streams = streams
        /\ task'[c].said = Append(said, Meant(e))
        /\ streams => down'[c] = Append(down[c], ErrorFrame(e))
        /\ \A d \in Calls \ {c} : task'[d] = task[d] /\ down'[d] = down[d]
    <3>1. Ends(c, "done", arm, streams, ErrorFrame(e), Append(said, Meant(e)))
      BY <1>7 DEF Here
    <3>2. PICK more : more = Append(said, Meant(e))
      OBVIOUS
    <3>3. Ends(c, "done", arm, streams, ErrorFrame(e), more)
      BY <3>1, <3>2
    <3> HIDE <3>1
    <3>4. /\ task'[c].pc = "done" /\ task'[c].arm = arm /\ task'[c].streams = streams
          /\ task'[c].said = more
          /\ streams => down'[c] = Append(down[c], ErrorFrame(e))
          /\ \A d \in Calls \ {c} : task'[d] = task[d] /\ down'[d] = down[d]
      BY <3>3, EndsParts
    <3> QED BY <3>2, <3>4, Zenon
  <2>2. ASSUME IsStream(c), arm = m PROVE Flowing(c)'
    <3>1. ErrorFrame(e) \in Frames /\ Meant(e) \in Frames /\ Carries(ErrorFrame(e), Meant(e), m)
      BY ErrorTypes, CodesReturn DEF Carries, ErrorFrame, Failure
    <3>2. Conveyed(client[c].got, Append(Way(c), ErrorFrame(e)), Append(said, Meant(e)), m)
      BY <1>3, <1>6, <2>2, <3>1, ConveySay
    <3> QED BY <1>1, <1>4, <2>1, <2>2, <3>1, <3>2, Flows
  <2> QED BY <1>5, <2>1, <2>2
<1>8. CASE HandlerReturns(c)
  <2>1. Ends(c, "done", arm, streams, Answer(arm), <<Answer(arm)>>) /\ ~Streaming(arm)
    BY <1>8 DEF HandlerReturns, Here
  <2> QED BY <1>4, <1>5, <2>1, EndsParts
<1>9. CASE EncodeFails(c)
  BY <1>7, <1>9, ErrorTypes DEF EncodeFails
<1>10. CASE HandlerPanics(c)
  <2>1. /\ task'[c].pc = "panicked" /\ task'[c].arm = arm /\ task'[c].streams = streams
        /\ task'[c].said = said /\ (IsStream(c) => down'[c] = down[c])
        /\ \A d \in Calls \ {c} : task'[d] = task[d] /\ down'[d] = down[d]
    BY <1>10 DEF HandlerPanics, NoReply, PathTypes, TaskType
  <2>2. ASSUME IsStream(c), arm = m PROVE Flowing(c)'
    <3>1. Way(c)' = Way(c) /\ Flowing(c)
      BY <1>1, <1>4, <2>1, <2>2 DEF Way
    <3> QED BY <1>1, <2>1, <2>2, <3>1 DEF Flowing
  <2> QED BY <1>5, <2>1, <2>2
<1>11. CASE YieldItem(c)
  <2> DEFINE item == Item(arm, Len(said) + 1)
  <2>1. /\ task'[c].pc = "running" /\ task'[c].arm = arm /\ task'[c].streams = streams
        /\ task'[c].said = Append(said, item)
        /\ streams => down'[c] = Append(down[c], item)
        /\ \A d \in Calls \ {c} : task'[d] = task[d] /\ down'[d] = down[d]
    <3>1. Ends(c, "running", arm, streams, item, Append(said, item))
      BY <1>11 DEF YieldItem, Here
    <3> HIDE DEF item
    <3>2. PICK more : more = Append(said, item)
      OBVIOUS
    <3>3. Ends(c, "running", arm, streams, item, more)
      BY <3>1, <3>2
    <3> HIDE <3>1
    <3>4. /\ task'[c].pc = "running" /\ task'[c].arm = arm /\ task'[c].streams = streams
          /\ task'[c].said = more
          /\ streams => down'[c] = Append(down[c], item)
          /\ \A d \in Calls \ {c} : task'[d] = task[d] /\ down'[d] = down[d]
      BY <3>3, EndsParts
    <3> QED BY <3>2, <3>4, Zenon
  <2>2. item \in Frames /\ ~item.eos /\ item.kind = "item" /\ item.by = arm
    <3>1. Len(said) + 1 \in Nat
      BY <1>3, LenProperties
    <3> QED BY <1>3, <3>1 DEF Item, Frames
  <2> HIDE DEF item
  <2>3. ASSUME IsStream(c), arm = m PROVE Flowing(c)'
    <3>1. Carries(item, item, m)
      BY <2>2, <2>3 DEF Carries
    <3>2. Conveyed(client[c].got, Append(Way(c), item), Append(said, item), m)
      BY <1>3, <1>6, <2>2, <2>3, <3>1, ConveySay
    <3> QED BY <1>1, <1>4, <2>1, <2>2, <2>3, <3>2, Flows
  <2> QED BY <1>5, <2>1, <2>3
<1>12. ASSUME NEW e \in Errors, YieldError(c, e) PROVE Streams'
  <2>1. e \in ErrorType
    BY TypedCallsAssumption
  <2> QED BY <1>7, <1>12, <2>1 DEF YieldError
<1>13. CASE FinishStream(c)
  <2>1. /\ task'[c].pc = "done" /\ task'[c].arm = arm /\ task'[c].streams = streams
        /\ task'[c].said = said
        /\ streams => down'[c] = Append(down[c], End)
        /\ \A d \in Calls \ {c} : task'[d] = task[d] /\ down'[d] = down[d]
    BY <1>13, EndsParts DEF FinishStream, Here
  <2>2. ASSUME IsStream(c), arm = m PROVE Flowing(c)'
    <3>1. End \in Frames
      BY DEF Frames
    <3>2. Conveyed(client[c].got, Append(Way(c), End), said, m)
      BY <1>3, <1>6, <2>2, ConveyEnd
    <3> QED BY <1>1, <1>4, <2>1, <2>2, <3>1, <3>2, Flows
  <2> QED BY <1>5, <2>1, <2>2
<1> QED BY <1>8, <1>9, <1>10, <1>11, <1>12, <1>13 DEF Handler

\* A stream yields what its service said, in order, with the codes it meant, and
\* ends after all of it: across the session, the tunnel and both conversions.
THEOREM StreamsArrive == ASSUME NamesDistinct PROVE Spec => []StreamFaithful
<1> DEFINE Inv == RegInv /\ PathTypes /\ PathInv
<1>1. Spec => []Inv
  BY PathAlways
<1>2. Init => Streams
  <2> SUFFICES ASSUME Init PROVE Streams
    OBVIOUS
  <2>1. Fresh
    BY DEF Init, Fresh
  <2>2. \A c \in Calls : StreamInv(c)
    BY DEF Init, StreamInv, Unstarted
  <2> QED BY <2>1, <2>2 DEF Streams
<1>3. Inv /\ Streams /\ [Next]_vars => Streams'
  <2> SUFFICES ASSUME Inv, Streams, [Next]_vars PROVE Streams'
    OBVIOUS
  <2>1. CASE ServerStep \/ UNCHANGED vars
    <3>1. UNCHANGED <<client, requests, task, down, chunks>>
      BY <2>1 DEF ServerStep, Register, NewServer, ServeOne, ServeCell, SetDispatcher, vars
    <3>2. Fresh'
      BY <3>1 DEF Streams, Fresh
    <3> QED BY <3>1, <3>2, StreamKept DEF Streams
  <2>2. CASE Demux
    BY <2>2, StreamDemux
  <2>3. ASSUME NEW c \in Calls, ClientStep(c) PROVE Streams'
    <3>1. ASSUME NEW x \in Methods, NEW id \in ClientIds(x), CallUnary(c, x, id) \/ CallStream(c, x, id)
          PROVE  Streams'
      BY <3>1, StreamSend DEF CallUnary, CallStream
    <3> QED BY <2>3, <3>1, StreamAnswer, StreamRoute, StreamNext DEF ClientStep
  <2>4. ASSUME NEW c \in Calls, Start(c) \/ Handler(c) PROVE Streams'
    BY <2>4, StreamStart, StreamHandler
  <2> QED BY <2>1, <2>2, <2>3, <2>4 DEF Next
<1>4. Inv /\ Streams => StreamFaithful
  <2> SUFFICES ASSUME Inv, Streams, NEW c \in Calls, client[c].pc # "idle", IsStream(c),
                      task[c].arm = client[c].method
               PROVE  /\ Len(client[c].got) <= Len(task[c].said)
                      /\ \A k \in DOMAIN client[c].got :
                            LET Plain(r) == IF r.kind = "error" THEN r.code ELSE r.n
                            IN  /\ client[c].got[k].kind = task[c].said[k].kind
                                /\ Plain(client[c].got[k]) = Plain(task[c].said[k])
                      /\ client[c].pc = "done" => Len(client[c].got) = Len(task[c].said)
    BY DEF StreamFaithful
  <2>1. /\ client[c].got \in Seq(Frames) /\ task[c].said \in Seq(Frames) /\ Way(c) \in Seq(Frames)
        /\ Len(client[c].got) \in Nat /\ Len(task[c].said) \in Nat
        /\ DOMAIN client[c].got = 1 .. Len(client[c].got)
    BY CallTypes, LenProperties
  <2>2. CASE Quiet(c)
    <3>1. client[c].got = <<>> /\ Len(client[c].got) = 0 /\ client[c].pc = "waiting"
      BY <2>1, <2>2 DEF Quiet
    <3> QED BY <2>1, <3>1
  <2>3. CASE Flowing(c)
    <3>1. client[c].pc = "done" => Len(Way(c)) = 0
      BY <2>1, <2>3 DEF Flowing
    <3>2. Conveyed(client[c].got, Way(c), task[c].said, client[c].method)
      BY <2>3 DEF Flowing
    <3>3. \A k \in 1 .. Len(client[c].got) : Means(client[c].got[k], task[c].said[k])
      BY <3>2 DEF Conveyed
    <3>4. client[c].pc = "done" => Len(client[c].got) = Len(task[c].said)
      BY <2>1, <3>1, <3>2 DEF Conveyed
    <3> QED BY <2>1, <3>2, <3>3, <3>4 DEF Conveyed, Means
  <2> QED BY <2>2, <2>3 DEF Streams, StreamInv
<1> QED BY <1>1, <1>2, <1>3, <1>4, PTL DEF Spec
====
