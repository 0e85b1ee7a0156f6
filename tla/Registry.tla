---- MODULE Registry ----
(***************************************************************************)
(* rapace-registry: the services of a process and their methods, keyed by  *)
(* the ids that travel on the wire, and the introspection that reads them. *)
(* An id is a hash of "Service.method"; the hash is a parameter here, so   *)
(* that two methods of different services may collide.                     *)
(***************************************************************************)
EXTENDS Integers, Sequences, FiniteSets

CONSTANTS
    Services,     \* the traits marked #[rapace::service]
    NameOf,       \* the name of a trait: two traits may have one name
    Trait,        \* its methods in order: [name, streaming]
    MethodNames,
    Ids,          \* the method ids
    Nothing       \* None

Methods == UNION {{<<s, i>> : i \in DOMAIN Trait[s]} : s \in Services}
Names == {NameOf[s] : s \in Services}
MName(m) == Trait[m[1]][m[2]].name
Streaming(m) == Trait[m[1]][m[2]].streaming

\* compute_method_id, a function of the two names.
IdOf(hash, m) == hash[<<NameOf[m[1]], MName(m)>>]

\* No two traits of a process have one name.  Nothing checks that.
NamesDistinct == \A s, t \in Services : NameOf[s] = NameOf[t] => s = t

\* The macro refuses a trait with two methods of one id, at compile time.
Compiles(hash) == \A m, n \in Methods : m[1] = n[1] /\ IdOf(hash, m) = IdOf(hash, n) => m = n

RegistryType == [services : [Names -> Services \cup {Nothing}],
                 methods : [Ids -> (Names \X MethodNames) \cup {Nothing}]]

Empty == [services |-> [n \in Names |-> Nothing], methods |-> [i \in Ids |-> Nothing]]

(***************************************************************************)
(* x_register(registry): the methods enter the table of ids one by one     *)
(* until one finds its id taken, which panics; the builder adds the        *)
(* service itself only in finish(), so what the panic leaves are ids of a  *)
(* service that is not there.  A service of the same name is replaced.     *)
(***************************************************************************)
\* Mutant: no check for a taken id.
Taken_Unchecked(hash, r, s, i) == FALSE
Taken(hash, r, s, i) == r.methods[IdOf(hash, <<s, i>>)] # Nothing
Collides(hash, r, s) == \E i \in DOMAIN Trait[s] : Taken(hash, r, s, i)
Added(hash, r, s) == {i \in DOMAIN Trait[s] : \A j \in 1 .. i : ~Taken(hash, r, s, j)}

Registered(hash, r, s) ==
    [services |-> IF Collides(hash, r, s) THEN r.services
                  ELSE [r.services EXCEPT ![NameOf[s]] = s],
     methods |-> [id \in Ids |->
                    IF \E i \in Added(hash, r, s) : IdOf(hash, <<s, i>>) = id
                    THEN <<NameOf[s], MName(CHOOSE m \in Methods :
                             m[1] = s /\ m[2] \in Added(hash, r, s) /\ IdOf(hash, m) = id)>>
                    ELSE r.methods[id]]]

\* lookup_method and method_by_id: the id gives two names, the names the entry.
LookupMethod(r, service, method) ==
    LET found == {m \in Methods : m[1] = r.services[service] /\ MName(m) = method}
    IN  IF found = {} THEN Nothing ELSE CHOOSE m \in found : TRUE

MethodById(r, id) ==
    IF r.methods[id] = Nothing THEN Nothing
    ELSE LookupMethod(r, r.methods[id][1], r.methods[id][2])

\* resolve_method_id
ResolveMethodId(hash, r, s, i) ==
    LET m == LookupMethod(r, NameOf[s], Trait[s][i].name)
    IN  IF m = Nothing THEN Nothing ELSE IdOf(hash, m)

\* DefaultServiceIntrospection: list_services (each service with its methods) and has_method.
ListServices(hash, r) ==
    {[name |-> n,
      methods |-> {[id |-> IdOf(hash, m), streaming |-> Streaming(m)] :
                       m \in {m \in Methods : m[1] = r.services[n]}}] :
        n \in {n \in Names : r.services[n] # Nothing}}
HasMethod(r, id) == MethodById(r, id) # Nothing
====
