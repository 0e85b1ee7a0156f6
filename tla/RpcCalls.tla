---- MODULE RpcCalls ----
(***************************************************************************)
(* What a session promises its callers: the handler of a call runs at most *)
(* once, and only after the call was made; a caller gets the answer to its *)
(* own request, and only after its handler ran, or else gives up.          *)
(***************************************************************************)
CONSTANT Callers

VARIABLES phase,     \* [Callers -> "new" | "called" | "answered" | "given_up"]
          executed,  \* [Callers -> Nat]: how often its handler was started
          answer     \* [Callers -> SUBSET Callers]: whose answer it got

vars == <<phase, executed, answer>>

Init ==
    /\ phase = [c \in Callers |-> "new"]
    /\ executed = [c \in Callers |-> 0]
    /\ answer = [c \in Callers |-> {}]

Call(c) ==
    /\ phase[c] = "new"
    /\ phase' = [phase EXCEPT ![c] = "called"]
    /\ UNCHANGED <<executed, answer>>

\* The handler may start after the caller has given up.
Execute(c) ==
    /\ phase[c] # "new"
    /\ executed[c] = 0
    /\ executed' = [executed EXCEPT ![c] = 1]
    /\ UNCHANGED <<phase, answer>>

Answer(c) ==
    /\ phase[c] = "called"
    /\ executed[c] = 1
    /\ phase' = [phase EXCEPT ![c] = "answered"]
    /\ answer' = [answer EXCEPT ![c] = {c}]
    /\ UNCHANGED executed

GiveUp(c) ==
    /\ phase[c] \in {"new", "called"}
    /\ phase' = [phase EXCEPT ![c] = "given_up"]
    /\ UNCHANGED <<executed, answer>>

Next == \E c \in Callers : Call(c) \/ Execute(c) \/ Answer(c) \/ GiveUp(c)

Spec == Init /\ [][Next]_vars
====
