---- MODULE BoundedQueue ----
(***************************************************************************)
(* What a descriptor ring promises to the two processes that share it: a   *)
(* queue of at most Capacity entries, whose entries are delivered once,    *)
(* whole, and in the order in which they were put.                         *)
(***************************************************************************)
EXTENDS Naturals, Sequences

CONSTANTS Values,    \* the entries that can be put
          Capacity   \* the number of entries the queue holds

VARIABLES queue,     \* the entries put and not yet delivered
          delivered  \* every entry delivered so far, in order

vars == <<queue, delivered>>

Init ==
    /\ queue = <<>>
    /\ delivered = <<>>

Put(v) ==
    /\ Len(queue) < Capacity
    /\ queue' = Append(queue, v)
    /\ UNCHANGED delivered

Get ==
    /\ queue # <<>>
    /\ queue' = Tail(queue)
    /\ delivered' = Append(delivered, Head(queue))

Next ==
    \/ \E v \in Values : Put(v)
    \/ Get

Spec == Init /\ [][Next]_vars
====
