---- MODULE MCTypedCalls ----
EXTENDS TypedCalls, TLC

TwoNames == [s \in Services |-> s]
TwoTraits == [s \in Services |->
    IF s = "Foo" THEN <<[name |-> "u", streaming |-> FALSE], [name |-> "s", streaming |-> TRUE]>>
    ELSE <<[name |-> "s", streaming |-> TRUE], [name |-> "u", streaming |-> FALSE]>>]

\* All ids distinct; Bar.u has the id of Foo.u, Bar.s one of its own.
Distinct == (<<"Foo", "u">> :> 1) @@ (<<"Foo", "s">> :> 2) @@ (<<"Bar", "u">> :> 3) @@ (<<"Bar", "s">> :> 4)
Colliding == [Distinct EXCEPT ![<<"Bar", "u">>] = 1]
TwoHashes == {Distinct, Colliding}

TwoErrors == {Status("StaleGeneration"), [kind |-> "Cancelled"]}
====
