---- MODULE MCRpcSession ----
EXTENDS RpcSession
CONSTANTS a, b, c1, c2, c3, s1, s2
MCHome == [t \in {c1, c2, c3, s1, s2} |-> IF t \in {c3, s2} THEN b ELSE a]
\* The initiator's side has two calls and a stream; the other side has none.
MCHomeOf == [t \in Tasks |-> MCHome[t]]
====
