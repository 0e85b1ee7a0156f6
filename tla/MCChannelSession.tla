---- MODULE MCChannelSession ----
EXTENDS ChannelSession, TLC
MCShapes == [data : {TRUE}, eos : BOOLEAN, payload_len : {1}]
MCShapesWithEosOnly == MCShapes \cup {EosOnly}

Symmetry == Permutations(Channels)

\* What an idle task worked on last, and frames sent without DATA, are not told
\* apart: no guard depends on them.
Busy(local) == [t \in {u \in Tasks : pc[u] # "idle"} |-> local[t]]
View == <<channels, tombstones, order, pc, Busy(chan), Busy(shape),
          sent, delivered>>
====
