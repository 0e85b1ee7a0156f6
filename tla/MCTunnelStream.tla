---- MODULE MCTunnelStream ----
(* Model checking of TunnelStream: the opener writes more than wire and      *)
(* tunnel hold, the other side a little.                                     *)
EXTENDS TunnelStream
CONSTANTS a, b
ThreeAndOne == [s \in Sides |-> IF s = Opener THEN 3 ELSE 1]
TwoEach == [s \in Sides |-> 2]
====
