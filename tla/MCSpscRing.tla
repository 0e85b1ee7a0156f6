---- MODULE MCSpscRing ----
(* Two descriptors, two slots, and enough pushes to go round the ring twice. *)
EXTENDS SpscRing
====
