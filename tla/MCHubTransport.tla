---- MODULE MCHubTransport ----
(* One task of the host, which sends two frames, and one of the cell over  *)
(* one slot and rings of one entry: every wait happens, and the two        *)
(* compete for what is freed.                                              *)
EXTENDS HubTransport

CONSTANTS h1, c1

MCQuota == [t \in Tasks |-> IF t = h1 THEN 2 ELSE 1]
MCKinds == [f \in SentFrames |-> CASE f = <<h1, 1>> -> {"inline"}
                                [] f = <<h1, 2>> -> {"slot"}
                                [] OTHER -> {"slot", "too_large"}]
====
