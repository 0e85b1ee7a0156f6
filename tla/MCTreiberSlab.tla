---- MODULE MCTreiberSlab ----
(* Model checking of TreiberSlab: two links over three slots, four           *)
(* allocations in all, so both senders may want the last slot while both     *)
(* receivers push theirs.                                                    *)
EXTENDS TreiberSlab
====
