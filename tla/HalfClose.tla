---- MODULE HalfClose ----
(***************************************************************************)
(* What a session promises to the application on each channel: half-close *)
(* in either direction, silence on a channel that has ended, and a new     *)
(* channel under an old number only after MaxRemembered later ones ended.  *)
(***************************************************************************)
EXTENDS Naturals, Sequences, FiniteSets

CONSTANTS Channels, MaxRemembered

VARIABLES sent,       \* [Channels -> Seq("data" | "eos")]: accepted for sending
          delivered,  \* [Channels -> Seq("data" | "eos")]: handed to the application
          ended       \* the channels known to have ended

vars == <<sent, delivered, ended>>
Kinds == {"data", "eos"}
Finished(s) == \E i \in DOMAIN s : s[i] = "eos"

Init ==
    /\ sent = [c \in Channels |-> <<>>]
    /\ delivered = [c \in Channels |-> <<>>]
    /\ ended = {}

Send(c, k) ==
    /\ ~Finished(sent[c])
    /\ c \notin ended
    /\ sent' = [sent EXCEPT ![c] = Append(@, k)]
    /\ UNCHANGED <<delivered, ended>>

Deliver(c, k) ==
    /\ ~Finished(delivered[c])
    /\ c \notin ended
    /\ delivered' = [delivered EXCEPT ![c] = Append(@, k)]
    /\ UNCHANGED <<sent, ended>>

\* The channel closed or was cancelled; the memory of others may go.
End(c, forgotten) ==
    /\ forgotten \subseteq ended
    /\ forgotten # {} => Cardinality(ended \cup {c}) > MaxRemembered
    /\ ended' = (ended \cup {c}) \ forgotten
    /\ sent' = [d \in Channels |-> IF d \in forgotten THEN <<>> ELSE sent[d]]
    /\ delivered' = [d \in Channels |-> IF d \in forgotten THEN <<>> ELSE delivered[d]]

Next ==
    \/ \E c \in Channels, k \in Kinds : Send(c, k) \/ Deliver(c, k)
    \/ \E c \in Channels, forgotten \in SUBSET ended : End(c, forgotten)

Spec == Init /\ [][Next]_vars
====
