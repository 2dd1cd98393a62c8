----------------------------- MODULE MCSession -----------------------------
(* Instances of Session: who reaches the receiver, with how many flows.    *)
EXTENDS Session

CONSTANTS a, b

\* Both have two flows: either can hold the other's place in the backlog.
PairedFlows == [s \in Senders |-> 2]
PairedOffer == [s \in Senders |-> IF s = a THEN <<1, 2, 3>> ELSE <<4>>]
PairedFiles == {1, 4}
=============================================================================
