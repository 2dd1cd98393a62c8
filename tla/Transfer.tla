------------------------------ MODULE Transfer ------------------------------
(***************************************************************************)
(* What one run of the receiver promises the senders that reach it: it     *)
(* commits at most one sender's whole offer, and a sender learns success   *)
(* only after its own offer is committed.  A sender may fail at any time,  *)
(* also after the commit, when the acknowledgement is lost.                *)
(***************************************************************************)
CONSTANT Senders

VARIABLES
    committed,  \* the senders whose whole offer is in the destination
    outcome     \* what each sender was told: "none", "ok" or "failed"
vars == <<committed, outcome>>

Init == committed = {} /\ outcome = [s \in Senders |-> "none"]

Commit(s) ==
    /\ committed = {}
    /\ committed' = {s}
    /\ UNCHANGED outcome

Succeed(s) ==
    /\ outcome[s] = "none" /\ s \in committed
    /\ outcome' = [outcome EXCEPT ![s] = "ok"]
    /\ UNCHANGED committed

Fail(s) ==
    /\ outcome[s] = "none"
    /\ outcome' = [outcome EXCEPT ![s] = "failed"]
    /\ UNCHANGED committed

Next == \E s \in Senders : Commit(s) \/ Succeed(s) \/ Fail(s)
Spec == Init /\ [][Next]_vars
=============================================================================
