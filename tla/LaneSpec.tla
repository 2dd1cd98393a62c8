------------------------------ MODULE LaneSpec ------------------------------
(***************************************************************************)
(* What a sending flow promises its session, whatever its threads do: the  *)
(* wire only ever holds a prefix of the items' frames, the terminator      *)
(* follows nothing but all of them, and the flow reports success exactly   *)
(* when it has written the terminator.                                     *)
(***************************************************************************)
EXTENDS Framing

CONSTANT Lists      \* the item lists the flow may be given

VARIABLES items, verify, wire, result
vars == <<items, verify, wire, result>>

Init == items \in Lists /\ verify \in BOOLEAN /\ wire = <<>> /\ result = "none"

\* Some more of the frames reaches the wire.
Extend == \E n \in Len(wire) .. Len(Body(items, verify)) : wire' = Prefix(Body(items, verify), n)

Write ==
    /\ result = "none" /\ wire # Body(items, verify)
    /\ Extend
    /\ UNCHANGED <<items, verify, result>>

Complete ==
    /\ result = "none" /\ wire = Body(items, verify)
    /\ wire' = Append(wire, Terminator)
    /\ result' = "ok"
    /\ UNCHANGED <<items, verify>>

\* The source or the socket failed, perhaps in the middle of a write.
Fail ==
    /\ result = "none"
    /\ result' \in {"source", "socket"}
    /\ Extend
    /\ UNCHANGED <<items, verify>>

Next == Write \/ Complete \/ Fail

\* The flow always returns.
Spec == Init /\ [][Next]_vars /\ WF_vars(Next)
=============================================================================
