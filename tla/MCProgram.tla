----------------------------- MODULE MCProgram -----------------------------
(***************************************************************************)
(* One sender that discovers the receiver, and one without the phrase that *)
(* was told where it is.                                                   *)
(***************************************************************************)
EXTENDS Program

CONSTANTS a, b

ProgramFlows == [s \in Senders |-> 1]
ProgramOffer == [s \in Senders |-> IF s = a THEN <<1, 2>> ELSE <<3>>]
ProgramFiles == {1}
=============================================================================
