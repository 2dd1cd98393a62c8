----------------------------- MODULE MCSendLane -----------------------------
(* Small instances of SendLane for TLC. *)
EXTENDS SendLane

D    == [kind |-> "Dir", size |-> 0]
L(k) == [kind |-> "Symlink", size |-> k]
F(k) == [kind |-> "File", size |-> k]

\* Payloads of none, one and several buffers, a short last buffer, files after
\* each other, a symlink between them, and nothing to send.
MCLists == { <<D, F(3), F(1)>>, <<F(0), F(2)>>, <<F(1), L(1), F(0)>>, <<F(11)>>, <<L(2), F(3), D>>, <<>> }
=============================================================================
