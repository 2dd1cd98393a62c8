------------------------------- MODULE Framing -------------------------------
(***************************************************************************)
(* What one flow puts on the wire: for each item its header, the units of  *)
(* its payload and, when the session verifies, the digest of that payload; *)
(* then the terminator.  A digest is the payload it covers: BLAKE3 is      *)
(* taken to be injective.                                                  *)
(***************************************************************************)
EXTENDS Integers, Sequences

Item == [kind : {"Dir", "Symlink", "File"}, size : Nat]

Header(i)        == [kind |-> "Header", of |-> i, unit |-> 0, covers |-> <<>>]
Unit(i, k)       == [kind |-> "Unit",   of |-> i, unit |-> k, covers |-> <<>>]
Digest(i, units) == [kind |-> "Digest", of |-> i, unit |-> 0, covers |-> units]
Terminator       == [kind |-> "End",    of |-> 0, unit |-> 0, covers |-> <<>>]

\* Units from + 1 .. to of item i's payload.
Units(i, from, to) == [k \in 1 .. to - from |-> Unit(i, from + k)]

\* A directory is header-only; an empty file has the digest of empty input. A
\* flow whose handshake carried FLAG_NO_VERIFY has no digests.
Frame(items, verify, i) ==
    LET units == Units(i, 0, items[i].size) IN
    <<Header(i)>> \o units \o (IF verify /\ items[i].kind # "Dir" THEN <<Digest(i, units)>> ELSE <<>>)

\* The frames of all the items, in the order they were given.
Body(items, verify) ==
    LET upto[i \in 0 .. Len(items)] == IF i = 0 THEN <<>> ELSE upto[i - 1] \o Frame(items, verify, i)
    IN  upto[Len(items)]

UnitToken == [kind : {"Unit"}, of : Nat, unit : Nat, covers : {<<>>}]
Token     == [kind : {"Header", "Unit", "Digest", "End"}, of : Nat, unit : Nat,
              covers : Seq(UnitToken)]

Prefix(s, n) == SubSeq(s, 1, n)
=============================================================================
