----------------------------- MODULE MCExchange -----------------------------
(***************************************************************************)
(* Small instances of Exchange for TLC: bytes of two bits, so that three   *)
(* files need a second one; payloads below, at and above the stage.        *)
(***************************************************************************)
EXTENDS Exchange

D(p)    == [kind |-> "Dir", path |-> p, size |-> 0]
L(p)    == [kind |-> "Symlink", path |-> p, size |-> 1]
F(p, k) == [kind |-> "File", path |-> p, size |-> k]

MCOffers ==
    { <<F(<<"a">>, 3), D(<<"d">>), F(<<"d", "x">>, 0), F(<<"b">>, 1)>>,
      <<L(<<"a">>), F(<<"b">>, 4)>>,
      <<F(<<".", "a", "">>, 1), F(<<"a", "..", "b">>, 0)>>,
      <<D(<<"..", "a">>)>>, <<F(<<"", "a">>, 0)>>, <<F(<<".">>, 0)>>,
      <<F(<<"a", "b", "c", "d">>, 0)>>, <<>> }

G(m, v, f, t, n) == [magic |-> m, version |-> v, flags |-> f, token |-> t, streams |-> n]
One == <<1, 0>>
\* The first four are accepted.
MCGreetings ==
    { G(TRUE, 3, 0, TRUE, One), G(TRUE, 3, 1, TRUE, One),
      G(TRUE, 4, 0, TRUE, <<2, 0>>), G(TRUE, 4, 1, TRUE, <<2, 0>>),
      G(FALSE, 3, 0, TRUE, One), G(TRUE, 2, 0, TRUE, One), G(TRUE, 3, 2, TRUE, One),
      G(TRUE, 3, 0, FALSE, One), G(TRUE, 4, 0, FALSE, <<2, 0>>),
      G(TRUE, 4, 0, TRUE, <<2, 1>>), G(TRUE, 4, 0, TRUE, <<17, 0>>) }
=============================================================================
