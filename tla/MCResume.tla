------------------------------ MODULE MCResume ------------------------------
(***************************************************************************)
(* Small instances of Resume for TLC. Two names in the root and one under  *)
(* the directory "d"; a file that changes in contents, size or mtime from  *)
(* one offer to the next.                                                  *)
(***************************************************************************)
EXTENDS Resume

MCNames  == {"a", "d", "x"}
MCParent == [n \in MCNames |-> IF n = "x" THEN "d" ELSE "root"]

E(k, n, c, s, m, l) == [kind |-> k, name |-> n, of |-> c, size |-> s, mtime |-> m, long |-> l]
D          == E("Dir", "d", 5, 0, 1, FALSE)
L(n, c)    == E("Symlink", n, c, 1, 1, FALSE)
F(n, c, m) == E("File", n, c, 1, m, FALSE)
P(n, c, m) == E("File", n, c, 2, m, TRUE)

\* A tree; the same tree with one file changed and the other, of a long name, in
\* place; one name offered twice, and a link where the tree has a directory.
MCOffers ==
    { <<F("a", 1, 1), D, F("x", 2, 1)>>, <<F("a", 3, 2), D, P("x", 6, 3)>>,
      <<F("a", 1, 1), F("a", 3, 2), L("d", 4)>> }
TreeOffer == { <<F("a", 1, 1), D, F("x", 2, 1)>> }

T(a, d, x) == [n \in MCNames |-> CASE n = "a" -> a [] n = "d" -> d [] n = "x" -> x]
Other      == Node("file", 9, 1, 9, TRUE)
EmptyTree  == { T(Absent, Absent, Absent) }
MCTrees    == { T(Other, Absent, Absent) }
=============================================================================
