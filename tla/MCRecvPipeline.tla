-------------------------- MODULE MCRecvPipeline --------------------------
(***************************************************************************)
(* Small instances of RecvPipeline for TLC.  Five names: "a" and "d" in    *)
(* the root, "x" and "e" in the directory "d", and "y" in "d/e", so that   *)
(* the walk to "y" goes through two components.                            *)
(***************************************************************************)
EXTENDS RecvPipeline

MCNames  == {"a", "d", "x", "e", "y"}
MCParent == [n \in MCNames |-> CASE n \in {"x", "e"} -> "d" [] n = "y" -> "e" [] OTHER -> "root"]

D(n)    == [kind |-> "Dir", name |-> n, size |-> 0, long |-> FALSE]
L(n)    == [kind |-> "Symlink", name |-> n, size |-> 1, long |-> FALSE]
F(n, k) == [kind |-> "File", name |-> n, size |-> k, long |-> FALSE]
P(n, k) == [kind |-> "File", name |-> n, size |-> k, long |-> TRUE]

\* A tree with a directory; the same file offered twice (two arguments with one
\* basename); an empty file; a symlink before a file under it; a file whose
\* directories are made on the way to it, and listed only after it.
TreeStreams ==
    { <<D("d"), F("x", 6), F("a", 3)>>, <<F("a", 3), F("a", 1), F("a", 2), F("a", 4)>>,
      <<F("a", 0), D("d"), L("x"), F("a", 1)>>, <<F("a", 1), F("x", 2), F("d", 1)>>,
      <<F("y", 1), F("x", 1), D("e"), D("d")>> }
\* A flow that meets whatever the destination holds.
ClashStreams ==
    { <<L("d"), F("x", 1)>>, <<F("d", 1), D("d")>>, <<F("a", 1), L("a")>>,
      <<P("a", 2), F("d", 1)>>, <<P("a", 1)>>, <<F("d", 1), F("y", 1)>>,
      <<D("d"), L("e"), F("y", 1)>> }
AllStreams     == TreeStreams \cup ClashStreams
DirStreams     == { <<D("d"), F("a", 1)>> }
LongStreams    == { <<D("d"), P("x", 1)>> }
LongTwiceStreams == { <<P("a", 2), P("a", 1)>> }

\* What the names of "t" hold, and nothing else.
T(t)       == [n \in MCNames |-> IF n \in DOMAIN t THEN t[n] ELSE Absent]
EmptyTree  == { T(<<>>) }
UsedTrees  == EmptyTree \cup { T([a |-> File(0), d |-> Dir, x |-> File(0)]) }
MixedTrees == { T([a |-> File(0), d |-> Dir, x |-> File(0), e |-> Dir]),
                T([a |-> Link(0), d |-> Link(0)]), T([a |-> Dir, d |-> File(0)]) }
AllTrees   == EmptyTree \cup MixedTrees
FileAtDir  == { T([d |-> File(0)]) }
=============================================================================
