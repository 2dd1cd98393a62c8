----------------------------- MODULE SharedFacts -----------------------------
(***************************************************************************)
(* What the proofs about several components rest on: how many messages of  *)
(* one kind a channel holds, and that a function given by its first value  *)
(* and what each step makes of it exists.                                  *)
(***************************************************************************)
EXTENDS Integers, Sequences, FiniteSets, Functions, FiniteSetTheorems, SequenceTheorems,
        WellFoundedInduction, TLAPS

(* How a send and a recv change the number of messages of a kind.  Used    *)
(* for the buffers in the channels of both ends (pooled_recv takes them,   *)
(* the last stage gives them back).                                        *)

OfKind(q, c) == {k \in 1 .. Len(q) : q[k].kind = c}
Count(q, c)  == Cardinality(OfKind(q, c))

(* A channel that was just made, or was dropped.                           *)
LEMMA CountEmpty == ASSUME NEW c  PROVE Count(<<>>, c) = 0
  <1>1. OfKind(<<>>, c) = {}  BY DEF OfKind
  <1> QED  BY <1>1, FS_EmptySet DEF Count

LEMMA OneElement == Cardinality({} \cup {1}) = 1 /\ Cardinality({}) = 0
  BY FS_EmptySet, FS_AddElement

LEMMA CountIsNat ==
    ASSUME NEW S, NEW q \in Seq(S), NEW c
    PROVE  IsFiniteSet(OfKind(q, c)) /\ Count(q, c) \in Nat
  <1>1. IsFiniteSet(1 .. Len(q))  BY FS_Interval
  <1>2. OfKind(q, c) \in SUBSET (1 .. Len(q))  BY DEF OfKind
  <1>3. IsFiniteSet(OfKind(q, c))  BY <1>1, <1>2, FS_Subset
  <1> QED  BY <1>3, FS_CardinalityType DEF Count

LEMMA CountAtMost ==
    ASSUME NEW S, NEW q \in Seq(S), NEW c
    PROVE  Count(q, c) <= Len(q)
  <1>1. Len(q) \in Nat  BY LenProperties
  <1>2. IsFiniteSet(1 .. Len(q)) /\ Cardinality(1 .. Len(q)) = Len(q)  BY <1>1, FS_Interval
  <1>3. OfKind(q, c) \in SUBSET (1 .. Len(q))  BY DEF OfKind
  <1> QED  BY <1>2, <1>3, FS_Subset DEF Count

(* tx.send(m).                                                             *)
LEMMA CountAppend ==
    ASSUME NEW S, NEW q \in Seq(S), NEW m \in S, NEW c
    PROVE  Count(Append(q, m), c) = Count(q, c) + (IF m.kind = c THEN 1 ELSE 0)
  <1>1. /\ Len(q) \in Nat /\ Len(Append(q, m)) = Len(q) + 1
        /\ \A k \in 1 .. Len(q) : Append(q, m)[k] = q[k]
        /\ Append(q, m)[Len(q) + 1] = m
    OBVIOUS
  <1>2. IsFiniteSet(OfKind(q, c)) /\ Count(q, c) \in Nat  BY CountIsNat
  <1>3. CASE m.kind = c
    <2> DEFINE r == Append(q, m)
    <2>0. \A k : k \in 1 .. Len(r) <=> k \in 1 .. Len(q) \/ k = Len(q) + 1  BY <1>1
    <2>1. OfKind(r, c) = OfKind(q, c) \cup {Len(q) + 1}
      <3>1. Len(r) = Len(q) + 1 /\ r[Len(q) + 1].kind = c
            /\ \A k \in 1 .. Len(q) : r[k] = q[k]
        BY <1>1, <1>3
      <3> HIDE DEF r
      <3>2. \A k : k \in OfKind(r, c) <=> k \in OfKind(q, c) \/ k = Len(q) + 1
        BY <2>0, <3>1 DEF OfKind
      <3> QED  BY <3>2
    <2>2. Len(q) + 1 \notin OfKind(q, c)  BY <1>1 DEF OfKind
    <2> QED  BY <1>2, <1>3, <2>1, <2>2, FS_AddElement DEF Count
  <1>4. CASE m.kind # c
    <2>1. OfKind(Append(q, m), c) = OfKind(q, c)  BY <1>1, <1>4 DEF OfKind
    <2> QED  BY <1>2, <1>4, <2>1 DEF Count
  <1> QED  BY <1>3, <1>4

(* rx.recv().                                                              *)
LEMMA CountTail ==
    ASSUME NEW S, NEW q \in Seq(S), q # <<>>, NEW c
    PROVE  Count(q, c) = Count(Tail(q), c) + (IF Head(q).kind = c THEN 1 ELSE 0)
  <1> DEFINE rest == OfKind(q, c) \ {1}
  <1>1. /\ Len(q) \in Nat \ {0} /\ Len(Tail(q)) = Len(q) - 1 /\ Head(q) = q[1]
        /\ Tail(q) \in Seq(S)
        /\ \A k \in 1 .. Len(q) - 1 : Tail(q)[k] = q[k + 1]
    OBVIOUS
  <1>2. /\ IsFiniteSet(OfKind(q, c)) /\ Count(q, c) \in Nat
        /\ IsFiniteSet(OfKind(Tail(q), c)) /\ Count(Tail(q), c) \in Nat
    BY <1>1, CountIsNat
  <1>3. Cardinality(rest) = Cardinality(OfKind(Tail(q), c))
    <2> DEFINE f == [k \in OfKind(Tail(q), c) |-> k + 1]
    <2>1. f \in Bijection(OfKind(Tail(q), c), rest)
      <3>1. f \in [OfKind(Tail(q), c) -> rest]  BY <1>1 DEF OfKind
      <3>2. \A a, b \in OfKind(Tail(q), c) : f[a] = f[b] => a = b  BY DEF OfKind
      <3>3. \A k \in rest : \E j \in OfKind(Tail(q), c) : f[j] = k
        <4> SUFFICES ASSUME NEW k \in rest  PROVE \E j \in OfKind(Tail(q), c) : f[j] = k
          OBVIOUS
        <4>1. k - 1 \in OfKind(Tail(q), c)  BY <1>1 DEF OfKind
        <4>2. f[k - 1] = k  BY <4>1 DEF OfKind
        <4> QED  BY <4>1, <4>2
      <3> QED  BY <3>1, <3>2, <3>3 DEF Bijection, Injection, Surjection, IsInjective
    <2>2. ExistsBijection(OfKind(Tail(q), c), rest)  BY <2>1 DEF ExistsBijection
    <2> QED  BY <1>2, <2>2, FS_Bijection
  <1>4. Cardinality(rest) = IF 1 \in OfKind(q, c) THEN Count(q, c) - 1 ELSE Count(q, c)
    BY <1>2, FS_RemoveElement DEF Count
  <1>5. 1 \in OfKind(q, c) <=> Head(q).kind = c  BY <1>1 DEF OfKind
  <1> QED  BY <1>2, <1>3, <1>4, <1>5 DEF Count

LEMMA CountSingle ==
    ASSUME NEW m, NEW c
    PROVE  Count(<<m>>, c) = IF m.kind = c THEN 1 ELSE 0
  <1>1. OfKind(<<m>>, c) = IF m.kind = c THEN {} \cup {1} ELSE {}  BY DEF OfKind
  <1> QED  BY <1>1, OneElement DEF Count

(* The message in a stage's hand.                                          *)
LEMMA CountShort ==
    ASSUME NEW S, NEW q \in Seq(S), Len(q) <= 1, q # <<>>, NEW c
    PROVE  q[1] \in S /\ Count(q, c) = IF q[1].kind = c THEN 1 ELSE 0
  <1>1. Len(q) \in Nat \ {0}  BY EmptySeq
  <1>2. Len(q) = 1  BY <1>1
  <1>3. 1 .. Len(q) = {1} /\ q[1] \in S  BY <1>2
  <1>4. OfKind(q, c) = IF q[1].kind = c THEN {} \cup {1} ELSE {}
    <2>1. OfKind(q, c) = {k \in {1} : q[k].kind = c}  BY <1>3 DEF OfKind
    <2> QED  BY <2>1
  <1> QED  BY <1>3, <1>4, OneElement DEF Count

-----------------------------------------------------------------------------
(* Recursive functions.                                                    *)

LEMMA LeastOne ==
    ASSUME NEW T, T \subseteq Nat, T # {}
    PROVE  \E m \in T : \A k \in T : m <= k
  <1>1. IsWellFoundedOn(OpToRel(<, Nat), Nat)  BY NatLessThanWellFounded
  <1>2. \A x, y \in Nat : (<<y, x>> \in OpToRel(<, Nat)) <=> y < x  BY DEF OpToRel
  <1>3. PICK R : IsWellFoundedOn(R, Nat) /\ \A x, y \in Nat : (<<y, x>> \in R) <=> y < x
    BY <1>1, <1>2, Zenon
  <1>4. PICK m \in T : \A y \in T : ~(<<y, m>> \in R)  BY <1>3, WFMin
  <1>5. ASSUME NEW k \in T  PROVE m <= k
    <2>1. m \in Nat /\ k \in Nat  OBVIOUS
    <2>2. ~(k < m)  BY <1>3, <1>4, <2>1, Zenon
    <2> QED  BY <2>1, <2>2
  <1> QED  BY <1>5

Runs(f, n, a, G) == f[0] = a /\ \A k \in 1 .. n : f[k] = G[<<f[k - 1], k>>]

\* A function given by its first value and what each step makes of it exists.
LEMMA Unfolds ==
    ASSUME NEW S, NEW n \in Nat, NEW a \in S, NEW G \in [S \X (1 .. n) -> S]
    PROVE  \E f \in [0 .. n -> S] : Runs(f, n, a, G)
  <1> DEFINE Good(m, f) == f[0] = a /\ \A k \in 1 .. m : f[k] = G[<<f[k - 1], k>>]
             T == {m \in 0 .. n : ~\E f \in [0 .. m -> S] : Good(m, f)}
  <1> SUFFICES ASSUME T # {}  PROVE FALSE
    <2>1. n \in 0 .. n  OBVIOUS
    <2> QED  BY <2>1 DEF Runs
  <1>1. T \subseteq Nat  OBVIOUS
  <1>2. PICK m \in T : \A k \in T : m <= k
    <2> HIDE DEF T
    <2> QED  BY <1>1, LeastOne
  <1>3. m \in 0 .. n /\ ~\E f \in [0 .. m -> S] : Good(m, f)  OBVIOUS
  <1>4. m # 0
    <2> SUFFICES ASSUME m = 0  PROVE FALSE  OBVIOUS
    <2>1. [k \in 0 .. 0 |-> a] \in [0 .. m -> S]  OBVIOUS
    <2>2. Good(m, [k \in 0 .. 0 |-> a])  OBVIOUS
    <2> QED  BY <1>3, <2>1, <2>2
  <1>5. m - 1 \in 0 .. n /\ m - 1 \notin T /\ m \in 1 .. n
    <2>1. m \in 1 .. n /\ m - 1 \in 0 .. n /\ ~(m <= m - 1)  BY <1>3, <1>4
    <2> HIDE DEF T
    <2> QED  BY <1>2, <2>1, Zenon
  <1>6. PICK f \in [0 .. m - 1 -> S] : Good(m - 1, f)  BY <1>5
  <1> DEFINE v == G[<<f[m - 1], m>>]
             g == [k \in 0 .. m |-> IF k = m THEN v ELSE f[k]]
  <1>7. v \in S
    <2>1. m - 1 \in 0 .. m - 1  BY <1>5
    <2>2. f[m - 1] \in S  BY <2>1
    <2> QED  BY <1>5, <2>2
  <1>8. g \in [0 .. m -> S]
    <2> SUFFICES ASSUME NEW k \in 0 .. m, k # m  PROVE f[k] \in S  BY <1>7
    <2>1. k \in 0 .. m - 1  BY <1>5
    <2> QED  BY <2>1
  <1>9. Good(m, g)
    <2>1. g[0] = a
      <3>1. 0 \in 0 .. m /\ 0 # m  BY <1>5
      <3> QED  BY <1>6, <3>1
    <2>2. ASSUME NEW k \in 1 .. m  PROVE g[k] = G[<<g[k - 1], k>>]
      <3>1. k \in 0 .. m /\ k - 1 \in 0 .. m /\ k - 1 # m /\ g[k - 1] = f[k - 1]  BY <1>5
      <3>2. CASE k = m  BY <3>1, <3>2
      <3>3. CASE k # m
        <4>1. k \in 1 .. m - 1  BY <1>5, <3>3
        <4>2. g[k] = f[k]  BY <3>1, <3>3
        <4>3. f[k] = G[<<f[k - 1], k>>]  BY <1>6, <4>1
        <4> QED  BY <3>1, <4>2, <4>3
      <3> QED  BY <3>2, <3>3
    <2> QED  BY <2>1, <2>2
  <1> HIDE DEF g, Good
  <1> QED  BY <1>3, <1>8, <1>9
=============================================================================
