--------------------------- MODULE ExchangeProofs ---------------------------
(***************************************************************************)
(* What holds of Exchange for every offer, greeting, room of the socket    *)
(* and size of the stage: no read loses, repeats or reorders a byte, every *)
(* field is read as what it was written as, both ends agree on what is     *)
(* skipped and stored, they never wait for each other, and no stored path  *)
(* leaves the destination.                                                 *)
(***************************************************************************)
EXTENDS Exchange, SharedFacts, FiniteSetTheorems, SequenceTheorems, TLAPS

Fields == {"hello", "tail", "kind", "len", "path", "meta", "data", "digest", "end"}
Octet  == [part : Fields, of : Int, at : Int]

\* Everything that is, was or will be on the way to the receiver.
FlowInv ==
    /\ offer \in Offers /\ greet \in Greetings
    /\ unsent \in Seq(Octet) /\ wire \in Seq(Octet) /\ stage \in Seq(Octet)
    /\ sent \in Seq(Octet) /\ taken \in Seq(Octet)

\* Concatenation, as an operator the provers need not look into.
Cat(s, t) == s \o t

LEMMA CatTyped == \A s, t \in Seq(Octet) : Cat(s, t) \in Seq(Octet)
  BY ConcatProperties DEF Cat

LEMMA CatRegroups == \A s, t, u \in Seq(Octet) : Cat(Cat(s, t), u) = Cat(s, Cat(t, u))
  <1> TAKE s, t, u \in Seq(Octet)
  <1>1. (s \o t) \o u = s \o (t \o u)  BY ConcatAssociative, SMT
  <1> QED  BY <1>1 DEF Cat

(* What a read cuts off the front of one sequence and puts at the end of   *)
(* another: two parts, or three.                                           *)
LEMMA Regroup ==
    ASSUME NEW s \in Seq(Octet), NEW t \in Seq(Octet), NEW u \in Seq(Octet), NEW all,
           Cat(t, u) = all
    PROVE  Cat(Cat(s, t), u) = Cat(s, all)
  <1>1. Cat(Cat(s, t), u) = Cat(s, Cat(t, u))  BY CatRegroups
  <1> QED  BY <1>1

LEMMA RegroupThree ==
    ASSUME NEW s \in Seq(Octet), NEW t \in Seq(Octet), NEW u \in Seq(Octet),
           NEW v \in Seq(Octet), NEW all, Cat(Cat(t, u), v) = all
    PROVE  Cat(Cat(Cat(s, t), u), v) = Cat(s, all)
  <1>1. Cat(Cat(s, t), u) = Cat(s, Cat(t, u))  BY CatRegroups
  <1>2. Cat(t, u) \in Seq(Octet)  BY CatTyped
  <1>3. Cat(Cat(s, Cat(t, u)), v) = Cat(s, Cat(Cat(t, u), v))  BY <1>2, CatRegroups
  <1> QED  BY <1>1, <1>3

(* The two parts of a cut.                                                 *)
LEMMA CutFacts ==
    ASSUME NEW s \in Seq(Octet), NEW k \in 0 .. Len(s)
    PROVE  /\ Take(s, k) \in Seq(Octet) /\ Len(Take(s, k)) = k
           /\ Drop(s, k) \in Seq(Octet)
           /\ Take(s, k) \o Drop(s, k) = s
  <1>1. \A i \in 1 .. Len(s) : s[i] \in Octet  BY ElementOfSeq
  <1>2. Take(s, k) \in Seq(Octet) /\ Len(Take(s, k)) = k
    BY <1>1, SubSeqProperties, LenProperties DEF Take
  <1>3. Drop(s, k) \in Seq(Octet)
    BY <1>1, SubSeqProperties, LenProperties DEF Drop
  <1>4. Take(s, k) \o Drop(s, k) = SubSeq(s, 1, Len(s))
    <2>1. Len(s) \in Nat  BY LenProperties
    <2>2. 1 \in 1 .. Len(s) + 1 /\ k \in 1 - 1 .. Len(s) /\ Len(s) \in k .. Len(s)
      BY <2>1
    <2>3. SubSeq(s, 1, k) \o SubSeq(s, k + 1, Len(s)) = SubSeq(s, 1, Len(s))
      BY <2>2, ConcatAdjacentSubSeq
    <2> QED  BY <2>3 DEF Take, Drop
  <1> QED  BY <1>2, <1>3, <1>4, SubSeqFull

(* The three parts of a read that delivers m bytes and stages up to k.     *)
LEMMA StageFacts ==
    ASSUME NEW s \in Seq(Octet), NEW k \in 0 .. Len(s), NEW m \in 0 .. k
    PROVE  /\ SubSeq(s, m + 1, k) \in Seq(Octet)
           /\ (Take(s, m) \o SubSeq(s, m + 1, k)) \o Drop(s, k) = s
  <1>1. \A i \in 1 .. Len(s) : s[i] \in Octet  BY ElementOfSeq
  <1>2. Len(s) \in Nat  BY LenProperties
  <1>3. SubSeq(s, m + 1, k) \in Seq(Octet)
    BY <1>1, <1>2, SubSeqProperties
  <1>4. Take(s, m) \o SubSeq(s, m + 1, k) = Take(s, k)
    BY <1>2, ConcatAdjacentSubSeq DEF Take
  <1> QED  BY <1>3, <1>4, CutFacts

(* What the sender encodes is bytes.                                       *)
LEMMA FrameTyped ==
    ASSUME NEW o \in Offers, NEW g, NEW i \in 1 .. Len(o)
    PROVE  Header(o, i) \in Seq(Octet) /\ Frame(o, g, i) \in Seq(Octet)
  <1>1. /\ o \in Seq(Item) /\ i \in Int /\ o[i] \in Item
        /\ o[i].path \in Seq(STRING) /\ o[i].size \in Nat /\ Len(o[i].path) \in Nat
    <2>1. o \in Seq(Item) /\ i \in Int  BY ExchangeAssumption
    <2>2. o[i] \in Item  BY <2>1, ElementOfSeq
    <2>3. o[i].path \in Seq(STRING) /\ o[i].size \in Nat  BY <2>2 DEF Item
    <2> QED  BY <2>1, <2>2, <2>3, LenProperties
  <1>2. \A p \in Fields, k \in Int : Byte(p, i, k) \in Octet  BY <1>1 DEF Byte, Octet
  <1>3. [k \in 1 .. Len(o[i].path) |-> Byte("path", i, k)] \in Seq(Octet)
    <2>1. \A k \in 1 .. Len(o[i].path) : Byte("path", i, k) \in Octet  BY <1>1, <1>2 DEF Fields
    <2> QED  BY <1>1, <2>1
  <1>4. [k \in 1 .. o[i].size |-> Byte("data", i, k)] \in Seq(Octet)
    <2>1. \A k \in 1 .. o[i].size : Byte("data", i, k) \in Octet  BY <1>1, <1>2 DEF Fields
    <2> QED  BY <1>1, <2>1
  <1>5. /\ <<Byte("kind", i, 0), Byte("len", i, Len(o[i].path))>> \in Seq(Octet)
        /\ <<Byte("meta", i, 0)>> \in Seq(Octet)
        /\ <<Byte("digest", i, 0)>> \in Seq(Octet) /\ <<>> \in Seq(Octet)
    <2>1. /\ Byte("kind", i, 0) \in Octet /\ Byte("len", i, Len(o[i].path)) \in Octet
          /\ Byte("meta", i, 0) \in Octet /\ Byte("digest", i, 0) \in Octet
      BY <1>1, <1>2 DEF Fields
    <2> QED  BY <2>1
  <1>6. Header(o, i) \in Seq(Octet)  BY <1>3, <1>5, ConcatProperties DEF Header
  <1> QED  BY <1>4, <1>5, <1>6, ConcatProperties DEF Frame

LEMMA InitFlow == Init => FlowInv /\ InOrder
  <1> SUFFICES ASSUME Init  PROVE FlowInv /\ InOrder  OBVIOUS
  <1>1. <<Byte("hello", 0, 0)>> \in Seq(Octet) /\ <<Byte("tail", 0, 0)>> \in Seq(Octet)
        /\ <<>> \in Seq(Octet)
    <2>1. Byte("hello", 0, 0) \in Octet /\ Byte("tail", 0, 0) \in Octet
      BY DEF Byte, Octet, Fields
    <2> QED  BY <2>1
  <1>2. Hello(greet) \in Seq(Octet)  BY <1>1, ConcatProperties DEF Hello
  <1> QED  BY <1>1, <1>2, ConcatEmptySeq DEF Init, FlowInv, InOrder

(* Bytes go from what is unsent to the socket, in order.                   *)
LEMMA WriteFlow == FlowInv /\ InOrder /\ Write => (FlowInv /\ InOrder)'
  <1> SUFFICES ASSUME FlowInv, InOrder, Write  PROVE (FlowInv /\ InOrder)'  OBVIOUS
  <1>1. PICK k \in 1 .. Room - Len(wire) :
          /\ k <= Len(unsent)
          /\ wire' = wire \o Take(unsent, k) /\ sent' = sent \o Take(unsent, k)
          /\ unsent' = Drop(unsent, k)
    BY DEF Write
  <1>2. k \in 0 .. Len(unsent)
    BY <1>1, ExchangeAssumption, LenProperties DEF FlowInv
  <1>3. Take(unsent, k) \in Seq(Octet) /\ Drop(unsent, k) \in Seq(Octet)
    BY <1>2, CutFacts DEF FlowInv
  <1>4. FlowInv'
    BY <1>1, <1>3, ConcatProperties DEF FlowInv, Write
  <1>5. (taken \o stage) \o (wire \o Take(unsent, k)) = ((taken \o stage) \o wire) \o Take(unsent, k)
    <2>1. taken \in Seq(Octet) /\ stage \in Seq(Octet) /\ wire \in Seq(Octet)  BY DEF FlowInv
    <2>2. Cat(taken, stage) \in Seq(Octet)  BY <2>1, CatTyped
    <2>3. Cat(Cat(taken, stage), Cat(wire, Take(unsent, k))) =
            Cat(Cat(Cat(taken, stage), wire), Take(unsent, k))
      BY <1>3, <2>1, <2>2, CatRegroups
    <2> QED  BY <2>3, Zenon DEF Cat
  <1>6. InOrder'  BY <1>1, <1>5 DEF InOrder, Write
  <1> QED  BY <1>4, <1>6

(* A read off the socket takes its first bytes.                            *)
LEMMA DirectFlow ==
    ASSUME FlowInv, InOrder, NEW n \in Nat, Direct(n), stage = <<>>
    PROVE  /\ wire' \in Seq(Octet) /\ stage' \in Seq(Octet) /\ taken' \in Seq(Octet)
           /\ (taken \o stage \o wire)' = sent
  <1>1. PICK k \in 1 .. Min2(n, Len(wire)) : Delivers(Take(wire, k)) /\ wire' = Drop(wire, k)
    BY DEF Direct
  <1>2. k \in 0 .. Len(wire)  BY LenProperties DEF FlowInv, Min2
  <1>3. /\ Take(wire, k) \in Seq(Octet) /\ Drop(wire, k) \in Seq(Octet)
        /\ Take(wire, k) \o Drop(wire, k) = wire
    BY <1>2, CutFacts DEF FlowInv
  <1>4. taken' = taken \o Take(wire, k) /\ stage' = <<>>
    BY <1>1 DEF Delivers, Direct
  <1>5. taken \o wire = sent /\ taken \in Seq(Octet) /\ wire \in Seq(Octet)
    BY ConcatEmptySeq DEF FlowInv, InOrder
  <1>6. taken' \in Seq(Octet)  BY <1>3, <1>4, <1>5, ConcatProperties
  <1>7. (taken \o stage)' = taken \o Take(wire, k)
    BY <1>4, <1>6, ConcatEmptySeq
  <1>8. (taken \o Take(wire, k)) \o Drop(wire, k) = sent
    <2>1. Cat(Take(wire, k), Drop(wire, k)) = wire  BY <1>3 DEF Cat
    <2>2. Cat(Cat(taken, Take(wire, k)), Drop(wire, k)) = Cat(taken, wire)
      BY <1>3, <1>5, <2>1, Regroup
    <2> QED  BY <1>5, <2>2 DEF Cat
  <1> QED  BY <1>1, <1>3, <1>4, <1>6, <1>7, <1>8, EmptySeq

(* A staged read refills an empty stage and delivers from its front.       *)
LEMMA StagedFlow ==
    ASSUME FlowInv, InOrder, NEW n \in Nat, Staged(n)
    PROVE  /\ wire' \in Seq(Octet) /\ stage' \in Seq(Octet) /\ taken' \in Seq(Octet)
           /\ (taken \o stage \o wire)' = sent
  <1> USE DEF FlowInv
  <1>1. CASE Bypasses(n) /\ Direct(n)
    BY <1>1, DirectFlow DEF Bypasses
  <1>2. CASE /\ stage = <<>>
             /\ \E k \in 1 .. Min2(StageCap, Len(wire)) :
                  /\ Delivers(Take(wire, Min2(n, k)))
                  /\ stage' = SubSeq(wire, Min2(n, k) + 1, k)
                  /\ wire' = Drop(wire, k)
    <2>1. PICK k \in 1 .. Min2(StageCap, Len(wire)) :
                  /\ Delivers(Take(wire, Min2(n, k)))
                  /\ stage' = SubSeq(wire, Min2(n, k) + 1, k)
                  /\ wire' = Drop(wire, k)
      BY <1>2
    <2> DEFINE m == Min2(n, k)
    <2>2. k \in 0 .. Len(wire) /\ m \in 0 .. k /\ m \in 0 .. Len(wire)
      BY LenProperties, ExchangeAssumption DEF Min2
    <2> HIDE DEF m
    <2>3. /\ Take(wire, m) \in Seq(Octet) /\ Drop(wire, k) \in Seq(Octet)
          /\ SubSeq(wire, m + 1, k) \in Seq(Octet)
          /\ (Take(wire, m) \o SubSeq(wire, m + 1, k)) \o Drop(wire, k) = wire
      BY <2>2, CutFacts, StageFacts
    <2>4. /\ taken' = taken \o Take(wire, m) /\ stage' = SubSeq(wire, m + 1, k)
          /\ wire' = Drop(wire, k)
      BY <2>1 DEF Delivers, m
    <2>5. taken \o wire = sent
      BY <1>2, ConcatEmptySeq DEF InOrder
    <2>6. ((taken \o Take(wire, m)) \o SubSeq(wire, m + 1, k)) \o Drop(wire, k) = taken \o wire
      <3>1. taken \in Seq(Octet)  OBVIOUS
      <3>2. Cat(Cat(Take(wire, m), SubSeq(wire, m + 1, k)), Drop(wire, k)) = wire
        BY <2>3, Zenon DEF Cat
      <3>3. Cat(Cat(Cat(taken, Take(wire, m)), SubSeq(wire, m + 1, k)), Drop(wire, k)) =
              Cat(taken, wire)
        <4>1. /\ Take(wire, m) \in Seq(Octet) /\ SubSeq(wire, m + 1, k) \in Seq(Octet)
              /\ Drop(wire, k) \in Seq(Octet)
          BY <2>3
        <4> DEFINE x == Take(wire, m)
                   y == SubSeq(wire, m + 1, k)
                   z == Drop(wire, k)
        <4>2. x \in Seq(Octet) /\ y \in Seq(Octet) /\ z \in Seq(Octet)  BY <4>1
        <4>3. Cat(Cat(x, y), z) = wire  BY <3>2
        <4> HIDE DEF x, y, z
        <4>4. Cat(Cat(Cat(taken, x), y), z) = Cat(taken, wire)
          BY <3>1, <4>2, <4>3, RegroupThree
        <4> QED  BY <4>4 DEF x, y, z
      <3> QED  BY <3>3, Zenon DEF Cat
    <2> QED  BY <2>3, <2>4, <2>5, <2>6, ConcatProperties
  <1>3. CASE /\ stage # <<>>
             /\ Delivers(Take(stage, Min2(n, Len(stage))))
             /\ stage' = Drop(stage, Min2(n, Len(stage)))
             /\ UNCHANGED wire
    <2> DEFINE m == Min2(n, Len(stage))
    <2>1. m \in 0 .. Len(stage)  BY LenProperties DEF Min2
    <2> HIDE DEF m
    <2>2. /\ Take(stage, m) \in Seq(Octet) /\ Drop(stage, m) \in Seq(Octet)
          /\ Take(stage, m) \o Drop(stage, m) = stage
      BY <2>1, CutFacts
    <2>3. taken' = taken \o Take(stage, m) /\ stage' = Drop(stage, m) /\ wire' = wire
      BY <1>3 DEF Delivers, m
    <2>4. (taken \o Take(stage, m)) \o Drop(stage, m) = taken \o stage
      <3>1. taken \in Seq(Octet)  OBVIOUS
      <3>2. Cat(Take(stage, m), Drop(stage, m)) = stage  BY <2>2, Zenon DEF Cat
      <3>3. Cat(Cat(taken, Take(stage, m)), Drop(stage, m)) = Cat(taken, stage)
        BY <2>2, <3>1, <3>2, Regroup
      <3> QED  BY <3>3, Zenon DEF Cat
    <2> QED  BY <2>2, <2>3, <2>4, ConcatProperties DEF InOrder
  <1> QED  BY <1>1, <1>2, <1>3 DEF Staged

(* The handshake is over before anything is staged.                        *)
StageInv == rpc \in {"hello", "tail"} => stage = <<>>

LEMMA ReadFlow == FlowInv /\ InOrder /\ StageInv /\ Read => (FlowInv /\ InOrder)'
  <1> SUFFICES ASSUME FlowInv, InOrder, StageInv, Read  PROVE (FlowInv /\ InOrder)'
    OBVIOUS
  <1>1. /\ wire' \in Seq(Octet) /\ stage' \in Seq(Octet) /\ taken' \in Seq(Octet)
        /\ (taken \o stage \o wire)' = sent
    BY StagedFlow, DirectFlow DEF Read, HelloRead, StageInv
  <1>2. UNCHANGED <<offer, greet, unsent, sent>>  BY DEF Read, sendVars
  <1> QED  BY <1>1, <1>2 DEF FlowInv, InOrder

LEMMA EncodeFlow == FlowInv /\ InOrder /\ Encode => (FlowInv /\ InOrder)'
  <1> SUFFICES ASSUME FlowInv, InOrder, Encode  PROVE (FlowInv /\ InOrder)'  OBVIOUS
  <1>1. Walk \subseteq 1 .. Len(offer)  BY DEF Walk, Dealt, Kept
  <1>2. <<End>> \in Seq(Octet)
    <2>1. End \in Octet  BY DEF End, Byte, Octet, Fields
    <2> QED  BY <2>1
  <1>3. unsent' \in Seq(Octet)
    BY <1>1, <1>2, FrameTyped DEF Encode, FlowInv
  <1>4. UNCHANGED <<offer, greet, wire, stage, sent, taken>>  BY DEF Encode
  <1> QED  BY <1>3, <1>4 DEF FlowInv, InOrder

(* Everything else leaves the bytes alone.                                 *)
LEMMA BytesStay ==
    ASSUME FlowInv, InOrder, UNCHANGED <<offer, greet, unsent, wire, stage, sent, taken>>
    PROVE  (FlowInv /\ InOrder)'
  BY DEF FlowInv, InOrder

Turns == \/ GotHello \/ GotKind \/ GotLen \/ GotPath \/ GotListed \/ GotHeader
         \/ GotPayload \/ Answer \/ Acknowledge \/ ReceiverFails

LEMMA TurnsStay ==
    ASSUME Turns
    PROVE  UNCHANGED <<offer, greet, unsent, wire, stage, sent, taken>>
  BY DEF Turns, GotHello, GotKind, GotLen, GotPath, GotListed, GotHeader, GotPayload, Answer,
         Acknowledge, ReceiverFails, sendVars

LEMMA StageStep == StageInv /\ [Next]_vars => StageInv'
  <1> SUFFICES ASSUME StageInv, [Next]_vars  PROVE StageInv'  OBVIOUS
  <1>1. CASE Read
    BY <1>1 DEF Read, HelloRead, Direct, StageInv, recvVars
  <1>2. CASE GotHello
    BY <1>2 DEF GotHello, Has, NextField, Stops, StageInv
  <1>3. CASE GotKind \/ GotLen \/ GotPath \/ GotListed
    BY <1>3 DEF GotKind, GotLen, GotPath, GotListed, Has, NextField, StageInv
  <1>4. CASE GotHeader \/ GotPayload \/ Answer \/ Acknowledge \/ ReceiverFails
    BY <1>4 DEF GotHeader, GotPayload, Answer, Acknowledge, ReceiverFails, Has, NextField,
                Stops, StageInv
  <1>5. CASE SenderStep
    BY <1>5 DEF SenderStep, Write, Encode, Written, ReadBitmap, ReadAck, SenderFails, recvVars,
                StageInv
  <1>6. CASE UNCHANGED vars  BY <1>6 DEF vars, recvVars, StageInv
  <1> QED  BY <1>1, <1>2, <1>3, <1>4, <1>5, <1>6 DEF Next, ReceiverStep

LEMMA FlowStep ==
    ASSUME FlowInv, InOrder, StageInv, [Next]_vars
    PROVE  (FlowInv /\ InOrder)'
  <1>1. CASE Write  BY <1>1, WriteFlow
  <1>2. CASE Encode  BY <1>2, EncodeFlow
  <1>3. CASE Read  BY <1>3, ReadFlow
  <1>4. CASE Turns  BY <1>4, TurnsStay, BytesStay
  <1>5. CASE Written \/ ReadBitmap \/ ReadAck \/ SenderFails
    BY <1>5, BytesStay DEF Written, ReadBitmap, ReadAck, SenderFails
  <1>6. CASE UNCHANGED vars  BY <1>6, BytesStay DEF vars, sendVars
  <1> QED  BY <1>1, <1>2, <1>3, <1>4, <1>5, <1>6 DEF Next, SenderStep, ReceiverStep, Turns

(* What the receiver read, what it has staged and what is in the socket    *)
(* are together what the sender wrote, in order, for every offer and       *)
(* greeting and whatever the sizes of the stage, of the socket and of the  *)
(* reads: Staged::read and the unstaged handshake never lose a byte.       *)
THEOREM NothingLost == Spec => []InOrder
  <1>1. Init => StageInv  BY DEF Init, StageInv
  <1>2. FlowInv /\ InOrder /\ StageInv /\ [Next]_vars => (FlowInv /\ InOrder)'  BY FlowStep
  <1> QED  BY <1>1, <1>2, InitFlow, StageStep, PTL DEF Spec

-----------------------------------------------------------------------------
(* The grammar of what is sent: units, each one entry or terminator.       *)

\* Where an entry or a terminator starts, and which it is.
Starts(s)   == {k \in 1 .. Len(s) : s[k].part \in {"kind", "end"}}
Which(o, s, k) == IF s[k].part = "end" THEN Len(o) + 1 ELSE s[k].of

\* A byte after the first terminator is of the data phase.
InData(s, k) == \E j \in 1 .. k - 1 : s[j].part = "end"

Unit(o, g, p, i) == IF i = Len(o) + 1 THEN <<End>> ELSE IF p THEN Frame(o, g, i) ELSE Header(o, i)

Covers(s, k, u) == k + Len(u) - 1 <= Len(s) /\ \A d \in 1 .. Len(u) : s[k + d - 1] = u[d]

\* After item i of the walk w of n items comes j; the terminator is item n + 1.
Order(w, n, i, j) ==
    \/ j \in w /\ i < j /\ \A m \in w : i < m => j <= m
    \/ j = n + 1 /\ i <= n /\ \A m \in w : m <= i

\* k is where what follows item i starts in phase p; 0 is the phase's beginning.
AtPhase(g, s, p, k) ==
    \/ ~p /\ k = Len(Hello(g)) + 1
    \/ p /\ k - 1 \in Starts(s) /\ s[k - 1].part = "end" /\ ~InData(s, k - 1)
Ends(o, g, s, p, i, j, k) ==
    /\ Which(o, s, j) = i /\ InData(s, j) = p /\ k = j + Len(Unit(o, g, p, i))
Boundary(o, g, s, p, i, k) ==
    \/ i = 0 /\ AtPhase(g, s, p, k)
    \/ i # 0 /\ \E j \in Starts(s) : Ends(o, g, s, p, i, j, k)

\* w[p] is what the sender walks in phase p.
Units(o, g, s) ==
    /\ Covers(s, 1, Hello(g))
    /\ \A k \in Starts(s) : /\ Which(o, s, k) \in 1 .. Len(o) + 1
                            /\ Covers(s, k, Unit(o, g, InData(s, k), Which(o, s, k)))
                            /\ s[k].part = "end" /\ InData(s, k) => k = Len(s)
Orders(o, g, w, s) ==
    \A p \in BOOLEAN, i \in 0 .. Len(o), k \in 1 .. Len(s) :
         Boundary(o, g, s, p, i, k) =>
            k \in Starts(s) /\ Order(w[p], Len(o), i, Which(o, s, k))

Extends(s, t) == Len(s) <= Len(t) /\ \A k \in 1 .. Len(s) : t[k] = s[k]

(* What the bytes of an entry and of a terminator are.                     *)
HeaderLen(o, i) == Len(o[i].path) + 3
LEMMA ItemFacts ==
    ASSUME NEW o \in Offers, NEW i \in 1 .. Len(o)
    PROVE  /\ o \in Seq(Item) /\ Len(o) \in Nat /\ i \in Nat /\ i > 0 /\ i <= Len(o)
           /\ o[i] \in Item /\ Len(o[i].path) \in Nat /\ o[i].size \in Nat
           /\ HeaderLen(o, i) \in Nat
           /\ o[i].kind \in {"File", "Dir", "Symlink"}
           /\ o[i].kind = "Dir" => o[i].size = 0
           /\ o[i].path \in Seq(STRING) /\ o[i].path # <<>>
  <1>1. o \in Seq(Item)  BY ExchangeAssumption
  <1>2. o[i] \in Item  BY <1>1, ElementOfSeq
  <1>3. Len(o) \in Nat  BY <1>1, LenProperties
  <1>4. o[i].path \in Seq(STRING) /\ o[i].size \in Nat /\ o[i].kind \in {"File", "Dir", "Symlink"}
    BY <1>2 DEF Item
  <1>5. Len(o[i].path) \in Nat  BY <1>4, LenProperties
  <1> QED  BY <1>1, <1>2, <1>3, <1>4, <1>5, ExchangeAssumption DEF HeaderLen

LEMMA ByteFields == ASSUME NEW p, NEW i, NEW k
    PROVE  Byte(p, i, k).part = p /\ Byte(p, i, k).of = i /\ Byte(p, i, k).at = k
  BY DEF Byte

LEMMA ByteTyped == ASSUME NEW p \in Fields, NEW i \in Int, NEW k \in Int  PROVE Byte(p, i, k) \in Octet
  BY DEF Byte, Octet

(* Two sequences one after the other.                                      *)
LEMMA CatFacts ==
    ASSUME NEW s \in Seq(Octet), NEW t \in Seq(Octet)
    PROVE  /\ s \o t \in Seq(Octet) /\ Len(s) \in Nat /\ Len(t) \in Nat
           /\ Len(s \o t) = Len(s) + Len(t)
           /\ \A k \in 1 .. Len(s) : (s \o t)[k] = s[k]
           /\ \A k \in 1 .. Len(t) : (s \o t)[Len(s) + k] = t[k]
  <1>1. s \o t \in Seq(Octet) /\ Len(s) \in Nat /\ Len(t) \in Nat
        /\ Len(s \o t) = Len(s) + Len(t)
    BY ConcatProperties, LenProperties
  <1>2. \A k \in 1 .. Len(s) : (s \o t)[k] = s[k]
    <2> TAKE k \in 1 .. Len(s)
    <2>1. k \in 1 .. Len(s) + Len(t) /\ k <= Len(s)  BY <1>1
    <2> QED  BY <2>1, ConcatProperties
  <1>3. \A k \in 1 .. Len(t) : (s \o t)[Len(s) + k] = t[k]
    <2> TAKE k \in 1 .. Len(t)
    <2>1. Len(s) + k \in 1 .. Len(s) + Len(t) /\ ~(Len(s) + k <= Len(s))
          /\ Len(s) + k - Len(s) = k
      BY <1>1
    <2>2. (s \o t)[Len(s) + k] = t[Len(s) + k - Len(s)]  BY <2>1, ConcatProperties
    <2> QED  BY <2>1, <2>2
  <1> QED  BY <1>1, <1>2, <1>3

(* An entry's header: its kind, the length of its path, the path, the rest.*)
LEMMA HeaderBytes ==
    ASSUME NEW o \in Offers, NEW i \in 1 .. Len(o)
    PROVE  /\ Header(o, i) \in Seq(Octet) /\ Len(Header(o, i)) = HeaderLen(o, i)
           /\ Header(o, i)[1] = Byte("kind", i, 0)
           /\ Header(o, i)[2] = Byte("len", i, Len(o[i].path))
           /\ \A d \in 1 .. Len(o[i].path) : Header(o, i)[d + 2] = Byte("path", i, d)
           /\ Header(o, i)[HeaderLen(o, i)] = Byte("meta", i, 0)
  <1> DEFINE n == Len(o[i].path)
             a == <<Byte("kind", i, 0), Byte("len", i, n)>>
             f == [k \in 1 .. n |-> Byte("path", i, k)]
             m == <<Byte("meta", i, 0)>>
  <1>1. n \in Nat /\ i \in Int  BY ItemFacts
  <1>2. a \in Seq(Octet) /\ Len(a) = 2 /\ a[1] = Byte("kind", i, 0) /\ a[2] = Byte("len", i, n)
    <2>1. Byte("kind", i, 0) \in Octet /\ Byte("len", i, n) \in Octet
      BY <1>1, ByteTyped DEF Fields
    <2> QED  BY <2>1
  <1>3. f \in Seq(Octet) /\ Len(f) = n /\ \A k \in 1 .. n : f[k] = Byte("path", i, k)
    <2>1. \A k \in 1 .. n : Byte("path", i, k) \in Octet  BY <1>1, ByteTyped DEF Fields
    <2> QED  BY <1>1, <2>1
  <1>4. m \in Seq(Octet) /\ Len(m) = 1 /\ m[1] = Byte("meta", i, 0)
    <2>1. Byte("meta", i, 0) \in Octet  BY <1>1, ByteTyped DEF Fields
    <2> QED  BY <2>1
  <1>5. Header(o, i) = (a \o f) \o m  BY DEF Header
  <1> HIDE DEF a, f, m, n
  <1>6. /\ a \o f \in Seq(Octet) /\ Len(a \o f) = n + 2
        /\ (a \o f)[1] = a[1] /\ (a \o f)[2] = a[2]
        /\ \A k \in 1 .. n : (a \o f)[k + 2] = f[k]
    <2>1. /\ a \o f \in Seq(Octet) /\ Len(a \o f) = Len(a) + Len(f)
          /\ \A k \in 1 .. Len(a) : (a \o f)[k] = a[k]
          /\ \A k \in 1 .. Len(f) : (a \o f)[Len(a) + k] = f[k]
      BY <1>2, <1>3, CatFacts
    <2>2. \A k \in 1 .. n : 2 + k = k + 2  BY <1>1
    <2> QED  BY <1>1, <1>2, <1>3, <2>1, <2>2
  <1> DEFINE h == (a \o f) \o m
  <1>7. /\ h \in Seq(Octet) /\ Len(h) = n + 3
        /\ \A k \in 1 .. n + 2 : h[k] = (a \o f)[k]
        /\ h[n + 3] = m[1]
    <2> DEFINE b == a \o f
    <2>1. b \in Seq(Octet) /\ Len(b) = n + 2  BY <1>6
    <2> HIDE DEF b
    <2>2. /\ b \o m \in Seq(Octet) /\ Len(b \o m) = n + 3
          /\ \A k \in 1 .. n + 2 : (b \o m)[k] = b[k]
          /\ (b \o m)[n + 3] = m[1]
      <3>1. /\ b \o m \in Seq(Octet) /\ Len(b \o m) = Len(b) + Len(m)
            /\ \A k \in 1 .. Len(b) : (b \o m)[k] = b[k]
            /\ \A k \in 1 .. Len(m) : (b \o m)[Len(b) + k] = m[k]
        BY <1>4, <2>1, CatFacts
      <3>2. (b \o m)[Len(b) + 1] = m[1]  BY <1>4, <3>1
      <3>3. n + 2 + 1 = n + 3  BY <1>1
      <3> QED  BY <1>1, <1>4, <2>1, <3>1, <3>2, <3>3
    <2> QED  BY <2>2 DEF b
  <1> HIDE DEF h
  <1>8. Header(o, i) = h  BY <1>5 DEF h
  <1>9. \A k \in 1 .. n : h[k + 2] = f[k]
    <2>1. \A k \in 1 .. n : k + 2 \in 1 .. n + 2  BY <1>1
    <2> QED  BY <1>6, <1>7, <2>1
  <1>10. h[1] = a[1] /\ h[2] = a[2]  BY <1>1, <1>6, <1>7
  <1>11. HeaderLen(o, i) = n + 3  BY DEF HeaderLen, n
  <1> QED  BY <1>2, <1>3, <1>4, <1>7, <1>8, <1>9, <1>10, <1>11 DEF n

(* An entry in the data phase: then its payload, and its digest.           *)
Digests(o, g, i) == Verify(g) /\ o[i].kind # "Dir"
FrameLen(o, g, i) == HeaderLen(o, i) + o[i].size + (IF Digests(o, g, i) THEN 1 ELSE 0)
FrameStarts(o, g, i) == \A d \in 1 .. HeaderLen(o, i) : Frame(o, g, i)[d] = Header(o, i)[d]
FrameCarries(o, g, i) ==
    \A d \in 1 .. o[i].size : Frame(o, g, i)[HeaderLen(o, i) + d] = Byte("data", i, d)
FrameEnds(o, g, i) ==
    Digests(o, g, i) => Frame(o, g, i)[FrameLen(o, g, i)] = Byte("digest", i, 0)

LEMMA FrameBytes ==
    ASSUME NEW o \in Offers, NEW g, NEW i \in 1 .. Len(o)
    PROVE  /\ Frame(o, g, i) \in Seq(Octet) /\ Len(Frame(o, g, i)) = FrameLen(o, g, i)
           /\ FrameLen(o, g, i) \in Nat
           /\ FrameStarts(o, g, i) /\ FrameCarries(o, g, i) /\ FrameEnds(o, g, i)
  <1> DEFINE h == Header(o, i)
             f == [k \in 1 .. o[i].size |-> Byte("data", i, k)]
             e == IF Digests(o, g, i) THEN <<Byte("digest", i, 0)>> ELSE <<>>
             z == o[i].size
             n == HeaderLen(o, i)
  <1>1. z \in Nat /\ n \in Nat /\ i \in Int  BY ItemFacts
  <1>2. h \in Seq(Octet) /\ Len(h) = n  BY HeaderBytes
  <1>3. f \in Seq(Octet) /\ Len(f) = z /\ \A k \in 1 .. z : f[k] = Byte("data", i, k)
    <2>1. \A k \in 1 .. z : Byte("data", i, k) \in Octet  BY <1>1, ByteTyped DEF Fields
    <2> QED  BY <1>1, <2>1
  <1>4. /\ e \in Seq(Octet) /\ Len(e) = (IF Digests(o, g, i) THEN 1 ELSE 0)
        /\ Digests(o, g, i) => e[1] = Byte("digest", i, 0)
    <2>1. Byte("digest", i, 0) \in Octet  BY <1>1, ByteTyped DEF Fields
    <2> QED  BY <2>1
  <1>5. Frame(o, g, i) = (h \o f) \o e  BY DEF Frame, Digests
  <1>6. FrameLen(o, g, i) = n + z + Len(e)  BY <1>4 DEF FrameLen
  <1> HIDE DEF h, f, e, z, n
  <1> DEFINE b == h \o f
  <1>7. /\ b \in Seq(Octet) /\ Len(b) = Len(h) + Len(f)
        /\ \A k \in 1 .. Len(h) : b[k] = h[k]
        /\ \A k \in 1 .. Len(f) : b[Len(h) + k] = f[k]
    BY <1>2, <1>3, CatFacts
  <1> HIDE DEF b
  <1> DEFINE r == b \o e
  <1>8. /\ r \in Seq(Octet) /\ Len(r) = Len(b) + Len(e)
        /\ \A k \in 1 .. Len(b) : r[k] = b[k]
        /\ \A k \in 1 .. Len(e) : r[Len(b) + k] = e[k]
    BY <1>4, <1>7, CatFacts
  <1>9. Frame(o, g, i) = r  BY <1>5 DEF r, b
  <1> HIDE DEF r
  <1>10. Len(b) = n + z  BY <1>2, <1>3, <1>7
  <1>11. \A d \in 1 .. n : r[d] = h[d]
    <2> TAKE d \in 1 .. n
    <2>1. d \in 1 .. Len(b) /\ d \in 1 .. Len(h)  BY <1>1, <1>2, <1>10
    <2> QED  BY <2>1, <1>7, <1>8
  <1>12. \A d \in 1 .. z : r[n + d] = f[d]
    <2> TAKE d \in 1 .. z
    <2>1. n + d \in 1 .. Len(b) /\ d \in 1 .. Len(f)  BY <1>1, <1>3, <1>10
    <2>2. b[n + d] = f[d]  BY <1>2, <1>7, <2>1
    <2> QED  BY <2>1, <2>2, <1>8
  <1>13. Digests(o, g, i) => r[FrameLen(o, g, i)] = Byte("digest", i, 0)
    BY <1>4, <1>6, <1>8, <1>10
  <1>14. Len(r) = FrameLen(o, g, i) /\ FrameLen(o, g, i) \in Nat
    BY <1>1, <1>4, <1>6, <1>8, <1>10
  <1>15. FrameStarts(o, g, i)  BY <1>9, <1>11 DEF FrameStarts, h, n
  <1>16. FrameCarries(o, g, i)
    <2>1. \A d \in 1 .. z : r[n + d] = Byte("data", i, d)  BY <1>3, <1>12
    <2> QED  BY <1>9, <2>1 DEF FrameCarries, n, z
  <1>17. FrameEnds(o, g, i)  BY <1>9, <1>13 DEF FrameEnds
  <1> QED  BY <1>8, <1>9, <1>14, <1>15, <1>16, <1>17

\* What each byte of a unit is.
UnitLen(o, g, p, i) ==
    IF i = Len(o) + 1 THEN 1 ELSE IF p THEN FrameLen(o, g, i) ELSE HeaderLen(o, i)

UnitLens(o, g, p, i) ==
    /\ Unit(o, g, p, i) \in Seq(Octet) /\ Len(Unit(o, g, p, i)) = UnitLen(o, g, p, i)
    /\ UnitLen(o, g, p, i) \in Nat
    /\ UnitLen(o, g, p, i) = (IF p THEN FrameLen(o, g, i) ELSE Len(o[i].path) + 3)
    /\ Len(o[i].path) + 3 <= UnitLen(o, g, p, i)
UnitHead(o, g, p, i) ==
    /\ Unit(o, g, p, i)[1] = Byte("kind", i, 0)
    /\ Unit(o, g, p, i)[2] = Byte("len", i, Len(o[i].path))
    /\ Unit(o, g, p, i)[Len(o[i].path) + 3] = Byte("meta", i, 0)
UnitPath(o, g, p, i) ==
    \A d \in 3 .. Len(o[i].path) + 2 : Unit(o, g, p, i)[d] = Byte("path", i, d - 2)
UnitData(o, g, p, i) ==
    p => \A d \in Len(o[i].path) + 4 .. Len(o[i].path) + 3 + o[i].size :
            Unit(o, g, p, i)[d] = Byte("data", i, d - (Len(o[i].path) + 3))
UnitDigest(o, g, p, i) ==
    p /\ Digests(o, g, i) =>
        Unit(o, g, p, i)[Len(o[i].path) + 4 + o[i].size] = Byte("digest", i, 0)

LEMMA UnitFields ==
    ASSUME NEW o \in Offers, NEW g, NEW p \in BOOLEAN, NEW i \in 1 .. Len(o)
    PROVE  /\ UnitLens(o, g, p, i) /\ UnitHead(o, g, p, i) /\ UnitPath(o, g, p, i)
           /\ UnitData(o, g, p, i) /\ UnitDigest(o, g, p, i)
  <1> DEFINE u == Unit(o, g, p, i)
             n == Len(o[i].path)
             z == o[i].size
  <1>1. n \in Nat /\ z \in Nat /\ i # Len(o) + 1 /\ HeaderLen(o, i) = n + 3
    BY ItemFacts DEF HeaderLen
  <1>2. u = IF p THEN Frame(o, g, i) ELSE Header(o, i)  BY <1>1 DEF Unit
  <1>3. UnitLen(o, g, p, i) = IF p THEN FrameLen(o, g, i) ELSE n + 3  BY <1>1 DEF UnitLen
  <1>4. FrameLen(o, g, i) = n + 3 + z + (IF Digests(o, g, i) THEN 1 ELSE 0)
    BY <1>1 DEF FrameLen
  <1>5. /\ Header(o, i) \in Seq(Octet) /\ Len(Header(o, i)) = n + 3
        /\ Header(o, i)[1] = Byte("kind", i, 0) /\ Header(o, i)[2] = Byte("len", i, n)
        /\ \A d \in 1 .. n : Header(o, i)[d + 2] = Byte("path", i, d)
        /\ Header(o, i)[n + 3] = Byte("meta", i, 0)
    <2>1. HeaderLen(o, i) = n + 3  BY <1>1
    <2> QED  BY <2>1, HeaderBytes
  <1>6. /\ Frame(o, g, i) \in Seq(Octet) /\ Len(Frame(o, g, i)) = FrameLen(o, g, i)
        /\ FrameStarts(o, g, i) /\ FrameCarries(o, g, i) /\ FrameEnds(o, g, i)
    BY FrameBytes
  <1> DEFINE h == Header(o, i)
  <1> HIDE DEF u, n, z, h
  <1>7. \A d \in 1 .. n + 3 : u[d] = h[d]
    BY <1>1, <1>2, <1>6 DEF FrameStarts, h
  <1>8. UnitLens(o, g, p, i)
    <2>1. u \in Seq(Octet) /\ Len(u) = UnitLen(o, g, p, i)  BY <1>2, <1>3, <1>5, <1>6
    <2>2. UnitLen(o, g, p, i) \in Nat /\ n + 3 <= UnitLen(o, g, p, i)  BY <1>1, <1>3, <1>4
    <2> QED  BY <1>3, <2>1, <2>2 DEF UnitLens, u, n
  <1>9. UnitHead(o, g, p, i)
    <2>1. 1 \in 1 .. n + 3 /\ 2 \in 1 .. n + 3 /\ n + 3 \in 1 .. n + 3  BY <1>1
    <2>2. u[1] = h[1] /\ u[2] = h[2] /\ u[n + 3] = h[n + 3]  BY <1>7, <2>1
    <2> QED  BY <1>5, <2>2 DEF UnitHead, u, n, h
  <1>10. UnitPath(o, g, p, i)
    <2> SUFFICES ASSUME NEW d \in 3 .. n + 2  PROVE u[d] = Byte("path", i, d - 2)
      BY DEF UnitPath, u, n
    <2>1. d \in 1 .. n + 3 /\ d - 2 \in 1 .. n /\ (d - 2) + 2 = d  BY <1>1
    <2>2. u[d] = h[d]  BY <1>7, <2>1
    <2>3. h[(d - 2) + 2] = Byte("path", i, d - 2)  BY <1>5, <2>1 DEF h
    <2> QED  BY <2>1, <2>2, <2>3
  <1>11. UnitData(o, g, p, i)
    <2> SUFFICES ASSUME p, NEW d \in n + 4 .. n + 3 + z
                 PROVE  u[d] = Byte("data", i, d - (n + 3))
      BY DEF UnitData, u, n, z
    <2> DEFINE e == d - (n + 3)
    <2>1. e \in 1 .. z /\ HeaderLen(o, i) + e = d  BY <1>1
    <2> HIDE DEF e
    <2>2. e \in 1 .. o[i].size  BY <2>1 DEF z
    <2>3. Frame(o, g, i)[HeaderLen(o, i) + e] = Byte("data", i, e)
      BY <1>6, <2>2 DEF FrameCarries
    <2> QED  BY <1>2, <2>1, <2>3 DEF e
  <1>12. UnitDigest(o, g, p, i)
    <2> SUFFICES ASSUME p, Digests(o, g, i)  PROVE u[n + 4 + z] = Byte("digest", i, 0)
      BY DEF UnitDigest, u, n, z
    <2>1. FrameLen(o, g, i) = n + 4 + z  BY <1>1, <1>4
    <2>2. Frame(o, g, i)[FrameLen(o, g, i)] = Byte("digest", i, 0)  BY <1>6 DEF FrameEnds
    <2> QED  BY <1>2, <2>1, <2>2
  <1> QED  BY <1>8, <1>9, <1>10, <1>11, <1>12

\* Only the first byte of a unit starts one.
OneUnit(u, o, g, p, i) ==
    /\ u \in Seq(Octet) /\ Len(u) = UnitLen(o, g, p, i)
    /\ Len(u) \in Nat /\ Len(u) >= 1
    /\ u[1].part \in {"kind", "end"}
    /\ u[1].part = "end" <=> i = Len(o) + 1
    /\ i <= Len(o) => u[1].of = i
    /\ i = Len(o) + 1 => u[1] = End
    /\ \A d \in 2 .. Len(u) : u[d].part \notin {"kind", "end"}

LEMMA UnitFacts ==
    ASSUME NEW o \in Offers, NEW g, NEW p \in BOOLEAN, NEW i \in 1 .. Len(o) + 1
    PROVE  OneUnit(Unit(o, g, p, i), o, g, p, i)
  <1> DEFINE u == Unit(o, g, p, i)
  <1>0. Len(o) \in Nat
    <2>1. o \in Seq(Item)  BY ExchangeAssumption
    <2> QED  BY <2>1, LenProperties
  <1>1. CASE i = Len(o) + 1
    <2>1. u = <<End>> /\ UnitLen(o, g, p, i) = 1  BY <1>1 DEF Unit, UnitLen
    <2>2. End \in Octet /\ End.part = "end"  BY ByteTyped, ByteFields DEF End, Fields
    <2>3. u \in Seq(Octet) /\ Len(u) = 1 /\ u[1] = End  BY <2>1, <2>2
    <2> HIDE DEF u
    <2>4. ~(i <= Len(o)) /\ (2 .. Len(u)) = {}  BY <1>0, <1>1, <2>3
    <2>5. u[1].part = "end" /\ u[1].part \in {"kind", "end"}  BY <2>2, <2>3
    <2> QED
      <3>1. Len(u) \in Nat /\ Len(u) >= 1 /\ \A d \in 2 .. Len(u) : u[d].part \notin {"kind", "end"}
        BY <2>3, <2>4
      <3>2. Len(u) = UnitLen(o, g, p, i)  BY <2>1, <2>3
      <3>3. i <= Len(o) => u[1].of = i  BY <2>4
      <3> QED  BY <1>1, <2>3, <2>5, <3>1, <3>2, <3>3 DEF u, OneUnit
  <1>2. CASE i # Len(o) + 1
    <2>1. i \in 1 .. Len(o)  BY <1>0, <1>2
    <2> DEFINE n == Len(o[i].path)
               z == o[i].size
    <2>2. n \in Nat /\ z \in Nat  BY <2>1, ItemFacts
    <2>0. /\ UnitLens(o, g, p, i) /\ UnitHead(o, g, p, i) /\ UnitPath(o, g, p, i)
          /\ UnitData(o, g, p, i) /\ UnitDigest(o, g, p, i)
      BY <2>1, UnitFields
    <2>3. /\ u \in Seq(Octet) /\ Len(u) = UnitLen(o, g, p, i) /\ Len(u) \in Nat
          /\ UnitLen(o, g, p, i) = (IF p THEN FrameLen(o, g, i) ELSE n + 3)
          /\ n + 3 <= Len(u)
      BY <2>0 DEF UnitLens
    <2>4. /\ u[1] = Byte("kind", i, 0) /\ u[2] = Byte("len", i, n)
          /\ \A d \in 3 .. n + 2 : u[d] = Byte("path", i, d - 2)
          /\ u[n + 3] = Byte("meta", i, 0)
          /\ p => \A d \in n + 4 .. n + 3 + z : u[d] = Byte("data", i, d - (n + 3))
          /\ p /\ Digests(o, g, i) => u[n + 4 + z] = Byte("digest", i, 0)
      BY <2>0, Zenon DEF UnitHead, UnitPath, UnitData, UnitDigest
    <2>5. FrameLen(o, g, i) = n + 3 + z + (IF Digests(o, g, i) THEN 1 ELSE 0)
      BY DEF FrameLen, HeaderLen
    <2> HIDE DEF u, n, z
    <2>6. ASSUME NEW d \in 2 .. Len(u)  PROVE u[d].part \notin {"kind", "end"}
      <3>1. d = 2 \/ d \in 3 .. n + 2 \/ d = n + 3 \/ d > n + 3  BY <2>2, <2>3
      <3>2. CASE d = 2  BY <2>4, <3>2, ByteFields
      <3>3. CASE d \in 3 .. n + 2
        <4>1. u[d] = Byte("path", i, d - 2)  BY <2>4, <3>3
        <4> QED  BY <4>1, ByteFields
      <3>4. CASE d = n + 3  BY <2>4, <3>4, ByteFields
      <3>5. CASE d > n + 3
        <4>1. p  BY <2>2, <2>3, <3>5
        <4>2. d \in n + 4 .. n + 3 + z \/ (d = n + 4 + z /\ Digests(o, g, i))
          BY <2>2, <2>3, <2>5, <3>5, <4>1
        <4>3. CASE d \in n + 4 .. n + 3 + z
          <5>1. u[d] = Byte("data", i, d - (n + 3))  BY <2>4, <4>1, <4>3
          <5> QED  BY <5>1, ByteFields
        <4>4. CASE d = n + 4 + z /\ Digests(o, g, i)
          BY <2>4, <4>1, <4>4, ByteFields
        <4> QED  BY <4>2, <4>3, <4>4
      <3> QED  BY <3>1, <3>2, <3>3, <3>4, <3>5
    <2>7. u[1].part = "kind" /\ u[1].of = i  BY <2>4, ByteFields
    <2> QED  BY <1>0, <1>2, <2>1, <2>2, <2>3, <2>6, <2>7 DEF u, OneUnit
  <1> QED  BY <1>1, <1>2

-----------------------------------------------------------------------------
(* Where units start and end in a sequence that is one greeting and units. *)

HelloPart(g) == 1 .. Len(Hello(g))
LEMMA HelloBytes ==
    ASSUME NEW g
    PROVE  /\ Hello(g) \in Seq(Octet) /\ Len(Hello(g)) = (IF Multi(g) THEN 2 ELSE 1)
           /\ Hello(g)[1] = Byte("hello", 0, 0)
           /\ Multi(g) => Hello(g)[2] = Byte("tail", 0, 0)
           /\ \A k \in 1 .. Len(Hello(g)) : Hello(g)[k].part \notin {"kind", "end"}
  <1>1. Byte("hello", 0, 0) \in Octet /\ Byte("tail", 0, 0) \in Octet
    BY ByteTyped DEF Fields
  <1> DEFINE h == <<Byte("hello", 0, 0)>>
             t == IF Multi(g) THEN <<Byte("tail", 0, 0)>> ELSE <<>>
  <1>2. h \in Seq(Octet) /\ Len(h) = 1 /\ h[1] = Byte("hello", 0, 0)  BY <1>1
  <1>3. /\ t \in Seq(Octet) /\ Len(t) = (IF Multi(g) THEN 1 ELSE 0)
        /\ Multi(g) => t[1] = Byte("tail", 0, 0)
    BY <1>1
  <1>4. Hello(g) = h \o t  BY DEF Hello
  <1> HIDE DEF h, t
  <1>5. /\ h \o t \in Seq(Octet) /\ Len(h \o t) = Len(h) + Len(t)
        /\ \A k \in 1 .. Len(h) : (h \o t)[k] = h[k]
        /\ \A k \in 1 .. Len(t) : (h \o t)[Len(h) + k] = t[k]
    BY <1>2, <1>3, CatFacts
  <1>6. Hello(g) \in Seq(Octet) /\ Len(Hello(g)) = (IF Multi(g) THEN 2 ELSE 1)
        /\ Hello(g)[1] = Byte("hello", 0, 0)
    BY <1>2, <1>3, <1>4, <1>5
  <1>7. Multi(g) => Hello(g)[2] = Byte("tail", 0, 0)
    <2> SUFFICES ASSUME Multi(g)  PROVE Hello(g)[2] = Byte("tail", 0, 0)  OBVIOUS
    <2>1. 1 \in 1 .. Len(t) /\ Len(h) + 1 = 2  BY <1>2, <1>3
    <2>2. (h \o t)[Len(h) + 1] = t[1]  BY <1>5, <2>1
    <2> QED  BY <1>3, <1>4, <2>1, <2>2
  <1>8. \A k \in 1 .. Len(Hello(g)) : Hello(g)[k].part \notin {"kind", "end"}
    <2> TAKE k \in 1 .. Len(Hello(g))
    <2>1. k = 1 \/ (k = 2 /\ Multi(g))  BY <1>6
    <2> QED  BY <1>6, <1>7, <2>1, ByteFields
  <1> QED  BY <1>6, <1>7, <1>8

(* What a position that starts a unit is.                                  *)
LEMMA StartFacts ==
    ASSUME NEW o \in Offers, NEW g, NEW s \in Seq(Octet), Units(o, g, s), NEW k \in Starts(s)
    PROVE  /\ k \in 1 .. Len(s) /\ Len(s) \in Nat /\ k \in Nat /\ Len(o) \in Nat
           /\ Which(o, s, k) \in 1 .. Len(o) + 1 /\ InData(s, k) \in BOOLEAN
           /\ s[k].part = "end" <=> Which(o, s, k) = Len(o) + 1
           /\ UnitLen(o, g, InData(s, k), Which(o, s, k)) \in Nat
           /\ UnitLen(o, g, InData(s, k), Which(o, s, k)) >= 1
           /\ k + UnitLen(o, g, InData(s, k), Which(o, s, k)) - 1 <= Len(s)
           /\ Len(Unit(o, g, InData(s, k), Which(o, s, k))) = UnitLen(o, g, InData(s, k), Which(o, s, k))
           /\ \A d \in 1 .. UnitLen(o, g, InData(s, k), Which(o, s, k)) :
                s[k + d - 1] = Unit(o, g, InData(s, k), Which(o, s, k))[d]
  <1> DEFINE i == Which(o, s, k)
             p == InData(s, k)
             u == Unit(o, g, p, i)
  <1>1. k \in 1 .. Len(s) /\ Len(s) \in Nat /\ k \in Nat  BY LenProperties DEF Starts
  <1>2. i \in 1 .. Len(o) + 1 /\ Covers(s, k, u)  BY DEF Units
  <1>3. p \in BOOLEAN  BY DEF InData
  <1>4. /\ Len(u) = UnitLen(o, g, p, i) /\ Len(u) \in Nat /\ Len(u) >= 1
        /\ u[1].part = "end" <=> i = Len(o) + 1
    <2>1. OneUnit(u, o, g, p, i)  BY <1>2, <1>3, UnitFacts
    <2> HIDE DEF u
    <2> QED  BY <2>1 DEF OneUnit
  <1>5. s[k] = u[1]
    <2>1. 1 \in 1 .. Len(u) /\ k + 1 - 1 = k  BY <1>1, <1>4
    <2>2. s[k + 1 - 1] = u[1]  BY <1>2, <2>1 DEF Covers
    <2> QED  BY <2>1, <2>2
  <1>6. Len(o) \in Nat
    <2>1. o \in Seq(Item)  BY ExchangeAssumption
    <2> QED  BY <2>1, LenProperties
  <1> HIDE DEF u, p, i
  <1>7. k + Len(u) - 1 <= Len(s) /\ \A d \in 1 .. Len(u) : s[k + d - 1] = u[d]
    BY <1>2 DEF Covers
  <1> QED  BY <1>1, <1>2, <1>3, <1>4, <1>5, <1>6, <1>7 DEF u, p, i

(* Units do not overlap.                                                   *)
LEMMA UnitsApart ==
    ASSUME NEW o \in Offers, NEW g, NEW s \in Seq(Octet), Units(o, g, s),
           NEW j \in Starts(s), NEW k \in Starts(s), j < k
    PROVE  j + UnitLen(o, g, InData(s, j), Which(o, s, j)) <= k
  <1> DEFINE i == Which(o, s, j)
             p == InData(s, j)
             n == UnitLen(o, g, p, i)
             u == Unit(o, g, p, i)
  <1>1. /\ j \in Nat /\ k \in Nat /\ n \in Nat /\ n >= 1 /\ i \in 1 .. Len(o) + 1 /\ p \in BOOLEAN
        /\ Len(u) = n /\ \A d \in 1 .. n : s[j + d - 1] = u[d]
    BY StartFacts
  <1>2. \A d \in 2 .. n : u[d].part \notin {"kind", "end"}
    <2>1. OneUnit(u, o, g, p, i)  BY <1>1, UnitFacts
    <2> HIDE DEF u, n, p, i
    <2> QED  BY <1>1, <2>1 DEF OneUnit
  <1>3. s[k].part \in {"kind", "end"}  BY DEF Starts
  <1> HIDE DEF u, n, p, i
  <1>4. SUFFICES ASSUME k < j + n  PROVE FALSE  BY <1>1 DEF n, p, i
  <1> DEFINE d == k - j + 1
  <1>5. d \in 1 .. n /\ d \in 2 .. n /\ j + d - 1 = k  BY <1>1, <1>4
  <1> HIDE DEF d
  <1>6. s[k] = u[d]  BY <1>1, <1>5
  <1> QED  BY <1>2, <1>3, <1>5, <1>6

(* The greeting comes first.                                               *)
LEMMA StartsAfterHello ==
    ASSUME NEW o, NEW g, NEW s \in Seq(Octet), Units(o, g, s), NEW k \in Starts(s)
    PROVE  k > Len(Hello(g))
  <1>1. k \in Nat /\ k >= 1 /\ Len(Hello(g)) \in Nat  BY LenProperties, HelloBytes DEF Starts
  <1>2. SUFFICES ASSUME k <= Len(Hello(g))  PROVE FALSE  BY <1>1
  <1>3. k \in 1 .. Len(Hello(g)) /\ 1 + k - 1 = k  BY <1>1, <1>2
  <1>4. s[1 + k - 1] = Hello(g)[k]  BY <1>3 DEF Units, Covers
  <1> QED  BY <1>3, <1>4, HelloBytes DEF Starts

(* A terminator is a start, and what comes after it is of the data phase.  *)
LEMMA EndStarts ==
    ASSUME NEW s, NEW k \in 1 .. Len(s), s[k].part = "end"  PROVE k \in Starts(s)
  BY DEF Starts

(* The phase of what starts at a boundary.                                 *)
LEMMA BoundaryPhase ==
    ASSUME NEW o \in Offers, NEW g, NEW s \in Seq(Octet), Units(o, g, s),
           NEW p \in BOOLEAN, NEW i \in 0 .. Len(o), NEW k \in 1 .. Len(s) + 1,
           Boundary(o, g, s, p, i, k)
    PROVE  InData(s, k) = p
  <1>0. Len(s) \in Nat /\ k \in Nat  BY LenProperties
  <1>1. CASE i = 0 /\ ~p
    <2>1. k = Len(Hello(g)) + 1  BY <1>1 DEF Boundary, AtPhase
    <2>2. \A j \in 1 .. k - 1 : s[j].part # "end"
      <3> TAKE j \in 1 .. k - 1
      <3>1. j \in 1 .. Len(s) /\ ~(j > Len(Hello(g)))  BY <1>0, <2>1, HelloBytes
      <3>2. j \notin Starts(s)  BY <3>1, StartsAfterHello
      <3> QED  BY <3>1, <3>2, EndStarts
    <2> QED  BY <1>1, <2>2 DEF InData
  <1>2. CASE i = 0 /\ p
    <2>1. k - 1 \in 1 .. Len(s) /\ s[k - 1].part = "end"  BY <1>2 DEF Boundary, AtPhase, Starts
    <2>2. k - 1 \in 1 .. k - 1  BY <1>0, <2>1
    <2> QED  BY <1>2, <2>1, <2>2 DEF InData
  <1>3. CASE i # 0
    <2>1. PICK j \in Starts(s) : Ends(o, g, s, p, i, j, k)  BY <1>3 DEF Boundary
    <2>2. Which(o, s, j) = i /\ InData(s, j) = p /\ k = j + UnitLen(o, g, p, i)
      BY <2>1, StartFacts DEF Ends
    <2>3. j \in Nat /\ UnitLen(o, g, p, i) \in Nat /\ UnitLen(o, g, p, i) >= 1 /\ Len(o) \in Nat
          /\ s[j].part # "end"
      BY <2>2, StartFacts
    <2>4. CASE p
      <3>1. PICK e \in 1 .. j - 1 : s[e].part = "end"  BY <2>2, <2>4 DEF InData
      <3>2. e \in 1 .. k - 1  BY <1>0, <2>2, <2>3, <3>1
      <3> QED  BY <2>4, <3>1, <3>2 DEF InData
    <2>5. CASE ~p
      <3>1. \A e \in 1 .. k - 1 : s[e].part # "end"
        <4> SUFFICES ASSUME NEW e \in 1 .. k - 1, s[e].part = "end"  PROVE FALSE  OBVIOUS
        <4>1. e \in 1 .. Len(s) /\ e \in Nat  BY <1>0
        <4>2. e \in Starts(s)  BY <4>1, EndStarts
        <4>3. ~(e < j)
          <5>1. e < j => e \in 1 .. j - 1  BY <2>3, <4>1
          <5> QED  BY <2>2, <2>5, <5>1 DEF InData
        <4>4. e # j  BY <2>3
        <4>5. j < e  BY <2>3, <4>1, <4>3, <4>4
        <4>6. k <= e  BY <2>2, <4>2, <4>5, UnitsApart
        <4> QED  BY <1>0, <4>1, <4>6
      <3> QED  BY <2>5, <3>1 DEF InData
    <2> QED  BY <2>4, <2>5
  <1> QED  BY <1>1, <1>2, <1>3

(* A position is the boundary of one item at most.                         *)
LEMMA BoundaryUnique ==
    ASSUME NEW o \in Offers, NEW g, NEW s \in Seq(Octet), Units(o, g, s),
           NEW p \in BOOLEAN, NEW i \in 0 .. Len(o), NEW q \in BOOLEAN, NEW j \in 0 .. Len(o),
           NEW k \in 1 .. Len(s) + 1,
           Boundary(o, g, s, p, i, k), Boundary(o, g, s, q, j, k)
    PROVE  p = q /\ i = j
  <1>0. Len(s) \in Nat /\ k \in Nat /\ Len(o) \in Nat
    <2>1. o \in Seq(Item)  BY ExchangeAssumption
    <2> QED  BY <2>1, LenProperties
  <1>1. p = q  BY BoundaryPhase
  <1>2. ASSUME NEW m \in 1 .. Len(o), Boundary(o, g, s, p, m, k), AtPhase(g, s, p, k)
        PROVE  FALSE
    <2>1. PICK a \in Starts(s) : Ends(o, g, s, p, m, a, k)  BY <1>0, <1>2 DEF Boundary
    <2>2. /\ Which(o, s, a) = m /\ k = a + UnitLen(o, g, p, m)
          /\ UnitLen(o, g, InData(s, a), Which(o, s, a)) = UnitLen(o, g, p, m)
      BY <2>1, StartFacts DEF Ends
    <2>3. a \in Nat /\ UnitLen(o, g, p, m) \in Nat /\ UnitLen(o, g, p, m) >= 1 /\ s[a].part # "end"
      BY <1>0, <1>2, <2>2, StartFacts
    <2>4. CASE ~p
      <3>1. k = Len(Hello(g)) + 1  BY <1>2, <2>4 DEF AtPhase
      <3>2. a > Len(Hello(g))  BY StartsAfterHello
      <3> QED  BY <2>2, <2>3, <3>1, <3>2, HelloBytes
    <2>5. CASE p
      <3>1. k - 1 \in Starts(s) /\ s[k - 1].part = "end"  BY <1>2, <2>5 DEF AtPhase
      <3>2. a # k - 1  BY <2>3, <3>1
      <3>3. a < k - 1  BY <1>0, <2>2, <2>3, <3>2
      <3>4. k <= k - 1  BY <2>2, <3>1, <3>3, UnitsApart
      <3> QED  BY <1>0, <3>4
    <2> QED  BY <2>4, <2>5
  <1>3. CASE i = 0 \/ j = 0
    BY <1>0, <1>1, <1>2, <1>3 DEF Boundary
  <1>4. CASE i # 0 /\ j # 0
    <2>1. PICK a \in Starts(s) : Ends(o, g, s, p, i, a, k)  BY <1>4 DEF Boundary
    <2>2. PICK b \in Starts(s) : Ends(o, g, s, q, j, b, k)  BY <1>4 DEF Boundary
    <2>3. /\ Which(o, s, a) = i /\ k = a + UnitLen(o, g, InData(s, a), Which(o, s, a))
          /\ Which(o, s, b) = j /\ k = b + UnitLen(o, g, InData(s, b), Which(o, s, b))
      BY <2>1, <2>2, StartFacts DEF Ends
    <2>4. /\ a \in Nat /\ b \in Nat
          /\ UnitLen(o, g, InData(s, a), Which(o, s, a)) \in Nat
          /\ UnitLen(o, g, InData(s, a), Which(o, s, a)) >= 1
          /\ UnitLen(o, g, InData(s, b), Which(o, s, b)) \in Nat
          /\ UnitLen(o, g, InData(s, b), Which(o, s, b)) >= 1
      BY StartFacts
    <2>5. ~(a < b)
      <3>1. a < b => k <= b  BY <2>3, UnitsApart
      <3> QED  BY <2>3, <2>4, <3>1
    <2>6. ~(b < a)
      <3>1. b < a => k <= a  BY <2>3, UnitsApart
      <3> QED  BY <2>3, <2>4, <3>1
    <2>7. a = b  BY <2>4, <2>5, <2>6
    <2> QED  BY <1>1, <2>3, <2>7
  <1> QED  BY <1>1, <1>3, <1>4

-----------------------------------------------------------------------------
(* What more bytes at the end leave as it is.                              *)
LEMMA StartsExtend ==
    ASSUME NEW s \in Seq(Octet), NEW t \in Seq(Octet), Extends(s, t)
    PROVE  /\ \A k \in 1 .. Len(s) : (k \in Starts(t) <=> k \in Starts(s)) /\ t[k] = s[k]
           /\ \A k \in 1 .. Len(s) + 1 : InData(t, k) = InData(s, k)
  <1>1. Len(s) \in Nat /\ Len(t) \in Nat /\ Len(s) <= Len(t)  BY LenProperties DEF Extends
  <1>2. \A k \in 1 .. Len(s) : t[k] = s[k] /\ k \in 1 .. Len(t)  BY <1>1 DEF Extends
  <1>3. \A k \in 1 .. Len(s) : k \in Starts(t) <=> k \in Starts(s)  BY <1>2 DEF Starts
  <1>4. \A k \in 1 .. Len(s) + 1 : InData(t, k) = InData(s, k)
    <2> TAKE k \in 1 .. Len(s) + 1
    <2>1. \A j \in 1 .. k - 1 : t[j] = s[j]  BY <1>1, <1>2
    <2> QED  BY <2>1 DEF InData
  <1> QED  BY <1>2, <1>3, <1>4

LEMMA WhichExtends ==
    ASSUME NEW o, NEW s, NEW t, Extends(s, t), NEW k \in 1 .. Len(s)
    PROVE  Which(o, t, k) = Which(o, s, k)
  BY DEF Extends, Which

(* A boundary inside a sequence is the same in what extends it.            *)
LEMMA BoundaryExtends ==
    ASSUME NEW o \in Offers, NEW g, NEW s \in Seq(Octet), NEW t \in Seq(Octet),
           Units(o, g, s), Extends(s, t),
           NEW p \in BOOLEAN, NEW i \in 0 .. Len(o) + 1, NEW k \in 1 .. Len(s) + 1,
           Boundary(o, g, s, p, i, k)
    PROVE  Boundary(o, g, t, p, i, k)
  <1>0. Len(s) \in Nat /\ k \in Nat /\ Len(o) \in Nat
    <2>1. o \in Seq(Item)  BY ExchangeAssumption
    <2> QED  BY <2>1, LenProperties
  <1>1. CASE i = 0
    <2>1. AtPhase(g, s, p, k)  BY <1>0, <1>1 DEF Boundary
    <2>2. CASE ~p  BY <1>1, <2>1, <2>2 DEF Boundary, AtPhase
    <2>3. CASE p
      <3>1. k - 1 \in Starts(s) /\ s[k - 1].part = "end" /\ ~InData(s, k - 1)
        BY <2>1, <2>3 DEF AtPhase
      <3>2. k - 1 \in 1 .. Len(s) /\ k - 1 \in 1 .. Len(s) + 1  BY <1>0, <3>1 DEF Starts
      <3>3. k - 1 \in Starts(t) /\ t[k - 1].part = "end" /\ ~InData(t, k - 1)
        BY <3>1, <3>2, StartsExtend
      <3> QED  BY <1>1, <2>3, <3>3 DEF Boundary, AtPhase
    <2> QED  BY <2>2, <2>3
  <1>2. CASE i # 0
    <2>1. PICK j \in Starts(s) : Ends(o, g, s, p, i, j, k)  BY <1>2 DEF Boundary
    <2>2. j \in 1 .. Len(s) /\ j \in 1 .. Len(s) + 1  BY <1>0, <2>1 DEF Starts
    <2>3. j \in Starts(t) /\ Which(o, t, j) = Which(o, s, j) /\ InData(t, j) = InData(s, j)
      BY <2>1, <2>2, StartsExtend, WhichExtends
    <2>4. Ends(o, g, t, p, i, j, k)  BY <2>1, <2>3 DEF Ends
    <2> QED  BY <1>2, <2>3, <2>4 DEF Boundary
  <1> QED  BY <1>1, <1>2

LEMMA BoundaryWithin ==
    ASSUME NEW o \in Offers, NEW g, NEW s \in Seq(Octet), NEW t \in Seq(Octet),
           Units(o, g, t), Extends(s, t),
           NEW p \in BOOLEAN, NEW i \in 0 .. Len(o) + 1, NEW k \in 1 .. Len(s) + 1,
           Boundary(o, g, t, p, i, k)
    PROVE  Boundary(o, g, s, p, i, k)
  <1>0. Len(s) \in Nat /\ k \in Nat /\ Len(o) \in Nat
    <2>1. o \in Seq(Item)  BY ExchangeAssumption
    <2> QED  BY <2>1, LenProperties
  <1>1. CASE i = 0
    <2>1. AtPhase(g, t, p, k)  BY <1>0, <1>1 DEF Boundary
    <2>2. CASE ~p  BY <1>1, <2>1, <2>2 DEF Boundary, AtPhase
    <2>3. CASE p
      <3>1. k - 1 \in Starts(t) /\ t[k - 1].part = "end" /\ ~InData(t, k - 1)
        BY <2>1, <2>3 DEF AtPhase
      <3>2. k - 1 \in 1 .. Len(s) /\ k - 1 \in 1 .. Len(s) + 1  BY <1>0, <3>1 DEF Starts
      <3>3. k - 1 \in Starts(s) /\ s[k - 1].part = "end" /\ ~InData(s, k - 1)
        BY <3>1, <3>2, StartsExtend
      <3> QED  BY <1>1, <2>3, <3>3 DEF Boundary, AtPhase
    <2> QED  BY <2>2, <2>3
  <1>2. CASE i # 0
    <2>1. PICK j \in Starts(t) : Ends(o, g, t, p, i, j, k)  BY <1>2 DEF Boundary
    <2>2. k = j + UnitLen(o, g, p, i) /\ UnitLen(o, g, p, i) >= 1
          /\ UnitLen(o, g, p, i) \in Nat /\ j \in Nat /\ j \in 1 .. Len(t)
      BY <2>1, StartFacts DEF Ends
    <2>3. j \in 1 .. Len(s) /\ j \in 1 .. Len(s) + 1  BY <1>0, <2>2
    <2>4. j \in Starts(s) /\ Which(o, t, j) = Which(o, s, j) /\ InData(t, j) = InData(s, j)
      BY <2>1, <2>3, StartsExtend, WhichExtends
    <2>5. Ends(o, g, s, p, i, j, k)  BY <2>1, <2>4 DEF Ends
    <2> QED  BY <1>2, <2>4, <2>5 DEF Boundary
  <1> QED  BY <1>1, <1>2

(* After an item, the bytes do not end with the data phase's terminator.   *)
LEMMA NotOver ==
    ASSUME NEW o \in Offers, NEW g, NEW s \in Seq(Octet), Units(o, g, s),
           NEW p \in BOOLEAN, NEW i \in 0 .. Len(o), Boundary(o, g, s, p, i, Len(s) + 1),
           NEW e \in Starts(s), s[e].part = "end", InData(s, e)
    PROVE  FALSE
  <1>0. Len(s) \in Nat /\ Len(o) \in Nat /\ Len(s) + 1 - 1 = Len(s)
    <2>1. o \in Seq(Item)  BY ExchangeAssumption
    <2> QED  BY <2>1, LenProperties
  <1>1. e = Len(s)  BY DEF Units
  <1>2. Which(o, s, e) = Len(o) + 1  BY DEF Which
  <1>3. CASE i = 0 /\ ~p
    <2>1. Len(s) + 1 = Len(Hello(g)) + 1  BY <1>3 DEF Boundary, AtPhase
    <2>2. e > Len(Hello(g))  BY StartsAfterHello
    <2> QED  BY <1>0, <1>1, <2>1, <2>2, HelloBytes
  <1>4. CASE i = 0 /\ p
    <2>1. ~InData(s, Len(s) + 1 - 1)  BY <1>4 DEF Boundary, AtPhase
    <2> QED  BY <1>0, <1>1, <2>1
  <1>5. CASE i # 0
    <2>1. PICK j \in Starts(s) : Ends(o, g, s, p, i, j, Len(s) + 1)  BY <1>5 DEF Boundary
    <2>2. Which(o, s, j) = i /\ Len(s) + 1 = j + UnitLen(o, g, InData(s, j), Which(o, s, j))
          /\ j \in Nat /\ j <= Len(s)
      BY <2>1, StartFacts DEF Ends
    <2>3. j # e
      <3>1. i # Len(o) + 1  BY <1>0
      <3> QED  BY <1>2, <2>2, <3>1
    <2>4. j < e
      <3>1. \A a, b \in Nat : a <= b /\ a # b => a < b  OBVIOUS
      <3> QED  BY <1>0, <1>1, <2>2, <2>3, <3>1, Zenon
    <2>5. Len(s) + 1 <= e  BY <2>2, <2>4, UnitsApart
    <2> QED  BY <1>0, <1>1, <2>5
  <1> QED  BY <1>3, <1>4, <1>5

(* One unit more.                                                          *)
LEMMA Longer ==
    ASSUME NEW s \in Seq(Octet), NEW u \in Seq(Octet)
    PROVE  /\ s \o u \in Seq(Octet) /\ Extends(s, s \o u)
           /\ Len(s \o u) = Len(s) + Len(u) /\ Len(s) \in Nat /\ Len(u) \in Nat
           /\ Covers(s \o u, Len(s) + 1, u)
  <1>1. /\ s \o u \in Seq(Octet) /\ Len(s) \in Nat /\ Len(u) \in Nat
        /\ Len(s \o u) = Len(s) + Len(u)
        /\ \A k \in 1 .. Len(s) : (s \o u)[k] = s[k]
        /\ \A k \in 1 .. Len(u) : (s \o u)[Len(s) + k] = u[k]
    BY CatFacts
  <1>2. Extends(s, s \o u)  BY <1>1 DEF Extends
  <1>3. Covers(s \o u, Len(s) + 1, u)
    <2>1. Len(s) + 1 + Len(u) - 1 <= Len(s \o u)  BY <1>1
    <2>2. \A d \in 1 .. Len(u) : (s \o u)[Len(s) + 1 + d - 1] = u[d]
      <3> TAKE d \in 1 .. Len(u)
      <3>1. Len(s) + 1 + d - 1 = Len(s) + d  BY <1>1
      <3> QED  BY <1>1, <3>1
    <2> QED  BY <2>1, <2>2 DEF Covers
  <1> QED  BY <1>1, <1>2, <1>3

More(o, g, s, p, j) == s \o Unit(o, g, p, j)

LEMMA NextUnit ==
    ASSUME NEW o \in Offers, NEW g, NEW s \in Seq(Octet), Units(o, g, s),
           NEW p \in BOOLEAN, NEW i \in 0 .. Len(o), Boundary(o, g, s, p, i, Len(s) + 1),
           NEW j \in 1 .. Len(o) + 1
    PROVE  /\ Units(o, g, More(o, g, s, p, j)) /\ More(o, g, s, p, j) \in Seq(Octet)
           /\ Extends(s, More(o, g, s, p, j))
           /\ Len(More(o, g, s, p, j)) = Len(s) + UnitLen(o, g, p, j)
           /\ Starts(More(o, g, s, p, j)) = Starts(s) \cup {Len(s) + 1}
           /\ Which(o, More(o, g, s, p, j), Len(s) + 1) = j
           /\ InData(More(o, g, s, p, j), Len(s) + 1) = p
  <1> DEFINE u == Unit(o, g, p, j)
             t == More(o, g, s, p, j)
             n == Len(s)
             m == UnitLen(o, g, p, j)
  <1>0. Len(o) \in Nat
    <2>1. o \in Seq(Item)  BY ExchangeAssumption
    <2> QED  BY <2>1, LenProperties
  <1>1. /\ u \in Seq(Octet) /\ Len(u) = m /\ m \in Nat /\ m >= 1
        /\ u[1].part \in {"kind", "end"}
        /\ u[1].part = "end" <=> j = Len(o) + 1
        /\ j <= Len(o) => u[1].of = j
        /\ \A d \in 2 .. Len(u) : u[d].part \notin {"kind", "end"}
    <2>1. OneUnit(u, o, g, p, j)  BY UnitFacts
    <2> HIDE DEF u
    <2> QED  BY <2>1 DEF OneUnit
  <1>2. t \in Seq(Octet) /\ Extends(s, t) /\ Len(t) = n + m /\ n \in Nat /\ Covers(t, n + 1, u)
    BY <1>1, Longer DEF More
  <1>3. UnitLen(o, g, p, Len(o) + 1) = 1  BY DEF UnitLen
  <1> HIDE DEF u, t
  <1>4. \A d \in 1 .. m : t[n + 1 + d - 1] = u[d]  BY <1>1, <1>2 DEF Covers
  <1>5. t[n + 1] = u[1]
    <2>1. 1 \in 1 .. m /\ n + 1 + 1 - 1 = n + 1  BY <1>1, <1>2
    <2>2. t[n + 1 + 1 - 1] = u[1]  BY <1>4, <2>1
    <2> QED  BY <2>1, <2>2
  <1>6. Which(o, t, n + 1) = j
    <2>1. CASE j = Len(o) + 1  BY <1>1, <1>5, <2>1 DEF Which
    <2>2. CASE j <= Len(o)  BY <1>0, <1>1, <1>5, <2>2 DEF Which
    <2> QED  BY <1>0, <2>1, <2>2
  <1>7. InData(t, n + 1) = p
    <2>1. n + 1 \in 1 .. n + 1  BY <1>2
    <2>2. InData(s, n + 1) = p  BY <2>1, BoundaryPhase
    <2>3. InData(t, n + 1) = InData(s, n + 1)  BY <1>2, <2>1, StartsExtend
    <2> QED  BY <2>2, <2>3
  <1>8. Starts(t) = Starts(s) \cup {n + 1}
    <2>1. ASSUME NEW k \in Starts(t), k \notin Starts(s), k # n + 1  PROVE FALSE
      <3>1. k \in 1 .. n + m /\ t[k].part \in {"kind", "end"}  BY <1>2, <2>1 DEF Starts
      <3>2. k > n + 1
        <4>1. k \notin 1 .. n  BY <1>2, <2>1, StartsExtend
        <4> QED  BY <1>1, <1>2, <2>1, <3>1, <4>1
      <3> DEFINE d == k - n
      <3>3. d \in 1 .. m /\ d \in 2 .. Len(u) /\ n + 1 + d - 1 = k  BY <1>1, <1>2, <3>1, <3>2
      <3> HIDE DEF d
      <3>4. t[k] = u[d]  BY <1>4, <3>3
      <3> QED  BY <1>1, <3>1, <3>3, <3>4
    <2>2. \A k \in Starts(s) : k \in Starts(t)
      <3> TAKE k \in Starts(s)
      <3>1. k \in 1 .. Len(s)  BY DEF Starts
      <3> QED  BY <1>2, <3>1, StartsExtend
    <2>3. n + 1 \in Starts(t)
      <3>1. n + 1 \in 1 .. Len(t)  BY <1>1, <1>2
      <3> QED  BY <1>1, <1>5, <3>1 DEF Starts
    <2> QED  BY <2>1, <2>2, <2>3
  <1>9. Covers(t, 1, Hello(g))
    <2>1. Covers(s, 1, Hello(g)) /\ Len(Hello(g)) \in Nat  BY LenProperties, HelloBytes DEF Units
    <2>2. 1 + Len(Hello(g)) - 1 <= Len(s) /\ \A d \in 1 .. Len(Hello(g)) : s[1 + d - 1] = Hello(g)[d]
      BY <2>1 DEF Covers
    <2>3. \A d \in 1 .. Len(Hello(g)) : 1 + d - 1 \in 1 .. n  BY <1>2, <2>1, <2>2
    <2>4. \A d \in 1 .. Len(Hello(g)) : t[1 + d - 1] = s[1 + d - 1]  BY <1>2, <2>3, StartsExtend
    <2> QED  BY <1>1, <1>2, <2>1, <2>2, <2>4 DEF Covers
  <1>10. ASSUME NEW k \in Starts(s)
         PROVE  /\ Which(o, t, k) \in 1 .. Len(o) + 1
                /\ Covers(t, k, Unit(o, g, InData(t, k), Which(o, t, k)))
                /\ t[k].part = "end" /\ InData(t, k) => k = Len(t)
    <2>1. k \in 1 .. n /\ k \in 1 .. n + 1  BY <1>2 DEF Starts
    <2>2. Which(o, t, k) = Which(o, s, k) /\ InData(t, k) = InData(s, k) /\ t[k] = s[k]
      BY <1>2, <2>1, StartsExtend, WhichExtends
    <2> DEFINE v == Unit(o, g, InData(s, k), Which(o, s, k))
    <2>3. Which(o, s, k) \in 1 .. Len(o) + 1 /\ Covers(s, k, v)  BY DEF Units
    <2>4. ~(s[k].part = "end" /\ InData(s, k))  BY NotOver
    <2>5. Covers(t, k, v)
      <3>1. Len(v) \in Nat  BY StartFacts
      <3> HIDE DEF v
      <3>2. k + Len(v) - 1 <= n /\ \A d \in 1 .. Len(v) : s[k + d - 1] = v[d]
        BY <2>3 DEF Covers
      <3>3. \A d \in 1 .. Len(v) : k + d - 1 \in 1 .. n  BY <1>2, <2>1, <3>1, <3>2
      <3>4. \A d \in 1 .. Len(v) : t[k + d - 1] = s[k + d - 1]  BY <1>2, <3>3, StartsExtend
      <3> QED  BY <1>1, <1>2, <2>1, <3>1, <3>2, <3>4 DEF Covers
    <2> QED  BY <2>2, <2>3, <2>4, <2>5
  <1>11. t[n + 1].part = "end" => n + 1 = Len(t)
    BY <1>1, <1>2, <1>3, <1>5
  <1>12. Units(o, g, t)
    <2>1. Covers(t, n + 1, Unit(o, g, InData(t, n + 1), Which(o, t, n + 1)))
      BY <1>2, <1>6, <1>7 DEF u
    <2> QED  BY <1>6, <1>8, <1>9, <1>10, <1>11, <2>1 DEF Units
  <1> QED  BY <1>2, <1>6, <1>7, <1>8, <1>12 DEF t

(* The unit that was due: the order of the items is kept.                  *)
LEMMA NextOrders ==
    ASSUME NEW o \in Offers, NEW g, NEW s \in Seq(Octet), Units(o, g, s), NEW w, Orders(o, g, w, s),
           NEW p \in BOOLEAN, NEW i \in 0 .. Len(o), Boundary(o, g, s, p, i, Len(s) + 1),
           NEW j \in 1 .. Len(o) + 1, Order(w[p], Len(o), i, j)
    PROVE  Orders(o, g, w, More(o, g, s, p, j))
  <1> DEFINE n == Len(s)
             m == UnitLen(o, g, p, j)
             t == More(o, g, s, p, j)
  <1>1. /\ Units(o, g, t) /\ t \in Seq(Octet) /\ Extends(s, t) /\ Len(t) = n + m
        /\ Starts(t) = Starts(s) \cup {n + 1}
        /\ Which(o, t, n + 1) = j /\ InData(t, n + 1) = p
    BY NextUnit
  <1> HIDE DEF t
  <1>2. n \in Nat /\ m \in Nat /\ m >= 1 /\ Len(o) \in Nat
    <2>1. o \in Seq(Item)  BY ExchangeAssumption
    <2>2. n \in Nat /\ Len(o) \in Nat  BY <2>1, LenProperties
    <2>3. /\ Len(Unit(o, g, p, j)) = m /\ Len(Unit(o, g, p, j)) \in Nat
          /\ Len(Unit(o, g, p, j)) >= 1
      <3>1. OneUnit(Unit(o, g, p, j), o, g, p, j)  BY UnitFacts
      <3> QED  BY <3>1, Zenon DEF OneUnit
    <2> QED  BY <2>2, <2>3, Zenon
  <1>3. SUFFICES ASSUME NEW q \in BOOLEAN, NEW h \in 0 .. Len(o), NEW k \in 1 .. Len(t),
                        Boundary(o, g, t, q, h, k)
                 PROVE  k \in Starts(t) /\ Order(w[q], Len(o), h, Which(o, t, k))
    BY DEF Orders, t
  <1>h. h \in 0 .. Len(o) + 1  BY <1>2
  <1>4. CASE k <= n + 1
    <2>1. k \in 1 .. n + 1  BY <1>1, <1>2, <1>4
    <2>2. Boundary(o, g, s, q, h, k)  BY <1>1, <1>3, <1>h, <2>1, BoundaryWithin
    <2>3. CASE k <= n
      <3>1. k \in 1 .. n  BY <1>2, <2>1, <2>3
      <3>2. k \in Starts(s) /\ Order(w[q], Len(o), h, Which(o, s, k))  BY <2>2, <3>1 DEF Orders
      <3> QED  BY <1>1, <3>1, <3>2, StartsExtend, WhichExtends
    <2>4. CASE k = n + 1
      <3>1. q = p /\ h = i  BY <2>1, <2>2, <2>4, BoundaryUnique
      <3> QED  BY <1>1, <2>4, <3>1
    <2> QED  BY <1>2, <2>1, <2>3, <2>4
  <1>5. CASE k > n + 1
    <2>1. CASE h = 0 /\ ~q
      <3>1. k = Len(Hello(g)) + 1  BY <1>2, <1>3, <2>1 DEF Boundary, AtPhase
      <3>2. Len(Hello(g)) <= n
        <4>1. 1 + Len(Hello(g)) - 1 <= n  BY DEF Units, Covers
        <4> QED  BY <1>2, <4>1, HelloBytes
      <3> QED  BY <1>2, <1>5, <3>1, <3>2, HelloBytes
    <2>2. CASE h = 0 /\ q
      <3>1. k - 1 \in Starts(t) /\ t[k - 1].part = "end"  BY <1>3, <2>2 DEF Boundary, AtPhase
      <3>2. k - 1 \notin Starts(s)
        <4>1. ~(k - 1 \in 1 .. n)  BY <1>2, <1>5
        <4> QED  BY <4>1 DEF Starts
      <3>3. k - 1 = n + 1  BY <1>1, <3>1, <3>2
      <3>4. j = Len(o) + 1 /\ m = 1
        <4>1. Which(o, t, n + 1) = Len(o) + 1  BY <3>1, <3>3 DEF Which
        <4> QED  BY <1>1, <4>1 DEF UnitLen
      <3> QED  BY <1>1, <1>2, <3>3, <3>4
    <2>3. CASE h # 0
      <3>1. PICK a \in Starts(t) : Ends(o, g, t, q, h, a, k)  BY <1>3, <2>3 DEF Boundary
      <3>2. k = a + UnitLen(o, g, InData(t, a), Which(o, t, a)) /\ a \in Nat
            /\ UnitLen(o, g, InData(t, a), Which(o, t, a)) \in Nat
        <4> HIDE DEF n, m
        <4>1. /\ Which(o, t, a) = h /\ InData(t, a) = q /\ k = a + Len(Unit(o, g, q, h))
          BY <3>1 DEF Ends
        <4>2. /\ a \in Nat /\ UnitLen(o, g, InData(t, a), Which(o, t, a)) \in Nat
              /\ Len(Unit(o, g, InData(t, a), Which(o, t, a))) = UnitLen(o, g, InData(t, a), Which(o, t, a))
          <5>1. Units(o, g, t) /\ t \in Seq(Octet)  BY <1>1
          <5> QED  BY <5>1, StartFacts
        <4> QED  BY <4>1, <4>2
      <3>3. CASE a = n + 1
        <4>1. k = Len(t) + 1  BY <1>1, <1>2, <3>2, <3>3
        <4> QED  BY <1>1, <1>2, <4>1
      <3>4. CASE a # n + 1
        <4>1. a \in 1 .. n  BY <1>1, <3>4 DEF Starts
        <4>2. a < n + 1 /\ n + 1 \in Starts(t)  BY <1>1, <1>2, <4>1
        <4>3. k <= n + 1  BY <1>1, <3>2, <4>2, UnitsApart
        <4> QED  BY <1>2, <1>5, <4>3
      <3> QED  BY <3>3, <3>4
    <2> QED  BY <2>1, <2>2, <2>3
  <1> QED  BY <1>2, <1>4, <1>5

-----------------------------------------------------------------------------
(* Where the fields of an entry are.                                       *)
Fielded == {"len", "path", "meta", "data", "digest"}
Offset(o, i, f) ==
    LET n == Len(o[i].path) IN
    CASE f = "len" -> 1 [] f = "path" -> 2 [] f = "meta" -> n + 2
      [] f = "data" -> n + 3 [] f = "digest" -> n + 3 + o[i].size
Size(o, i, f) == CASE f = "path" -> Len(o[i].path) [] f = "data" -> o[i].size [] OTHER -> 1

\* The fields an entry has in phase p.
HasField(o, g, p, i, f) ==
    /\ f \in Fielded
    /\ f \in {"data", "digest"} => p /\ o[i].kind # "Dir"
    /\ f = "digest" => Verify(g)

\* Byte d of field f.
FieldByte(o, i, f, d) ==
    Byte(f, i, IF f \in {"path", "data"} THEN d ELSE IF f = "len" THEN Len(o[i].path) ELSE 0)

LEMMA UnitField ==
    ASSUME NEW o \in Offers, NEW g, NEW p \in BOOLEAN, NEW i \in 1 .. Len(o),
           NEW f, HasField(o, g, p, i, f)
    PROVE  /\ Offset(o, i, f) \in Nat /\ Size(o, i, f) \in Nat
           /\ Offset(o, i, f) >= 1
           /\ Offset(o, i, f) + Size(o, i, f) <= UnitLen(o, g, p, i)
           /\ \A d \in 1 .. Size(o, i, f) :
                Unit(o, g, p, i)[Offset(o, i, f) + d] = FieldByte(o, i, f, d)
  <1> DEFINE n == Len(o[i].path)
             z == o[i].size
             u == Unit(o, g, p, i)
             m == UnitLen(o, g, p, i)
  <1>1. n \in Nat /\ z \in Nat  BY ItemFacts
  <1>0. /\ UnitLens(o, g, p, i) /\ UnitHead(o, g, p, i) /\ UnitPath(o, g, p, i)
        /\ UnitData(o, g, p, i) /\ UnitDigest(o, g, p, i)
    BY UnitFields
  <1>2. /\ m = (IF p THEN FrameLen(o, g, i) ELSE n + 3)
        /\ n + 3 <= m /\ m \in Nat
        /\ u[2] = Byte("len", i, n)
        /\ u[n + 3] = Byte("meta", i, 0)
    BY <1>0, Zenon DEF UnitLens, UnitHead
  <1>3. \A d \in 3 .. n + 2 : u[d] = Byte("path", i, d - 2)  BY <1>0, Zenon DEF UnitPath
  <1>4. p => \A d \in n + 4 .. n + 3 + z : u[d] = Byte("data", i, d - (n + 3))
    BY <1>0, Zenon DEF UnitData
  <1>5. p /\ Digests(o, g, i) => u[n + 4 + z] = Byte("digest", i, 0)
    BY <1>0, Zenon DEF UnitDigest
  <1>6. FrameLen(o, g, i) = n + 3 + z + (IF Digests(o, g, i) THEN 1 ELSE 0)
    BY DEF FrameLen, HeaderLen
  <1>7. f \in Fielded  BY DEF HasField
  <1> HIDE DEF n, z, u, m
  <1>8. CASE f = "len"
    <2>1. Offset(o, i, f) = 1 /\ Size(o, i, f) = 1  BY <1>8 DEF Offset, Size
    <2>2. \A d \in 1 .. 1 : d = 1 /\ u[1 + d] = Byte("len", i, n)  BY <1>2
    <2> QED  BY <1>1, <1>2, <1>8, <2>1, <2>2 DEF u, m, n, FieldByte
  <1>9. CASE f = "path"
    <2>1. Offset(o, i, f) = 2 /\ Size(o, i, f) = n  BY <1>9 DEF Offset, Size, n
    <2>2. ASSUME NEW d \in 1 .. n  PROVE u[2 + d] = Byte("path", i, d)
      <3> DEFINE e == 2 + d
      <3>1. e \in 3 .. n + 2 /\ e - 2 = d  BY <1>1
      <3> HIDE DEF e
      <3>2. u[e] = Byte("path", i, d)  BY <1>3, <3>1
      <3> QED  BY <3>2 DEF e
    <2> QED  BY <1>1, <1>2, <1>9, <2>1, <2>2 DEF u, m, FieldByte
  <1>10. CASE f = "meta"
    <2>1. Offset(o, i, f) = n + 2 /\ Size(o, i, f) = 1  BY <1>10 DEF Offset, Size, n
    <2>2. \A d \in 1 .. 1 : n + 2 + d = n + 3  BY <1>1
    <2> QED  BY <1>1, <1>2, <1>10, <2>1, <2>2 DEF u, m, FieldByte
  <1>11. CASE f = "data"
    <2>1. Offset(o, i, f) = n + 3 /\ Size(o, i, f) = z  BY <1>11 DEF Offset, Size, n, z
    <2>2. p  BY <1>11 DEF HasField
    <2>3. ASSUME NEW d \in 1 .. z  PROVE u[n + 3 + d] = Byte("data", i, d)
      <3> DEFINE e == n + 3 + d
      <3>1. e \in n + 4 .. n + 3 + z /\ e - (n + 3) = d  BY <1>1
      <3> HIDE DEF e
      <3>2. u[e] = Byte("data", i, d)  BY <1>4, <2>2, <3>1
      <3> QED  BY <3>2 DEF e
    <2>4. n + 3 + z <= m  BY <1>1, <1>2, <1>6, <2>2
    <2> QED  BY <1>1, <1>11, <2>1, <2>3, <2>4 DEF u, m, FieldByte
  <1>12. CASE f = "digest"
    <2>1. Offset(o, i, f) = n + 3 + z /\ Size(o, i, f) = 1  BY <1>12 DEF Offset, Size, n, z
    <2>2. p /\ Digests(o, g, i)  BY <1>12 DEF HasField, Digests
    <2>3. \A d \in 1 .. 1 : n + 3 + z + d = n + 4 + z  BY <1>1
    <2>4. n + 3 + z + 1 <= m /\ n + 3 + z \in Nat /\ n + 3 + z >= 1  BY <1>1, <1>2, <1>6, <2>2
    <2>5. \A d \in 1 .. 1 : u[n + 3 + z + d] = Byte("digest", i, 0)  BY <1>5, <2>2, <2>3
    <2> QED  BY <1>12, <2>1, <2>4, <2>5 DEF u, m, FieldByte
  <1> QED  BY <1>7, <1>8, <1>9, <1>10, <1>11, <1>12 DEF Fielded

\* What is read as field f of item i, which starts at k.
LEMMA FieldBytes ==
    ASSUME NEW o \in Offers, NEW g, NEW s \in Seq(Octet), Units(o, g, s), NEW k \in Starts(s),
           NEW i \in 1 .. Len(o), Which(o, s, k) = i,
           NEW f, HasField(o, g, InData(s, k), i, f)
    PROVE  /\ k - 1 + Offset(o, i, f) + Size(o, i, f) <= Len(s)
           /\ \A d \in 1 .. Size(o, i, f) :
                /\ s[k - 1 + Offset(o, i, f) + d].part = f
                /\ s[k - 1 + Offset(o, i, f) + d].of = i
                /\ f \in {"path", "data"} => s[k - 1 + Offset(o, i, f) + d].at = d
                /\ f = "len" => s[k - 1 + Offset(o, i, f) + d].at = Len(o[i].path)
  <1> DEFINE p == InData(s, k)
             m == UnitLen(o, g, p, i)
             u == Unit(o, g, p, i)
             a == Offset(o, i, f)
             z == Size(o, i, f)
  <1>0. p \in BOOLEAN  BY DEF InData
  <1>1. k \in Nat /\ Len(s) \in Nat /\ m \in Nat /\ k + m - 1 <= Len(s)
        /\ \A d \in 1 .. m : s[k + d - 1] = u[d]
    BY StartFacts
  <1>2. a \in Nat /\ z \in Nat /\ a >= 1 /\ a + z <= m  BY <1>0, UnitField
  <1>3. \A d \in 1 .. z : u[a + d] = FieldByte(o, i, f, d)
    BY <1>0, UnitField
  <1> HIDE DEF p, m, u, a, z
  <1>4. ASSUME NEW d \in 1 .. z
        PROVE  s[k - 1 + a + d] = FieldByte(o, i, f, d)
    <2> DEFINE e == a + d
    <2>1. e \in 1 .. m /\ k + e - 1 = k - 1 + a + d  BY <1>1, <1>2
    <2>2. u[e] = FieldByte(o, i, f, d)  BY <1>3
    <2> HIDE DEF e
    <2>3. s[k + e - 1] = u[e]  BY <1>1, <2>1
    <2> QED  BY <2>1, <2>2, <2>3
  <1>5. k - 1 + a + z <= Len(s)  BY <1>1, <1>2
  <1>6. \A d \in 1 .. z :
           /\ s[k - 1 + a + d].part = f /\ s[k - 1 + a + d].of = i
           /\ f \in {"path", "data"} => s[k - 1 + a + d].at = d
           /\ f = "len" => s[k - 1 + a + d].at = Len(o[i].path)
    BY <1>4, ByteFields DEF FieldByte
  <1> QED  BY <1>5, <1>6 DEF a, z

\* A field is followed by another, or ends its entry.
LEMMA FieldFollows ==
    ASSUME NEW o \in Offers, NEW g, NEW p \in BOOLEAN, NEW i \in 1 .. Len(o)
    PROVE  /\ Offset(o, i, "len") = 1
           /\ Offset(o, i, "path") = Offset(o, i, "len") + Size(o, i, "len")
           /\ Offset(o, i, "meta") = Offset(o, i, "path") + Size(o, i, "path")
           /\ Offset(o, i, "data") = Offset(o, i, "meta") + Size(o, i, "meta")
           /\ Offset(o, i, "digest") = Offset(o, i, "data") + Size(o, i, "data")
           /\ Size(o, i, "path") = Len(o[i].path) /\ Size(o, i, "data") = o[i].size
           /\ Size(o, i, "len") = 1 /\ Size(o, i, "meta") = 1 /\ Size(o, i, "digest") = 1
           /\ ~p \/ o[i].kind = "Dir" =>
                UnitLen(o, g, p, i) = Offset(o, i, "meta") + Size(o, i, "meta")
           /\ p /\ o[i].kind # "Dir" /\ ~Verify(g) =>
                UnitLen(o, g, p, i) = Offset(o, i, "data") + Size(o, i, "data")
           /\ p /\ o[i].kind # "Dir" /\ Verify(g) =>
                UnitLen(o, g, p, i) = Offset(o, i, "digest") + Size(o, i, "digest")
  <1> DEFINE n == Len(o[i].path)
             z == o[i].size
  <1>1. n \in Nat /\ z \in Nat /\ (o[i].kind = "Dir" => z = 0) /\ Len(o) \in Nat  BY ItemFacts
  <1>2. /\ Offset(o, i, "len") = 1 /\ Offset(o, i, "path") = 2 /\ Offset(o, i, "meta") = n + 2
        /\ Offset(o, i, "data") = n + 3 /\ Offset(o, i, "digest") = n + 3 + z
    BY DEF Offset
  <1>3. /\ Size(o, i, "path") = n /\ Size(o, i, "data") = z
        /\ Size(o, i, "len") = 1 /\ Size(o, i, "meta") = 1 /\ Size(o, i, "digest") = 1
    BY DEF Size
  <1>4. UnitLen(o, g, p, i) = IF p THEN n + 3 + z + (IF Digests(o, g, i) THEN 1 ELSE 0) ELSE n + 3
    <2>1. i # Len(o) + 1  BY <1>1
    <2> QED  BY <2>1 DEF UnitLen, FrameLen, HeaderLen
  <1>5. Digests(o, g, i) <=> Verify(g) /\ o[i].kind # "Dir"  BY DEF Digests
  <1> HIDE DEF n, z
  <1>6. ~p \/ o[i].kind = "Dir" => UnitLen(o, g, p, i) = n + 3  BY <1>1, <1>4, <1>5
  <1>7. p /\ o[i].kind # "Dir" /\ ~Verify(g) => UnitLen(o, g, p, i) = n + 3 + z
    BY <1>1, <1>4, <1>5
  <1>8. p /\ o[i].kind # "Dir" /\ Verify(g) => UnitLen(o, g, p, i) = n + 3 + z + 1
    BY <1>1, <1>4, <1>5
  <1>9. Size(o, i, "path") = Len(o[i].path) /\ Size(o, i, "data") = o[i].size  BY <1>3 DEF n, z
  <1> QED  BY <1>1, <1>2, <1>3, <1>6, <1>7, <1>8, <1>9

(* The bytes of the manifest when nothing of the data phase is encoded.    *)
LEMMA ManifestOver ==
    ASSUME NEW o \in Offers, NEW g, NEW s \in Seq(Octet), Units(o, g, s),
           Boundary(o, g, s, FALSE, Len(o) + 1, Len(s) + 1)
    PROVE  /\ \A i \in 0 .. Len(o), k \in 1 .. Len(s) : ~Boundary(o, g, s, TRUE, i, k)
           /\ Boundary(o, g, s, TRUE, 0, Len(s) + 1)
  <1>0. Len(s) \in Nat /\ Len(o) \in Nat /\ Len(s) + 1 - 1 = Len(s) /\ Len(o) + 1 # 0
    <2>1. o \in Seq(Item)  BY ExchangeAssumption
    <2> QED  BY <2>1, LenProperties
  <1>1. PICK e \in Starts(s) : Ends(o, g, s, FALSE, Len(o) + 1, e, Len(s) + 1)
    BY <1>0 DEF Boundary
  <1>2. Which(o, s, e) = Len(o) + 1 /\ InData(s, e) = FALSE
        /\ Len(s) + 1 = e + Len(Unit(o, g, FALSE, Len(o) + 1))
    BY <1>1 DEF Ends
  <1>3. Len(Unit(o, g, FALSE, Len(o) + 1)) = 1  BY DEF Unit
  <1>4. e \in Nat /\ s[e].part = "end"
    <2>1. e \in Nat /\ (s[e].part = "end" <=> Which(o, s, e) = Len(o) + 1)  BY StartFacts
    <2> QED  BY <1>2, <2>1
  <1>5. e = Len(s)
    <2>1. Len(s) + 1 = e + 1  BY <1>2, <1>3, Zenon
    <2>2. \A a, b \in Nat : a + 1 = b + 1 => a = b  OBVIOUS
    <2>3. e \in Nat /\ Len(s) \in Nat  BY <1>0, <1>4
    <2> QED  BY <2>1, <2>2, <2>3, Zenon
  <1>6. \A k \in 1 .. Len(s) - 1 : s[k].part # "end"  BY <1>2, <1>5 DEF InData
  <1>7. Boundary(o, g, s, TRUE, 0, Len(s) + 1)
    BY <1>0, <1>2, <1>4, <1>5 DEF Boundary, AtPhase
  <1>8. ASSUME NEW i \in 0 .. Len(o), NEW k \in 1 .. Len(s), Boundary(o, g, s, TRUE, i, k)
        PROVE  FALSE
    <2>0. k \in 1 .. Len(s) + 1  BY <1>0
    <2>1. InData(s, k)  BY <1>8, <2>0, BoundaryPhase
    <2>2. PICK j \in 1 .. k - 1 : s[j].part = "end"  BY <2>1 DEF InData
    <2>3. j \in 1 .. Len(s) - 1  BY <1>0
    <2> QED  BY <1>6, <2>2, <2>3
  <1> QED  BY <1>7, <1>8

-----------------------------------------------------------------------------
(* The two ends of the flow against what is sent.                          *)

\* All the bytes of the flow, from the first one written to the last encoded.
Script == sent \o unsent
Walks  == [p \in BOOLEAN |-> IF p THEN Dealt(offer, greet, have) ELSE 1 .. Len(offer)]
At(p, i, k) == Boundary(offer, greet, Script, p, i, k)

\* What is sent is a greeting and whole units, in the order of the walks.
GrammarInv == Units(offer, greet, Script) /\ Orders(offer, greet, Walks, Script)

\* What the sender encoded last is the item it is at.
SenderInv ==
    /\ at \in 0 .. Len(offer) + 1
    /\ spc = "manifest" => At(FALSE, at, Len(Script) + 1)
    /\ spc = "data" => At(TRUE, at, Len(Script) + 1)
    /\ spc = "bitmap" => at = 0 /\ At(FALSE, Len(offer) + 1, Len(Script) + 1)
    /\ spc \in {"ack", "ok"} => At(TRUE, Len(offer) + 1, Len(Script) + 1)
    /\ spc \in {"bitmap", "ack", "ok"} => unsent = <<>>

\* What the read has is the last that was taken.
Before == Len(taken) - Len(got)
GotInv ==
    /\ got \in Seq(Octet) /\ need \in Nat /\ data \in BOOLEAN
    /\ Len(got) <= Len(taken)
    /\ \A k \in 1 .. Len(got) : got[k] = taken[Before + k]

\* Before what the receiver reads lies what comes before it in the script.
GreetAt ==
    rpc \in {"hello", "tail"} =>
        /\ Before = (IF rpc = "hello" THEN 0 ELSE 1) /\ Len(got) + need = 1
        /\ Before + 1 <= Len(Hello(greet)) /\ ~data
KindAt ==
    rpc = "kind" => Len(got) + need = 1 /\ \E i \in 0 .. Len(offer) : At(data, i, Before + 1)
FieldStart(o, s, p, i, f, b) ==
    \E k \in Starts(s) : Which(o, s, k) = i /\ InData(s, k) = p /\ b = k - 1 + Offset(o, i, f)
FieldAt ==
    rpc \in Fielded =>
        /\ entry \in 1 .. Len(offer) /\ HasField(offer, greet, data, entry, rpc)
        /\ Len(got) + need = Size(offer, entry, rpc)
        /\ FieldStart(offer, Script, data, entry, rpc, Before)
OverAt ==
    /\ rpc \in {"answer", "ack"} => need = 0
    /\ rpc = "answer" => ~data /\ At(FALSE, Len(offer) + 1, Len(taken) + 1)
    /\ rpc \in {"ack", "ok"} => data /\ At(TRUE, Len(offer) + 1, Len(taken) + 1)
ReaderInv == GreetAt /\ KindAt /\ FieldAt /\ OverAt

LEMMA ScriptTyped == FlowInv => /\ Script \in Seq(Octet) /\ Len(Script) \in Nat
                                /\ offer \in Offers /\ Len(offer) \in Nat
  <1> SUFFICES ASSUME FlowInv
               PROVE  /\ Script \in Seq(Octet) /\ Len(Script) \in Nat
                      /\ offer \in Offers /\ Len(offer) \in Nat
    OBVIOUS
  <1>1. Script \in Seq(Octet)  BY ConcatProperties DEF FlowInv, Script
  <1>2. offer \in Offers /\ offer \in Seq(Item)  BY ExchangeAssumption DEF FlowInv
  <1> QED  BY <1>1, <1>2, LenProperties

(* What the receiver took is the beginning of the script.                  *)
LEMMA ExtendsCat ==
    ASSUME NEW s \in Seq(Octet), NEW t \in Seq(Octet), NEW u \in Seq(Octet), Extends(s, t)
    PROVE  Extends(s, t \o u)
  <1>1. /\ Len(t) \in Nat /\ Len(u) \in Nat /\ Len(t \o u) = Len(t) + Len(u)
        /\ \A k \in 1 .. Len(t) : (t \o u)[k] = t[k]
    BY CatFacts
  <1>2. Len(s) \in Nat /\ Len(s) <= Len(t) /\ \A k \in 1 .. Len(s) : t[k] = s[k]
    BY LenProperties DEF Extends
  <1>3. \A k \in 1 .. Len(s) : k \in 1 .. Len(t)  BY <1>1, <1>2
  <1> QED  BY <1>1, <1>2, <1>3 DEF Extends

LEMMA TakenFirst ==
    ASSUME FlowInv, InOrder
    PROVE  /\ Extends(taken, Script) /\ Len(taken) \in Nat /\ Len(taken) <= Len(Script)
           /\ \A k \in 1 .. Len(taken) : k \in 1 .. Len(Script) /\ Script[k] = taken[k]
           /\ stage = <<>> /\ wire = <<>> /\ unsent = <<>> => Len(taken) = Len(Script)
  <1> USE DEF FlowInv
  <1>1. Extends(taken, taken) /\ Len(taken) \in Nat  BY LenProperties DEF Extends
  <1>2. Extends(taken, taken \o stage) /\ taken \o stage \in Seq(Octet)
    BY <1>1, ExtendsCat, ConcatProperties
  <1>3. Extends(taken, sent)  BY <1>2, ExtendsCat DEF InOrder
  <1>4. Extends(taken, Script)  BY <1>3, ExtendsCat DEF Script
  <1>5. Script \in Seq(Octet) /\ Len(Script) \in Nat  BY ScriptTyped
  <1>6. Len(taken) <= Len(Script) /\ \A k \in 1 .. Len(taken) : Script[k] = taken[k]
    BY <1>4 DEF Extends
  <1>7. stage = <<>> /\ wire = <<>> /\ unsent = <<>> => Len(taken) = Len(Script)
    <2> SUFFICES ASSUME stage = <<>>, wire = <<>>, unsent = <<>>  PROVE taken = Script  OBVIOUS
    <2>1. taken \o stage = taken  BY ConcatEmptySeq
    <2>2. taken \o stage \o wire = taken  BY <2>1, ConcatEmptySeq
    <2>3. sent \o unsent = sent  BY ConcatEmptySeq
    <2> QED  BY <2>2, <2>3, Zenon DEF InOrder, Script
  <1> QED  BY <1>1, <1>4, <1>5, <1>6, <1>7

(* Init.                                                                   *)
LEMMA InitExchange ==
    Init => GrammarInv /\ SenderInv /\ GotInv /\ ReaderInv
  <1> SUFFICES ASSUME Init  PROVE GrammarInv /\ SenderInv /\ GotInv /\ ReaderInv  OBVIOUS
  <1> DEFINE h == Hello(greet)
  <1>1. /\ h \in Seq(Octet) /\ Len(h) \in Nat /\ Len(h) >= 1
        /\ \A k \in 1 .. Len(h) : h[k].part \notin {"kind", "end"}
    BY HelloBytes
  <1>2. Script = h
    <2>1. <<>> \o h = h  BY <1>1, ConcatEmptySeq
    <2> QED  BY <2>1 DEF Init, Script
  <1>3. Len(offer) \in Nat /\ offer \in Offers
    BY InitFlow, ScriptTyped
  <1> HIDE DEF h
  <1>4. Starts(h) = {}  BY <1>1 DEF Starts
  <1>5. Covers(h, 1, h)
    <2>1. \A d \in 1 .. Len(h) : 1 + d - 1 = d  BY <1>1
    <2> QED  BY <1>1, <2>1 DEF Covers
  <1>6. Units(offer, greet, h)  BY <1>4, <1>5 DEF Units, h
  <1>7. Orders(offer, greet, Walks, h)
    <2> SUFFICES ASSUME NEW p \in BOOLEAN, NEW i \in 0 .. Len(offer), NEW k \in 1 .. Len(h),
                        Boundary(offer, greet, h, p, i, k)
                 PROVE  FALSE
      BY DEF Orders
    <2>1. k = Len(h) + 1  BY <1>4 DEF Boundary, AtPhase, h
    <2> QED  BY <1>1, <2>1
  <1>8. Boundary(offer, greet, h, FALSE, 0, Len(h) + 1)  BY DEF Boundary, AtPhase, h
  <1>9. GrammarInv  BY <1>2, <1>6, <1>7 DEF GrammarInv
  <1>10. SenderInv
    <2>1. At(FALSE, 0, Len(Script) + 1)  BY <1>2, <1>8 DEF At
    <2>2. at = 0 /\ spc = "manifest"  BY DEF Init
    <2>3. at \in 0 .. Len(offer) + 1  BY <1>3, <2>2
    <2>4. spc = "manifest" => At(FALSE, at, Len(Script) + 1)  BY <2>1, <2>2, Zenon
    <2> QED  BY <2>2, <2>3, <2>4 DEF SenderInv
  <1>11. GotInv /\ ReaderInv
    <2>1. Len(<<>>) = 0 /\ <<>> \in Seq(Octet)  OBVIOUS
    <2>2. Len(got) = 0 /\ Len(taken) = 0 /\ Before = 0 /\ got \in Seq(Octet)
      BY <2>1 DEF Init, Before
    <2>3. 1 .. 0 = {}  OBVIOUS
    <2>4. GotInv
      <3>1. need \in Nat /\ data \in BOOLEAN  BY DEF Init
      <3>2. \A k \in 1 .. Len(got) : got[k] = taken[Before + k]  BY <2>2, <2>3
      <3>3. Len(got) <= Len(taken)  BY <2>2
      <3> QED  BY <2>2, <3>1, <3>2, <3>3 DEF GotInv
    <2>5. ReaderInv
      BY <1>1, <2>2 DEF Init, ReaderInv, GreetAt, KindAt, FieldAt, OverAt, Fielded, h
    <2> QED  BY <2>4, <2>5
  <1> QED  BY <1>9, <1>10, <1>11

(* More script moves neither end's place in it.                            *)
LEMMA FieldStartExtends ==
    ASSUME NEW o, NEW s \in Seq(Octet), NEW t \in Seq(Octet), Extends(s, t),
           NEW p, NEW i, NEW f, NEW b, FieldStart(o, s, p, i, f, b)
    PROVE  FieldStart(o, t, p, i, f, b)
  <1>1. PICK k \in Starts(s) : Which(o, s, k) = i /\ InData(s, k) = p /\ b = k - 1 + Offset(o, i, f)
    BY DEF FieldStart
  <1>2. k \in 1 .. Len(s) /\ k \in 1 .. Len(s) + 1  BY <1>1, LenProperties DEF Starts
  <1>3. k \in Starts(t) /\ Which(o, t, k) = i /\ InData(t, k) = p
    BY <1>1, <1>2, StartsExtend, WhichExtends
  <1> QED  BY <1>1, <1>3 DEF FieldStart

LEMMA ReaderStays ==
    ASSUME FlowInv, InOrder, GrammarInv, GotInv, ReaderInv,
           Script' \in Seq(Octet), Extends(Script, Script'),
           UNCHANGED <<offer, greet, rpc, data, entry, got, need, taken>>
    PROVE  (GotInv /\ ReaderInv)'
  <1>1. Script \in Seq(Octet) /\ Len(Script) \in Nat /\ offer \in Offers /\ Len(offer) \in Nat
    BY ScriptTyped
  <1>2. Len(taken) \in Nat /\ Len(taken) <= Len(Script) /\ Len(got) \in Nat
        /\ Len(got) <= Len(taken) /\ data \in BOOLEAN
    BY TakenFirst, LenProperties DEF GotInv
  <1>3. Units(offer, greet, Script)  BY DEF GrammarInv
  <1>4. GotInv'  BY DEF GotInv, Before
  <1>5. GreetAt'  BY DEF ReaderInv, GreetAt, Before
  <1>6. KindAt'
    <2> SUFFICES ASSUME rpc = "kind"
                 PROVE  Len(got) + need = 1 /\ \E i \in 0 .. Len(offer) : At(data, i, Before + 1)'
      BY DEF KindAt, Before
    <2>1. Len(got) + need = 1  BY DEF ReaderInv, KindAt
    <2>2. PICK i \in 0 .. Len(offer) : At(data, i, Before + 1)  BY DEF ReaderInv, KindAt
    <2>3. Before + 1 \in 1 .. Len(Script) + 1 /\ i \in 0 .. Len(offer) + 1  BY <1>1, <1>2 DEF Before
    <2>4. Boundary(offer, greet, Script', data, i, Before + 1)
      BY <1>1, <1>2, <1>3, <2>2, <2>3, BoundaryExtends DEF At
    <2> QED  BY <2>1, <2>4 DEF At, Before
  <1>7. FieldAt'
    <2> SUFFICES ASSUME rpc \in Fielded
                 PROVE  /\ entry \in 1 .. Len(offer) /\ HasField(offer, greet, data, entry, rpc)
                        /\ Len(got) + need = Size(offer, entry, rpc)
                        /\ FieldStart(offer, Script', data, entry, rpc, Before)
      BY DEF FieldAt, Before
    <2>1. /\ entry \in 1 .. Len(offer) /\ HasField(offer, greet, data, entry, rpc)
          /\ Len(got) + need = Size(offer, entry, rpc)
          /\ FieldStart(offer, Script, data, entry, rpc, Before)
      BY DEF ReaderInv, FieldAt
    <2> QED  BY <1>1, <2>1, FieldStartExtends
  <1>8. OverAt'
    <2>1. /\ rpc \in {"answer", "ack"} => need = 0
          /\ rpc = "answer" => ~data /\ At(FALSE, Len(offer) + 1, Len(taken) + 1)
          /\ rpc \in {"ack", "ok"} => data /\ At(TRUE, Len(offer) + 1, Len(taken) + 1)
      BY DEF ReaderInv, OverAt
    <2>2. Len(taken) + 1 \in 1 .. Len(Script) + 1 /\ Len(offer) + 1 \in 0 .. Len(offer) + 1
      BY <1>1, <1>2
    <2>3. \A p \in BOOLEAN : At(p, Len(offer) + 1, Len(taken) + 1) =>
            Boundary(offer, greet, Script', p, Len(offer) + 1, Len(taken) + 1)
      BY <1>1, <1>3, <2>2, BoundaryExtends DEF At
    <2> QED  BY <2>1, <2>3 DEF OverAt, At
  <1> QED  BY <1>4, <1>5, <1>6, <1>7, <1>8 DEF ReaderInv

-----------------------------------------------------------------------------
(* The sender's steps.                                                     *)
LEMMA SameScript ==
    ASSUME GrammarInv, SenderInv, Script' = Script, UNCHANGED <<offer, greet, spc, at, have>>,
           spc \in {"bitmap", "ack", "ok"} => unsent' = unsent
    PROVE  (GrammarInv /\ SenderInv)'
  <1>1. Walks' = Walks  BY DEF Walks
  <1>2. GrammarInv'  BY <1>1 DEF GrammarInv
  <1>3. \A p, i, k : At(p, i, k)' <=> At(p, i, k)  BY DEF At
  <1>4. SenderInv'  BY <1>3 DEF SenderInv
  <1> QED  BY <1>2, <1>4

LEMMA WriteScript == ASSUME FlowInv, Write  PROVE Script' = Script /\ unsent # <<>>
  <1> USE DEF FlowInv
  <1>1. PICK k \in 1 .. Room - Len(wire) :
          /\ k <= Len(unsent)
          /\ wire' = wire \o Take(unsent, k) /\ sent' = sent \o Take(unsent, k)
          /\ unsent' = Drop(unsent, k)
    BY DEF Write
  <1>2. k \in 0 .. Len(unsent) /\ Len(unsent) # 0
    BY <1>1, ExchangeAssumption, LenProperties
  <1>3. Take(unsent, k) \in Seq(Octet) /\ Drop(unsent, k) \in Seq(Octet)
        /\ Take(unsent, k) \o Drop(unsent, k) = unsent
    BY <1>2, CutFacts
  <1>4. Cat(Cat(sent, Take(unsent, k)), Drop(unsent, k)) = Cat(sent, unsent)
    <2>1. Cat(Take(unsent, k), Drop(unsent, k)) = unsent  BY <1>3, Zenon DEF Cat
    <2> QED  BY <1>3, <2>1, Regroup
  <1>5. Script' = Script  BY <1>1, <1>4, Zenon DEF Script, Cat
  <1>6. unsent # <<>>  BY <1>2
  <1> QED  BY <1>5, <1>6

LEMMA WalkFacts ==
    ASSUME FlowInv, spc \in {"manifest", "data"}
    PROVE  Walk = Walks[spc = "data"] /\ Walk \subseteq 1 .. Len(offer)
  <1>1. Walk \subseteq 1 .. Len(offer)  BY DEF Walk, Dealt, Kept
  <1>2. Walks[spc = "data"] = IF spc = "data" THEN Dealt(offer, greet, have) ELSE 1 .. Len(offer)
    BY DEF Walks
  <1> QED  BY <1>1, <1>2 DEF Walk

LEMMA EncodeScript ==
    ASSUME FlowInv, GrammarInv, SenderInv, Encode
    PROVE  /\ (GrammarInv /\ SenderInv)' /\ Script' \in Seq(Octet) /\ Extends(Script, Script')
  <1> DEFINE p == spc = "data"
             n == Len(offer)
             j == at'
  <1>1. /\ spc \in {"manifest", "data"} /\ unsent = <<>>
        /\ UNCHANGED <<offer, greet, spc, have, sent>>
    BY DEF Encode
  <1>2. /\ Script \in Seq(Octet) /\ Len(Script) \in Nat /\ offer \in Offers /\ n \in Nat
        /\ Units(offer, greet, Script) /\ Orders(offer, greet, Walks, Script)
        /\ at \in 0 .. n + 1 /\ p \in BOOLEAN
    BY ScriptTyped DEF GrammarInv, SenderInv
  <1>3. Walk = Walks[p] /\ Walk \subseteq 1 .. n  BY <1>1, WalkFacts
  <1>4. At(p, at, Len(Script) + 1)
    <2>1. CASE p  BY <2>1 DEF SenderInv
    <2>2. CASE ~p
      <3>1. p = FALSE  BY <2>2
      <3> QED  BY <1>1, <2>2, <3>1, Zenon DEF SenderInv
    <2> QED  BY <2>1, <2>2
  <1>5. at \in 0 .. n /\ j \in 1 .. n + 1 /\ Order(Walks[p], n, at, j)
        /\ unsent' = Unit(offer, greet, p, j)
    <2>1. CASE \E i \in Walk :
                 /\ at < i /\ \A m \in Walk : at < m => i <= m
                 /\ at' = i
                 /\ unsent' = IF spc = "data" THEN Frame(offer, greet, i) ELSE Header(offer, i)
      <3>1. /\ j \in Walk /\ at < j /\ \A m \in Walk : at < m => j <= m
            /\ unsent' = IF p THEN Frame(offer, greet, j) ELSE Header(offer, j)
        BY <2>1
      <3>2. j \in 1 .. n /\ j # n + 1  BY <1>2, <1>3, <3>1
      <3>3. at \in 0 .. n /\ j \in 1 .. n + 1  BY <1>2, <3>1, <3>2
      <3>4. Order(Walks[p], n, at, j)  BY <1>3, <3>1 DEF Order
      <3>5. unsent' = Unit(offer, greet, p, j)  BY <3>1, <3>2 DEF Unit
      <3> QED  BY <3>3, <3>4, <3>5
    <2>2. CASE /\ at <= Len(offer) /\ \A m \in Walk : m <= at
               /\ at' = Len(offer) + 1 /\ unsent' = <<End>>
      <3>1. at \in 0 .. n /\ j \in 1 .. n + 1 /\ j = n + 1  BY <1>2, <2>2
      <3>2. Order(Walks[p], n, at, j)  BY <1>3, <2>2 DEF Order
      <3>3. unsent' = Unit(offer, greet, p, j)  BY <2>2, <3>1 DEF Unit
      <3> QED  BY <3>1, <3>2, <3>3
    <2> QED  BY <2>1, <2>2 DEF Encode
  <1>6. Script' = More(offer, greet, Script, p, j)
    <2>1. Script = sent  BY <1>1, ConcatEmptySeq DEF Script, FlowInv
    <2>2. Script' = sent \o unsent'  BY <1>1 DEF Script
    <2> QED  BY <1>5, <2>1, <2>2 DEF More
  <1> HIDE DEF p, n, j
  <1> DEFINE s == Script
             t == Script'
  <1>7. Boundary(offer, greet, s, p, at, Len(s) + 1)  BY <1>4 DEF At
  <1>8. /\ Units(offer, greet, t) /\ t \in Seq(Octet) /\ Extends(s, t)
        /\ Len(t) = Len(s) + UnitLen(offer, greet, p, j)
        /\ Starts(t) = Starts(s) \cup {Len(s) + 1}
        /\ Which(offer, t, Len(s) + 1) = j /\ InData(t, Len(s) + 1) = p
    BY <1>2, <1>5, <1>6, <1>7, NextUnit DEF n
  <1>9. Orders(offer, greet, Walks, t)
    BY <1>2, <1>5, <1>6, <1>7, NextOrders DEF n
  <1>10. GrammarInv'
    <2>1. Walks' = Walks  BY <1>1 DEF Walks
    <2> QED  BY <1>1, <1>8, <1>9, <2>1 DEF GrammarInv
  <1>11. Boundary(offer, greet, t, p, j, Len(t) + 1)
    <2>1. Len(s) + 1 \in Starts(t)  BY <1>8
    <2>2. Len(Unit(offer, greet, p, j)) = UnitLen(offer, greet, p, j)
          /\ UnitLen(offer, greet, p, j) \in Nat
      <3>1. OneUnit(Unit(offer, greet, p, j), offer, greet, p, j)
        BY <1>2, <1>5, UnitFacts DEF n
      <3> QED  BY <3>1, Zenon DEF OneUnit
    <2>3. Len(t) + 1 = Len(s) + 1 + Len(Unit(offer, greet, p, j))  BY <1>2, <1>8, <2>2
    <2>4. Ends(offer, greet, t, p, j, Len(s) + 1, Len(t) + 1)  BY <1>8, <2>3 DEF Ends
    <2>5. j # 0  BY <1>2, <1>5
    <2> QED  BY <2>1, <2>4, <2>5 DEF Boundary
  <1>12. SenderInv'
    <2>1. at' \in 0 .. Len(offer) + 1  BY <1>2, <1>5 DEF j, n
    <2>2. spc = "manifest" => p = FALSE  BY DEF p
    <2>3. spc = "data" => p = TRUE  BY DEF p
    <2>5. (spc = "manifest" => At(FALSE, at, Len(Script) + 1))'
      BY <1>1, <1>11, <2>2 DEF At, j
    <2>6. (spc = "data" => At(TRUE, at, Len(Script) + 1))'
      BY <1>1, <1>11, <2>3 DEF At, j
    <2>7. spc' \notin {"bitmap", "ack", "ok"}  BY <1>1
    <2> QED  BY <1>1, <2>1, <2>5, <2>6, <2>7 DEF SenderInv
  <1> QED  BY <1>8, <1>10, <1>12

LEMMA WrittenScript ==
    ASSUME FlowInv, GrammarInv, SenderInv, Written
    PROVE  (GrammarInv /\ SenderInv)' /\ Script' = Script
  <1>1. /\ spc \in {"manifest", "data"} /\ unsent = <<>> /\ at = Len(offer) + 1
        /\ spc' = (IF spc = "manifest" THEN "bitmap" ELSE "ack") /\ at' = 0
        /\ UNCHANGED <<offer, greet, have, sent, unsent>>
    BY DEF Written
  <1>2. Script' = Script  BY <1>1 DEF Script
  <1>3. Walks' = Walks  BY <1>1 DEF Walks
  <1>4. GrammarInv'  BY <1>1, <1>2, <1>3 DEF GrammarInv
  <1>5. \A p, i, k : At(p, i, k)' <=> At(p, i, k)  BY <1>1, <1>2 DEF At
  <1>6. Len(offer) \in Nat  BY ScriptTyped
  <1>7. at' \in 0 .. Len(offer) + 1  BY <1>1, <1>6
  <1>8. SenderInv'
    <2>1. CASE spc = "manifest"
      <3>1. At(FALSE, Len(offer) + 1, Len(Script) + 1)  BY <1>1, <2>1, Zenon DEF SenderInv
      <3> QED  BY <1>1, <1>2, <1>5, <1>7, <2>1, <3>1 DEF SenderInv
    <2>2. CASE spc = "data"
      <3>1. At(TRUE, Len(offer) + 1, Len(Script) + 1)  BY <1>1, <2>2, Zenon DEF SenderInv
      <3> QED  BY <1>1, <1>2, <1>5, <1>7, <2>2, <3>1 DEF SenderInv
    <2> QED  BY <1>1, <2>1, <2>2
  <1> QED  BY <1>2, <1>4, <1>8

LEMMA BitmapScript ==
    ASSUME FlowInv, GrammarInv, SenderInv, ReadBitmap
    PROVE  (GrammarInv /\ SenderInv)' /\ Script' = Script
  <1>1. spc = "bitmap" /\ spc' = "data" /\ UNCHANGED <<offer, greet, at, unsent, sent>>
    BY DEF ReadBitmap
  <1>2. Script' = Script  BY <1>1 DEF Script
  <1>3. /\ Script \in Seq(Octet) /\ Len(Script) \in Nat /\ offer \in Offers /\ Len(offer) \in Nat
        /\ Units(offer, greet, Script) /\ Orders(offer, greet, Walks, Script)
    BY ScriptTyped DEF GrammarInv
  <1>4. Boundary(offer, greet, Script, FALSE, Len(offer) + 1, Len(Script) + 1)
    BY <1>1 DEF SenderInv, At
  <1>5. /\ \A i \in 0 .. Len(offer), k \in 1 .. Len(Script) : ~Boundary(offer, greet, Script, TRUE, i, k)
        /\ Boundary(offer, greet, Script, TRUE, 0, Len(Script) + 1)
    BY <1>3, <1>4, ManifestOver
  <1>6. Walks'[FALSE] = Walks[FALSE]  BY <1>1 DEF Walks
  <1>7. Orders(offer, greet, Walks', Script)
    <2> SUFFICES ASSUME NEW p \in BOOLEAN, NEW i \in 0 .. Len(offer), NEW k \in 1 .. Len(Script),
                        Boundary(offer, greet, Script, p, i, k)
                 PROVE  k \in Starts(Script) /\ Order(Walks'[p], Len(offer), i, Which(offer, Script, k))
      BY DEF Orders
    <2>1. p = FALSE  BY <1>5
    <2>2. k \in Starts(Script) /\ Order(Walks[p], Len(offer), i, Which(offer, Script, k))
      BY <1>3 DEF Orders
    <2> QED  BY <1>6, <2>1, <2>2
  <1>8. GrammarInv'  BY <1>1, <1>2, <1>3, <1>7 DEF GrammarInv
  <1>9. SenderInv'
    <2>1. at = 0 /\ at \in 0 .. Len(offer) + 1  BY <1>1 DEF SenderInv
    <2> QED  BY <1>1, <1>2, <1>5, <2>1 DEF SenderInv, At
  <1> QED  BY <1>2, <1>8, <1>9

-----------------------------------------------------------------------------
(* The receiver's reads.                                                   *)
LEMMA DirectDelivers ==
    ASSUME FlowInv, NEW n \in Nat, Direct(n)
    PROVE  \E c \in Seq(Octet) : Delivers(c) /\ Len(c) <= n
  <1>1. PICK k \in 1 .. Min2(n, Len(wire)) : Delivers(Take(wire, k))
    BY DEF Direct
  <1>2. k \in 0 .. Len(wire) /\ k <= n  BY LenProperties DEF FlowInv, Min2
  <1>3. Take(wire, k) \in Seq(Octet) /\ Len(Take(wire, k)) = k
    BY <1>2, CutFacts DEF FlowInv
  <1> QED  BY <1>1, <1>2, <1>3

LEMMA StagedDelivers ==
    ASSUME FlowInv, NEW n \in Nat, Staged(n)
    PROVE  \E c \in Seq(Octet) : Delivers(c) /\ Len(c) <= n
  <1>1. CASE Direct(n)  BY <1>1, DirectDelivers
  <1>2. CASE \E k \in 1 .. Min2(StageCap, Len(wire)) : Delivers(Take(wire, Min2(n, k)))
    <2>1. PICK k \in 1 .. Min2(StageCap, Len(wire)) : Delivers(Take(wire, Min2(n, k)))
      BY <1>2
    <2> DEFINE m == Min2(n, k)
    <2>2. m \in 0 .. Len(wire) /\ m <= n
      BY LenProperties, ExchangeAssumption DEF Min2, FlowInv
    <2> HIDE DEF m
    <2>3. Take(wire, m) \in Seq(Octet) /\ Len(Take(wire, m)) = m
      BY <2>2, CutFacts DEF FlowInv
    <2>4. Delivers(Take(wire, m))  BY <2>1 DEF m
    <2> QED  BY <2>2, <2>3, <2>4
  <1>3. CASE Delivers(Take(stage, Min2(n, Len(stage))))
    <2> DEFINE m == Min2(n, Len(stage))
    <2>1. m \in 0 .. Len(stage) /\ m <= n  BY LenProperties DEF Min2, FlowInv
    <2> HIDE DEF m
    <2>2. Take(stage, m) \in Seq(Octet) /\ Len(Take(stage, m)) = m
      BY <2>1, CutFacts DEF FlowInv
    <2>3. Delivers(Take(stage, m))  BY <1>3 DEF m
    <2> QED  BY <2>1, <2>2, <2>3
  <1> QED  BY <1>1, <1>2, <1>3 DEF Staged

LEMMA ReadPlace ==
    ASSUME FlowInv, InOrder, GotInv, ReaderInv, Read
    PROVE  (GotInv /\ ReaderInv)' /\ Script' = Script /\ Before' = Before
  <1>1. need \in Nat /\ need # 0 /\ UNCHANGED <<offer, greet, unsent, sent, rpc, data, entry>>
    BY DEF Read, sendVars, recvVars
  <1>2. PICK c \in Seq(Octet) : Delivers(c) /\ Len(c) <= need
    BY <1>1, StagedDelivers, DirectDelivers DEF Read, HelloRead
  <1>3. got' = got \o c /\ need' = need - Len(c) /\ taken' = taken \o c  BY <1>2 DEF Delivers
  <1>4. /\ got \in Seq(Octet) /\ taken \in Seq(Octet) /\ data \in BOOLEAN
        /\ Len(got) <= Len(taken) /\ \A k \in 1 .. Len(got) : got[k] = taken[Before + k]
    BY DEF GotInv, FlowInv
  <1>5. /\ got' \in Seq(Octet) /\ Len(got) \in Nat /\ Len(c) \in Nat
        /\ Len(got') = Len(got) + Len(c)
        /\ \A k \in 1 .. Len(got) : got'[k] = got[k]
        /\ \A k \in 1 .. Len(c) : got'[Len(got) + k] = c[k]
    BY <1>3, <1>4, CatFacts
  <1>6. /\ Len(taken) \in Nat /\ Len(taken') = Len(taken) + Len(c)
        /\ \A k \in 1 .. Len(taken) : taken'[k] = taken[k]
        /\ \A k \in 1 .. Len(c) : taken'[Len(taken) + k] = c[k]
    BY <1>3, <1>4, CatFacts
  <1>7. Before' = Before /\ Before \in Nat /\ Before = Len(taken) - Len(got)
    BY <1>4, <1>5, <1>6 DEF Before
  <1>8. ASSUME NEW k \in 1 .. Len(got')  PROVE got'[k] = taken'[Before + k]
    <2>1. CASE k <= Len(got)
      <3>1. k \in 1 .. Len(got) /\ Before + k \in 1 .. Len(taken)  BY <1>4, <1>5, <1>6, <1>7, <2>1
      <3>2. got'[k] = got[k] /\ got[k] = taken[Before + k]  BY <1>4, <1>5, <3>1
      <3>3. taken'[Before + k] = taken[Before + k]  BY <1>6, <3>1
      <3> QED  BY <3>2, <3>3
    <2>2. CASE k > Len(got)
      <3> DEFINE d == k - Len(got)
      <3>1. d \in 1 .. Len(c) /\ Len(got) + d = k /\ Len(taken) + d = Before + k
        BY <1>5, <1>6, <1>7, <2>2
      <3> HIDE DEF d
      <3>2. got'[Len(got) + d] = c[d] /\ taken'[Len(taken) + d] = c[d]  BY <1>5, <1>6, <3>1
      <3> QED  BY <3>1, <3>2
    <2> QED  BY <1>5, <2>1, <2>2
  <1>9. Len(got') <= Len(taken') /\ need' \in Nat /\ Len(got') + need' = Len(got) + need
    BY <1>1, <1>2, <1>3, <1>4, <1>5, <1>6
  <1>10. GotInv'
    <2>1. data' \in BOOLEAN  BY <1>1, <1>4
    <2> QED  BY <1>5, <1>7, <1>8, <1>9, <2>1 DEF GotInv
  <1>11. Script' = Script  BY <1>1 DEF Script
  <1>12. \A p, i, k : At(p, i, k)' <=> At(p, i, k)  BY <1>1, <1>11 DEF At
  <1>13. ReaderInv'
    <2>1. GreetAt'  BY <1>1, <1>7, <1>9 DEF ReaderInv, GreetAt
    <2>2. KindAt'
      <3>1. rpc = "kind" => Len(got) + need = 1 /\ \E i \in 0 .. Len(offer) : At(data, i, Before + 1)
        BY DEF ReaderInv, KindAt
      <3> QED  BY <1>1, <1>7, <1>9, <1>12, <3>1 DEF KindAt
    <2>3. FieldAt'
      BY <1>1, <1>7, <1>9, <1>11 DEF ReaderInv, FieldAt
    <2>4. rpc \notin {"answer", "ack", "ok"}
      BY <1>1 DEF ReaderInv, OverAt, Read, ReceiverGone
    <2>5. OverAt'  BY <1>1, <2>4 DEF OverAt
    <2> QED  BY <2>1, <2>2, <2>3, <2>5 DEF ReaderInv
  <1> QED  BY <1>7, <1>10, <1>11, <1>13

-----------------------------------------------------------------------------
(* What it makes of them.                                                  *)

\* A new read begins after what was taken.
LEMMA FreshRead ==
    ASSUME FlowInv, NEW r, NEW n \in Nat, NextField(r, n), taken' = taken, data' \in BOOLEAN
    PROVE  /\ GotInv' /\ Before' = Len(taken) /\ Len(got') = 0 /\ need' = n /\ rpc' = r
           /\ Len(taken) \in Nat
  <1>1. got' = <<>> /\ need' = n /\ rpc' = r  BY DEF NextField
  <1>2. Len(got') = 0 /\ got' \in Seq(Octet) /\ Len(taken) \in Nat
    BY <1>1, LenProperties DEF FlowInv
  <1>3. Before' = Len(taken)  BY <1>2 DEF Before
  <1>4. 1 .. Len(got') = {}  BY <1>2
  <1> QED  BY <1>1, <1>2, <1>3, <1>4 DEF GotInv

LEMMA Stopped ==
    ASSUME GotInv, Stops("failed"), UNCHANGED <<taken, data>>
    PROVE  GotInv' /\ ReaderInv'
  <1>1. rpc' = "failed" /\ UNCHANGED <<got, need>>  BY DEF Stops
  <1>2. GotInv'  BY <1>1 DEF GotInv, Before
  <1>3. ReaderInv'  BY <1>1 DEF ReaderInv, GreetAt, KindAt, FieldAt, OverAt, Fielded
  <1> QED  BY <1>2, <1>3

\* What leads on to each kind of field.
LEMMA ToKind ==
    ASSUME FlowInv, NextField("kind", 1), UNCHANGED <<offer, greet, taken, sent, unsent>>,
           data' \in BOOLEAN, NEW i \in 0 .. Len(offer),
           Boundary(offer, greet, Script, data', i, Len(taken) + 1)
    PROVE  GotInv' /\ ReaderInv'
  <1>1. /\ GotInv' /\ Before' = Len(taken) /\ Len(got') = 0 /\ need' = 1 /\ rpc' = "kind"
    BY FreshRead
  <1>2. Script' = Script  BY DEF Script
  <1>3. At(data, i, Before + 1)'  BY <1>1, <1>2 DEF At
  <1>4. KindAt'  BY <1>1, <1>3 DEF KindAt
  <1>5. GreetAt' /\ FieldAt' /\ OverAt'  BY <1>1 DEF GreetAt, FieldAt, OverAt, Fielded
  <1> QED  BY <1>1, <1>4, <1>5 DEF ReaderInv

LEMMA ToField ==
    ASSUME FlowInv, NEW f, NextField(f, Size(offer, entry', f)),
           UNCHANGED <<offer, greet, taken, sent, unsent>>, data' \in BOOLEAN,
           entry' \in 1 .. Len(offer), HasField(offer, greet, data', entry', f),
           FieldStart(offer, Script, data', entry', f, Len(taken))
    PROVE  GotInv' /\ ReaderInv'
  <1>1. f \in Fielded /\ offer \in Offers  BY DEF HasField, FlowInv
  <1>2. Size(offer, entry', f) \in Nat  BY <1>1, UnitField
  <1>3. /\ GotInv' /\ Before' = Len(taken) /\ Len(got') = 0 /\ need' = Size(offer, entry', f)
        /\ rpc' = f
    BY <1>2, FreshRead
  <1>4. Script' = Script  BY DEF Script
  <1>5. FieldAt'
    <2>1. Len(got') + need' = Size(offer, entry', f)  BY <1>2, <1>3
    <2> QED  BY <1>3, <1>4, <2>1 DEF FieldAt
  <1>6. GreetAt' /\ KindAt' /\ OverAt'  BY <1>1, <1>3 DEF GreetAt, KindAt, OverAt, Fielded
  <1> QED  BY <1>3, <1>5, <1>6 DEF ReaderInv

-----------------------------------------------------------------------------
(* One step of the receiver at a time.                                     *)
PlaceInv == FlowInv /\ InOrder /\ GrammarInv /\ GotInv /\ ReaderInv

LEMMA PlaceFacts ==
    ASSUME PlaceInv
    PROVE  /\ Script \in Seq(Octet) /\ Len(Script) \in Nat /\ offer \in Offers /\ Len(offer) \in Nat
           /\ Units(offer, greet, Script) /\ Orders(offer, greet, Walks, Script)
           /\ Len(taken) \in Nat /\ Len(taken) <= Len(Script) /\ Len(got) \in Nat
           /\ data \in BOOLEAN /\ need \in Nat /\ Len(got) <= Len(taken)
           /\ \A k \in 1 .. Len(got) : /\ Before + k \in 1 .. Len(taken)
                                       /\ got[k] = Script[Before + k]
  <1> USE DEF PlaceInv
  <1>1. /\ Script \in Seq(Octet) /\ Len(Script) \in Nat /\ offer \in Offers /\ Len(offer) \in Nat
    BY ScriptTyped
  <1>2. Units(offer, greet, Script) /\ Orders(offer, greet, Walks, Script)  BY DEF GrammarInv
  <1>3. /\ Len(taken) \in Nat /\ Len(taken) <= Len(Script)
        /\ \A k \in 1 .. Len(taken) : Script[k] = taken[k]
    BY TakenFirst
  <1>4. /\ Len(got) \in Nat /\ data \in BOOLEAN /\ need \in Nat /\ Len(got) <= Len(taken)
        /\ \A k \in 1 .. Len(got) : got[k] = taken[Before + k]
    BY LenProperties DEF GotInv
  <1>5. \A k \in 1 .. Len(got) : Before + k \in 1 .. Len(taken)  BY <1>3, <1>4 DEF Before
  <1>6. \A k \in 1 .. Len(got) : got[k] = Script[Before + k]
    <2> TAKE k \in 1 .. Len(got)
    <2>1. got[k] = taken[Before + k] /\ Before + k \in 1 .. Len(taken)  BY <1>4, <1>5
    <2> QED  BY <1>3, <2>1
  <1> QED  BY <1>1, <1>2, <1>3, <1>4, <1>5, <1>6

\* When the kind of an entry is there, it starts a unit that is due.
LEMMA KindThere ==
    ASSUME PlaceInv, Has("kind")
    PROVE  /\ Len(got) = 1 /\ Len(taken) \in Starts(Script) /\ got[1] = Script[Len(taken)]
           /\ InData(Script, Len(taken)) = data
           /\ \E i \in 0 .. Len(offer) :
                 /\ At(data, i, Len(taken))
                 /\ Order(Walks[data], Len(offer), i, Which(offer, Script, Len(taken)))
  <1>0. rpc = "kind" /\ need = 0  BY DEF Has
  <1>1. Len(got) + need = 1 /\ \E i \in 0 .. Len(offer) : At(data, i, Before + 1)
    BY <1>0 DEF PlaceInv, ReaderInv, KindAt
  <1>2. Len(got) = 1 /\ Before + 1 = Len(taken) /\ Len(taken) \in 1 .. Len(Script)
        /\ Len(taken) \in 1 .. Len(Script) + 1
        /\ got[1] = Script[Before + 1]
    <2>1. /\ Len(Script) \in Nat /\ Len(taken) \in Nat /\ Len(taken) <= Len(Script)
          /\ Len(got) \in Nat /\ Len(got) <= Len(taken)
      BY PlaceFacts
    <2>2. Len(got) = 1  BY <1>0, <1>1, <2>1
    <2>3. Before + 1 = Len(taken)  BY <2>1, <2>2 DEF Before
    <2>4. Len(taken) \in 1 .. Len(Script) /\ Len(taken) \in 1 .. Len(Script) + 1
      BY <2>1, <2>2
    <2>5. 1 \in 1 .. Len(got)  BY <2>2
    <2>6. got[1] = Script[Before + 1]  BY <2>5, PlaceFacts
    <2> QED  BY <2>2, <2>3, <2>4, <2>6
  <1>3. PICK i \in 0 .. Len(offer) : At(data, i, Len(taken))  BY <1>1, <1>2
  <1>4. Boundary(offer, greet, Script, data, i, Len(taken))  BY <1>3 DEF At
  <1>5. InData(Script, Len(taken)) = data  BY <1>2, <1>4, BoundaryPhase, PlaceFacts
  <1>6. /\ Len(taken) \in Starts(Script)
        /\ Order(Walks[data], Len(offer), i, Which(offer, Script, Len(taken)))
    BY <1>2, <1>4, PlaceFacts DEF Orders
  <1> QED  BY <1>2, <1>3, <1>5, <1>6

\* When another field is there, the next begins after it.
LEMMA FieldThere ==
    ASSUME PlaceInv, rpc \in Fielded, need = 0
    PROVE  /\ entry \in 1 .. Len(offer) /\ HasField(offer, greet, data, entry, rpc)
           /\ Len(got) = Size(offer, entry, rpc)
           /\ \E k \in Starts(Script) :
                /\ Which(offer, Script, k) = entry /\ InData(Script, k) = data /\ k \in Nat
                /\ Before = k - 1 + Offset(offer, entry, rpc)
                /\ Len(taken) = k - 1 + (Offset(offer, entry, rpc) + Size(offer, entry, rpc))
  <1>1. /\ entry \in 1 .. Len(offer) /\ HasField(offer, greet, data, entry, rpc)
        /\ Len(got) + need = Size(offer, entry, rpc)
        /\ FieldStart(offer, Script, data, entry, rpc, Before)
    BY DEF PlaceInv, ReaderInv, FieldAt
  <1>2. Offset(offer, entry, rpc) \in Nat /\ Size(offer, entry, rpc) \in Nat
    BY <1>1, PlaceFacts, UnitField
  <1>3. Len(got) = Size(offer, entry, rpc)  BY <1>1, <1>2, PlaceFacts
  <1>4. PICK k \in Starts(Script) :
          Which(offer, Script, k) = entry /\ InData(Script, k) = data
          /\ Before = k - 1 + Offset(offer, entry, rpc)
    BY <1>1 DEF FieldStart
  <1>5. k \in Nat  BY DEF Starts
  <1>6. Before = Len(taken) - Len(got) /\ Len(taken) \in Nat /\ Len(got) \in Nat
    BY PlaceFacts DEF Before
  <1>7. Len(taken) = k - 1 + (Offset(offer, entry, rpc) + Size(offer, entry, rpc))
    BY <1>2, <1>3, <1>4, <1>5, <1>6
  <1> QED  BY <1>1, <1>3, <1>4, <1>5, <1>7

\* The bytes of a field that is there are those of the entry.
LEMMA FieldGot ==
    ASSUME PlaceInv, rpc \in Fielded
    PROVE  \A d \in 1 .. Len(got) :
              /\ got[d].part = rpc /\ got[d].of = entry
              /\ rpc \in {"path", "data"} => got[d].at = d
              /\ rpc = "len" => got[d].at = Len(offer[entry].path)
  <1>1. /\ entry \in 1 .. Len(offer) /\ HasField(offer, greet, data, entry, rpc)
        /\ Len(got) + need = Size(offer, entry, rpc)
        /\ FieldStart(offer, Script, data, entry, rpc, Before)
    BY DEF PlaceInv, ReaderInv, FieldAt
  <1>2. PICK k \in Starts(Script) :
          Which(offer, Script, k) = entry /\ InData(Script, k) = data
          /\ Before = k - 1 + Offset(offer, entry, rpc)
    BY <1>1 DEF FieldStart
  <1> TAKE d \in 1 .. Len(got)
  <1>3. Size(offer, entry, rpc) \in Nat  BY <1>1, PlaceFacts, UnitField
  <1>4. d \in 1 .. Size(offer, entry, rpc) /\ got[d] = Script[Before + d]
    BY <1>1, <1>3, PlaceFacts
  <1>5. /\ Script[Before + d].part = rpc /\ Script[Before + d].of = entry
        /\ rpc \in {"path", "data"} => Script[Before + d].at = d
        /\ rpc = "len" => Script[Before + d].at = Len(offer[entry].path)
    <2>1. HasField(offer, greet, InData(Script, k), entry, rpc)  BY <1>1, <1>2
    <2> DEFINE b == k - 1 + Offset(offer, entry, rpc)
    <2>2. /\ Script[b + d].part = rpc /\ Script[b + d].of = entry
          /\ rpc \in {"path", "data"} => Script[b + d].at = d
          /\ rpc = "len" => Script[b + d].at = Len(offer[entry].path)
      <3>1. Script \in Seq(Octet) /\ offer \in Offers /\ Units(offer, greet, Script)
        BY PlaceFacts
      <3>2. d \in 1 .. Size(offer, entry, rpc)  BY <1>4
      <3> QED  BY <1>1, <1>2, <2>1, <3>1, <3>2, FieldBytes
    <2> QED  BY <1>2, <2>2
  <1> QED  BY <1>4, <1>5

LEMMA GreetingThere ==
    ASSUME PlaceInv, Has("hello") \/ Has("tail")
    PROVE  /\ ~data
           /\ Len(taken) = (IF rpc = "hello" THEN 1 ELSE 2)
           /\ rpc = "tail" => Multi(greet)
  <1>1. need = 0 /\ rpc \in {"hello", "tail"}  BY DEF Has
  <1>2. /\ Before = (IF rpc = "hello" THEN 0 ELSE 1) /\ Len(got) + need = 1
        /\ Before + 1 <= Len(Hello(greet)) /\ ~data
    BY <1>1 DEF PlaceInv, ReaderInv, GreetAt
  <1>3. Len(Hello(greet)) = (IF Multi(greet) THEN 2 ELSE 1)  BY HelloBytes
  <1>4. Len(taken) = Before + 1
    <2>1. Len(got) \in Nat /\ Len(taken) \in Nat  BY PlaceFacts
    <2>2. Len(got) = 1  BY <1>1, <1>2, <2>1
    <2> QED  BY <2>1, <2>2 DEF Before
  <1> QED  BY <1>1, <1>2, <1>3, <1>4

LEMMA HelloTurn == ASSUME PlaceInv, GotHello  PROVE (GotInv /\ ReaderInv)'
  <1>1. UNCHANGED <<offer, greet, taken, sent, unsent, data, entry>>
    BY DEF GotHello, sendVars
  <1>2. /\ FlowInv /\ GotInv /\ Script \in Seq(Octet) /\ Len(offer) \in Nat
        /\ Len(taken) \in Nat /\ Len(got) \in Nat /\ data \in BOOLEAN
    BY PlaceFacts DEF PlaceInv
  <1>3. Len(Hello(greet)) = (IF Multi(greet) THEN 2 ELSE 1)  BY HelloBytes
  <1>4. ASSUME Stops("failed")  PROVE (GotInv /\ ReaderInv)'  BY <1>1, <1>2, <1>4, Stopped
  <1>5. ASSUME Has("hello") \/ Has("tail")
        PROVE  /\ ~data
               /\ Len(taken) = (IF rpc = "hello" THEN 1 ELSE 2)
               /\ rpc = "tail" => Multi(greet)
    BY <1>5, GreetingThere
  <1>6. ASSUME Has("hello"), Multi(greet), NextField("tail", 1)  PROVE (GotInv /\ ReaderInv)'
    <2>1. Len(taken) = 1 /\ ~data  BY <1>5, <1>6 DEF Has
    <2>2. /\ GotInv' /\ Before' = Len(taken) /\ Len(got') = 0 /\ need' = 1 /\ rpc' = "tail"
      BY <1>1, <1>2, <1>6, FreshRead
    <2>3. GreetAt'
      <3>1. Before' = 1 /\ Before' + 1 <= Len(Hello(greet)) /\ Len(got') + need' = 1
        BY <1>3, <1>6, <2>1, <2>2
      <3> QED  BY <1>1, <2>1, <2>2, <3>1 DEF GreetAt
    <2>4. KindAt' /\ FieldAt' /\ OverAt'  BY <2>2 DEF KindAt, FieldAt, OverAt, Fielded
    <2> QED  BY <2>2, <2>3, <2>4 DEF ReaderInv
  <1>7. ASSUME (Has("hello") /\ ~Multi(greet)) \/ Has("tail"), NextField("kind", 1)
        PROVE  (GotInv /\ ReaderInv)'
    <2>1. ~data /\ Len(taken) = Len(Hello(greet))  BY <1>3, <1>5, <1>7 DEF Has
    <2>2. Boundary(offer, greet, Script, data', 0, Len(taken) + 1)
      BY <1>1, <2>1 DEF Boundary, AtPhase
    <2>3. 0 \in 0 .. Len(offer) /\ data' \in BOOLEAN  BY <1>1, <1>2
    <2> QED  BY <1>1, <1>2, <1>7, <2>2, <2>3, ToKind
  <1> QED  BY <1>4, <1>6, <1>7 DEF GotHello

(* The item a kind byte begins, or the terminator.                         *)
LEMMA KindMeets ==
    ASSUME PlaceInv, Has("kind")
    PROVE  /\ Len(taken) \in Starts(Script)
           /\ InData(Script, Len(taken)) = data
           /\ got[1] = End => Which(offer, Script, Len(taken)) = Len(offer) + 1
           /\ got[1] # End => /\ got[1].of = Which(offer, Script, Len(taken))
                              /\ got[1].of \in 1 .. Len(offer)
  <1> DEFINE k == Len(taken)
  <1>1. /\ Len(offer) \in Nat /\ offer \in Offers /\ Script \in Seq(Octet)
        /\ k \in Nat /\ data \in BOOLEAN /\ Units(offer, greet, Script)
    BY PlaceFacts
  <1>2. k \in Starts(Script) /\ got[1] = Script[k] /\ InData(Script, k) = data
    BY KindThere
  <1>3. Which(offer, Script, k) \in 1 .. Len(offer) + 1
        /\ (Script[k].part = "end" <=> Which(offer, Script, k) = Len(offer) + 1)
    BY <1>1, <1>2, StartFacts
  <1> HIDE DEF k
  <1>4. ASSUME got[1] = End  PROVE Which(offer, Script, k) = Len(offer) + 1
    <2>1. Script[k].part = "end"  BY <1>2, <1>4, ByteFields DEF End
    <2> QED  BY <1>3, <2>1
  <1>5. ASSUME got[1] # End
        PROVE  got[1].of = Which(offer, Script, k) /\ got[1].of \in 1 .. Len(offer)
    <2>1. Which(offer, Script, k) # Len(offer) + 1
      <3> SUFFICES ASSUME Which(offer, Script, k) = Len(offer) + 1  PROVE FALSE  OBVIOUS
      <3>1. Covers(Script, k, Unit(offer, greet, data, Len(offer) + 1))
        BY <1>1, <1>2 DEF Units
      <3>2. Covers(Script, k, <<End>>)  BY <3>1 DEF Unit
      <3>3. Len(<<End>>) = 1 /\ <<End>>[1] = End /\ k + 1 - 1 = k  BY <1>1
      <3>4. Script[k + 1 - 1] = <<End>>[1]  BY <3>2, <3>3 DEF Covers
      <3> QED  BY <1>2, <1>5, <3>3, <3>4
    <2>2. Script[k].part # "end"  BY <1>3, <2>1
    <2> QED  BY <1>1, <1>2, <1>3, <2>1, <2>2 DEF Which
  <1> QED  BY <1>2, <1>4, <1>5 DEF k

LEMMA KindTurn == ASSUME PlaceInv, GotKind  PROVE (GotInv /\ ReaderInv)'
  <1> DEFINE k == Len(taken)
  <1>1. UNCHANGED <<offer, greet, taken, sent, unsent, data>> /\ Has("kind")
    BY DEF GotKind, sendVars
  <1>2. /\ FlowInv /\ GotInv /\ Script \in Seq(Octet) /\ Len(offer) \in Nat /\ offer \in Offers
        /\ k \in Nat /\ data \in BOOLEAN /\ Units(offer, greet, Script)
    BY PlaceFacts DEF PlaceInv
  <1>3. /\ k \in Starts(Script) /\ InData(Script, k) = data
        /\ got[1] = End => Which(offer, Script, k) = Len(offer) + 1
        /\ got[1] # End => /\ got[1].of = Which(offer, Script, k)
                           /\ got[1].of \in 1 .. Len(offer)
    BY <1>1, KindMeets
  <1>5. Script' = Script  BY <1>1 DEF Script
  <1> HIDE DEF k
  <1>6. CASE got[1] = End
    <2>1. NextField(IF data THEN "ack" ELSE "answer", 0)  BY <1>6 DEF GotKind
    <2>2. /\ GotInv' /\ Len(got') = 0 /\ need' = 0 /\ rpc' = (IF data THEN "ack" ELSE "answer")
      BY <1>1, <1>2, <2>1, FreshRead
    <2>4. Which(offer, Script, k) = Len(offer) + 1  BY <1>3, <1>6
    <2>5. Boundary(offer, greet, Script, data, Len(offer) + 1, k + 1)
      <3>1. Len(Unit(offer, greet, data, Len(offer) + 1)) = 1  BY DEF Unit
      <3>2. Ends(offer, greet, Script, data, Len(offer) + 1, k, k + 1)
        BY <1>3, <2>4, <3>1 DEF Ends
      <3>3. Len(offer) + 1 # 0  BY <1>2
      <3> QED  BY <1>3, <3>2, <3>3 DEF Boundary
    <2>6. OverAt'
      <3>1. \A p : p = data => At(p, Len(offer) + 1, Len(taken) + 1)'
        BY <1>1, <1>5, <2>5 DEF At, k
      <3>2. data => data = TRUE  BY <1>2
      <3>3. ~data => data = FALSE  BY <1>2
      <3> QED  BY <1>1, <2>2, <3>1, <3>2, <3>3 DEF OverAt
    <2>7. GreetAt' /\ KindAt' /\ FieldAt'  BY <2>2 DEF GreetAt, KindAt, FieldAt, Fielded
    <2> QED  BY <2>2, <2>6, <2>7 DEF ReaderInv
  <1>7. CASE got[1] # End
    <2>1. NextField("len", 1) /\ entry' = got[1].of  BY <1>7 DEF GotKind
    <2>4. entry' = Which(offer, Script, k) /\ entry' \in 1 .. Len(offer)
      BY <1>3, <1>7, <2>1
    <2>5. HasField(offer, greet, data', entry', "len")  BY DEF HasField, Fielded
    <2>6. Offset(offer, entry', "len") = 1 /\ Size(offer, entry', "len") = 1
      BY DEF Offset, Size
    <2>7. FieldStart(offer, Script, data', entry', "len", k)
      <3>1. k = k - 1 + Offset(offer, entry', "len")  BY <1>2, <2>6
      <3> QED  BY <1>1, <1>3, <2>4, <3>1 DEF FieldStart
    <2>8. NextField("len", Size(offer, entry', "len"))  BY <2>1, <2>6
    <2> QED  BY <1>1, <1>2, <2>4, <2>5, <2>7, <2>8, ToField DEF k
  <1> QED  BY <1>6, <1>7

-----------------------------------------------------------------------------
LEMMA OnToField ==
    ASSUME PlaceInv, rpc \in Fielded, need = 0,
           UNCHANGED <<offer, greet, taken, sent, unsent, data, entry>>,
           NEW f, HasField(offer, greet, data, entry, f),
           NextField(f, Size(offer, entry, f)),
           Offset(offer, entry, f) = Offset(offer, entry, rpc) + Size(offer, entry, rpc)
    PROVE  (GotInv /\ ReaderInv)'
  <1>1. entry \in 1 .. Len(offer)  BY FieldThere
  <1>2. FieldStart(offer, Script, data, entry, f, Len(taken))
    BY FieldThere DEF FieldStart
  <1>3. FlowInv /\ data \in BOOLEAN  BY PlaceFacts DEF PlaceInv
  <1>4. /\ entry' \in 1 .. Len(offer) /\ HasField(offer, greet, data', entry', f)
        /\ NextField(f, Size(offer, entry', f)) /\ data' \in BOOLEAN
        /\ FieldStart(offer, Script, data', entry', f, Len(taken))
    BY <1>1, <1>2, <1>3
  <1> QED  BY <1>3, <1>4, ToField

(* The last field of a unit ends where the next unit starts.               *)
LEMMA UnitEnds ==
    ASSUME PlaceInv, rpc \in Fielded, need = 0,
           UnitLen(offer, greet, data, entry) =
              Offset(offer, entry, rpc) + Size(offer, entry, rpc)
    PROVE  /\ entry \in 1 .. Len(offer)
           /\ Boundary(offer, greet, Script, data, entry, Len(taken) + 1)
  <1>1. entry \in 1 .. Len(offer)  BY FieldThere
  <1>2. PICK k \in Starts(Script) :
          /\ Which(offer, Script, k) = entry /\ InData(Script, k) = data /\ k \in Nat
          /\ Len(taken) = k - 1 + (Offset(offer, entry, rpc) + Size(offer, entry, rpc))
    BY FieldThere
  <1>3. FlowInv /\ data \in BOOLEAN /\ Len(offer) \in Nat /\ offer \in Offers
        /\ Script \in Seq(Octet) /\ Units(offer, greet, Script)
    BY PlaceFacts DEF PlaceInv
  <1>4. /\ UnitLen(offer, greet, data, entry) \in Nat
        /\ Len(Unit(offer, greet, data, entry)) = UnitLen(offer, greet, data, entry)
    <2>1. /\ UnitLen(offer, greet, InData(Script, k), Which(offer, Script, k)) \in Nat
          /\ Len(Unit(offer, greet, InData(Script, k), Which(offer, Script, k)))
               = UnitLen(offer, greet, InData(Script, k), Which(offer, Script, k))
      BY <1>3, StartFacts
    <2> QED  BY <1>2, <2>1
  <1>5. Len(taken) + 1 = k + Len(Unit(offer, greet, data, entry))
    <2>1. Len(taken) = k - 1 + UnitLen(offer, greet, data, entry)  BY <1>2
    <2> QED  BY <1>2, <1>4, <2>1
  <1>6. Boundary(offer, greet, Script, data, entry, Len(taken) + 1)
    <2>1. Ends(offer, greet, Script, data, entry, k, Len(taken) + 1)  BY <1>2, <1>5 DEF Ends
    <2>2. entry # 0  BY <1>1
    <2> QED  BY <2>1, <2>2 DEF Boundary
  <1> QED  BY <1>1, <1>6

LEMMA OnToKind ==
    ASSUME PlaceInv, rpc \in Fielded, need = 0,
           UNCHANGED <<offer, greet, taken, sent, unsent, data, entry>>, NextField("kind", 1),
           UnitLen(offer, greet, data, entry) =
              Offset(offer, entry, rpc) + Size(offer, entry, rpc)
    PROVE  (GotInv /\ ReaderInv)'
  <1>1. /\ entry \in 1 .. Len(offer)
        /\ Boundary(offer, greet, Script, data, entry, Len(taken) + 1)
    BY UnitEnds
  <1>2. FlowInv /\ data \in BOOLEAN /\ Len(offer) \in Nat  BY PlaceFacts DEF PlaceInv
  <1>3. /\ entry \in 0 .. Len(offer) /\ data' \in BOOLEAN
        /\ Boundary(offer, greet, Script, data', entry, Len(taken) + 1)
    BY <1>1, <1>2
  <1> QED  BY <1>2, <1>3, ToKind

LEMMA HeaderTurns ==
    ASSUME PlaceInv, GotLen \/ GotPath
    PROVE  (GotInv /\ ReaderInv)'
  <1>1. UNCHANGED <<offer, greet, taken, sent, unsent, data, entry>>
    BY DEF GotLen, GotPath, sendVars
  <1>2. rpc \in {"len", "path"} /\ need = 0 /\ rpc \in Fielded
    BY DEF GotLen, GotPath, Has, Fielded
  <1>3. entry \in 1 .. Len(offer) /\ Len(got) = Size(offer, entry, rpc)  BY <1>2, FieldThere
  <1>4. offer \in Offers /\ data \in BOOLEAN  BY PlaceFacts
  <1>5. CASE GotLen
    <2>1. rpc = "len" /\ NextField("path", got[1].at)  BY <1>5 DEF GotLen, Has
    <2>2. got[1].at = Len(offer[entry].path)
      <3>1. 1 \in 1 .. Len(got)  BY <1>3, <1>4, <2>1, FieldFollows
      <3>2. rpc = "len" => got[1].at = Len(offer[entry].path)  BY <1>2, <3>1, FieldGot
      <3> QED  BY <2>1, <3>2
    <2>3. /\ NextField("path", Size(offer, entry, "path"))
          /\ Offset(offer, entry, "path") = Offset(offer, entry, "len") + Size(offer, entry, "len")
      BY <1>3, <1>4, <2>1, <2>2, FieldFollows
    <2>4. HasField(offer, greet, data, entry, "path")  BY DEF HasField, Fielded
    <2> QED  BY <1>1, <1>2, <2>1, <2>3, <2>4, OnToField
  <1>6. CASE GotPath
    <2>1. rpc = "path" /\ NextField("meta", 1)  BY <1>6 DEF GotPath, Has
    <2>2. /\ NextField("meta", Size(offer, entry, "meta"))
          /\ Offset(offer, entry, "meta") = Offset(offer, entry, "path") + Size(offer, entry, "path")
      BY <1>3, <1>4, <2>1, FieldFollows
    <2>3. HasField(offer, greet, data, entry, "meta")  BY DEF HasField, Fielded
    <2> QED  BY <1>1, <1>2, <2>1, <2>2, <2>3, OnToField
  <1> QED  BY <1>5, <1>6

LEMMA ListedTurn == ASSUME PlaceInv, GotListed  PROVE (GotInv /\ ReaderInv)'
  <1>1. /\ UNCHANGED <<offer, greet, taken, sent, unsent, data, entry>>
        /\ rpc = "meta" /\ need = 0 /\ ~data /\ NextField("kind", 1) /\ rpc \in Fielded
    BY DEF GotListed, sendVars, Has, Fielded
  <1>2. entry \in 1 .. Len(offer) /\ offer \in Offers /\ data \in BOOLEAN
    BY <1>1, FieldThere, PlaceFacts
  <1>3. UnitLen(offer, greet, data, entry) = Offset(offer, entry, rpc) + Size(offer, entry, rpc)
    BY <1>1, <1>2, FieldFollows
  <1> QED  BY <1>1, <1>3, OnToKind

LEMMA HeaderTurn == ASSUME PlaceInv, GotHeader  PROVE (GotInv /\ ReaderInv)'
  <1>1. /\ UNCHANGED <<offer, greet, taken, sent, unsent, data, entry>>
        /\ rpc = "meta" /\ need = 0 /\ data /\ rpc \in Fielded
    BY DEF GotHeader, sendVars, Has, Fielded
  <1>2. entry \in 1 .. Len(offer) /\ offer \in Offers /\ data \in BOOLEAN
    BY <1>1, FieldThere, PlaceFacts
  <1>3. CASE Stops("failed")
    <2>1. GotInv  BY DEF PlaceInv
    <2> QED  BY <1>1, <1>3, <2>1, Stopped
  <1>4. CASE Me.kind = "Dir" /\ NextField("kind", 1)
    <2>1. UnitLen(offer, greet, data, entry) = Offset(offer, entry, rpc) + Size(offer, entry, rpc)
      BY <1>1, <1>2, <1>4, FieldFollows DEF Me
    <2> QED  BY <1>1, <1>4, <2>1, OnToKind
  <1>5. CASE Me.kind # "Dir" /\ NextField("data", Me.size)
    <2>1. HasField(offer, greet, data, entry, "data")  BY <1>1, <1>5 DEF HasField, Fielded, Me
    <2>2. /\ NextField("data", Size(offer, entry, "data"))
          /\ Offset(offer, entry, "data") = Offset(offer, entry, rpc) + Size(offer, entry, rpc)
      BY <1>1, <1>2, <1>5, FieldFollows DEF Me
    <2> QED  BY <1>1, <2>1, <2>2, OnToField
  <1> QED  BY <1>3, <1>4, <1>5 DEF GotHeader

LEMMA PayloadTurn == ASSUME PlaceInv, GotPayload  PROVE (GotInv /\ ReaderInv)'
  <1>1. /\ UNCHANGED <<offer, greet, taken, sent, unsent, data, entry>>
        /\ rpc \in {"data", "digest"} /\ need = 0 /\ rpc \in Fielded
    BY DEF GotPayload, sendVars, Has, Fielded
  <1>2. entry \in 1 .. Len(offer) /\ offer \in Offers /\ data \in BOOLEAN
        /\ data /\ offer[entry].kind # "Dir" /\ (rpc = "digest" => Verify(greet))
    BY <1>1, FieldThere, PlaceFacts DEF HasField
  <1>3. CASE rpc = "data" /\ Verify(greet) /\ NextField("digest", 1)
    <2>1. HasField(offer, greet, data, entry, "digest")  BY <1>2, <1>3 DEF HasField, Fielded
    <2>2. /\ NextField("digest", Size(offer, entry, "digest"))
          /\ Offset(offer, entry, "digest") = Offset(offer, entry, rpc) + Size(offer, entry, rpc)
      BY <1>2, <1>3, FieldFollows
    <2> QED  BY <1>1, <2>1, <2>2, OnToField
  <1>4. CASE ((rpc = "data" /\ ~Verify(greet)) \/ rpc = "digest") /\ NextField("kind", 1)
    <2>1. UnitLen(offer, greet, data, entry) = Offset(offer, entry, rpc) + Size(offer, entry, rpc)
      <3>1. CASE rpc = "data" /\ ~Verify(greet)  BY <1>2, <3>1, FieldFollows
      <3>2. CASE rpc = "digest"  BY <1>2, <3>2, FieldFollows
      <3> QED  BY <1>4, <3>1, <3>2
    <2> QED  BY <1>1, <1>4, <2>1, OnToKind
  <1> QED  BY <1>3, <1>4 DEF GotPayload, Has

(* The data phase begins where the manifest ends.                          *)
LEMMA DataBegins ==
    ASSUME PlaceInv, rpc = "answer"
    PROVE  ~data /\ Boundary(offer, greet, Script, TRUE, 0, Len(taken) + 1)
  <1>1. ~data /\ Boundary(offer, greet, Script, FALSE, Len(offer) + 1, Len(taken) + 1)
    BY DEF PlaceInv, ReaderInv, OverAt, At
  <1>2. /\ Len(offer) \in Nat /\ offer \in Offers /\ Len(taken) \in Nat
        /\ Script \in Seq(Octet) /\ Units(offer, greet, Script)
    BY PlaceFacts
  <1>3. PICK e \in Starts(Script) :
          Ends(offer, greet, Script, FALSE, Len(offer) + 1, e, Len(taken) + 1)
    <2>1. Len(offer) + 1 # 0  BY <1>2
    <2> QED  BY <1>1, <2>1 DEF Boundary
  <1>4. /\ Which(offer, Script, e) = Len(offer) + 1 /\ InData(Script, e) = FALSE
        /\ Len(taken) + 1 = e + Len(Unit(offer, greet, FALSE, Len(offer) + 1))
    BY <1>3 DEF Ends
  <1>5. Len(Unit(offer, greet, FALSE, Len(offer) + 1)) = 1  BY DEF Unit
  <1>6. e \in Nat /\ (Script[e].part = "end" <=> Which(offer, Script, e) = Len(offer) + 1)
    BY <1>2, StartFacts
  <1>7. Len(taken) + 1 = e + 1  BY <1>4, <1>5, Zenon
  <1>8. Len(taken) + 1 - 1 = e  BY <1>2, <1>6, <1>7
  <1>9. Script[e].part = "end"  BY <1>4, <1>6
  <1> QED  BY <1>1, <1>4, <1>8, <1>9 DEF Boundary, AtPhase

LEMMA AnswerTurn == ASSUME PlaceInv, Answer  PROVE (GotInv /\ ReaderInv)'
  <1>1. /\ UNCHANGED <<offer, greet, taken, sent, unsent>> /\ data' = TRUE
        /\ rpc = "answer" /\ need = 0 /\ NextField("kind", 1)
    BY DEF Answer, sendVars, Has
  <1>2. FlowInv /\ Len(offer) \in Nat  BY PlaceFacts DEF PlaceInv
  <1>3. Boundary(offer, greet, Script, TRUE, 0, Len(taken) + 1)  BY <1>1, DataBegins
  <1>4. 0 \in 0 .. Len(offer) /\ data' \in BOOLEAN
        /\ Boundary(offer, greet, Script, data', 0, Len(taken) + 1)
    <2>1. 0 \in 0 .. Len(offer) /\ data' \in BOOLEAN  BY <1>1, <1>2
    <2> QED  BY <1>1, <1>3, <2>1, Zenon
  <1> QED  BY <1>1, <1>2, <1>4, ToKind

LEMMA AcknowledgeTurn == ASSUME PlaceInv, Acknowledge  PROVE (GotInv /\ ReaderInv)'
  <1>1. /\ UNCHANGED <<offer, greet, taken, sent, unsent, data, entry, got, need>>
        /\ rpc = "ack" /\ rpc' = "ok"
    BY DEF Acknowledge, sendVars, Has, Stops
  <1>2. GotInv'  BY <1>1 DEF PlaceInv, GotInv, Before
  <1>3. data /\ At(TRUE, Len(offer) + 1, Len(taken) + 1)
    BY <1>1 DEF PlaceInv, ReaderInv, OverAt
  <1>4. At(TRUE, Len(offer) + 1, Len(taken) + 1)'  BY <1>1, <1>3 DEF At, Script
  <1>5. OverAt'  BY <1>1, <1>3, <1>4 DEF OverAt
  <1>6. GreetAt' /\ KindAt' /\ FieldAt'  BY <1>1 DEF GreetAt, KindAt, FieldAt, Fielded
  <1> QED  BY <1>2, <1>5, <1>6 DEF ReaderInv

LEMMA TurnPlace == ASSUME PlaceInv, Turns  PROVE (GotInv /\ ReaderInv)'
  <1>1. CASE ReceiverFails
    <2>1. GotInv /\ Stops("failed") /\ UNCHANGED <<taken, data>>
      BY <1>1 DEF PlaceInv, ReceiverFails
    <2> QED  BY <2>1, Stopped
  <1> QED
    BY <1>1, HelloTurn, KindTurn, HeaderTurns, ListedTurn, HeaderTurn, PayloadTurn, AnswerTurn,
       AcknowledgeTurn DEF Turns

-----------------------------------------------------------------------------
(* The two ends together.                                                  *)
ExchangeInv == FlowInv /\ InOrder /\ StageInv /\ GrammarInv /\ SenderInv /\ GotInv /\ ReaderInv

LEMMA SameExtends == ASSUME FlowInv, Script' = Script
    PROVE Script' \in Seq(Octet) /\ Extends(Script, Script')
  BY ScriptTyped DEF Extends

LEMMA PlaceStep ==
    ASSUME ExchangeInv, [Next]_vars
    PROVE  (GrammarInv /\ SenderInv /\ GotInv /\ ReaderInv)'
  <1> USE DEF ExchangeInv
  <1>0. PlaceInv  BY DEF PlaceInv
  <1>1. CASE Write
    <2>1. Script' = Script /\ unsent # <<>>  BY <1>1, WriteScript
    <2>2. /\ UNCHANGED <<offer, greet, spc, at, have>>
          /\ UNCHANGED <<rpc, data, entry, got, need, taken>>
      BY <1>1 DEF Write, recvVars
    <2>3. spc \notin {"bitmap", "ack", "ok"}  BY <2>1 DEF SenderInv
    <2>4. (GrammarInv /\ SenderInv)'  BY <2>1, <2>2, <2>3, SameScript
    <2>5. Script' \in Seq(Octet) /\ Extends(Script, Script')  BY <2>1, SameExtends
    <2>6. (GotInv /\ ReaderInv)'  BY <2>2, <2>5, ReaderStays
    <2> QED  BY <2>4, <2>6
  <1>2. CASE Encode
    <2>1. /\ (GrammarInv /\ SenderInv)' /\ Script' \in Seq(Octet) /\ Extends(Script, Script')
      BY <1>2, EncodeScript
    <2>2. UNCHANGED <<offer, greet, rpc, data, entry, got, need, taken>>
      BY <1>2 DEF Encode, recvVars
    <2>3. (GotInv /\ ReaderInv)'  BY <2>1, <2>2, ReaderStays
    <2> QED  BY <2>1, <2>3
  <1>3. CASE Written \/ ReadBitmap
    <2>1. (GrammarInv /\ SenderInv)' /\ Script' = Script  BY <1>3, WrittenScript, BitmapScript
    <2>2. Script' \in Seq(Octet) /\ Extends(Script, Script')  BY <2>1, SameExtends
    <2>3. UNCHANGED <<offer, greet, rpc, data, entry, got, need, taken>>
      BY <1>3 DEF Written, ReadBitmap, recvVars
    <2>4. (GotInv /\ ReaderInv)'  BY <2>2, <2>3, ReaderStays
    <2> QED  BY <2>1, <2>4
  <1>4. CASE ReadAck \/ SenderFails
    <2>1. /\ UNCHANGED <<offer, greet, at, have, unsent, sent>>
          /\ UNCHANGED <<rpc, data, entry, got, need, taken>>
      BY <1>4 DEF ReadAck, SenderFails, recvVars
    <2>2. Script' = Script  BY <2>1 DEF Script
    <2>3. Script' \in Seq(Octet) /\ Extends(Script, Script')  BY <2>2, SameExtends
    <2>4. (GotInv /\ ReaderInv)'  BY <2>1, <2>3, ReaderStays
    <2>5. GrammarInv'  BY <2>1, <2>2 DEF GrammarInv, Walks
    <2>6. \A p, i, k : At(p, i, k)' <=> At(p, i, k)  BY <2>1, <2>2 DEF At
    <2>7. spc' = "failed" \/ (spc = "ack" /\ spc' = "ok")  BY <1>4 DEF ReadAck, SenderFails
    <2>8. SenderInv'  BY <2>1, <2>2, <2>6, <2>7 DEF SenderInv
    <2> QED  BY <2>4, <2>5, <2>8
  <1>5. CASE Read
    <2>1. (GotInv /\ ReaderInv)' /\ Script' = Script  BY <1>5, ReadPlace
    <2>2. UNCHANGED <<offer, greet, spc, at, have, unsent>>  BY <1>5 DEF Read, sendVars
    <2>3. (GrammarInv /\ SenderInv)'  BY <2>1, <2>2, SameScript
    <2> QED  BY <2>1, <2>3
  <1>6. CASE Turns
    <2>1. (GotInv /\ ReaderInv)'  BY <1>0, <1>6, TurnPlace
    <2>2. UNCHANGED <<offer, greet, spc, at, have, unsent, sent>>
      BY <1>6 DEF Turns, GotHello, GotKind, GotLen, GotPath, GotListed, GotHeader, GotPayload,
                  Answer, Acknowledge, ReceiverFails, sendVars
    <2>3. Script' = Script  BY <2>2 DEF Script
    <2>4. (GrammarInv /\ SenderInv)'  BY <2>2, <2>3, SameScript
    <2> QED  BY <2>1, <2>4
  <1>7. CASE UNCHANGED vars
    <2>1. UNCHANGED <<offer, greet, spc, at, have, unsent, sent, rpc, data, entry, got, need, taken>>
      BY <1>7 DEF vars, sendVars, recvVars
    <2>2. Script' = Script  BY <2>1 DEF Script
    <2>3. Script' \in Seq(Octet) /\ Extends(Script, Script')  BY <2>2, SameExtends
    <2>4. (GotInv /\ ReaderInv)'  BY <2>1, <2>3, ReaderStays
    <2>5. (GrammarInv /\ SenderInv)'  BY <2>1, <2>2, SameScript
    <2> QED  BY <2>4, <2>5
  <1> QED
    BY <1>1, <1>2, <1>3, <1>4, <1>5, <1>6, <1>7 DEF Next, SenderStep, ReceiverStep, Turns

(* The inductive invariant of the flow: what is sent is a greeting and     *)
(* whole units in the order of make_item's walks, and the reader stands    *)
(* where Entry::decode stands in them.                                     *)
THEOREM ExchangeSafe == Spec => []ExchangeInv
  <1>1. Init => ExchangeInv
    BY InitFlow, InitExchange DEF ExchangeInv, Init, StageInv
  <1>2. ExchangeInv /\ [Next]_vars => ExchangeInv'
    BY FlowStep, StageStep, PlaceStep DEF ExchangeInv
  <1> QED  BY <1>1, <1>2, PTL DEF Spec

(* Every byte Entry::decode reads is of the field it was encoded as, of    *)
(* the entry being read and at its place in it, in both phases.            *)
THEOREM FieldsStayAligned == Spec => []FieldsAlign
  <1>1. ExchangeInv => FieldsAlign
    <2> SUFFICES ASSUME ExchangeInv, NEW k \in 1 .. Len(got),
                        rpc \in {"hello", "tail", "kind", "len", "path", "meta", "data", "digest"}
                 PROVE  /\ got[k].part \in Parts(rpc)
                        /\ rpc \in {"len", "path", "meta", "data", "digest"} => got[k].of = entry
                        /\ rpc \in {"path", "data"} => got[k].at = k
      BY DEF FieldsAlign
    <2>0. PlaceInv  BY DEF PlaceInv, ExchangeInv
    <2>1. CASE rpc \in Fielded
      <3>1. /\ got[k].part = rpc /\ got[k].of = entry
            /\ rpc \in {"path", "data"} => got[k].at = k
        BY <2>0, <2>1, FieldGot
      <3> QED  BY <2>1, <3>1 DEF Parts, Fielded
    <2>2. CASE rpc = "kind"
      <3>1. Len(got) + need = 1 /\ \E i \in 0 .. Len(offer) : At(data, i, Before + 1)
        BY <2>0, <2>2 DEF PlaceInv, ReaderInv, KindAt
      <3>2. PICK i \in 0 .. Len(offer) : At(data, i, Before + 1)  BY <3>1
      <3>3. k = 1  BY <2>0, <3>1, PlaceFacts
      <3>4. Before + 1 \in 1 .. Len(taken) /\ got[1] = Script[Before + 1]
        BY <2>0, <3>3, PlaceFacts
      <3>5. Before + 1 \in 1 .. Len(Script)  BY <2>0, <3>4, PlaceFacts
      <3>6. Before + 1 \in Starts(Script)
        BY <2>0, <3>2, <3>5, PlaceFacts DEF Orders, At
      <3> QED  BY <2>2, <3>3, <3>4, <3>6 DEF Starts, Parts
    <2>3. CASE rpc \in {"hello", "tail"}
      <3>1. /\ Before = (IF rpc = "hello" THEN 0 ELSE 1) /\ Len(got) + need = 1
            /\ Before + 1 <= Len(Hello(greet))
        BY <2>0, <2>3 DEF PlaceInv, ReaderInv, GreetAt
      <3>2. k = 1  BY <2>0, <3>1, PlaceFacts
      <3>3. got[1] = Script[Before + 1]  BY <2>0, <3>2, PlaceFacts
      <3>4. Covers(Script, 1, Hello(greet))  BY <2>0, PlaceFacts DEF Units
      <3> DEFINE d == Before + 1
      <3>5. d \in 1 .. Len(Hello(greet)) /\ 1 + d - 1 = d  BY <3>1, HelloBytes
      <3>6. Script[1 + d - 1] = Hello(greet)[d]  BY <3>4, <3>5 DEF Covers
      <3>7. got[1] = Hello(greet)[d]  BY <3>3, <3>5, <3>6
      <3>8. CASE rpc = "hello"
        <4>1. d = 1  BY <3>1, <3>8
        <4>2. got[1] = Byte("hello", 0, 0)  BY <3>7, <4>1, HelloBytes
        <4> QED  BY <3>2, <3>8, <4>2, ByteFields DEF Parts
      <3>9. CASE rpc = "tail"
        <4>1. d = 2 /\ Multi(greet)  BY <3>1, <3>5, <3>9, HelloBytes
        <4>2. got[1] = Byte("tail", 0, 0)  BY <3>7, <4>1, HelloBytes
        <4> QED  BY <3>2, <3>9, <4>2, ByteFields DEF Parts
      <3> QED  BY <2>3, <3>8, <3>9
    <2> QED  BY <2>1, <2>2, <2>3 DEF Fielded
  <1> QED  BY <1>1, ExchangeSafe, PTL

-----------------------------------------------------------------------------
(* The bitmap: what read_bitmap makes of what encode_bitmap made.          *)
LEMMA DivFacts == \A a, b \in Nat : b > 0 =>
    a \div b \in Nat /\ a % b \in Nat /\ a % b < b /\ a = b * (a \div b) + (a % b)
  OBVIOUS

LEMMA SamePlace ==
    ASSUME NEW b \in Nat, b > 0, NEW a \in Nat, NEW c \in Nat, a \div b = c \div b, a % b = c % b
    PROVE  a = c
  <1>1. a = b * (a \div b) + (a % b) /\ c = b * (c \div b) + (c % b)  BY DivFacts
  <1> QED  BY <1>1, Zenon

LEMMA TimesGrows == \A b, u, q \in Nat : u <= q => b * u <= b * q /\ b * u \in Nat /\ b * q \in Nat
  OBVIOUS

LEMMA ByteThere ==
    ASSUME NEW b \in Nat, b > 0, NEW a \in Nat, NEW n \in Nat, a < n
    PROVE  (a \div b) + 1 <= (n + b - 1) \div b
  <1> DEFINE q == a \div b
             c == n + b - 1
             u == c \div b
             r == a % b
             v == c % b
  <1>1. a = b * q + r /\ r < b /\ q \in Nat /\ r \in Nat  BY DivFacts
  <1>2. c \in Nat /\ c >= a + b  OBVIOUS
  <1> HIDE DEF c
  <1>3. c = b * u + v /\ v < b /\ u \in Nat /\ v \in Nat  BY <1>2, DivFacts
  <1> HIDE DEF q, u, r, v
  <1>4. ~(u <= q)
    <2> SUFFICES ASSUME u <= q  PROVE FALSE  OBVIOUS
    <2>1. b * u <= b * q /\ b * u \in Nat /\ b * q \in Nat  BY <1>1, <1>3, TimesGrows
    <2> QED  BY <1>1, <1>2, <1>3, <2>1
  <1>5. q + 1 <= u  BY <1>1, <1>3, <1>4
  <1> QED  BY <1>5 DEF q, u, c

LEMMA BytesFacts ==
    /\ BitsPerByte \in Nat /\ BitsPerByte > 0
    /\ \A n \in Nat : Bytes(n) \in Nat
    /\ Bytes(0) = 0
  <1>1. BitsPerByte \in Nat /\ BitsPerByte > 0  BY ExchangeAssumption
  <1>2. \A n \in Nat : Bytes(n) \in Nat
    <2> TAKE n \in Nat
    <2>1. n + BitsPerByte - 1 \in Nat  BY <1>1
    <2> QED  BY <1>1, <2>1, DivFacts DEF Bytes
  <1>3. Bytes(0) = 0
    <2> DEFINE c == BitsPerByte - 1
               u == c \div BitsPerByte
    <2>1. c \in Nat /\ 0 + BitsPerByte - 1 = c /\ c < BitsPerByte  BY <1>1
    <2> HIDE DEF c
    <2>2. c = BitsPerByte * u + (c % BitsPerByte) /\ u \in Nat /\ c % BitsPerByte \in Nat
      BY <1>1, <2>1, DivFacts
    <2>3. ~(1 <= u)
      <3> SUFFICES ASSUME 1 <= u  PROVE FALSE  OBVIOUS
      <3>1. BitsPerByte * 1 <= BitsPerByte * u /\ BitsPerByte * u \in Nat  BY <1>1, <2>2, TimesGrows
      <3>2. BitsPerByte * 1 = BitsPerByte  BY <1>1
      <3> HIDE DEF u
      <3> QED  BY <1>1, <2>1, <2>2, <3>1, <3>2
    <2>4. u = 0  BY <2>2, <2>3
    <2> QED  BY <2>1, <2>4 DEF Bytes, u
  <1> QED  BY <1>1, <1>2, <1>3

LEMMA BitmapBytes ==
    ASSUME NEW b \in Seq(BOOLEAN)
    PROVE  /\ EncodeBitmap(b) \in Seq(SUBSET Int) /\ Len(EncodeBitmap(b)) = Bytes(Len(b))
           /\ Len(b) \in Nat /\ Bytes(Len(b)) \in Nat
  <1>1. Len(b) \in Nat /\ Bytes(Len(b)) \in Nat  BY LenProperties, BytesFacts
  <1>2. \A i \in 1 .. Len(b) : Mask(i) \in SUBSET Int
    <2> TAKE i \in 1 .. Len(b)
    <2>1. i - 1 \in Nat  BY <1>1
    <2>2. (i - 1) % BitsPerByte \in Nat  BY <2>1, BytesFacts, DivFacts
    <2> QED  BY <2>2 DEF Mask
  <1> DEFINE B(j) == UNION {Mask(i) : i \in {i \in 1 .. Len(b) : b[i] /\ (i - 1) \div BitsPerByte + 1 = j}}
             f == [j \in 1 .. Bytes(Len(b)) |-> B(j)]
  <1>3. \A j \in 1 .. Bytes(Len(b)) : B(j) \in SUBSET Int
    <2> SUFFICES ASSUME NEW j \in 1 .. Bytes(Len(b)), NEW x \in B(j)  PROVE x \in Int  OBVIOUS
    <2>1. PICK i \in 1 .. Len(b) : x \in Mask(i)  OBVIOUS
    <2> QED  BY <1>2, <2>1
  <1>4. EncodeBitmap(b) = f  BY DEF EncodeBitmap, EncodedBytes
  <1> HIDE DEF B
  <1>5. f \in Seq(SUBSET Int) /\ Len(f) = Bytes(Len(b))  BY <1>1, <1>3
  <1> QED  BY <1>1, <1>4, <1>5

LEMMA BitmapRoundTrip ==
    ASSUME NEW b \in Seq(BOOLEAN)  PROVE DecodeBitmap(EncodeBitmap(b), Len(b)) = b
  <1> DEFINE n == Len(b)
             e == EncodeBitmap(b)
  <1>1. n \in Nat  BY LenProperties
  <1>2. ASSUME NEW i \in 1 .. n
        PROVE  ((i - 1) % BitsPerByte \in e[(i - 1) \div BitsPerByte + 1]) = b[i]
    <2> DEFINE j == (i - 1) \div BitsPerByte + 1
               r == (i - 1) % BitsPerByte
    <2>1. i - 1 \in Nat /\ i - 1 < n  BY <1>1
    <2>2. j \in 1 .. Bytes(n)
      <3>1. (i - 1) \div BitsPerByte \in Nat  BY <2>1, BytesFacts, DivFacts
      <3>2. (i - 1) \div BitsPerByte + 1 <= Bytes(n)  BY <1>1, <2>1, ByteThere, BytesFacts DEF Bytes
      <3> QED  BY <3>1, <3>2, BytesFacts, <1>1
    <2> HIDE DEF j
    <2>3. e[j] = UNION {Mask(h) : h \in {h \in 1 .. n : b[h] /\ (h - 1) \div BitsPerByte + 1 = j}}
      BY <2>2 DEF EncodeBitmap, EncodedBytes
    <2>4. b[i] \in BOOLEAN  BY ElementOfSeq
    <2>5. ASSUME b[i]  PROVE r \in e[j]
      <3>1. r \in Mask(i)  BY DEF Mask
      <3> QED  BY <2>3, <2>5, <3>1 DEF j
    <2>6. ASSUME r \in e[j]  PROVE b[i]
      <3>1. PICK h \in 1 .. n : b[h] /\ (h - 1) \div BitsPerByte + 1 = j /\ r \in Mask(h)
        BY <2>3, <2>6
      <3>2. h - 1 \in Nat /\ (h - 1) % BitsPerByte = r  BY <1>1, <3>1 DEF Mask
      <3>3. (h - 1) \div BitsPerByte \in Nat /\ (i - 1) \div BitsPerByte \in Nat
        BY <2>1, <3>2, BytesFacts, DivFacts
      <3>4. (h - 1) \div BitsPerByte = (i - 1) \div BitsPerByte
        <4>1. \A x, y \in Nat : x + 1 = y + 1 => x = y  OBVIOUS
        <4>2. (h - 1) \div BitsPerByte + 1 = (i - 1) \div BitsPerByte + 1  BY <3>1, Zenon DEF j
        <4> QED  BY <3>3, <4>1, <4>2, Zenon
      <3>5. h - 1 = i - 1  BY <2>1, <3>2, <3>4, SamePlace, BytesFacts
      <3>6. h = i  BY <1>1, <3>5
      <3> QED  BY <3>1, <3>6
    <2>7. (r \in e[j]) = b[i]
      <3> DEFINE there == r \in e[j]
      <3>1. there \in BOOLEAN /\ (there <=> b[i])  BY <2>5, <2>6
      <3> HIDE DEF there
      <3>2. there = b[i]  BY <2>4, <3>1
      <3> QED  BY <3>2 DEF there
    <2> QED  BY <2>7 DEF j
  <1>3. DecodeBitmap(e, n) = [i \in 1 .. n |-> b[i]]
    <2> DEFINE P(i) == (i - 1) % BitsPerByte \in e[(i - 1) \div BitsPerByte + 1]
    <2>1. \A i \in 1 .. n : P(i) = b[i]  BY <1>2
    <2>2. DecodeBitmap(e, n) = [i \in 1 .. n |-> P(i)]  BY DEF DecodeBitmap
    <2> HIDE DEF P, n
    <2>3. [i \in 1 .. n |-> P(i)] = [i \in 1 .. n |-> b[i]]  BY <2>1, Zenon
    <2> QED  BY <2>2, <2>3
  <1>4. b = [i \in 1 .. n |-> b[i]]  OBVIOUS
  <1> QED  BY <1>3, <1>4, Zenon

(* The answer to a manifest without files.                                 *)
LEMMA NothingAsked ==
    ASSUME NEW e  PROVE DecodeBitmap(e, 0) = <<>> /\ EncodeBitmap(<<>>) = <<>>
  <1>1. 1 .. 0 = {} /\ Len(<<>>) = 0  OBVIOUS
  <1>2. DecodeBitmap(e, 0) = <<>>
    <2> DEFINE P(i) == (i - 1) % BitsPerByte \in e[(i - 1) \div BitsPerByte + 1]
    <2>1. DecodeBitmap(e, 0) = [i \in 1 .. 0 |-> P(i)]  BY DEF DecodeBitmap
    <2> HIDE DEF P
    <2>2. [i \in 1 .. 0 |-> P(i)] = <<>>  OBVIOUS
    <2> QED  BY <2>1, <2>2
  <1>3. EncodeBitmap(<<>>) \in Seq(SUBSET Int) /\ Len(EncodeBitmap(<<>>)) = 0
    <2> DEFINE b == <<>>
    <2>1. b \in Seq(BOOLEAN) /\ Len(b) = 0  OBVIOUS
    <2> HIDE DEF b
    <2>2. EncodeBitmap(b) \in Seq(SUBSET Int) /\ Len(EncodeBitmap(b)) = Bytes(Len(b))
      BY <2>1, BitmapBytes
    <2>3. Len(EncodeBitmap(b)) = 0  BY <2>1, <2>2, BytesFacts
    <2> QED  BY <2>2, <2>3 DEF b
  <1> QED  BY <1>2, <1>3, EmptySeq

-----------------------------------------------------------------------------
(* How many files a manifest lists, and how many the receiver has met.     *)
LEMMA FilesFacts ==
    ASSUME NEW o \in Offers
    PROVE  /\ Files(o, 0) = 0
           /\ \A i \in 0 .. Len(o) : Files(o, i) \in Nat /\ Files(o, i) <= Files(o, Len(o))
           /\ \A i \in 1 .. Len(o) :
                Files(o, i) = Files(o, i - 1) + (IF o[i].kind = "File" THEN 1 ELSE 0)
  <1> DEFINE F(i) == {k \in 1 .. i : o[k].kind = "File"}
  <1>1. Len(o) \in Nat  BY ExchangeAssumption, LenProperties
  <1>2. ASSUME NEW i \in 0 .. Len(o)  PROVE IsFiniteSet(F(i)) /\ Files(o, i) \in Nat
    <2>1. IsFiniteSet(1 .. i)  BY <1>1, FS_Interval
    <2>2. F(i) \subseteq 1 .. i  OBVIOUS
    <2>3. IsFiniteSet(F(i))  BY <2>1, <2>2, FS_Subset
    <2> QED  BY <2>3, FS_CardinalityType DEF Files
  <1>3. Files(o, 0) = 0
    <2>1. F(0) = {}  OBVIOUS
    <2> QED  BY <2>1, FS_EmptySet DEF Files
  <1>4. ASSUME NEW i \in 0 .. Len(o)  PROVE Files(o, i) <= Files(o, Len(o))
    <2>1. F(i) \subseteq F(Len(o))  BY <1>1
    <2>2. IsFiniteSet(F(Len(o)))  BY <1>1, <1>2
    <2> HIDE DEF F
    <2>3. Cardinality(F(i)) <= Cardinality(F(Len(o)))  BY <2>1, <2>2, FS_Subset
    <2> QED  BY <2>3 DEF Files, F
  <1>5. ASSUME NEW i \in 1 .. Len(o)
        PROVE  Files(o, i) = Files(o, i - 1) + (IF o[i].kind = "File" THEN 1 ELSE 0)
    <2>1. i - 1 \in 0 .. Len(o)  BY <1>1
    <2>2. IsFiniteSet(F(i - 1))  BY <1>2, <2>1
    <2>3. CASE o[i].kind = "File"
      <3>1. F(i) = F(i - 1) \cup {i} /\ i \notin F(i - 1)  BY <1>1, <2>3
      <3> HIDE DEF F
      <3>2. Cardinality(F(i)) = Cardinality(F(i - 1)) + 1  BY <2>2, <3>1, FS_AddElement
      <3> QED  BY <2>3, <3>2 DEF Files, F
    <2>4. CASE o[i].kind # "File"
      <3>1. F(i) = F(i - 1)  BY <1>1, <2>4
      <3>2. Files(o, i) = Files(o, i - 1)  BY <3>1 DEF Files
      <3>3. Files(o, i - 1) \in Nat  BY <1>2, <2>1
      <3> QED  BY <2>4, <3>2, <3>3
    <2> QED  BY <2>3, <2>4
  <1> QED  BY <1>2, <1>3, <1>4, <1>5

(* While the sender is in the manifest, nothing of the data phase is sent.  *)
LEMMA ManifestOnly ==
    ASSUME NEW o \in Offers, NEW g, NEW s \in Seq(Octet), Units(o, g, s),
           NEW i \in 0 .. Len(o) + 1, Boundary(o, g, s, FALSE, i, Len(s) + 1)
    PROVE  \A k \in 1 .. Len(s) : ~InData(s, k)
  <1>1. Len(s) \in Nat /\ Len(o) \in Nat  BY ExchangeAssumption, LenProperties
  <1>2. CASE i \in 0 .. Len(o)
    <2>0. Len(s) + 1 \in 1 .. Len(s) + 1 /\ FALSE \in BOOLEAN  BY <1>1
    <2>1. InData(s, Len(s) + 1) = FALSE  BY <1>2, <2>0, BoundaryPhase
    <2>2. \A j \in 1 .. Len(s) : s[j].part # "end"  BY <1>1, <2>1 DEF InData
    <2> QED  BY <1>1, <2>2 DEF InData
  <1>3. CASE i = Len(o) + 1
    <2>0. i # 0  BY <1>1, <1>3
    <2>1. PICK e \in Starts(s) : Ends(o, g, s, FALSE, Len(o) + 1, e, Len(s) + 1)
      BY <1>3, <2>0 DEF Boundary
    <2>2. Unit(o, g, FALSE, Len(o) + 1) = <<End>>  BY DEF Unit
    <2>3. ~InData(s, e) /\ Len(s) + 1 = e + 1 /\ e \in 1 .. Len(s)
      BY <2>1, <2>2 DEF Ends, Starts
    <2>4. e = Len(s)  BY <1>1, <2>3
    <2> QED  BY <1>1, <2>3, <2>4 DEF InData
  <1> QED  BY <1>1, <1>2, <1>3

-----------------------------------------------------------------------------
(* The receiver's answer.                                                  *)

\* A bit for each file listed before the field it reads, a bit for each file
\* of the manifest once that is over.
ListedInv ==
    /\ bits \in Seq(BOOLEAN) /\ Len(bits) <= Offered
    /\ ~data /\ rpc \in {"hello", "tail"} => Len(bits) = 0
    /\ ~data /\ rpc = "kind" =>
         \E i \in 0 .. Len(offer) : At(FALSE, i, Before + 1) /\ Len(bits) = Files(offer, i)
    /\ ~data /\ rpc \in Fielded => Len(bits) = Files(offer, entry - 1)
    /\ data \/ rpc = "answer" => Len(bits) = Offered

\* The steps that leave the receiver in the field it reads.
Quiet == \/ Write \/ Encode \/ Written \/ ReadBitmap \/ ReadAck \/ SenderFails
         \/ Read \/ UNCHANGED vars

LEMMA QuietStep ==
    ASSUME ExchangeInv, Quiet
    PROVE  /\ Script' \in Seq(Octet) /\ Extends(Script, Script') /\ Before' = Before
           /\ UNCHANGED <<offer, greet, rpc, data, entry, bits, stored>>
           /\ Before + 1 \in 1 .. Len(Script) + 1
  <1> USE DEF ExchangeInv
  <1> DEFINE Moves == Script' \in Seq(Octet) /\ Extends(Script, Script') /\ Before' = Before
  <1>1. UNCHANGED <<offer, greet, rpc, data, entry, bits, stored>>
    BY DEF Quiet, Write, Encode, Written, ReadBitmap, ReadAck, SenderFails, Read, vars, sendVars, recvVars
  <1>2. ASSUME Write  PROVE Moves
    <2>1. Script' = Script /\ UNCHANGED <<got, taken>>  BY <1>2, WriteScript DEF Write
    <2> QED  BY <2>1, SameExtends DEF Before
  <1>3. ASSUME Encode  PROVE Moves
    <2>1. UNCHANGED <<got, taken>>  BY <1>3 DEF Encode
    <2> QED  BY <1>3, <2>1, EncodeScript DEF Before
  <1>4. ASSUME Read  PROVE Moves
    <2>1. Script' = Script /\ Before' = Before  BY <1>4, ReadPlace
    <2> QED  BY <2>1, SameExtends
  <1>5. ASSUME Written \/ ReadBitmap \/ ReadAck \/ SenderFails \/ UNCHANGED vars  PROVE Moves
    <2>1. UNCHANGED <<got, taken, sent, unsent>>
      BY <1>5 DEF Written, ReadBitmap, ReadAck, SenderFails, vars, sendVars
    <2>2. Script' = Script  BY <2>1 DEF Script
    <2> QED  BY <2>1, <2>2, SameExtends DEF Before
  <1>6. Before + 1 \in 1 .. Len(Script) + 1
    <2>1. PlaceInv  BY DEF PlaceInv
    <2> QED  BY <2>1, PlaceFacts DEF Before
  <1> QED  BY <1>1, <1>2, <1>3, <1>4, <1>5, <1>6 DEF Quiet

LEMMA ListedStays == ASSUME ExchangeInv, ListedInv, Quiet  PROVE ListedInv'
  <1>1. /\ Script' \in Seq(Octet) /\ Extends(Script, Script') /\ Before' = Before
        /\ UNCHANGED <<offer, greet, rpc, data, entry, bits, stored>>
        /\ Before + 1 \in 1 .. Len(Script) + 1
    BY QuietStep
  <1>2. PlaceInv  BY DEF PlaceInv, ExchangeInv
  <1>3. ASSUME ~data, rpc = "kind"
        PROVE  (\E i \in 0 .. Len(offer) : At(FALSE, i, Before + 1) /\ Len(bits) = Files(offer, i))'
    <2>1. PICK i \in 0 .. Len(offer) : At(FALSE, i, Before + 1) /\ Len(bits) = Files(offer, i)
      BY <1>3 DEF ListedInv
    <2>2. i \in 0 .. Len(offer) + 1 /\ FALSE \in BOOLEAN  BY <1>2, PlaceFacts
    <2>3. Boundary(offer, greet, Script', FALSE, i, Before + 1)
      BY <1>1, <1>2, <2>1, <2>2, PlaceFacts, BoundaryExtends DEF At
    <2> QED  BY <1>1, <2>1, <2>3 DEF At
  <1> QED  BY <1>1, <1>3 DEF ListedInv, Offered

LEMMA ListedHello == ASSUME ExchangeInv, ListedInv, GotHello  PROVE ListedInv'
  <1>0. PlaceInv  BY DEF PlaceInv, ExchangeInv
  <1>1. UNCHANGED <<data, entry, bits, offer, greet, sent, unsent, taken>> /\ Script' = Script
    BY DEF GotHello, sendVars, Script
  <1>2. Has("hello") \/ Has("tail")  BY DEF GotHello
  <1>3. ~data /\ Len(taken) = (IF rpc = "hello" THEN 1 ELSE 2) /\ (rpc = "tail" => Multi(greet))
    BY <1>0, <1>2, GreetingThere
  <1>4. Len(bits) = 0  BY <1>2, <1>3 DEF ListedInv, Has
  <1>5. CASE rpc' \in {"tail", "failed"}
    BY <1>1, <1>3, <1>4, <1>5 DEF ListedInv, Offered, Fielded
  <1>6. CASE NextField("kind", 1) /\ (Has("tail") \/ ~Multi(greet))
    <2>1. rpc' = "kind" /\ Before' = Len(taken)
      BY <1>0, <1>1, <1>6, FreshRead, PlaceFacts DEF PlaceInv
    <2>2. Len(taken) = Len(Hello(greet))  BY <1>2, <1>3, <1>6, HelloBytes DEF Has
    <2>3. At(FALSE, 0, Before + 1)'  BY <1>1, <2>1, <2>2 DEF At, Boundary, AtPhase
    <2>4. Len(bits') = Files(offer', 0) /\ 0 \in 0 .. Len(offer')
      BY <1>0, <1>1, <1>4, FilesFacts, PlaceFacts
    <2> QED  BY <1>1, <1>3, <2>1, <2>3, <2>4 DEF ListedInv, Offered, Fielded
  <1> QED  BY <1>5, <1>6 DEF GotHello, NextField, Stops

LEMMA ListedKind == ASSUME ExchangeInv, ListedInv, GotKind  PROVE ListedInv'
  <1>0. PlaceInv  BY DEF PlaceInv, ExchangeInv
  <1>1. UNCHANGED <<data, bits, offer>> /\ Has("kind")  BY DEF GotKind, sendVars
  <1>2. CASE data
    <2>1. rpc' \in {"ack", "len"}  BY <1>2 DEF GotKind, NextField
    <2> QED  BY <1>1, <1>2, <2>1 DEF ListedInv, Offered
  <1>3. CASE ~data
    <2> DEFINE k == Len(taken)
               n == Len(offer)
    <2>1. PICK i \in 0 .. n : At(FALSE, i, Before + 1) /\ Len(bits) = Files(offer, i)
      BY <1>1, <1>3 DEF ListedInv, Has
    <2>2. Len(got) = 1 /\ k \in Starts(Script) /\ data = FALSE
      BY <1>0, <1>1, <1>3, KindThere, PlaceFacts
    <2>3. Before + 1 = k /\ k \in 1 .. Len(Script) /\ n \in Nat
      BY <1>0, <2>2, PlaceFacts DEF Before, Starts
    <2>4. Order(Walks[FALSE], n, i, Which(offer, Script, k))
      BY <1>0, <2>1, <2>3, PlaceFacts DEF Orders, At
    <2>5. Walks[FALSE] = 1 .. n  BY DEF Walks
    <2>6. /\ got[1] = End => Which(offer, Script, k) = n + 1
          /\ got[1] # End => got[1].of = Which(offer, Script, k) /\ got[1].of \in 1 .. n
      BY <1>0, <1>1, KindMeets
    <2> HIDE DEF k, n
    <2>7. CASE got[1] = End
      <3>1. rpc' = "answer"  BY <1>3, <2>7 DEF GotKind, NextField
      <3>2. i = n
        <4>1. Order(1 .. n, n, i, n + 1)  BY <2>4, <2>5, <2>6, <2>7
        <4>2. n + 1 \notin 1 .. n  BY <2>3
        <4>3. \A m \in 1 .. n : m <= i  BY <4>1, <4>2 DEF Order
        <4> QED  BY <2>1, <2>3, <4>3
      <3>3. Len(bits) = Offered  BY <2>1, <3>2 DEF Offered, n
      <3> QED  BY <1>1, <1>3, <3>1, <3>3 DEF ListedInv, Offered, Fielded
    <2>8. CASE got[1] # End
      <3>1. rpc' = "len" /\ entry' = got[1].of  BY <2>8 DEF GotKind, NextField
      <3>2. entry' = i + 1
        <4>1. entry' \in 1 .. n /\ i < entry' /\ \A m \in 1 .. n : i < m => entry' <= m
          BY <2>1, <2>3, <2>4, <2>5, <2>6, <2>8, <3>1 DEF Order
        <4>2. i + 1 \in 1 .. n /\ i < i + 1  BY <2>1, <2>3, <4>1
        <4> QED  BY <2>1, <2>3, <4>1, <4>2
      <3>3. Len(bits') = Files(offer', entry' - 1)
        <4>1. entry' - 1 = i  BY <2>1, <2>3, <3>2
        <4> QED  BY <1>1, <2>1, <4>1
      <3> QED  BY <1>1, <1>3, <3>1, <3>3 DEF ListedInv, Offered, Fielded
    <2> QED  BY <2>7, <2>8
  <1> QED  BY <1>2, <1>3

LEMMA ListedListed == ASSUME ExchangeInv, ListedInv, GotListed  PROVE ListedInv'
  <1>0. PlaceInv  BY DEF PlaceInv, ExchangeInv
  <1>1. /\ UNCHANGED <<data, entry, offer, greet, taken, sent, unsent>> /\ Script' = Script
        /\ rpc = "meta" /\ need = 0 /\ ~data /\ NextField("kind", 1) /\ rpc \in Fielded
    BY DEF GotListed, sendVars, Has, Fielded, Script
  <1>2. entry \in 1 .. Len(offer) /\ offer \in Offers /\ data \in BOOLEAN /\ Len(offer) \in Nat
    BY <1>0, <1>1, FieldThere, PlaceFacts
  <1>3. UnitLen(offer, greet, data, entry) = Offset(offer, entry, rpc) + Size(offer, entry, rpc)
    BY <1>1, <1>2, FieldFollows
  <1>4. Boundary(offer, greet, Script, data, entry, Len(taken) + 1)
    BY <1>0, <1>1, <1>3, UnitEnds
  <1>5. rpc' = "kind" /\ Before' = Len(taken)
    BY <1>0, <1>1, <1>2, FreshRead DEF PlaceInv
  <1>6. At(FALSE, entry, Before + 1)'
    <2>1. data = FALSE  BY <1>1, <1>2
    <2> QED  BY <1>1, <1>4, <1>5, <2>1 DEF At
  <1>7. Len(bits) = Files(offer, entry - 1) /\ bits \in Seq(BOOLEAN)  BY <1>1 DEF ListedInv
  <1>8. bits' \in Seq(BOOLEAN) /\ Len(bits') = Files(offer, entry)
    <2>1. CASE Me.kind = "File"
      <3>1. PICK b \in BOOLEAN : bits' = Append(bits, b)
        <4>1. PICK held \in BOOLEAN : bits' = Append(bits, held /\ Sanitize(Me.path) # <<>>)
          BY <2>1 DEF GotListed
        <4>2. (held /\ Sanitize(Me.path) # <<>>) \in BOOLEAN  OBVIOUS
        <4> QED  BY <4>1, <4>2
      <3>2. bits' \in Seq(BOOLEAN) /\ Len(bits') = Len(bits) + 1  BY <1>7, <3>1, AppendProperties
      <3>3. Files(offer, entry) = Files(offer, entry - 1) + 1  BY <1>2, <2>1, FilesFacts DEF Me
      <3> QED  BY <1>7, <3>2, <3>3
    <2>2. CASE Me.kind # "File"
      <3>1. bits' = bits  BY <2>2 DEF GotListed
      <3>2. Files(offer, entry) = Files(offer, entry - 1) + 0  BY <1>2, <2>2, FilesFacts DEF Me
      <3>3. entry - 1 \in 0 .. Len(offer)  BY <1>2
      <3>4. Files(offer, entry - 1) \in Nat  BY <1>2, <3>3, FilesFacts
      <3> QED  BY <1>7, <3>1, <3>2, <3>4
    <2> QED  BY <2>1, <2>2
  <1>9. entry \in 0 .. Len(offer) /\ Len(bits') <= Files(offer, Len(offer))
    <2>1. entry \in 0 .. Len(offer)  BY <1>2
    <2> QED  BY <1>2, <1>8, <2>1, FilesFacts
  <1> QED  BY <1>1, <1>5, <1>6, <1>8, <1>9 DEF ListedInv, Offered, Fielded

LEMMA ListedStep == ASSUME ExchangeInv, ListedInv, [Next]_vars  PROVE ListedInv'
  <1>1. CASE Quiet  BY <1>1, ListedStays
  <1>2. CASE GotLen \/ GotPath
    <2>1. rpc \in Fielded /\ rpc' \in Fielded /\ UNCHANGED <<data, entry, bits, offer>>
      BY <1>2 DEF GotLen, GotPath, Has, NextField, Fielded, sendVars
    <2>2. rpc' \notin {"hello", "tail", "kind", "answer"}  BY <2>1 DEF Fielded
    <2> QED  BY <2>1, <2>2 DEF ListedInv, Offered
  <1>3. CASE GotHeader \/ GotPayload
    <2>0. PlaceInv  BY DEF PlaceInv, ExchangeInv
    <2>1. UNCHANGED <<data, bits, offer>> /\ rpc' # "answer"
      BY <1>3 DEF GotHeader, GotPayload, NextField, Stops, sendVars
    <2>2. data
      <3>1. CASE GotHeader  BY <3>1 DEF GotHeader
      <3>2. CASE GotPayload
        <4>1. rpc \in {"data", "digest"} /\ rpc \in Fielded /\ need = 0
          BY <3>2 DEF GotPayload, Has, Fielded
        <4> QED  BY <2>0, <4>1, FieldThere DEF HasField
      <3> QED  BY <1>3, <3>1, <3>2
    <2> QED  BY <2>1, <2>2 DEF ListedInv, Offered
  <1>4. CASE Answer
    <2>1. rpc = "answer" /\ data' = TRUE /\ rpc' = "kind" /\ UNCHANGED <<bits, offer>>
      BY <1>4 DEF Answer, Has, NextField, sendVars
    <2> QED  BY <2>1 DEF ListedInv, Offered
  <1>5. CASE Acknowledge \/ ReceiverFails
    <2>1. rpc' \in {"ok", "failed"} /\ UNCHANGED <<data, bits, offer>>
      BY <1>5 DEF Acknowledge, ReceiverFails, Stops, sendVars
    <2> QED  BY <2>1 DEF ListedInv, Offered, Fielded
  <1> QED
    BY <1>1, <1>2, <1>3, <1>4, <1>5, ListedHello, ListedKind, ListedListed
    DEF Next, SenderStep, ReceiverStep, Quiet

-----------------------------------------------------------------------------
(* What is on its way back, and what the sender made of it.                *)

\* The answer until it is read, the acknowledgement after; nothing before.
BackInv ==
    /\ data /\ spc \in {"manifest", "bitmap"} => back = EncodeBitmap(bits) /\ rpc # "ok"
    /\ ~data => back = <<>>
    /\ spc \in {"data", "ack"} => back = IF rpc = "ok" THEN <<Ack>> ELSE <<>>

\* Something of the data phase is sent.
DataSent(s) == \E k \in 1 .. Len(s) : InData(s, k)

\* Past its read of the answer the sender has it; a manifest without files is
\* answered by no byte, so there the sender need not wait.
HaveInv ==
    spc \in {"data", "ack", "ok"} \/ DataSent(Script) =>
        have = bits /\ (~data => Offered = 0)

LEMMA NotSentYet ==
    ASSUME ExchangeInv, spc \in {"manifest", "bitmap"}
    PROVE  ~DataSent(Script) /\ rpc \notin {"ack", "ok"}
  <1>0. PlaceInv  BY DEF PlaceInv, ExchangeInv
  <1>1. \E i \in 0 .. Len(offer) + 1 : At(FALSE, i, Len(Script) + 1)
    <2>1. CASE spc = "manifest"
      <3>1. at \in 0 .. Len(offer) + 1 /\ At(FALSE, at, Len(Script) + 1)
        BY <2>1 DEF ExchangeInv, SenderInv
      <3> QED  BY <3>1
    <2>2. CASE spc = "bitmap"
      <3>1. At(FALSE, Len(offer) + 1, Len(Script) + 1)  BY <2>2 DEF ExchangeInv, SenderInv
      <3>2. Len(offer) + 1 \in 0 .. Len(offer) + 1  BY <1>0, PlaceFacts
      <3> QED  BY <3>1, <3>2
    <2> QED  BY <2>1, <2>2
  <1>2. PICK i \in 0 .. Len(offer) + 1 : At(FALSE, i, Len(Script) + 1)  BY <1>1
  <1>3. \A k \in 1 .. Len(Script) : ~InData(Script, k)
    BY <1>0, <1>2, PlaceFacts, ManifestOnly DEF At
  <1>4. ASSUME rpc \in {"ack", "ok"}  PROVE FALSE
    <2>1. At(TRUE, Len(offer) + 1, Len(taken) + 1)  BY <1>4 DEF ExchangeInv, ReaderInv, OverAt
    <2>2. Len(offer) + 1 # 0  BY <1>0, PlaceFacts
    <2>3. PICK j \in Starts(Script) : InData(Script, j) = TRUE
      BY <2>1, <2>2 DEF At, Boundary, Ends
    <2> QED  BY <1>3, <2>3 DEF Starts
  <1> QED  BY <1>3, <1>4 DEF DataSent

\* What is received is sent.
LEMMA ReceivedIsSent ==
    ASSUME ExchangeInv, rpc \in {"ack", "ok"} \/ (data /\ rpc \in Fielded)
    PROVE  DataSent(Script)
  <1>0. PlaceInv  BY DEF PlaceInv, ExchangeInv
  <1>1. CASE rpc \in {"ack", "ok"}
    <2>1. At(TRUE, Len(offer) + 1, Len(taken) + 1)  BY <1>1 DEF ExchangeInv, ReaderInv, OverAt
    <2>2. Len(offer) + 1 # 0  BY <1>0, PlaceFacts
    <2>3. PICK j \in Starts(Script) : InData(Script, j) = TRUE
      BY <2>1, <2>2 DEF At, Boundary, Ends
    <2> QED  BY <2>3 DEF Starts, DataSent
  <1>2. CASE data /\ rpc \in Fielded
    <2>1. FieldStart(offer, Script, data, entry, rpc, Before)
      BY <1>2 DEF ExchangeInv, ReaderInv, FieldAt
    <2>2. PICK k \in Starts(Script) : InData(Script, k) = data  BY <2>1 DEF FieldStart
    <2> QED  BY <1>2, <2>2 DEF Starts, DataSent
  <1> QED  BY <1>1, <1>2

AnswerInv == ListedInv /\ BackInv /\ HaveInv

LEMMA AnswerRead ==
    ASSUME ExchangeInv, AnswerInv, ReadBitmap
    PROVE  BackInv' /\ HaveInv'
  <1>1. /\ spc = "bitmap" /\ spc' = "data" /\ Len(back) >= Bytes(Offered)
        /\ have' = DecodeBitmap(back, Offered) /\ back' = Drop(back, Bytes(Offered))
        /\ UNCHANGED <<offer, rpc, data, bits>>
    BY DEF ReadBitmap, recvVars
  <1>2. rpc \notin {"ack", "ok"}  BY <1>1, NotSentYet
  <1>3. offer \in Offers /\ Offered \in Nat /\ bits \in Seq(BOOLEAN) /\ Len(bits) <= Offered
    <2>1. offer \in Offers /\ Len(offer) \in Nat  BY ScriptTyped DEF ExchangeInv
    <2>2. Len(offer) \in 0 .. Len(offer)  BY <2>1
    <2>3. Files(offer, Len(offer)) \in Nat  BY <2>1, <2>2, FilesFacts
    <2> QED  BY <2>1, <2>3 DEF AnswerInv, ListedInv, Offered
  <1>4. CASE data
    <2>1. back = EncodeBitmap(bits) /\ Len(bits) = Offered
      BY <1>1, <1>4 DEF AnswerInv, BackInv, ListedInv
    <2>2. have' = bits  BY <1>1, <1>3, <2>1, BitmapRoundTrip
    <2>3. back' = <<>>
      <3>1. back \in Seq(SUBSET Int) /\ Len(back) = Bytes(Offered) /\ Bytes(Offered) \in Nat
        BY <1>3, <2>1, BitmapBytes
      <3> QED  BY <1>1, <3>1 DEF Drop
    <2> QED  BY <1>1, <1>2, <1>4, <2>2, <2>3 DEF BackInv, HaveInv
  <1>5. CASE ~data
    <2>1. back = <<>>  BY <1>5 DEF AnswerInv, BackInv
    <2>2. Offered = 0
      <3>1. Len(back) = 0  BY <2>1
      <3>2. Bytes(Offered) <= 0  BY <1>1, <1>3, <3>1, BytesFacts
      <3> SUFFICES ASSUME 0 < Offered  PROVE FALSE  BY <1>3
      <3>3. (0 \div BitsPerByte) + 1 <= Bytes(Offered)  BY <1>3, BytesFacts, ByteThere DEF Bytes
      <3>4. 0 \div BitsPerByte \in Nat /\ Bytes(Offered) \in Nat  BY <1>3, BytesFacts, DivFacts
      <3> QED  BY <3>2, <3>3, <3>4
    <2>3. have' = <<>> /\ bits = <<>>
      <3>1. Len(bits) = 0  BY <1>3, <2>2, LenProperties
      <3> QED  BY <1>1, <1>3, <2>2, <3>1, NothingAsked, EmptySeq
    <2>4. back' = <<>>
      <3>1. Bytes(Offered) = 0  BY <2>2, BytesFacts
      <3> QED  BY <1>1, <2>1, <3>1 DEF Drop
    <2> QED  BY <1>1, <1>2, <1>5, <2>2, <2>3, <2>4 DEF BackInv, HaveInv, Offered
  <1> QED  BY <1>4, <1>5

LEMMA AnswerStep ==
    ASSUME ExchangeInv, AnswerInv, [Next]_vars
    PROVE  BackInv' /\ HaveInv'
  <1> USE DEF AnswerInv
  <1>0. PlaceInv  BY DEF PlaceInv, ExchangeInv
  <1>1. CASE ReadBitmap  BY <1>1, AnswerRead
  <1>2. CASE Write \/ Read \/ UNCHANGED vars
    <2>1. Script' = Script /\ UNCHANGED <<offer, spc, have, back, rpc, data, bits>>
      <3>1. CASE Write  BY <3>1, WriteScript DEF Write, ExchangeInv, recvVars
      <3>2. CASE Read  BY <3>2, ReadPlace DEF Read, ExchangeInv, sendVars, recvVars
      <3>3. CASE UNCHANGED vars  BY <3>3 DEF vars, sendVars, recvVars, Script
      <3> QED  BY <1>2, <3>1, <3>2, <3>3
    <2> QED  BY <2>1 DEF BackInv, HaveInv, Offered
  <1>3. CASE Encode
    <2>1. UNCHANGED <<offer, greet, spc, have, back, rpc, data, bits>> /\ spc \in {"manifest", "data"}
      BY <1>3 DEF Encode, recvVars
    <2>2. BackInv'  BY <2>1 DEF BackInv
    <2>3. CASE spc = "data"  BY <2>1, <2>2, <2>3 DEF HaveInv, Offered
    <2>4. CASE spc = "manifest"
      <3>1. GrammarInv' /\ SenderInv' /\ Script' \in Seq(Octet)
        BY <1>3, EncodeScript DEF ExchangeInv
      <3>2. /\ Units(offer, greet, Script') /\ at' \in 0 .. Len(offer) + 1
            /\ Boundary(offer, greet, Script', FALSE, at', Len(Script') + 1)
        BY <2>1, <2>4, <3>1 DEF GrammarInv, SenderInv, At
      <3>3. \A k \in 1 .. Len(Script') : ~InData(Script', k)
        BY <1>0, <3>1, <3>2, ManifestOnly, PlaceFacts
      <3> QED  BY <2>1, <2>2, <2>4, <3>3 DEF HaveInv, DataSent
    <2> QED  BY <2>1, <2>3, <2>4
  <1>4. CASE Written
    <2>1. /\ Script' = Script /\ UNCHANGED <<offer, have, back, rpc, data, bits>>
          /\ (spc = "manifest" /\ spc' = "bitmap") \/ (spc = "data" /\ spc' = "ack")
      BY <1>4, WrittenScript DEF Written, ExchangeInv, recvVars
    <2> QED  BY <2>1 DEF BackInv, HaveInv, Offered
  <1>5. CASE ReadAck
    <2>1. /\ UNCHANGED <<offer, have, rpc, data, bits, sent, unsent>> /\ spc = "ack"
          /\ spc' \in {"ok", "failed"} /\ back # <<>>
      BY <1>5 DEF ReadAck, recvVars
    <2>2. data  BY <2>1 DEF BackInv
    <2> QED  BY <2>1, <2>2 DEF BackInv, HaveInv, Offered, Script
  <1>6. CASE SenderFails
    <2>1. UNCHANGED <<offer, have, back, rpc, data, bits, sent, unsent>> /\ spc' = "failed"
      BY <1>6 DEF SenderFails, recvVars
    <2> QED  BY <2>1 DEF BackInv, HaveInv, Offered, Script
  <1>7. CASE GotHello \/ GotKind \/ GotLen \/ GotPath \/ GotHeader \/ GotPayload \/ ReceiverFails
    <2>1. /\ UNCHANGED <<offer, spc, have, back, data, bits, sent, unsent>>
          /\ rpc # "ok" /\ rpc' # "ok"
      BY <1>7 DEF GotHello, GotKind, GotLen, GotPath, GotHeader, GotPayload, ReceiverFails, Has,
                  NextField, Stops, ReceiverGone, sendVars
    <2> QED  BY <2>1 DEF BackInv, HaveInv, Offered, Script
  <1>8. CASE GotListed
    <2>1. /\ UNCHANGED <<offer, spc, have, back, data, sent, unsent>> /\ ~data
          /\ rpc = "meta" /\ rpc \in Fielded /\ need = 0 /\ rpc' = "kind"
      BY <1>8 DEF GotListed, Has, NextField, sendVars, Fielded
    <2>2. BackInv'  BY <2>1 DEF BackInv
    <2>3. ASSUME Offered = 0  PROVE bits' = bits
      <3>1. entry \in 1 .. Len(offer) /\ offer \in Offers /\ Len(offer) \in Nat
        BY <1>0, <2>1, FieldThere, PlaceFacts
      <3>2. entry \in 0 .. Len(offer) /\ entry - 1 \in 0 .. Len(offer)  BY <3>1
      <3>3. Files(offer, entry) <= 0 /\ Files(offer, entry - 1) \in Nat
        BY <2>3, <3>1, <3>2, FilesFacts DEF Offered
      <3>4. Me.kind # "File"
        <4> SUFFICES ASSUME offer[entry].kind = "File"  PROVE FALSE  BY DEF Me
        <4>1. Files(offer, entry) = Files(offer, entry - 1) + 1  BY <3>1, FilesFacts
        <4> QED  BY <3>3, <4>1
      <3> QED  BY <1>8, <3>4 DEF GotListed
    <2> QED  BY <2>1, <2>2, <2>3 DEF HaveInv, Offered, Script
  <1>9. CASE Answer
    <2>1. /\ UNCHANGED <<offer, spc, have, bits, sent, unsent>> /\ ~data /\ data' = TRUE
          /\ rpc = "answer" /\ rpc' = "kind" /\ back' = back \o EncodeBitmap(bits)
      <3>1. rpc = "answer" /\ rpc' = "kind" /\ data' = TRUE  BY <1>9 DEF Answer, Has, NextField
      <3>2. ~data  BY <3>1 DEF ExchangeInv, ReaderInv, OverAt
      <3> QED  BY <1>9, <3>1, <3>2 DEF Answer, sendVars
    <2>2. back = <<>> /\ bits \in Seq(BOOLEAN) /\ Len(bits) = Offered
      BY <2>1 DEF BackInv, ListedInv
    <2>3. back' = EncodeBitmap(bits)  BY <2>1, <2>2, BitmapBytes, ConcatEmptySeq
    <2>4. ASSUME spc \in {"data", "ack"}  PROVE back' = <<>>
      <3>1. Len(bits) = 0  BY <2>1, <2>2, <2>4 DEF HaveInv
      <3>2. bits = <<>>  BY <2>2, <3>1, EmptySeq
      <3> QED  BY <2>3, <3>2, NothingAsked
    <2>5. BackInv'  BY <2>1, <2>3, <2>4 DEF BackInv
    <2>6. HaveInv'  BY <2>1 DEF HaveInv, Offered, Script
    <2> QED  BY <2>5, <2>6
  <1>10. CASE Acknowledge
    <2>1. /\ UNCHANGED <<offer, spc, have, data, bits, sent, unsent>>
          /\ rpc = "ack" /\ rpc' = "ok" /\ back' = Append(back, Ack)
      BY <1>10 DEF Acknowledge, Has, Stops, sendVars
    <2>2. data /\ spc \notin {"manifest", "bitmap"}
      <3>1. data  BY <2>1 DEF ExchangeInv, ReaderInv, OverAt
      <3> QED  BY <2>1, <3>1, NotSentYet
    <2>3. ASSUME spc \in {"data", "ack"}  PROVE back' = <<Ack>>
      <3>1. back = <<>>  BY <2>1, <2>3 DEF BackInv
      <3> QED  BY <2>1, <3>1
    <2> QED  BY <2>1, <2>2, <2>3 DEF BackInv, HaveInv, Offered, Script
  <1> QED
    BY <1>1, <1>2, <1>3, <1>4, <1>5, <1>6, <1>7, <1>8, <1>9, <1>10 DEF Next, SenderStep, ReceiverStep

\* Where the receiver may be.
PhaseInv == rpc \in {"hello", "tail", "kind", "answer", "ack", "ok", "failed"} \cup Fielded

LEMMA PhaseStep == PhaseInv /\ [Next]_vars => PhaseInv'
  <1> SUFFICES ASSUME PhaseInv, [Next]_vars  PROVE PhaseInv'  OBVIOUS
  <1>1. CASE Turns
    <2>1. rpc' \in {"tail", "kind", "len", "path", "meta", "data", "digest", "answer", "ack", "ok", "failed"}
      BY <1>1 DEF Turns, GotHello, GotKind, GotLen, GotPath, GotListed, GotHeader, GotPayload,
                  Answer, Acknowledge, ReceiverFails, NextField, Stops
    <2> QED  BY <2>1 DEF PhaseInv, Fielded
  <1>2. CASE ~Turns
    <2>1. rpc' = rpc
      BY <1>2 DEF Next, SenderStep, ReceiverStep, Turns, Write, Encode, Written, ReadBitmap, ReadAck,
                  SenderFails, Read, vars, recvVars
    <2> QED  BY <2>1 DEF PhaseInv
  <1> QED  BY <1>1, <1>2

AgreedInv == ExchangeInv /\ AnswerInv /\ PhaseInv

(* The receiver has one bit for each file of the manifest it has read      *)
(* (answer_manifest), what is on the way back is its bitmap and then its   *)
(* acknowledgement, and a sender past read_bitmap has decoded that bitmap. *)
THEOREM ExchangeAgrees == Spec => []AgreedInv
  <1>1. Init => AnswerInv
    <2> SUFFICES ASSUME Init  PROVE AnswerInv  OBVIOUS
    <2>1. /\ data = FALSE /\ spc = "manifest" /\ rpc = "hello" /\ bits = <<>> /\ back = <<>>
          /\ offer \in Offers /\ Script = Hello(greet)
      BY HelloBytes, ConcatEmptySeq DEF Init, Script
    <2>2. Len(offer) \in 0 .. Len(offer)  BY <2>1, ExchangeAssumption, LenProperties
    <2>3. Offered \in Nat  BY <2>1, <2>2, FilesFacts DEF Offered
    <2>4. ListedInv  BY <2>1, <2>3 DEF ListedInv, Fielded
    <2>5. BackInv  BY <2>1 DEF BackInv
    <2>6. ~DataSent(Script)
      <3> SUFFICES ASSUME NEW k \in 1 .. Len(Script), NEW j \in 1 .. k - 1, Script[j].part = "end"
                   PROVE  FALSE
        BY DEF DataSent, InData
      <3>1. j \in 1 .. Len(Hello(greet))  BY <2>1, HelloBytes
      <3> QED  BY <2>1, <3>1, HelloBytes
    <2>7. HaveInv  BY <2>1, <2>6 DEF HaveInv
    <2> QED  BY <2>4, <2>5, <2>7 DEF AnswerInv
  <1>2. Init => PhaseInv  BY DEF Init, PhaseInv
  <1>3. ExchangeInv /\ AnswerInv /\ [Next]_vars => AnswerInv'
    BY ListedStep, AnswerStep DEF AnswerInv
  <1> QED  BY <1>1, <1>2, <1>3, PhaseStep, ExchangeSafe, PTL DEF Spec, AgreedInv

-----------------------------------------------------------------------------
(* Both ends wait: then all that was sent is taken, and the reader is in   *)
(* the middle of nothing.                                                  *)

\* A reader that lacks bytes of a field has not taken the whole script.
LEMMA MidField ==
    ASSUME ExchangeInv, rpc \in {"hello", "tail"} \/ rpc \in Fielded, need > 0
    PROVE  Len(taken) < Len(Script)
  <1>0. PlaceInv  BY DEF PlaceInv, ExchangeInv
  <1>1. /\ Len(taken) \in Nat /\ Len(got) \in Nat /\ need \in Nat /\ Len(Script) \in Nat
        /\ Before = Len(taken) - Len(got)
    BY <1>0, PlaceFacts DEF Before
  <1>2. CASE rpc \in {"hello", "tail"}
    <2>1. Len(got) + need = 1 /\ Before + 1 <= Len(Hello(greet))
      BY <1>0, <1>2 DEF PlaceInv, ReaderInv, GreetAt
    <2>2. Len(Hello(greet)) \in Nat /\ Len(Hello(greet)) <= Len(Script)
      <3>1. Covers(Script, 1, Hello(greet)) /\ Len(Hello(greet)) \in Nat
        BY <1>0, PlaceFacts, HelloBytes DEF Units
      <3> QED  BY <1>1, <3>1 DEF Covers
    <2> QED  BY <1>1, <2>1, <2>2
  <1>3. CASE rpc \in Fielded
    <2>1. /\ entry \in 1 .. Len(offer) /\ HasField(offer, greet, data, entry, rpc)
          /\ Len(got) + need = Size(offer, entry, rpc)
          /\ FieldStart(offer, Script, data, entry, rpc, Before)
      BY <1>0, <1>3 DEF PlaceInv, ReaderInv, FieldAt
    <2>2. PICK k \in Starts(Script) :
            /\ Which(offer, Script, k) = entry /\ InData(Script, k) = data
            /\ Before = k - 1 + Offset(offer, entry, rpc)
      BY <2>1 DEF FieldStart
    <2>3. k - 1 + Offset(offer, entry, rpc) + Size(offer, entry, rpc) <= Len(Script)
      BY <1>0, <2>1, <2>2, FieldBytes, PlaceFacts
    <2>4. Size(offer, entry, rpc) \in Nat /\ Offset(offer, entry, rpc) \in Nat /\ k \in Nat
      <3>1. data \in BOOLEAN /\ offer \in Offers /\ Len(Script) \in Nat  BY <1>0, PlaceFacts
      <3>2. Size(offer, entry, rpc) \in Nat /\ Offset(offer, entry, rpc) \in Nat
        BY <2>1, <3>1, UnitField
      <3> QED  BY <2>1, <3>1, <3>2 DEF Starts
    <2>5. Before + Size(offer, entry, rpc) <= Len(Script)  BY <2>2, <2>3, <2>4
    <2> QED  BY <1>1, <2>1, <2>4, <2>5
  <1> QED  BY <1>2, <1>3

LEMMA NeitherWaits == AgreedInv => NotBothWait
  <1> SUFFICES ASSUME AgreedInv, SenderWaits, ReceiverWaits  PROVE FALSE
    BY DEF NotBothWait
  <1>1. ExchangeInv /\ ListedInv /\ BackInv /\ HaveInv /\ PhaseInv  BY DEF AgreedInv, AnswerInv
  <1>0. PlaceInv  BY <1>1 DEF PlaceInv, ExchangeInv
  <1>2. stage = <<>> /\ wire = <<>> /\ need > 0 /\ rpc \notin {"ok", "failed"}
    BY DEF ReceiverWaits, ReceiverGone
  <1>3. rpc \notin {"answer", "ack"}  BY <1>0, <1>2 DEF PlaceInv, ReaderInv, OverAt
  <1>4. /\ Script \in Seq(Octet) /\ Len(Script) \in Nat /\ offer \in Offers /\ Len(offer) \in Nat
        /\ Units(offer, greet, Script) /\ data \in BOOLEAN /\ Len(taken) \in Nat
        /\ Len(got) \in Nat /\ need \in Nat
    BY <1>0, PlaceFacts
  <1>5. ASSUME unsent = <<>>  PROVE Len(taken) = Len(Script)
    BY <1>1, <1>2, <1>5, TakenFirst DEF ExchangeInv
  <1>6. ASSUME unsent = <<>>  PROVE rpc \notin {"hello", "tail"} /\ rpc \notin Fielded
    BY <1>1, <1>2, <1>4, <1>5, <1>6, MidField
  <1>7. ASSUME unsent = <<>>, rpc = "kind"
        PROVE  \E i \in 0 .. Len(offer) : Boundary(offer, greet, Script, data, i, Len(Script) + 1)
    <2>1. /\ Len(got) + need = 1
          /\ \E i \in 0 .. Len(offer) : At(data, i, Before + 1)
      BY <1>0, <1>7 DEF PlaceInv, ReaderInv, KindAt
    <2>2. Before = Len(Script)  BY <1>2, <1>4, <1>5, <1>7, <2>1 DEF Before
    <2> QED  BY <2>1, <2>2 DEF At
  <1>8. CASE unsent # <<>> /\ Len(wire) = Room
    <2>1. Len(wire) = 0  BY <1>2
    <2> QED  BY <1>8, <2>1, ExchangeAssumption
  <1>9. CASE spc = "bitmap" /\ Len(back) < Bytes(Offered)
    <2>1. unsent = <<>> /\ At(FALSE, Len(offer) + 1, Len(Script) + 1)
      BY <1>1, <1>9 DEF ExchangeInv, SenderInv
    <2>2. ~data
      <3> SUFFICES ASSUME data  PROVE FALSE  OBVIOUS
      <3>1. back = EncodeBitmap(bits) /\ Len(bits) = Offered /\ bits \in Seq(BOOLEAN)
        BY <1>1, <1>9 DEF BackInv, ListedInv
      <3>2. Len(back) = Bytes(Offered) /\ Bytes(Offered) \in Nat  BY <3>1, BitmapBytes
      <3> QED  BY <1>9, <3>2
    <2>3. CASE rpc = "kind"
      <3>1. PICK i \in 0 .. Len(offer) : Boundary(offer, greet, Script, data, i, Len(Script) + 1)
        BY <1>7, <2>1, <2>3
      <3>2. Boundary(offer, greet, Script, TRUE, 0, Len(Script) + 1)
        BY <1>4, <2>1, ManifestOver DEF At
      <3>3. data = TRUE
        <4>1. Len(Script) + 1 \in 1 .. Len(Script) + 1 /\ 0 \in 0 .. Len(offer)  BY <1>4
        <4>2. TRUE \in BOOLEAN /\ offer \in Offers /\ Script \in Seq(Octet)
              /\ Units(offer, greet, Script) /\ data \in BOOLEAN
          BY <1>4
        <4>3. InData(Script, Len(Script) + 1) = TRUE  BY <3>2, <4>1, <4>2, BoundaryPhase
        <4>4. InData(Script, Len(Script) + 1) = data  BY <3>1, <4>1, <4>2, BoundaryPhase
        <4> QED  BY <4>2, <4>3, <4>4
      <3> QED  BY <2>2, <3>3
    <2>4. CASE rpc # "kind"  BY <1>1, <1>2, <1>3, <1>6, <2>1, <2>4 DEF PhaseInv
    <2> QED  BY <2>3, <2>4
  <1>10. CASE spc = "ack" /\ back = <<>>
    <2>1. unsent = <<>> /\ At(TRUE, Len(offer) + 1, Len(Script) + 1)
      BY <1>1, <1>10 DEF ExchangeInv, SenderInv
    <2>2. CASE rpc = "kind"
      <3>1. PICK i \in 0 .. Len(offer) : Boundary(offer, greet, Script, data, i, Len(Script) + 1)
        BY <1>7, <2>1, <2>2
      <3>2. Len(offer) + 1 # 0  BY <1>4
      <3>3. PICK e \in Starts(Script) : Which(offer, Script, e) = Len(offer) + 1 /\ InData(Script, e) = TRUE
        BY <2>1, <3>2 DEF At, Boundary, Ends
      <3>4. Script[e].part = "end"  BY <1>4, <3>3, StartFacts
      <3> QED  BY <1>4, <3>1, <3>3, <3>4, NotOver
    <2>3. CASE rpc # "kind"  BY <1>1, <1>2, <1>3, <1>6, <2>1, <2>3 DEF PhaseInv
    <2> QED  BY <2>2, <2>3
  <1> QED  BY <1>8, <1>9, <1>10 DEF SenderWaits

(* A sender that waits for room, for the bitmap or for the acknowledgement *)
(* has a receiver with something to read or to do: send_to_diag_streamed   *)
(* and answer_manifest never wait for each other.                          *)
THEOREM EndsNeverBothWait == Spec => []NotBothWait
  BY NeitherWaits, ExchangeAgrees, PTL

-----------------------------------------------------------------------------
(* What the receiver stores.                                               *)
Elements(q) == {q[n] : n \in DOMAIN q}
Increases(q) == \A n \in 2 .. Len(q) : q[n - 1] < q[n]
Below(q, e) == \A m \in Elements(q) : m < e
Skipped == Dealt(offer, greet, have)
Accepted(i) == Sanitize(offer[i].path) # <<>>

\* The items of the data phase before the field it reads, in order, and none
\* whose path is refused.
StoredInv ==
    /\ stored \in Seq(1 .. Len(offer)) /\ Increases(stored)
    /\ \A n \in 1 .. Len(stored) : Accepted(stored[n])
    /\ ~data => stored = <<>>
    /\ data /\ rpc = "kind" =>
         \E i \in 0 .. Len(offer) :
            At(TRUE, i, Before + 1) /\ Elements(stored) = {m \in Skipped : m <= i}
    /\ data /\ rpc \in Fielded =>
         entry \in Skipped /\ Elements(stored) = {m \in Skipped : m < entry}
    /\ rpc \in {"data", "digest"} => Accepted(entry)
    /\ rpc \in {"ack", "ok"} => Elements(stored) = Skipped

LEMMA OneMore ==
    ASSUME NEW w, w \subseteq Nat, NEW q \in Seq(w), NEW e \in w,
           Increases(q), Below(q, e)
    PROVE  /\ Append(q, e) \in Seq(w) /\ Increases(Append(q, e))
           /\ \A x : x \in Elements(Append(q, e)) <=> x \in Elements(q) \/ x = e
  <1> DEFINE t == Append(q, e)
             k == Len(q)
  <1>1. /\ t \in Seq(w) /\ Len(t) = k + 1 /\ k \in Nat
        /\ \A n \in 1 .. k : t[n] = q[n]
        /\ t[k + 1] = e
    BY AppendProperties, LenProperties
  <1>2. DOMAIN q = 1 .. k /\ DOMAIN t = 1 .. k + 1  BY <1>1, LenProperties
  <1> HIDE DEF t, k
  <1>3. Elements(t) = Elements(q) \cup {e}
    <2>1. ASSUME NEW x \in Elements(t)  PROVE x \in Elements(q) \cup {e}
      <3>1. PICK n \in 1 .. k + 1 : x = t[n]  BY <1>2 DEF Elements
      <3>2. CASE n \in 1 .. k  BY <1>1, <1>2, <3>1, <3>2 DEF Elements
      <3>3. CASE n = k + 1  BY <1>1, <3>1, <3>3
      <3> QED  BY <1>1, <3>2, <3>3
    <2>2. ASSUME NEW x \in Elements(q)  PROVE x \in Elements(t)
      <3>1. PICK n \in 1 .. k : x = q[n]  BY <1>2 DEF Elements
      <3>2. n \in 1 .. k + 1 /\ x = t[n]  BY <1>1, <3>1
      <3> QED  BY <1>2, <3>2 DEF Elements
    <2>3. e \in Elements(t)
      <3>1. k + 1 \in 1 .. k + 1  BY <1>1
      <3> QED  BY <1>1, <1>2, <3>1 DEF Elements
    <2> QED  BY <2>1, <2>2, <2>3
  <1>4. ASSUME NEW n \in 2 .. Len(t)  PROVE t[n - 1] < t[n]
    <2>1. CASE n \in 2 .. k
      <3>1. n \in 1 .. k /\ n - 1 \in 1 .. k  BY <1>1, <2>1
      <3>2. t[n] = q[n] /\ t[n - 1] = q[n - 1]  BY <1>1, <3>1
      <3>3. q[n - 1] < q[n]  BY <2>1 DEF Increases, k
      <3> QED  BY <3>2, <3>3
    <2>2. CASE n = k + 1
      <3>1. n - 1 = k /\ k \in 1 .. k  BY <1>1, <1>4, <2>2
      <3>2. t[n - 1] = q[k] /\ t[n] = e  BY <1>1, <2>2, <3>1
      <3>3. q[k] \in Elements(q)  BY <1>2, <3>1 DEF Elements
      <3> QED  BY <3>2, <3>3 DEF Below
    <2> QED  BY <1>1, <1>4, <2>1, <2>2
  <1> QED  BY <1>1, <1>3, <1>4 DEF Increases, t, k

\* An item is stored after those before it.
LEMMA Storing ==
    ASSUME StoredInv, offer \in Offers, data, rpc \in Fielded, entry \in 1 .. Len(offer),
           Accepted(entry), Stores, UNCHANGED offer
    PROVE  /\ stored' \in Seq(1 .. Len(offer)) /\ Increases(stored')
           /\ \A n \in 1 .. Len(stored') : Accepted(stored'[n])
           /\ Elements(stored') = {m \in Skipped : m <= entry}
  <1> DEFINE w == 1 .. Len(offer)
  <1>1. Len(offer) \in Nat  BY ExchangeAssumption, LenProperties
  <1>2. /\ stored \in Seq(w) /\ Increases(stored) /\ entry \in w /\ w \subseteq Nat
        /\ \A n \in 1 .. Len(stored) : Accepted(stored[n])
        /\ entry \in Skipped /\ Elements(stored) = {m \in Skipped : m < entry}
        /\ stored' = Append(stored, entry)
    BY <1>1 DEF StoredInv, Stores
  <1>3. Below(stored, entry)  BY <1>2 DEF Below
  <1>7. Skipped \subseteq Int /\ entry \in Int  BY <1>1, <1>2 DEF Skipped, Dealt, Kept
  <1> HIDE DEF w
  <1>4. /\ stored' \in Seq(w) /\ Increases(stored')
        /\ Elements(stored') = Elements(stored) \cup {entry}
        /\ Len(stored') = Len(stored) + 1 /\ Len(stored) \in Nat
        /\ \A n \in 1 .. Len(stored) : stored'[n] = stored[n]
        /\ stored'[Len(stored) + 1] = entry
    <2>1. w \subseteq Nat /\ stored \in Seq(w) /\ entry \in w /\ Increases(stored)  BY <1>2
    <2>2. /\ Append(stored, entry) \in Seq(w) /\ Increases(Append(stored, entry))
          /\ \A x : x \in Elements(Append(stored, entry)) <=> x \in Elements(stored) \/ x = entry
      BY <1>3, <2>1, OneMore, Zenon
    <2>3. /\ Len(Append(stored, entry)) = Len(stored) + 1 /\ Len(stored) \in Nat
          /\ \A n \in 1 .. Len(stored) : Append(stored, entry)[n] = stored[n]
          /\ Append(stored, entry)[Len(stored) + 1] = entry
      BY <2>1, AppendProperties, LenProperties
    <2>4. Elements(Append(stored, entry)) = Elements(stored) \cup {entry}  BY <2>2
    <2> QED  BY <1>2, <2>2, <2>3, <2>4
  <1>5. \A n \in 1 .. Len(stored') : Accepted(stored'[n])
    <2> TAKE n \in 1 .. Len(stored')
    <2>1. CASE n \in 1 .. Len(stored)  BY <1>2, <1>4, <2>1
    <2>2. CASE n = Len(stored) + 1  BY <1>4, <2>2
    <2> QED  BY <1>4, <2>1, <2>2
  <1>6. Elements(stored') = {m \in Skipped : m <= entry}
    <2>1. {m \in Skipped : m < entry} \cup {entry} = {m \in Skipped : m <= entry}
      <3> DEFINE S == Skipped
      <3>1. S \subseteq Int /\ entry \in Int /\ entry \in S  BY <1>2, <1>7
      <3> HIDE DEF S
      <3>2. \A m \in S : m <= entry <=> m < entry \/ m = entry  BY <3>1
      <3>3. {m \in S : m < entry} \cup {entry} = {m \in S : m <= entry}  BY <3>1, <3>2, Zenon
      <3> QED  BY <3>3 DEF S
    <2> QED  BY <1>2, <1>4, <2>1
  <1> QED  BY <1>4, <1>5, <1>6 DEF w

-----------------------------------------------------------------------------
LEMMA SkippedFacts ==
    ASSUME ExchangeInv
    PROVE  /\ Skipped \subseteq 1 .. Len(offer) /\ Skipped \subseteq Nat /\ Len(offer) \in Nat
           /\ {m \in Skipped : m <= 0} = {} /\ Walks[TRUE] = Skipped
  <1>1. Len(offer) \in Nat  BY ScriptTyped DEF ExchangeInv
  <1>2. Skipped \subseteq 1 .. Len(offer)  BY DEF Skipped, Dealt, Kept
  <1>3. Walks[TRUE] = Skipped  BY DEF Walks, Skipped
  <1>4. \A m \in Skipped : m \in Nat /\ ~(m <= 0)  BY <1>1, <1>2
  <1> QED  BY <1>1, <1>2, <1>3, <1>4

LEMMA StoredStays ==
    ASSUME ExchangeInv, StoredInv, Quiet, have' = have  PROVE StoredInv'
  <1>1. /\ Script' \in Seq(Octet) /\ Extends(Script, Script') /\ Before' = Before
        /\ UNCHANGED <<offer, greet, rpc, data, entry, bits, stored>>
        /\ Before + 1 \in 1 .. Len(Script) + 1
    BY QuietStep
  <1>2. PlaceInv  BY DEF PlaceInv, ExchangeInv
  <1>3. Skipped' = Skipped  BY <1>1 DEF Skipped
  <1>4. ASSUME data, rpc = "kind"
        PROVE  (\E i \in 0 .. Len(offer) :
                  At(TRUE, i, Before + 1) /\ Elements(stored) = {m \in Skipped : m <= i})'
    <2>1. PICK i \in 0 .. Len(offer) : At(TRUE, i, Before + 1) /\ Elements(stored) = {m \in Skipped : m <= i}
      BY <1>4 DEF StoredInv
    <2>2. i \in 0 .. Len(offer) + 1 /\ TRUE \in BOOLEAN  BY <1>2, PlaceFacts
    <2>3. Boundary(offer, greet, Script', TRUE, i, Before + 1)
      BY <1>1, <1>2, <2>1, <2>2, PlaceFacts, BoundaryExtends DEF At
    <2>4. Elements(stored') = {m \in Skipped' : m <= i}  BY <1>1, <1>3, <2>1
    <2> QED  BY <1>1, <2>1, <2>3, <2>4 DEF At
  <1>5. \A i : Accepted(i)' <=> Accepted(i)  BY <1>1 DEF Accepted
  <1> QED  BY <1>1, <1>3, <1>4, <1>5 DEF StoredInv

\* The answer is read before anything of the data phase is sent.
LEMMA StoredBitmap ==
    ASSUME ExchangeInv, StoredInv, ReadBitmap  PROVE StoredInv'
  <1>1. /\ UNCHANGED <<offer, greet, rpc, data, entry, stored, got, taken, sent, unsent>>
        /\ spc = "bitmap"
    BY DEF ReadBitmap, recvVars
  <1>2. ~DataSent(Script) /\ rpc \notin {"ack", "ok"}  BY <1>1, NotSentYet
  <1>3. ~(data /\ rpc \in Fielded)  BY <1>2, ReceivedIsSent
  <1>4. \A i : Accepted(i)' <=> Accepted(i)  BY <1>1 DEF Accepted
  <1>5. ASSUME data, rpc = "kind"
        PROVE  At(TRUE, 0, Before + 1) /\ Elements(stored) = {}
    <2>1. PICK i \in 0 .. Len(offer) : At(TRUE, i, Before + 1) /\ Elements(stored) = {m \in Skipped : m <= i}
      BY <1>5 DEF StoredInv
    <2>2. i = 0
      <3> SUFFICES ASSUME i # 0  PROVE FALSE  OBVIOUS
      <3>1. PICK j \in Starts(Script) : InData(Script, j) = TRUE
        BY <2>1 DEF At, Boundary, Ends
      <3> QED  BY <1>2, <3>1 DEF Starts, DataSent
    <2>3. Elements(stored) = {}  BY <2>1, <2>2, SkippedFacts
    <2> QED  BY <2>1, <2>2, <2>3
  <1>6. ASSUME data, rpc = "kind"
        PROVE  (\E i \in 0 .. Len(offer) :
                  At(TRUE, i, Before + 1) /\ Elements(stored) = {m \in Skipped : m <= i})'
    <2>1. At(TRUE, 0, Before + 1)'  BY <1>1, <1>5, <1>6 DEF At, Script, Before
    <2>2. {m \in Skipped' : m <= 0} = {}
      <3>1. Len(offer) \in Nat  BY ScriptTyped DEF ExchangeInv
      <3>2. Skipped' \subseteq 1 .. Len(offer)  BY <1>1 DEF Skipped, Dealt, Kept
      <3>3. \A m \in Skipped' : ~(m <= 0)  BY <3>1, <3>2
      <3> QED  BY <3>3
    <2>3. Elements(stored') = {m \in Skipped' : m <= 0}  BY <1>1, <1>5, <1>6, <2>2
    <2>4. 0 \in 0 .. Len(offer')  BY <1>1, SkippedFacts
    <2> QED  BY <2>1, <2>3, <2>4
  <1>7. rpc \in {"data", "digest"} => Accepted(entry)'  BY <1>1, <1>4 DEF StoredInv
  <1> QED  BY <1>1, <1>2, <1>3, <1>4, <1>6, <1>7 DEF StoredInv

LEMMA StoredKind == ASSUME ExchangeInv, StoredInv, GotKind  PROVE StoredInv'
  <1>0. PlaceInv  BY DEF PlaceInv, ExchangeInv
  <1>1. UNCHANGED <<data, stored, offer, greet, have>> /\ Has("kind")  BY DEF GotKind, sendVars
  <1>2. Skipped' = Skipped  BY <1>1 DEF Skipped
  <1>3. \A i : Accepted(i)' <=> Accepted(i)  BY <1>1 DEF Accepted
  <1>4. CASE ~data
    <2>1. rpc' \in {"answer", "len"}  BY <1>4 DEF GotKind, NextField
    <2> QED  BY <1>1, <1>3, <1>4, <2>1 DEF StoredInv
  <1>5. CASE data
    <2> DEFINE k == Len(taken)
               n == Len(offer)
    <2>1. PICK i \in 0 .. n : At(TRUE, i, Before + 1) /\ Elements(stored) = {m \in Skipped : m <= i}
      BY <1>1, <1>5 DEF StoredInv, Has
    <2>2. Len(got) = 1 /\ k \in Starts(Script)  BY <1>0, <1>1, KindThere
    <2>3. Before + 1 = k /\ k \in 1 .. Len(Script) /\ n \in Nat
      BY <1>0, <2>2, PlaceFacts DEF Before, Starts
    <2>4. Order(Walks[TRUE], n, i, Which(offer, Script, k))
      BY <1>0, <2>1, <2>3, PlaceFacts DEF Orders, At
    <2>5. Walks[TRUE] = Skipped /\ Skipped \subseteq 1 .. n /\ Skipped \subseteq Nat
      BY SkippedFacts
    <2>6. /\ got[1] = End => Which(offer, Script, k) = n + 1
          /\ got[1] # End => got[1].of = Which(offer, Script, k) /\ got[1].of \in 1 .. n
      BY <1>0, <1>1, KindMeets
    <2> HIDE DEF k, n
    <2>7. CASE got[1] = End
      <3>1. rpc' = "ack"  BY <1>5, <2>7 DEF GotKind, NextField
      <3>2. Order(Skipped, n, i, n + 1)  BY <2>4, <2>5, <2>6, <2>7
      <3>3. n + 1 \notin Skipped  BY <2>3, <2>5
      <3>4. \A m \in Skipped : m <= i  BY <3>2, <3>3 DEF Order
      <3>5. Elements(stored) = Skipped  BY <2>1, <3>4
      <3> QED  BY <1>1, <1>2, <1>3, <1>5, <3>1, <3>5 DEF StoredInv, Fielded
    <2>8. CASE got[1] # End
      <3>1. rpc' = "len" /\ entry' = got[1].of  BY <2>8 DEF GotKind, NextField
      <3>2. Order(Skipped, n, i, entry') /\ entry' \in 1 .. n  BY <2>4, <2>5, <2>6, <2>8, <3>1
      <3>3. entry' # n + 1  BY <2>3, <3>2
      <3>4. entry' \in Skipped /\ i < entry' /\ \A m \in Skipped : i < m => entry' <= m
        BY <3>2, <3>3 DEF Order
      <3>5. \A m \in Skipped : m <= i <=> m < entry'
        <4>1. \A m \in Skipped : m \in Nat  BY <2>5
        <4>2. i \in Nat /\ entry' \in Nat  BY <2>1, <2>3, <3>2
        <4> QED  BY <3>4, <4>1, <4>2
      <3>6. Elements(stored) = {m \in Skipped : m < entry'}  BY <2>1, <3>5
      <3> QED  BY <1>1, <1>2, <1>3, <1>5, <3>1, <3>4, <3>6 DEF StoredInv, Fielded
    <2> QED  BY <2>7, <2>8
  <1> QED  BY <1>4, <1>5

\* What is stored last ends its unit: the next one is read with it in place.
LEMMA StoredOn ==
    ASSUME ExchangeInv, StoredInv, data, rpc \in Fielded, need = 0, Accepted(entry), Stores,
           NextField("kind", 1),
           UNCHANGED <<offer, greet, have, taken, sent, unsent, data, entry>>,
           UnitLen(offer, greet, data, entry) =
              Offset(offer, entry, rpc) + Size(offer, entry, rpc)
    PROVE  StoredInv'
  <1>0. PlaceInv  BY DEF PlaceInv, ExchangeInv
  <1>1. entry \in 1 .. Len(offer) /\ Boundary(offer, greet, Script, data, entry, Len(taken) + 1)
    BY <1>0, UnitEnds
  <1>2. offer \in Offers /\ Len(offer) \in Nat /\ data \in BOOLEAN  BY <1>0, PlaceFacts
  <1>3. /\ stored' \in Seq(1 .. Len(offer)) /\ Increases(stored')
        /\ \A n \in 1 .. Len(stored') : Accepted(stored'[n])
        /\ Elements(stored') = {m \in Skipped : m <= entry}
    BY <1>1, <1>2, Storing
  <1>4. rpc' = "kind" /\ Before' = Len(taken)
    BY <1>0, <1>2, FreshRead DEF PlaceInv
  <1>5. At(TRUE, entry, Before + 1)'
    <2>1. data = TRUE  BY <1>2
    <2> QED  BY <1>1, <1>4, <2>1 DEF At, Script
  <1>6. Skipped' = Skipped  BY DEF Skipped
  <1>7. \A i : Accepted(i)' <=> Accepted(i)  BY DEF Accepted
  <1>8. entry' \in 0 .. Len(offer') /\ Elements(stored') = {m \in Skipped' : m <= entry'}
    BY <1>1, <1>2, <1>3, <1>6
  <1> QED  BY <1>3, <1>4, <1>5, <1>7, <1>8 DEF StoredInv, Fielded

LEMMA StoredHeader == ASSUME ExchangeInv, StoredInv, GotHeader  PROVE StoredInv'
  <1>0. PlaceInv  BY DEF PlaceInv, ExchangeInv
  <1>1. /\ UNCHANGED <<offer, greet, have, taken, sent, unsent, data, entry>>
        /\ rpc = "meta" /\ need = 0 /\ data /\ rpc \in Fielded
    BY DEF GotHeader, sendVars, Has, Fielded
  <1>2. entry \in 1 .. Len(offer) /\ offer \in Offers /\ data \in BOOLEAN
    BY <1>0, <1>1, FieldThere, PlaceFacts
  <1>3. Skipped' = Skipped  BY <1>1 DEF Skipped
  <1>4. \A i : Accepted(i)' <=> Accepted(i)  BY <1>1 DEF Accepted
  <1>5. CASE Stops("failed") /\ UNCHANGED stored
    <2>1. rpc' = "failed"  BY <1>5 DEF Stops
    <2> QED  BY <1>1, <1>4, <1>5, <2>1 DEF StoredInv, Fielded
  <1>6. CASE Sanitize(Me.path) # <<>> /\ Me.kind = "Dir" /\ NextField("kind", 1) /\ Stores
    <2>1. UnitLen(offer, greet, data, entry) = Offset(offer, entry, rpc) + Size(offer, entry, rpc)
      BY <1>1, <1>2, <1>6, FieldFollows DEF Me
    <2>2. Accepted(entry)  BY <1>6 DEF Accepted, Me
    <2> QED  BY <1>1, <1>6, <2>1, <2>2, StoredOn
  <1>7. CASE Sanitize(Me.path) # <<>> /\ NextField("data", Me.size) /\ UNCHANGED stored
    <2>1. rpc' = "data"  BY <1>7 DEF NextField
    <2>2. Accepted(entry)  BY <1>7 DEF Accepted, Me
    <2>3. entry' \in Skipped' /\ Elements(stored') = {m \in Skipped' : m < entry'}
      BY <1>1, <1>3, <1>7 DEF StoredInv
    <2> QED  BY <1>1, <1>4, <1>7, <2>1, <2>2, <2>3 DEF StoredInv, Fielded
  <1> QED  BY <1>5, <1>6, <1>7 DEF GotHeader

LEMMA StoredPayload == ASSUME ExchangeInv, StoredInv, GotPayload  PROVE StoredInv'
  <1>0. PlaceInv  BY DEF PlaceInv, ExchangeInv
  <1>1. /\ UNCHANGED <<offer, greet, have, taken, sent, unsent, data, entry>>
        /\ rpc \in {"data", "digest"} /\ need = 0 /\ rpc \in Fielded
    BY DEF GotPayload, sendVars, Has, Fielded
  <1>2. entry \in 1 .. Len(offer) /\ offer \in Offers /\ data \in BOOLEAN
        /\ data /\ offer[entry].kind # "Dir"
    BY <1>0, <1>1, FieldThere, PlaceFacts DEF HasField
  <1>3. Accepted(entry)  BY <1>1 DEF StoredInv
  <1>4. CASE rpc = "data" /\ NextField("digest", 1) /\ UNCHANGED stored
    <2>1. rpc' = "digest"  BY <1>4 DEF NextField
    <2>2. Skipped' = Skipped  BY <1>1 DEF Skipped
    <2>3. \A i : Accepted(i)' <=> Accepted(i)  BY <1>1 DEF Accepted
    <2>4. entry' \in Skipped' /\ Elements(stored') = {m \in Skipped' : m < entry'}
      BY <1>1, <1>2, <1>4, <2>2 DEF StoredInv
    <2> QED  BY <1>1, <1>2, <1>3, <1>4, <2>1, <2>3, <2>4 DEF StoredInv, Fielded
  <1>5. CASE ((rpc = "data" /\ ~Verify(greet)) \/ rpc = "digest") /\ NextField("kind", 1) /\ Stores
    <2>1. UnitLen(offer, greet, data, entry) = Offset(offer, entry, rpc) + Size(offer, entry, rpc)
      <3>1. CASE rpc = "data" /\ ~Verify(greet)  BY <1>2, <3>1, FieldFollows
      <3>2. CASE rpc = "digest"
        <4>1. Verify(greet)  BY <1>0, <3>2, FieldThere, <1>1 DEF HasField
        <4> QED  BY <1>2, <3>2, <4>1, FieldFollows
      <3> QED  BY <1>5, <3>1, <3>2
    <2> QED  BY <1>1, <1>2, <1>3, <1>5, <2>1, StoredOn
  <1> QED  BY <1>4, <1>5 DEF GotPayload, Has

LEMMA StoredAnswer == ASSUME ExchangeInv, StoredInv, Answer  PROVE StoredInv'
  <1>0. PlaceInv  BY DEF PlaceInv, ExchangeInv
  <1>1. /\ UNCHANGED <<offer, greet, have, taken, sent, unsent, stored>> /\ data' = TRUE
        /\ rpc = "answer" /\ need = 0 /\ NextField("kind", 1)
    BY DEF Answer, sendVars, Has
  <1>2. ~data /\ Boundary(offer, greet, Script, TRUE, 0, Len(taken) + 1)
    BY <1>0, <1>1, DataBegins
  <1>3. rpc' = "kind" /\ Before' = Len(taken)
    BY <1>0, <1>1, FreshRead DEF PlaceInv
  <1>4. At(TRUE, 0, Before + 1)'  BY <1>1, <1>2, <1>3 DEF At, Script
  <1>5. Skipped' = Skipped  BY <1>1 DEF Skipped
  <1>6. Elements(stored') = {m \in Skipped' : m <= 0} /\ 0 \in 0 .. Len(offer')
    <2>1. stored' = <<>>  BY <1>1, <1>2 DEF StoredInv
    <2>2. Elements(<<>>) = {}  BY DEF Elements
    <2> QED  BY <1>1, <1>5, <2>1, <2>2, SkippedFacts
  <1>7. \A i : Accepted(i)' <=> Accepted(i)  BY <1>1 DEF Accepted
  <1> QED  BY <1>1, <1>3, <1>4, <1>6, <1>7 DEF StoredInv, Fielded

LEMMA StoredStep == ASSUME ExchangeInv, StoredInv, [Next]_vars  PROVE StoredInv'
  <1>1. CASE ReadBitmap  BY <1>1, StoredBitmap
  <1>2. CASE Quiet /\ ~ReadBitmap
    <2>1. have' = have
      BY <1>2 DEF Quiet, Write, Encode, Written, ReadAck, SenderFails, Read, vars, sendVars
    <2> QED  BY <1>2, <2>1, StoredStays
  <1>3. CASE GotHello \/ GotListed
    <2>1. UNCHANGED <<data, stored, offer, have>> /\ rpc' \in {"tail", "kind", "failed"}
      BY <1>3 DEF GotHello, GotListed, NextField, Stops, sendVars
    <2>2. ~data
      <3>1. CASE GotHello
        <4>1. rpc \in {"hello", "tail"}  BY <3>1 DEF GotHello, Has
        <4> QED  BY <4>1 DEF ExchangeInv, ReaderInv, GreetAt
      <3>2. CASE GotListed  BY <3>2 DEF GotListed
      <3> QED  BY <1>3, <3>1, <3>2
    <2>3. \A i : Accepted(i)' <=> Accepted(i)  BY <2>1 DEF Accepted
    <2> QED  BY <2>1, <2>2, <2>3 DEF StoredInv
  <1>4. CASE GotLen \/ GotPath
    <2>1. /\ rpc \in Fielded /\ rpc' \in {"path", "meta"}
          /\ UNCHANGED <<data, entry, stored, offer, greet, have>>
      BY <1>4 DEF GotLen, GotPath, Has, NextField, Fielded, sendVars
    <2>2. \A i : Accepted(i)' <=> Accepted(i)  BY <2>1 DEF Accepted
    <2>3. Skipped' = Skipped  BY <2>1 DEF Skipped
    <2> QED  BY <2>1, <2>2, <2>3 DEF StoredInv
  <1>5. CASE Acknowledge
    <2>1. /\ rpc = "ack" /\ rpc' = "ok" /\ UNCHANGED <<data, entry, stored, offer, greet, have>>
      BY <1>5 DEF Acknowledge, Has, Stops, sendVars
    <2>2. \A i : Accepted(i)' <=> Accepted(i)  BY <2>1 DEF Accepted
    <2>3. Skipped' = Skipped  BY <2>1 DEF Skipped
    <2> QED  BY <2>1, <2>2, <2>3 DEF StoredInv, Fielded
  <1>6. CASE ReceiverFails
    <2>1. rpc' = "failed" /\ UNCHANGED <<data, stored, offer>>
      BY <1>6 DEF ReceiverFails, Stops, sendVars
    <2>2. \A i : Accepted(i)' <=> Accepted(i)  BY <2>1 DEF Accepted
    <2> QED  BY <2>1, <2>2 DEF StoredInv, Fielded
  <1> QED
    BY <1>1, <1>2, <1>3, <1>4, <1>5, <1>6, StoredKind, StoredHeader, StoredPayload, StoredAnswer
    DEF Next, SenderStep, ReceiverStep, Quiet

(* What read_entries stores is, in the order of the offer, what the sender *)
(* deals it up to the entry it reads, and no path that sanitize refuses.   *)
THEOREM ExchangeStores == Spec => []StoredInv
  <1>1. Init => StoredInv
    <2> SUFFICES ASSUME Init  PROVE StoredInv  OBVIOUS
    <2>1. data = FALSE /\ rpc = "hello" /\ stored = <<>>  BY DEF Init
    <2>2. stored \in Seq(1 .. Len(offer)) /\ Increases(stored)
          /\ \A n \in 1 .. Len(stored) : Accepted(stored[n])
      BY <2>1 DEF Increases
    <2> QED  BY <2>1, <2>2 DEF StoredInv, Fielded
  <1> QED  BY <1>1, StoredStep, ExchangeSafe, PTL DEF Spec

(* The sender skips the files whose bits answer_manifest set, no other,    *)
(* and a receiver that acknowledges has stored all the rest in order       *)
(* (encode_bitmap, read_bitmap, keep_unskipped, read_entries).             *)
THEOREM AnswersAgree == Spec => []AnswerAgrees
  <1>1. AgreedInv /\ StoredInv => AnswerAgrees
    <2> SUFFICES ASSUME AgreedInv, StoredInv  PROVE AnswerAgrees  OBVIOUS
    <2>1. ExchangeInv /\ HaveInv  BY DEF AgreedInv, AnswerInv
    <2>2. spc \in {"data", "ack", "ok"} => have = bits  BY <2>1 DEF HaveInv
    <2>3. ASSUME rpc = "ok"
          PROVE  /\ {stored[n] : n \in DOMAIN stored} = Dealt(offer, greet, bits)
                 /\ \A n \in 2 .. Len(stored) : stored[n - 1] < stored[n]
      <3>1. DataSent(Script)  BY <2>1, <2>3, ReceivedIsSent
      <3>2. have = bits  BY <2>1, <3>1 DEF HaveInv
      <3>3. Elements(stored) = Skipped /\ Increases(stored)  BY <2>3 DEF StoredInv
      <3> QED  BY <3>2, <3>3 DEF Elements, Skipped, Increases
    <2> QED  BY <2>2, <2>3 DEF AnswerAgrees
  <1> QED  BY <1>1, ExchangeAgrees, ExchangeStores, PTL

-----------------------------------------------------------------------------
(* A path part by part.                                                    *)
\* f has the components of each prefix of p.
Parted(f, p, d) ==
    /\ f[0] = <<>>
    /\ \A k \in 1 .. Len(p) : f[k] = IF p[k] \in d THEN f[k - 1] ELSE Append(f[k - 1], p[k])

LEMMA ComponentsFacts ==
    ASSUME NEW p \in Seq(STRING), NEW d
    PROVE  \E f \in [0 .. Len(p) -> Seq(STRING)] : Parted(f, p, d) /\ Components(p, d) = f[Len(p)]
  <1> DEFINE S == Seq(STRING)
             n == Len(p)
             W(x, k) == IF p[k] \in d THEN x ELSE Append(x, p[k])
             a == <<>>
             G == [y \in S \X (1 .. n) |-> W(y[1], y[2])]
             Is(f) == f = [k \in 0 .. n |-> IF k = 0 THEN a ELSE W(f[k - 1], k)]
  <1>1. n \in Nat /\ a \in S /\ \A k \in 1 .. n : p[k] \in STRING
    BY LenProperties, ElementOfSeq
  <1>2. \A x \in S, k \in 1 .. n : W(x, k) \in S  BY <1>1, AppendProperties
  <1>3. \A x \in S, k \in 1 .. n : G[<<x, k>>] = W(x, k)  OBVIOUS
  <1>4. G \in [S \X (1 .. n) -> S]  BY <1>2
  <1> HIDE DEF S, n, a, G, W
  <1>5. PICK f \in [0 .. n -> S] : Runs(f, n, a, G)  BY <1>1, <1>4, Unfolds, Zenon
  <1>6. \A k \in 1 .. n : f[k - 1] \in S /\ f[k] = W(f[k - 1], k)
    <2> TAKE k \in 1 .. n
    <2>1. k - 1 \in 0 .. n  BY <1>1
    <2>2. f[k - 1] \in S  BY <2>1
    <2> QED  BY <1>3, <1>5, <2>2 DEF Runs
  <1>7. Is(f)
    <2>1. \A k \in 0 .. n : f[k] = IF k = 0 THEN a ELSE W(f[k - 1], k)
      <3> TAKE k \in 0 .. n
      <3>1. CASE k = 0  BY <1>5, <3>1 DEF Runs
      <3>2. CASE k # 0
        <4>1. k \in 1 .. n  BY <1>1, <3>2
        <4> QED  BY <1>6, <3>2, <4>1
      <3> QED  BY <3>1, <3>2
    <2> QED  BY <2>1
  <1> DEFINE parts == CHOOSE h : Is(h)
  <1>8. Is(parts)
    <2> HIDE DEF Is
    <2> QED  BY <1>7
  <1>9. Components(p, d) = parts[n]  BY DEF Components, W, n, a
  <1> HIDE DEF parts
  <1>10. parts[0] = a /\ \A k \in 1 .. n : parts[k] = W(parts[k - 1], k)
    <2>1. \A k \in 0 .. n : parts[k] = IF k = 0 THEN a ELSE W(parts[k - 1], k)
      BY <1>8, Zenon
    <2>2. 0 \in 0 .. n /\ \A k \in 1 .. n : k \in 0 .. n /\ k # 0  BY <1>1
    <2> QED  BY <2>1, <2>2
  <1>11. parts[n] = f[n]
    <2> DEFINE T == {k \in 0 .. n : parts[k] # f[k]}
    <2> SUFFICES ASSUME T # {}  PROVE FALSE
      <3>1. n \in 0 .. n  BY <1>1
      <3> QED  BY <3>1
    <2>1. T \subseteq Nat  OBVIOUS
    <2>2. PICK m \in T : \A k \in T : m <= k
      <3> HIDE DEF T
      <3> QED  BY <2>1, LeastOne
    <2>3. m # 0  BY <1>5, <1>10 DEF Runs
    <2>4. m \in 1 .. n /\ m - 1 \in 0 .. n  BY <1>1, <2>3
    <2>5. m - 1 \notin T  BY <2>2, <2>4
    <2>6. parts[m - 1] = f[m - 1]  BY <2>4, <2>5
    <2> QED  BY <1>6, <1>10, <2>4, <2>6
  <1>12. \A k \in 1 .. n : f[k] = IF p[k] \in d THEN f[k - 1] ELSE Append(f[k - 1], p[k])
    BY <1>6 DEF W
  <1>13. Parted(f, p, d)  BY <1>5, <1>12 DEF Runs, Parted, n, a
  <1>14. f \in [0 .. Len(p) -> Seq(STRING)] /\ Components(p, d) = f[Len(p)]
    BY <1>9, <1>11 DEF n, S
  <1> QED  BY <1>13, <1>14

-----------------------------------------------------------------------------
(* Where a path leads that names no parent.                                *)
LEMMA Singleton == ASSUME NEW S, NEW e \in S  PROVE <<e>> \in Seq(S) /\ Len(<<e>>) = 1
  OBVIOUS

LEMMA RootThere ==
    ASSUME NEW x \in Seq(STRING)
    PROVE  Len(<<"root">> \o x) = 1 + Len(x) /\ Len(x) \in Nat
  <1> DEFINE S == STRING \cup {"root"}
  <1>1. <<"root">> \in Seq(S) /\ Len(<<"root">>) = 1 /\ x \in Seq(S)  BY Singleton
  <1> HIDE DEF S
  <1> QED  BY <1>1, ConcatProperties, LenProperties

LEMMA RootFirst ==
    ASSUME NEW x \in Seq(STRING), NEW e \in STRING
    PROVE  Append(<<"root">> \o x, e) = <<"root">> \o Append(x, e)
  <1> DEFINE S == STRING \cup {"root"}
             r == <<"root">>
  <1>1. r \in Seq(S) /\ x \in Seq(S) /\ e \in S  BY Singleton
  <1> HIDE DEF S, r
  <1>2. <<e>> \in Seq(S)  BY <1>1, Singleton, Zenon
  <1>3. r \o x \in Seq(S)  BY <1>1, ConcatProperties
  <1>4. Append(r \o x, e) = (r \o x) \o <<e>>  BY <1>1, <1>3, AppendIsConcat
  <1>5. (r \o x) \o <<e>> = r \o (x \o <<e>>)  BY <1>1, <1>2, ConcatAssociative
  <1>6. x \o <<e>> = Append(x, e)  BY <1>1, AppendIsConcat
  <1> QED  BY <1>4, <1>5, <1>6 DEF r

Dropped == {"", "."}

LEMMA ResolvedFacts ==
    ASSUME NEW p \in Seq(STRING), \A k \in 1 .. Len(p) : p[k] # ".."
    PROVE  /\ \A k \in 0 .. Len(p) : Resolved(p)[k] # <<>>
           /\ Resolved(p)[Len(p)] = <<"root">> \o Components(p, Dropped)
  <1> DEFINE n == Len(p)
             Root(x) == <<"root">> \o x
             W(x, k) ==
               CASE p[k] = ".." -> IF x = <<>> THEN <<>> ELSE Take(x, Len(x) - 1)
                 [] p[k] \in {"", "."} -> x
                 [] OTHER -> Append(x, p[k])
             Is(h) == h = [k \in 0 .. n |-> IF k = 0 THEN <<"root">> ELSE W(h[k - 1], k)]
  <1>1. n \in Nat /\ \A k \in 1 .. n : p[k] \in STRING  BY LenProperties, ElementOfSeq
  <1>2. PICK f \in [0 .. n -> Seq(STRING)] :
          /\ f[0] = <<>> /\ Components(p, Dropped) = f[n]
          /\ \A k \in 1 .. n : f[k] = IF p[k] \in Dropped THEN f[k - 1] ELSE Append(f[k - 1], p[k])
    <2>1. PICK f \in [0 .. n -> Seq(STRING)] : Parted(f, p, Dropped) /\ Components(p, Dropped) = f[n]
      BY ComponentsFacts, Zenon
    <2> QED  BY <2>1 DEF Parted
  <1>3. \A k \in 1 .. n : f[k - 1] \in Seq(STRING) /\ W(Root(f[k - 1]), k) = Root(f[k])
    <2> TAKE k \in 1 .. n
    <2>1. k - 1 \in 0 .. n  BY <1>1
    <2>2. f[k - 1] \in Seq(STRING)  BY <2>1
    <2>3. CASE p[k] \in Dropped
      <3>1. f[k] = f[k - 1]  BY <1>2, <2>3
      <3>2. W(Root(f[k - 1]), k) = Root(f[k - 1])  BY <2>3 DEF Dropped
      <3> QED  BY <2>2, <3>1, <3>2
    <2>4. CASE p[k] \notin Dropped
      <3>1. f[k] = Append(f[k - 1], p[k])  BY <1>2, <2>4
      <3>2. W(Root(f[k - 1]), k) = Append(Root(f[k - 1]), p[k])  BY <2>4 DEF Dropped
      <3>3. Append(Root(f[k - 1]), p[k]) = Root(Append(f[k - 1], p[k]))  BY <1>1, <2>2, RootFirst, Zenon
      <3> QED  BY <2>2, <3>1, <3>2, <3>3
    <2> QED  BY <2>3, <2>4
  <1>4. Root(<<>>) = <<"root">>  OBVIOUS
  <1>5. \A x \in Seq(STRING) : Root(x) # <<>>
    <2> TAKE x \in Seq(STRING)
    <2>1. Len(Root(x)) = 1 + Len(x) /\ Len(x) \in Nat  BY RootThere
    <2>2. Len(<<>>) = 0  OBVIOUS
    <2> QED  BY <2>1, <2>2
  <1> DEFINE place == CHOOSE h : Is(h)
  <1>6. Resolved(p) = place  BY DEF Resolved
  <1> HIDE DEF n, W, Root
  <1> DEFINE g == [k \in 0 .. n |-> Root(f[k])]
  <1>7. Is(g)
    <2>1. \A k \in 0 .. n : g[k] = IF k = 0 THEN <<"root">> ELSE W(g[k - 1], k)
      <3> TAKE k \in 0 .. n
      <3>1. CASE k = 0  BY <1>2, <1>4, <3>1
      <3>2. CASE k # 0
        <4>1. k \in 1 .. n /\ k - 1 \in 0 .. n  BY <1>1, <3>2
        <4>2. g[k] = Root(f[k]) /\ g[k - 1] = Root(f[k - 1])  BY <4>1
        <4> QED  BY <1>3, <3>2, <4>1, <4>2
      <3> QED  BY <3>1, <3>2
    <2>2. g = [k \in 0 .. n |-> g[k]]  OBVIOUS
    <2> HIDE DEF g
    <2> QED  BY <2>1, <2>2
  <1>8. Is(place)
    <2> HIDE DEF Is, g
    <2> QED  BY <1>7
  <1> HIDE DEF place, g
  <1>9. place[0] = <<"root">> /\ \A k \in 1 .. n : place[k] = W(place[k - 1], k)
    <2>1. \A k \in 0 .. n : place[k] = IF k = 0 THEN <<"root">> ELSE W(place[k - 1], k)
      BY <1>8, Zenon
    <2>2. 0 \in 0 .. n /\ \A k \in 1 .. n : k \in 0 .. n /\ k # 0  BY <1>1
    <2> QED  BY <2>1, <2>2
  <1>10. \A k \in 0 .. n : place[k] = Root(f[k])
    <2> DEFINE T == {k \in 0 .. n : place[k] # Root(f[k])}
    <2> SUFFICES ASSUME T # {}  PROVE FALSE  OBVIOUS
    <2>1. T \subseteq Nat  OBVIOUS
    <2>2. PICK m \in T : \A k \in T : m <= k
      <3> HIDE DEF T
      <3> QED  BY <2>1, LeastOne
    <2>3. m # 0  BY <1>2, <1>4, <1>9
    <2>4. m \in 1 .. n /\ m - 1 \in 0 .. n  BY <1>1, <2>3
    <2>5. m - 1 \notin T  BY <2>2, <2>4
    <2>6. place[m - 1] = Root(f[m - 1])  BY <2>4, <2>5
    <2> QED  BY <1>3, <1>9, <2>4, <2>6
  <1>11. \A k \in 0 .. n : Resolved(p)[k] # <<>>  BY <1>5, <1>6, <1>10
  <1>12. n \in 0 .. n  BY <1>1
  <1> QED  BY <1>2, <1>6, <1>10, <1>11, <1>12 DEF n, Root

LEMMA PathInside ==
    ASSUME NEW p \in Seq(STRING), Sanitize(p) # <<>>
    PROVE  /\ p[1] = "" => Len(p) = 1
           /\ \A k \in 0 .. Len(p) : Resolved(p)[k] # <<>>
           /\ Resolved(p)[Len(p)] = <<"root">> \o Sanitize(p)
  <1>1. /\ ~(Len(p) > MaxPath) /\ ~(p[1] = "" /\ Len(p) > 1)
        /\ ~\E k \in 1 .. Len(p) : p[k] = ".."
        /\ Sanitize(p) = Components(p, Dropped)
    BY DEF Sanitize, Dropped
  <1>2. Len(p) # 0
    <2> SUFFICES ASSUME Len(p) = 0  PROVE FALSE  OBVIOUS
    <2>1. PICK f \in [0 .. Len(p) -> Seq(STRING)] : Parted(f, p, Dropped) /\ Components(p, Dropped) = f[Len(p)]
      BY ComponentsFacts, Zenon
    <2> QED  BY <1>1, <2>1 DEF Parted
  <1>3. \A l \in Nat : l # 0 /\ ~(l > 1) => l = 1  OBVIOUS
  <1>4. Len(p) \in Nat  BY LenProperties
  <1>5. p[1] = "" => Len(p) = 1  BY <1>1, <1>2, <1>3, <1>4, Zenon
  <1>6. /\ \A k \in 0 .. Len(p) : Resolved(p)[k] # <<>>
        /\ Resolved(p)[Len(p)] = <<"root">> \o Components(p, Dropped)
    <2>1. \A k \in 1 .. Len(p) : p[k] # ".."  BY <1>1
    <2> QED  BY <2>1, ResolvedFacts
  <1> QED  BY <1>1, <1>5, <1>6

(* A path that is stored, resolved part by part, never leaves the root and *)
(* ends where its sanitized components do, whatever the peer offered       *)
(* (sanitize, read_entries).                                               *)
THEOREM PathsInside == Spec => []PathsStayInside
  <1>1. FlowInv /\ StoredInv => PathsStayInside
    <2> SUFFICES ASSUME FlowInv, StoredInv, NEW n \in 1 .. Len(stored)
                 PROVE  LET path == offer[stored[n]].path IN
                        /\ path[1] = "" => Len(path) = 1
                        /\ \A k \in 0 .. Len(path) : Resolved(path)[k] # <<>>
                        /\ Resolved(path)[Len(path)] = <<"root">> \o Sanitize(path)
                        /\ Sanitize(path) # <<>>
      BY DEF PathsStayInside
    <2> DEFINE path == offer[stored[n]].path
    <2>1. stored[n] \in 1 .. Len(offer) /\ offer \in Offers
      BY ElementOfSeq DEF StoredInv, FlowInv
    <2>2. path \in Seq(STRING)  BY <2>1, ItemFacts
    <2>3. Sanitize(path) # <<>>  BY DEF StoredInv, Accepted
    <2> HIDE DEF path
    <2>4. /\ path[1] = "" => Len(path) = 1
          /\ \A k \in 0 .. Len(path) : Resolved(path)[k] # <<>>
          /\ Resolved(path)[Len(path)] = <<"root">> \o Sanitize(path)
      BY <2>2, <2>3, PathInside
    <2> QED  BY <2>3, <2>4 DEF path
  <1>2. ExchangeInv => FlowInv  BY DEF ExchangeInv
  <1> QED  BY <1>1, <1>2, ExchangeSafe, ExchangeStores, PTL
=============================================================================
