--------------------------- MODULE SendLaneProofs ---------------------------
(***************************************************************************)
(* What holds of SendLane for every list of items, queue depth and chunk   *)
(* size, with and without the hash stage: types, buffers and errors first, *)
(* then that what the threads and channels hold always continues what is   *)
(* on the wire, and so that the lane implements LaneSpec's safety part.    *)
(***************************************************************************)
EXTENDS SendLane, SequenceTheorems, SharedFacts, TLAPS

OfferType  == items \in Lists /\ verify \in BOOLEAN
ReaderType ==
    /\ reader \in {"header", "link", "target", "digest", "open", "buf", "fill", "chunk", "end",
                   "next", "error", "gone"}
    /\ it \in 1 .. Len(items) + 1 /\ (reader \notin {"header", "gone"} => it <= Len(items))
    /\ sent \in Nat
HashType ==
    /\ hash \in {"run", "gone"} /\ hand \in Seq(Message) /\ Len(hand) <= 1
    /\ sum \in Seq(UnitToken)
SockType ==
    /\ sock \in {"loop", "join", "done"} /\ out \in Seq(Message) /\ Len(out) <= 1
    /\ wire \in Seq(Token) /\ result \in {"none", "ok", "source", "socket"}
QueueType ==
    /\ q1 \in Seq(Message) /\ Len(q1) <= Depth
    /\ q2 \in Seq(Message) /\ Len(q2) <= Depth

\* TypeOK but for the pool's bound, which only conservation gives.
Typed == OfferType /\ ReaderType /\ HashType /\ SockType /\ QueueType /\ pool \in Nat
         /\ changed \in BOOLEAN

\* The order in which the threads go: a stage ends before the reader only
\* behind a loop that failed, and a stage that ended holds nothing.
StageInv ==
    /\ ~verify => hash = "gone"
    /\ hash = "gone" => hand = <<>> /\ q1 = <<>>
    /\ verify /\ hash = "gone" /\ reader # "gone" => sock = "done"
    /\ sock = "done" <=> result # "none"
    /\ sock = "join" => reader = "gone" /\ hash = "gone"
    /\ sock # "loop" => out = <<>> /\ q2 = <<>>
    /\ result = "ok" => reader = "gone" /\ hash = "gone"

\* Where the buffers are.
WithReader == IF reader \in {"fill", "chunk"} THEN 1 ELSE 0
InUse == pool + WithReader + ChunksIn(q1) + ChunksIn(hand) + ChunksIn(q2) + ChunksIn(out)
PoolInv == InUse <= Buffers /\ BuffersConserved

\* A change that was noticed is about to be sent, is on its way, or was reported.
HasErr(q) == \E k \in 1 .. Len(q) : q[k].kind = "Err"
ErrInv ==
    changed => \/ reader = "error" \/ HasErr(q1) \/ HasErr(hand) \/ HasErr(q2)
               \/ result \in {"source", "socket"}

-----------------------------------------------------------------------------
(* The data.                                                               *)

LEMMA ItemFacts ==
    ASSUME OfferType
    PROVE  /\ Len(items) \in Nat
           /\ \A i \in 1 .. Len(items) : /\ items[i].size \in Nat
                                         /\ items[i].kind \in {"Dir", "Symlink", "File"}
  <1>1. items \in Seq(Item)  BY LaneAssumption DEF OfferType
  <1>2. Len(items) \in Nat /\ \A i \in 1 .. Len(items) : items[i] \in Item  BY <1>1
  <1> QED  BY <1>2 DEF Item

(* The units of a chunk, of a target, or of what a digest covers.          *)
LEMMA UnitsTyped ==
    ASSUME NEW i \in Nat, NEW from \in Nat, NEW to \in Nat
    PROVE  Units(i, from, to) \in Seq(UnitToken)
  <1>1. \A k \in 1 .. to - from : Unit(i, from + k) \in UnitToken  BY DEF Unit, UnitToken
  <1>2. CASE to >= from
    <2>1. to - from \in Nat  BY <1>2
    <2> QED  BY <1>1, <2>1 DEF Units
  <1>3. CASE to < from
    <2>1. 1 .. to - from = 1 .. 0  BY <1>3
    <2> QED  BY <2>1 DEF Units
  <1> QED  BY <1>2, <1>3

LEMMA TokensAreTokens == Seq(UnitToken) \subseteq Seq(Token)
  <1>1. <<>> \in Seq(UnitToken)  OBVIOUS
  <1>2. UnitToken \subseteq Token  BY <1>1 DEF UnitToken, Token
  <1> QED  BY <1>2

LEMMA MessageFacts ==
    ASSUME NEW m \in Message
    PROVE  /\ m.of \in Nat /\ m.tokens \in Seq(Token)
           /\ m.kind \in {"Target", "Chunk", "Header", "Digest", "EndPayload", "Err"}
           /\ m.kind = "Chunk" => m.tokens \in Seq(UnitToken)
  BY TokensAreTokens DEF Message

(* The messages the reader and the hash stage make.                        *)
LEMMA MadeMessages ==
    ASSUME NEW i \in Nat, NEW u \in Seq(UnitToken)
    PROVE  /\ Msg("Header", i, <<Header(i)>>) \in Message
           /\ Msg("Target", i, u) \in Message /\ Msg("Chunk", i, u) \in Message
           /\ Msg("Digest", i, <<Digest(i, u)>>) \in Message
           /\ Msg("EndPayload", i, <<>>) \in Message /\ Msg("Err", i, <<>>) \in Message
  <1>1. Header(i) \in Token /\ Digest(i, u) \in Token
    <2>1. <<>> \in Seq(UnitToken)  OBVIOUS
    <2> QED  BY <2>1 DEF Header, Digest, Token
  <1>2. <<Header(i)>> \in Seq(Token) /\ <<Digest(i, u)>> \in Seq(Token) /\ <<>> \in Seq(Token)
    BY <1>1
  <1> QED  BY <1>2 DEF Msg, Message

LEMMA ChunksAreCounted == ASSUME NEW q  PROVE ChunksIn(q) = Count(q, "Chunk")
  BY DEF Count, OfKind, ChunksIn

(* A send, seen from the reader.                                           *)
LEMMA PushFacts ==
    ASSUME Typed, StageInv, NEW m \in Message, Push(m)
    PROVE  /\ QueueType'
           /\ hash = "gone" => q1' = q1
           /\ sock = "done" => q2' = q2
           /\ ChunksIn(q1') + ChunksIn(q2') =
                ChunksIn(q1) + ChunksIn(q2) + (IF m.kind = "Chunk" THEN 1 ELSE 0)
           /\ HasErr(q1) => HasErr(q1')
           /\ HasErr(q2) => HasErr(q2')
           /\ m.kind = "Err" => HasErr(q1') \/ HasErr(q2')
  <1>1. Depth \in Nat  BY LaneAssumption
  <1>2. \A q \in Seq(Message) :
          /\ Append(q, m) \in Seq(Message) /\ Len(Append(q, m)) = Len(q) + 1 /\ Len(q) \in Nat
          /\ \A k \in 1 .. Len(q) : Append(q, m)[k] = q[k]
          /\ Append(q, m)[Len(q) + 1] = m
    OBVIOUS
  <1>3. \A q \in Seq(Message) :
          /\ HasErr(q) => HasErr(Append(q, m))
          /\ m.kind = "Err" => HasErr(Append(q, m))
    BY <1>2 DEF HasErr
  <1>4. \A q \in Seq(Message) :
          /\ ChunksIn(Append(q, m)) = ChunksIn(q) + (IF m.kind = "Chunk" THEN 1 ELSE 0)
          /\ ChunksIn(q) \in Nat
    <2> TAKE q \in Seq(Message)
    <2>1. Count(Append(q, m), "Chunk") = Count(q, "Chunk") + (IF m.kind = "Chunk" THEN 1 ELSE 0)
      BY CountAppend
    <2>2. Count(q, "Chunk") \in Nat  BY CountIsNat
    <2> QED  BY <2>1, <2>2, ChunksAreCounted
  <1>5. CASE verify
    <2>1. q1' = Append(q1, m) /\ q2' = q2 /\ Len(q1) < Depth /\ hash # "gone"
      BY <1>5 DEF Push, NextStageGone
    <2> QED  BY <1>1, <1>2, <1>3, <1>4, <2>1 DEF Typed, QueueType
  <1>6. CASE ~verify
    <2>1. q2' = Append(q2, m) /\ q1' = q1 /\ Len(q2) < Depth /\ sock # "done"
      BY <1>6 DEF Push, NextStageGone, LoopLeft
    <2> QED  BY <1>1, <1>2, <1>3, <1>4, <2>1 DEF Typed, QueueType
  <1> QED  BY <1>5, <1>6

(* A receive.                                                              *)
LEMMA TakeFacts ==
    ASSUME NEW q \in Seq(Message), q # <<>>
    PROVE  /\ Head(q) \in Message /\ <<Head(q)>> \in Seq(Message) /\ Len(<<Head(q)>>) = 1
           /\ Tail(q) \in Seq(Message) /\ Len(Tail(q)) = Len(q) - 1
           /\ ChunksIn(q) = ChunksIn(Tail(q)) + (IF Head(q).kind = "Chunk" THEN 1 ELSE 0)
           /\ ChunksIn(<<Head(q)>>) = (IF Head(q).kind = "Chunk" THEN 1 ELSE 0)
           /\ HasErr(q) => HasErr(Tail(q)) \/ Head(q).kind = "Err"
           /\ Head(q).kind = "Err" => HasErr(<<Head(q)>>)
  <1>1. /\ Head(q) \in Message /\ Tail(q) \in Seq(Message) /\ Len(Tail(q)) = Len(q) - 1
        /\ Head(q) = q[1] /\ Len(q) \in Nat
        /\ \A k \in 1 .. Len(Tail(q)) : Tail(q)[k] = q[k + 1]
    OBVIOUS
  <1>2. ChunksIn(q) = ChunksIn(Tail(q)) + (IF Head(q).kind = "Chunk" THEN 1 ELSE 0)
    BY CountTail DEF Count, OfKind, ChunksIn
  <1>3. ChunksIn(<<Head(q)>>) = (IF Head(q).kind = "Chunk" THEN 1 ELSE 0)
    <2>1. Count(<<Head(q)>>, "Chunk") = (IF Head(q).kind = "Chunk" THEN 1 ELSE 0)
      BY <1>1, CountSingle
    <2> QED  BY <2>1, ChunksAreCounted
  <1>4. HasErr(q) => HasErr(Tail(q)) \/ Head(q).kind = "Err"
    <2> SUFFICES ASSUME NEW k \in 1 .. Len(q), q[k].kind = "Err", k # 1
                 PROVE  HasErr(Tail(q))
      BY <1>1 DEF HasErr
    <2>1. k - 1 \in 1 .. Len(Tail(q)) /\ Tail(q)[k - 1] = q[k]  BY <1>1
    <2> QED  BY <2>1 DEF HasErr
  <1>5. Head(q).kind = "Err" => HasErr(<<Head(q)>>)  BY DEF HasErr
  <1> QED  BY <1>1, <1>2, <1>3, <1>4, <1>5

LEMMA NoneIn == ChunksIn(<<>>) = 0 /\ ~HasErr(<<>>) /\ <<>> \in Seq(Message) /\ Len(<<>>) = 0
  BY CountEmpty DEF Count, OfKind, ChunksIn, HasErr

LEMMA ChunksAreNat == ASSUME NEW q \in Seq(Message)  PROVE ChunksIn(q) \in Nat
  BY CountIsNat DEF Count, OfKind, ChunksIn

-----------------------------------------------------------------------------
(* Types.                                                                  *)

LEMMA InitTyped == Init => Typed /\ StageInv
  <1> SUFFICES ASSUME Init  PROVE Typed /\ StageInv  OBVIOUS
  <1>1. OfferType  BY DEF Init, OfferType
  <1>2. <<>> \in Seq(Message) /\ <<>> \in Seq(UnitToken) /\ <<>> \in Seq(Token) /\ Len(<<>>) = 0
    OBVIOUS
  <1>3. Depth \in Nat /\ Buffers \in Nat  BY LaneAssumption DEF Buffers
  <1>4. ReaderType  BY <1>1, ItemFacts DEF Init, ReaderType
  <1>5. HashType /\ SockType /\ QueueType
    BY <1>2, <1>3 DEF Init, HashType, SockType, QueueType
  <1>6. StageInv  BY <1>1 DEF Init, StageInv, OfferType
  <1> QED  BY <1>1, <1>3, <1>4, <1>5, <1>6 DEF Init, Typed

(* A group of variables a step leaves alone keeps its type.                *)
LEMMA Frames ==
    ASSUME Typed, UNCHANGED <<items, verify>>
    PROVE  /\ OfferType'
           /\ UNCHANGED readerVars => ReaderType'
           /\ UNCHANGED hashVars => HashType'
           /\ UNCHANGED sockVars => SockType'
           /\ UNCHANGED <<q1, q2>> => QueueType'
  <1>1. OfferType' BY DEF Typed, OfferType
  <1>2. UNCHANGED readerVars => ReaderType'  BY DEF Typed, ReaderType, readerVars
  <1>3. UNCHANGED hashVars => HashType'  BY DEF Typed, HashType, hashVars
  <1>4. UNCHANGED sockVars => SockType'  BY DEF Typed, SockType, sockVars
  <1>5. UNCHANGED <<q1, q2>> => QueueType'  BY DEF Typed, QueueType
  <1> QED  BY <1>1, <1>2, <1>3, <1>4, <1>5

LEMMA TypedReader == Typed /\ StageInv /\ ReaderStep => Typed'
  <1> SUFFICES ASSUME Typed, StageInv, ReaderStep  PROVE Typed'  OBVIOUS
  <1>1. /\ it \in Nat /\ Len(items) \in Nat /\ sent \in Nat /\ pool \in Nat /\ changed \in BOOLEAN
        /\ it <= Len(items) => Me.size \in Nat /\ Me.kind \in {"Dir", "Symlink", "File"}
        /\ it \in 1 .. Len(items) + 1 /\ (reader \notin {"header", "gone"} => it <= Len(items))
    BY ItemFacts DEF Typed, ReaderType, Me
  <1>2. Chunk \in Nat  BY LaneAssumption
  <1>3. ASSUME NextItem, it <= Len(items), UNCHANGED items  PROVE ReaderType'
    BY <1>1, <1>3 DEF NextItem, ReaderType
  <1>4. \A n : AfterChunk(n) \in {"buf", "end", "next"}  BY DEF AfterChunk
  <1>5. CASE SendHeader
    <2>1. Msg("Header", it, <<Header(it)>>) \in Message
      <3>1. <<>> \in Seq(UnitToken)  OBVIOUS
      <3> QED  BY <1>1, <3>1, MadeMessages
    <2>2. QueueType'  BY <1>5, <2>1, PushFacts DEF SendHeader
    <2>3. ReaderType'  BY <1>1, <1>3, <1>5 DEF SendHeader, ReaderType
    <2> QED  BY <1>5, <2>2, <2>3, Frames DEF Typed, SendHeader
  <1>6. CASE ReaderEnds \/ ReaderStops
    <2>1. ReaderType'  BY <1>1, <1>6 DEF ReaderEnds, ReaderStops, ReaderType
    <2> QED  BY <1>6, <2>1, Frames DEF Typed, ReaderEnds, ReaderStops
  <1>7. CASE ReadLink \/ OpenFile \/ FillBuffer
    <2>1. ReaderType'
      BY <1>1, <1>4, <1>7 DEF ReadLink, OpenFile, FillBuffer, ShortRead, ReaderType
    <2>2. changed' \in BOOLEAN
      BY <1>1, <1>7 DEF ReadLink, OpenFile, FillBuffer, ShortRead
    <2> QED  BY <1>7, <2>1, <2>2, Frames DEF Typed, ReadLink, OpenFile, FillBuffer, ShortRead
  <1>8. CASE SendTarget
    <2>1. it <= Len(items)  BY <1>1, <1>8 DEF SendTarget
    <2>2. Msg("Target", it, Units(it, 0, Me.size)) \in Message
      BY <1>1, <2>1, UnitsTyped, MadeMessages
    <2>3. QueueType'  BY <1>8, <2>2, PushFacts DEF SendTarget
    <2>4. ReaderType'  BY <1>1, <1>3, <1>8, <2>1 DEF SendTarget, ReaderType
    <2> QED  BY <1>8, <2>3, <2>4, Frames DEF Typed, SendTarget
  <1>9. CASE SendTargetDigest
    <2>1. it <= Len(items)  BY <1>1, <1>9 DEF SendTargetDigest
    <2>2. Msg("Digest", it, <<Digest(it, Units(it, 0, Me.size))>>) \in Message
      BY <1>1, <2>1, UnitsTyped, MadeMessages
    <2>3. QueueType'  BY <1>9, <2>2, PushFacts DEF SendTargetDigest
    <2>4. ReaderType'  BY <1>3, <1>9, <2>1 DEF SendTargetDigest
    <2> QED  BY <1>9, <2>3, <2>4, Frames DEF Typed, SendTargetDigest
  <1>10. CASE TakeBuffer
    <2>1. ReaderType'  BY <1>1, <1>10 DEF TakeBuffer, ReaderType
    <2>2. pool' \in Nat  BY <1>1, <1>10 DEF TakeBuffer
    <2> QED  BY <1>10, <2>1, <2>2, Frames DEF Typed, TakeBuffer
  <1>11. CASE SendChunk
    <2> DEFINE n == MinOf(Me.size, sent + Chunk)
    <2>1. it <= Len(items)  BY <1>1, <1>11 DEF SendChunk
    <2>2. n \in Nat  BY <1>1, <1>2, <2>1 DEF MinOf
    <2>3. Msg("Chunk", it, Units(it, sent, n)) \in Message
      BY <1>1, <2>2, UnitsTyped, MadeMessages
    <2>4. QueueType'  BY <1>11, <2>3, PushFacts DEF SendChunk
    <2>5. ReaderType'  BY <1>1, <1>4, <1>11, <2>1, <2>2 DEF SendChunk, ReaderType
    <2> QED  BY <1>11, <2>4, <2>5, Frames DEF Typed, SendChunk
  <1>12. CASE SendEndPayload
    <2>1. it <= Len(items)  BY <1>1, <1>12 DEF SendEndPayload
    <2>2. Msg("EndPayload", it, <<>>) \in Message
      <3>1. <<>> \in Seq(UnitToken)  OBVIOUS
      <3> QED  BY <1>1, <3>1, MadeMessages
    <2>3. QueueType'  BY <1>12, <2>2, PushFacts DEF SendEndPayload
    <2>4. ReaderType'  BY <1>3, <1>12, <2>1 DEF SendEndPayload
    <2> QED  BY <1>12, <2>3, <2>4, Frames DEF Typed, SendEndPayload
  <1>13. CASE FileReturns
    <2>1. it <= Len(items)  BY <1>1, <1>13 DEF FileReturns
    <2>2. ReaderType'  BY <1>3, <1>13, <2>1 DEF FileReturns
    <2> QED  BY <1>13, <2>2, Frames DEF Typed, FileReturns
  <1>14. CASE SendError
    <2>1. Msg("Err", it, <<>>) \in Message
      <3>1. <<>> \in Seq(UnitToken)  OBVIOUS
      <3> QED  BY <1>1, <3>1, MadeMessages
    <2>2. QueueType'  BY <1>14, <2>1, PushFacts, Frames DEF SendError
    <2>3. ReaderType'  BY <1>1, <1>14 DEF SendError, ReaderType
    <2> QED  BY <1>14, <2>2, <2>3, Frames DEF Typed, SendError
  <1> QED
    BY <1>5, <1>6, <1>7, <1>8, <1>9, <1>10, <1>11, <1>12, <1>13, <1>14 DEF ReaderStep

LEMMA TypedHash == Typed /\ StageInv /\ HashStep => Typed'
  <1> SUFFICES ASSUME Typed, StageInv, HashStep  PROVE Typed'  OBVIOUS
  <1>1. /\ q1 \in Seq(Message) /\ Len(q1) <= Depth /\ q2 \in Seq(Message) /\ Len(q2) <= Depth
        /\ hand \in Seq(Message) /\ Len(hand) <= 1 /\ sum \in Seq(UnitToken)
        /\ hash \in {"run", "gone"}
    BY DEF Typed, QueueType, HashType
  <1>2. <<>> \in Seq(Message) /\ <<>> \in Seq(UnitToken) /\ Len(<<>>) = 0  OBVIOUS
  <1>3. Depth \in Nat  BY LaneAssumption
  <1>4. CASE HashTake
    <2> DEFINE m == Head(q1)
    <2>1. q1 # <<>> /\ UNCHANGED <<items, verify, readerVars, hash, sockVars, q2, pool, changed>>
          /\ q1' = Tail(q1)
      BY <1>4 DEF HashTake
    <2>2. /\ m \in Message /\ <<m>> \in Seq(Message) /\ Len(<<m>>) = 1
          /\ Tail(q1) \in Seq(Message) /\ Len(Tail(q1)) = Len(q1) - 1
          /\ Len(q1) \in Nat
      BY <1>1, <2>1, TakeFacts
    <2>3. QueueType'  BY <1>1, <1>3, <2>1, <2>2 DEF QueueType
    <2>4. CASE m.kind = "Chunk"
      <3>1. sum' = sum \o m.tokens /\ hand' = <<m>>  BY <1>4, <2>4 DEF HashTake
      <3>2. m.tokens \in Seq(UnitToken)  BY <2>2, <2>4, MessageFacts
      <3>3. HashType'  BY <1>1, <2>1, <2>2, <3>1, <3>2, ConcatProperties DEF HashType
      <3> QED  BY <2>1, <2>3, <3>3, Frames DEF Typed
    <2>5. CASE m.kind = "EndPayload"
      <3>1. /\ hand' = <<Msg("Digest", m.of, <<Digest(m.of, sum)>>)>>
            /\ sum' = <<>>
        BY <1>4, <2>5 DEF HashTake, SumAfterDigest
      <3>2. Msg("Digest", m.of, <<Digest(m.of, sum)>>) \in Message
        BY <1>1, <2>2, MessageFacts, MadeMessages
      <3>3. HashType'  BY <1>1, <1>2, <2>1, <3>1, <3>2 DEF HashType
      <3> QED  BY <2>1, <2>3, <3>3, Frames DEF Typed
    <2>6. CASE m.kind \notin {"Chunk", "EndPayload"}
      <3>1. hand' = <<m>> /\ sum' = sum  BY <1>4, <2>6 DEF HashTake, Forwarded
      <3>2. HashType'  BY <1>1, <2>1, <2>2, <3>1 DEF HashType
      <3> QED  BY <2>1, <2>3, <3>2, Frames DEF Typed
    <2> QED  BY <2>4, <2>5, <2>6
  <1>5. CASE HashForward
    <2>1. hand[1] \in Message
      <3>1. hand # <<>> /\ Len(hand) \in Nat  BY <1>1, <1>5 DEF HashForward
      <3> QED  BY <1>1, <3>1
    <2>2. /\ Append(q2, hand[1]) \in Seq(Message)
          /\ Len(Append(q2, hand[1])) = Len(q2) + 1 /\ Len(q2) \in Nat
      BY <1>1, <2>1
    <2>3. QueueType'  BY <1>1, <1>3, <1>5, <2>2 DEF HashForward, QueueType
    <2>4. HashType'  BY <1>1, <1>2, <1>5 DEF HashForward, HashType
    <2> QED  BY <1>5, <2>3, <2>4, Frames DEF Typed, HashForward
  <1>6. CASE HashStops
    <2>1. QueueType'  BY <1>1, <1>2, <1>3, <1>6 DEF HashStops, QueueType
    <2>2. HashType'  BY <1>1, <1>2, <1>6 DEF HashStops, HashType
    <2> QED  BY <1>6, <2>1, <2>2, Frames DEF Typed, HashStops
  <1>7. CASE HashEnds
    <2>1. HashType'  BY <1>1, <1>7 DEF HashEnds, HashType
    <2> QED  BY <1>7, <2>1, Frames DEF Typed, HashEnds
  <1> QED  BY <1>4, <1>5, <1>6, <1>7 DEF HashStep

LEMMA TypedSock == Typed /\ StageInv /\ SockStep => Typed'
  <1> SUFFICES ASSUME Typed, StageInv, SockStep  PROVE Typed'  OBVIOUS
  <1>1. /\ q1 \in Seq(Message) /\ Len(q1) <= Depth /\ q2 \in Seq(Message) /\ Len(q2) <= Depth
        /\ out \in Seq(Message) /\ Len(out) <= 1 /\ wire \in Seq(Token) /\ pool \in Nat
        /\ sock \in {"loop", "join", "done"} /\ result \in {"none", "ok", "source", "socket"}
    BY DEF Typed, QueueType, SockType
  <1>2. <<>> \in Seq(Message) /\ Len(<<>>) = 0 /\ Depth \in Nat  BY LaneAssumption
  <1>3. out # <<>> => out[1] \in Message /\ out[1].tokens \in Seq(Token)
    <2> SUFFICES ASSUME out # <<>>  PROVE out[1] \in Message /\ out[1].tokens \in Seq(Token)
      OBVIOUS
    <2>1. Len(out) \in Nat \ {0}  BY <1>1
    <2>2. out[1] \in Message  BY <1>1, <2>1
    <2> QED  BY <2>2, MessageFacts
  <1>4. CASE SockTake
    <2>1. /\ Head(q2) \in Message /\ <<Head(q2)>> \in Seq(Message) /\ Len(<<Head(q2)>>) = 1
          /\ Tail(q2) \in Seq(Message) /\ Len(Tail(q2)) = Len(q2) - 1 /\ Len(q2) \in Nat
      BY <1>1, <1>4, TakeFacts DEF SockTake
    <2>2. CASE Head(q2).kind = "Err"
      <3>1. /\ sock' = "done" /\ result' = "source" /\ out' = <<>> /\ q2' = <<>>
            /\ UNCHANGED <<wire, pool, q1>>
        BY <1>4, <2>2 DEF SockTake, LoopFails
      <3>2. QueueType' /\ SockType'  BY <1>1, <1>2, <3>1 DEF QueueType, SockType
      <3> QED  BY <1>4, <3>1, <3>2, Frames DEF Typed, SockTake
    <2>3. CASE Head(q2).kind # "Err"
      <3>1. /\ out' = <<Head(q2)>> /\ q2' = Tail(q2)
            /\ UNCHANGED <<sock, wire, result, pool, q1>>
        BY <1>4, <2>3 DEF SockTake
      <3>2. QueueType'  BY <1>1, <1>2, <2>1, <3>1 DEF QueueType
      <3>3. SockType'  BY <1>1, <2>1, <3>1 DEF SockType
      <3> QED  BY <1>4, <3>1, <3>2, <3>3, Frames DEF Typed, SockTake
    <2> QED  BY <2>2, <2>3
  <1>5. CASE SockWrite
    <2>1. wire' \in Seq(Token)  BY <1>1, <1>3, <1>5, ConcatProperties DEF SockWrite
    <2>2. SockType'  BY <1>1, <1>2, <1>5, <2>1 DEF SockWrite, SockType
    <2>3. pool' \in Nat  BY <1>1, <1>5 DEF SockWrite, Recycled
    <2> QED  BY <1>5, <2>2, <2>3, Frames DEF Typed, SockWrite
  <1>6. CASE SockFails
    <2>1. PICK n \in 0 .. Len(out[1].tokens) : wire' = wire \o SubSeq(out[1].tokens, 1, n)
      BY <1>6 DEF SockFails
    <2>2. SubSeq(out[1].tokens, 1, n) \in Seq(Token)
      <3>1. out[1].tokens \in Seq(Token)  BY <1>3, <1>6 DEF SockFails
      <3>2. \A i \in 1 .. n : out[1].tokens[i] \in Token  BY <3>1
      <3> QED  BY <3>1, <3>2, SubSeqProperties
    <2>3. wire' \in Seq(Token)  BY <1>1, <2>1, <2>2, ConcatProperties
    <2>4. SockType' /\ QueueType'
      BY <1>1, <1>2, <1>6, <2>3 DEF SockFails, LoopFails, SockType, QueueType
    <2> QED  BY <1>6, <2>4, Frames DEF Typed, SockFails
  <1>7. CASE SockEnds
    <2>1. SockType'  BY <1>1, <1>7 DEF SockEnds, SockType
    <2> QED  BY <1>7, <2>1, Frames DEF Typed, SockEnds
  <1>8. CASE Finish
    <2>1. Terminator \in Token
      <3>1. <<>> \in Seq(UnitToken)  OBVIOUS
      <3> QED  BY <3>1 DEF Terminator, Token
    <2>2. Append(wire, Terminator) \in Seq(Token)  BY <1>1, <2>1
    <2>3. wire' \in Seq(Token)  BY <1>1, <1>8, <2>2 DEF Finish
    <2>4. SockType'  BY <1>1, <1>8, <2>3 DEF Finish, SockType
    <2> QED  BY <1>8, <2>4, Frames DEF Typed, Finish
  <1> QED  BY <1>4, <1>5, <1>6, <1>7, <1>8 DEF SockStep

-----------------------------------------------------------------------------
(* The order of the threads.                                               *)

LEMMA StageNext == Typed /\ StageInv /\ [Next]_vars => StageInv'
  <1> SUFFICES ASSUME Typed, StageInv, [Next]_vars  PROVE StageInv'  OBVIOUS
  <1>1. /\ hash \in {"run", "gone"} /\ sock \in {"loop", "join", "done"} /\ verify \in BOOLEAN
        /\ result \in {"none", "ok", "source", "socket"}
    BY DEF Typed, HashType, SockType, OfferType
  <1>2. CASE ReaderStep
    <2>1. /\ reader # "gone" /\ UNCHANGED <<verify, hashVars, sockVars>>
          /\ hash = "gone" => q1' = q1
          /\ sock = "done" => q2' = q2
      BY <1>2 DEF ReaderStep, SendHeader, ReaderEnds, ReaderStops, ReadLink, SendTarget,
         SendTargetDigest, OpenFile, TakeBuffer, FillBuffer, SendChunk, SendEndPayload,
         FileReturns, SendError, Push, NextStageGone, LoopLeft, StageInv
    <2> QED  BY <1>1, <2>1 DEF StageInv, hashVars, sockVars
  <1>3. CASE HashTake \/ HashForward
    BY <1>1, <1>3 DEF HashTake, HashForward, StageInv, readerVars, sockVars, LoopLeft
  <1>4. CASE HashStops \/ HashEnds
    BY <1>1, <1>4 DEF HashStops, HashEnds, StageInv, readerVars, sockVars, LoopLeft
  <1>5. CASE SockTake
    BY <1>1, <1>5 DEF SockTake, LoopFails, StageInv, readerVars, hashVars
  <1>6. CASE SockWrite \/ SockFails
    BY <1>1, <1>6 DEF SockWrite, SockFails, LoopFails, StageInv, readerVars, hashVars
  <1>7. CASE SockEnds
    BY <1>1, <1>7 DEF SockEnds, StageInv, readerVars, hashVars
  <1>8. CASE Finish
    BY <1>1, <1>8 DEF Finish, StageInv, readerVars, hashVars
  <1>9. CASE UNCHANGED vars
    BY <1>9 DEF vars, StageInv, readerVars, hashVars, sockVars
  <1> QED
    BY <1>2, <1>3, <1>4, <1>5, <1>6, <1>7, <1>8, <1>9 DEF Next, HashStep, SockStep, Returned

LEMMA TypedNext == Typed /\ StageInv /\ [Next]_vars => (Typed /\ StageInv)'
  <1> SUFFICES ASSUME Typed, StageInv, [Next]_vars  PROVE Typed' /\ StageInv'  OBVIOUS
  <1>1. CASE UNCHANGED vars
    <2>1. UNCHANGED <<items, verify, readerVars, hashVars, sockVars, q1, q2, pool, changed>>
      BY <1>1 DEF vars
    <2> QED  BY <1>1, <2>1, Frames, StageNext DEF Typed
  <1> QED  BY <1>1, TypedReader, TypedHash, TypedSock, StageNext DEF Next, Returned

-----------------------------------------------------------------------------
(* The buffers.                                                            *)

LEMMA PoolInit == Init => PoolInv
  <1> SUFFICES ASSUME Init  PROVE PoolInv  OBVIOUS
  <1>1. Buffers \in Nat  BY LaneAssumption DEF Buffers
  <1> QED  BY <1>1, NoneIn DEF Init, PoolInv, InUse, WithReader, BuffersConserved

(* Only FileReturns could drop a buffer while the loop runs, and it does   *)
(* not: the stage it feeds is gone only when the loop is.                  *)
LEMMA GoneIsDone ==
    ASSUME Typed, StageInv, NextStageGone, reader # "gone"
    PROVE  sock = "done"
  BY DEF Typed, OfferType, StageInv, NextStageGone, LoopLeft

(* A step after which no more buffers are in use, and as many while it     *)
(* counts.                                                                 *)
LEMMA PoolFlow ==
    ASSUME PoolInv, InUse \in Int, InUse' \in Int, InUse' <= InUse,
           Buffers \in Int,
           sock' = "loop" /\ reader' \notin {"error", "gone"} =>
             sock = "loop" /\ reader \notin {"error", "gone"} /\ InUse' = InUse
    PROVE  PoolInv'
  <1>1. BuffersConserved <=> (sock = "loop" /\ reader \notin {"error", "gone"} => InUse = Buffers)
    BY DEF BuffersConserved, InUse, WithReader
  <1>2. BuffersConserved' <=>
          (sock' = "loop" /\ reader' \notin {"error", "gone"} => InUse' = Buffers)
    BY DEF BuffersConserved, InUse, WithReader
  <1> QED  BY <1>1, <1>2 DEF PoolInv

LEMMA PoolNext == Typed /\ StageInv /\ PoolInv /\ [Next]_vars => PoolInv'
  <1> SUFFICES ASSUME Typed, StageInv, PoolInv, [Next]_vars  PROVE PoolInv'  OBVIOUS
  <1> USE DEF PoolInv, InUse, WithReader, BuffersConserved
  <1>1. Typed'  BY TypedNext
  <1>2. /\ ChunksIn(q1) \in Nat /\ ChunksIn(hand) \in Nat /\ ChunksIn(q2) \in Nat
        /\ ChunksIn(out) \in Nat /\ pool \in Nat /\ Buffers \in Nat
    BY ChunksAreNat, LaneAssumption DEF Typed, HashType, SockType, QueueType, Buffers
  <1>3. /\ ChunksIn(q1') \in Nat /\ ChunksIn(hand') \in Nat /\ ChunksIn(q2') \in Nat
        /\ ChunksIn(out') \in Nat /\ pool' \in Nat
    BY <1>1, ChunksAreNat DEF Typed, HashType, SockType, QueueType
  <1>4. \A i \in Nat : /\ Msg("Header", i, <<Header(i)>>) \in Message
                       /\ Msg("EndPayload", i, <<>>) \in Message /\ Msg("Err", i, <<>>) \in Message
    <2>1. <<>> \in Seq(UnitToken)  OBVIOUS
    <2> QED  BY <2>1, MadeMessages
  <1>5. \A from, to \in Nat : /\ Msg("Target", it, Units(it, from, to)) \in Message
                              /\ Msg("Chunk", it, Units(it, from, to)) \in Message
                              /\ Msg("Digest", it, <<Digest(it, Units(it, from, to))>>) \in Message
    <2>1. it \in Nat  BY DEF Typed, ReaderType
    <2> QED  BY <2>1, UnitsTyped, MadeMessages
  <1>6. it \in Nat /\ sent \in Nat /\ (reader \notin {"header", "gone"} => Me.size \in Nat)
    BY ItemFacts DEF Typed, ReaderType, Me
  <1>7. ASSUME NEW m \in Message, Push(m), UNCHANGED <<hashVars, sockVars>>
        PROVE  /\ ChunksIn(q1') + ChunksIn(q2') =
                     ChunksIn(q1) + ChunksIn(q2) + (IF m.kind = "Chunk" THEN 1 ELSE 0)
               /\ hand' = hand /\ out' = out /\ sock' = sock
    BY <1>7, PushFacts DEF hashVars, sockVars
  <1>8. CASE SendHeader
    <2>1. Msg("Header", it, <<Header(it)>>).kind # "Chunk"  BY DEF Msg
    <2>2. Msg("Header", it, <<Header(it)>>) \in Message  BY <1>4, <1>6
    <2>3. /\ ChunksIn(q1') + ChunksIn(q2') = ChunksIn(q1) + ChunksIn(q2)
          /\ hand' = hand /\ out' = out /\ sock' = sock
      BY <1>2, <1>7, <1>8, <2>1, <2>2 DEF SendHeader
    <2>4. /\ reader = "header" /\ reader' \in {"header", "link", "open"} /\ pool' = pool
      BY <1>8 DEF SendHeader, NextItem
    <2> QED  BY <1>2, <1>3, <2>3, <2>4
  <1>9. CASE SendTarget \/ SendTargetDigest
    <2>1. /\ Msg("Target", it, Units(it, 0, Me.size)).kind # "Chunk"
          /\ Msg("Digest", it, <<Digest(it, Units(it, 0, Me.size))>>).kind # "Chunk"
      BY DEF Msg
    <2>2. Me.size \in Nat  BY <1>6, <1>9 DEF SendTarget, SendTargetDigest
    <2> QED
      BY <1>2, <1>3, <1>5, <1>7, <1>9, <2>1, <2>2 DEF SendTarget, SendTargetDigest, NextItem
  <1>10. CASE SendEndPayload
    <2>1. Msg("EndPayload", it, <<>>).kind # "Chunk"  BY DEF Msg
    <2>2. Msg("EndPayload", it, <<>>) \in Message  BY <1>4, <1>6
    <2>3. /\ ChunksIn(q1') + ChunksIn(q2') = ChunksIn(q1) + ChunksIn(q2)
          /\ hand' = hand /\ out' = out /\ sock' = sock
      BY <1>2, <1>7, <1>10, <2>1, <2>2 DEF SendEndPayload
    <2>4. reader = "end" /\ reader' = "header" /\ pool' = pool
      BY <1>10 DEF SendEndPayload, NextItem
    <2> QED  BY <1>2, <1>3, <2>3, <2>4
  <1>11. CASE SendError
    <2>1. Msg("Err", it, <<>>).kind # "Chunk"  BY DEF Msg
    <2>2. ChunksIn(q1') + ChunksIn(q2') = ChunksIn(q1) + ChunksIn(q2)
      <3>1. Msg("Err", it, <<>>) \in Message  BY <1>4, <1>6
      <3>2. CASE Push(Msg("Err", it, <<>>))  BY <1>2, <1>7, <1>11, <2>1, <3>1, <3>2 DEF SendError
      <3>3. CASE UNCHANGED <<q1, q2>>  BY <3>3
      <3> QED  BY <1>11, <3>2, <3>3 DEF SendError
    <2> QED  BY <1>2, <1>3, <1>11, <2>2 DEF SendError, hashVars, sockVars
  <1>12. CASE ReaderEnds \/ ReaderStops \/ ReadLink \/ OpenFile \/ FillBuffer \/ TakeBuffer
    <2>1. UNCHANGED <<q1, q2, hand, out, sock>>
      BY <1>12 DEF ReaderEnds, ReaderStops, ReadLink, OpenFile, FillBuffer, TakeBuffer, hashVars,
         sockVars
    <2>2. CASE ReaderEnds \/ ReaderStops
      <3>1. reader' = "gone" /\ reader \notin {"fill", "chunk"} /\ pool' = pool
        BY <2>2 DEF ReaderEnds, ReaderStops
      <3> QED  BY <1>2, <2>1, <3>1
    <2>3. CASE ReadLink \/ OpenFile
      <3>1. /\ reader \in {"link", "open"} /\ reader' \notin {"fill", "chunk"}
            /\ pool' = pool
        BY <2>3 DEF ReadLink, OpenFile, AfterChunk
      <3> QED  BY <1>2, <2>1, <3>1
    <2>4. CASE FillBuffer
      <3>1. reader = "fill" /\ reader' \in {"chunk", "error"} /\ pool' = pool
        BY <2>4 DEF FillBuffer, ShortRead
      <3> QED  BY <1>2, <2>1, <3>1
    <2>5. CASE TakeBuffer
      <3>1. /\ reader = "buf"
            /\ \/ pool' = pool - 1 /\ reader' = "fill"
               \/ sock = "done" /\ pool' = pool /\ reader' = "next"
        BY <2>5 DEF TakeBuffer, PoolClosed, LoopLeft
      <3> QED  BY <1>2, <2>1, <3>1
    <2> QED  BY <1>12, <2>2, <2>3, <2>4, <2>5
  <1>13. CASE SendChunk
    <2> DEFINE n == MinOf(Me.size, sent + Chunk)
    <2>1. n \in Nat  BY <1>6, <1>13, LaneAssumption DEF SendChunk, MinOf
    <2>2. Msg("Chunk", it, Units(it, sent, n)).kind = "Chunk"  BY DEF Msg
    <2>3. /\ ChunksIn(q1') + ChunksIn(q2') = ChunksIn(q1) + ChunksIn(q2) + 1
          /\ hand' = hand /\ out' = out /\ sock' = sock
      BY <1>2, <1>3, <1>5, <1>6, <1>7, <1>13, <2>1, <2>2 DEF SendChunk
    <2> QED  BY <1>2, <1>3, <1>13, <2>3 DEF SendChunk, AfterChunk
  <1>14. CASE FileReturns
    <2>1. reader = "chunk" => sock = "done"  BY <1>14, GoneIsDone DEF FileReturns
    <2> QED  BY <1>2, <1>14, <2>1 DEF FileReturns, NextItem, hashVars, sockVars
  <1>15. CASE HashTake
    <2> DEFINE m == Head(q1)
    <2>1. /\ q1 # <<>> /\ hand = <<>> /\ q1' = Tail(q1)
          /\ UNCHANGED <<readerVars, sockVars, q2, pool>>
      BY <1>15 DEF HashTake
    <2>2. /\ ChunksIn(q1) = ChunksIn(q1') + (IF m.kind = "Chunk" THEN 1 ELSE 0)
          /\ ChunksIn(<<m>>) = (IF m.kind = "Chunk" THEN 1 ELSE 0)
          /\ m \in Message
      BY <2>1, TakeFacts DEF Typed, QueueType
    <2>3. ChunksIn(hand') = (IF m.kind = "Chunk" THEN 1 ELSE 0)
      <3>1. CASE m.kind # "EndPayload"
        <4>1. hand' = <<m>>  BY <1>15, <3>1 DEF HashTake, Forwarded
        <4> QED  BY <2>2, <4>1
      <3>2. CASE m.kind = "EndPayload"
        <4> DEFINE d == Msg("Digest", m.of, <<Digest(m.of, sum)>>)
        <4>1. hand' = <<d>>  BY <1>15, <3>2 DEF HashTake
        <4>2. d \in Message  BY <2>2, MessageFacts, MadeMessages DEF Typed, HashType
        <4>3. d.kind # "Chunk"  BY DEF Msg
        <4>4. Count(<<d>>, "Chunk") = 0  BY <4>2, <4>3, CountSingle
        <4> QED  BY <3>2, <4>1, <4>4, ChunksAreCounted
      <3> QED  BY <3>1, <3>2
    <2>4. ChunksIn(hand) = 0  BY <2>1, NoneIn
    <2>5. UNCHANGED <<reader, sock, out, q2, pool>>  BY <2>1 DEF readerVars, sockVars
    <2>6. ChunksIn(q1') + ChunksIn(hand') = ChunksIn(q1) + ChunksIn(hand)
      BY <1>2, <1>3, <2>2, <2>3, <2>4
    <2> QED  BY <1>2, <1>3, <2>5, <2>6
  <1>16. CASE HashForward
    <2>1. hand \in Seq(Message) /\ Len(hand) <= 1 /\ hand # <<>>
      BY <1>16 DEF HashForward, Typed, HashType
    <2>2. q2 \in Seq(Message)  BY DEF Typed, QueueType
    <2>3. hand[1] \in Message /\ ChunksIn(hand) = IF hand[1].kind = "Chunk" THEN 1 ELSE 0
      <3>1. hand[1] \in Message /\ Count(hand, "Chunk") = IF hand[1].kind = "Chunk" THEN 1 ELSE 0
        BY <2>1, CountShort
      <3> QED  BY <3>1, ChunksAreCounted
    <2>4. ChunksIn(Append(q2, hand[1])) = ChunksIn(q2) + (IF hand[1].kind = "Chunk" THEN 1 ELSE 0)
      <3>1. Count(Append(q2, hand[1]), "Chunk") =
              Count(q2, "Chunk") + (IF hand[1].kind = "Chunk" THEN 1 ELSE 0)
        BY <2>2, <2>3, CountAppend
      <3> QED  BY <3>1, ChunksAreCounted
    <2>5. UNCHANGED <<reader, sock, out, q1, pool>>
      BY <1>16 DEF HashForward, readerVars, sockVars
    <2>6. ChunksIn(q2') + ChunksIn(hand') = ChunksIn(q2) + ChunksIn(hand)
      <3>1. q2' = Append(q2, hand[1]) /\ hand' = <<>>  BY <1>16 DEF HashForward
      <3>2. ChunksIn(hand') = 0  BY <3>1, NoneIn
      <3> QED  BY <1>2, <1>3, <2>3, <2>4, <3>1, <3>2
    <2> QED  BY <1>2, <1>3, <2>5, <2>6
  <1>17. CASE HashStops \/ HashEnds
    BY <1>2, <1>3, <1>17, NoneIn DEF HashStops, HashEnds, LoopLeft, readerVars, sockVars
  <1>18. CASE SockTake
    <2>1. /\ ChunksIn(q2) = ChunksIn(Tail(q2)) + (IF Head(q2).kind = "Chunk" THEN 1 ELSE 0)
          /\ ChunksIn(<<Head(q2)>>) = (IF Head(q2).kind = "Chunk" THEN 1 ELSE 0)
      BY <1>18, TakeFacts DEF SockTake, Typed, QueueType
    <2>2. out = <<>> /\ ChunksIn(out) = 0  BY <1>18, NoneIn DEF SockTake
    <2>3. CASE Head(q2).kind = "Err"
      <3>1. /\ sock' = "done" /\ out' = <<>> /\ q2' = <<>>
            /\ UNCHANGED <<pool, q1, hand, reader>>
        BY <1>18, <2>3 DEF SockTake, LoopFails, readerVars, hashVars
      <3>2. ChunksIn(out') = 0 /\ ChunksIn(q2') = 0  BY <3>1, NoneIn
      <3> QED  BY <1>2, <2>2, <3>1, <3>2
    <2>4. CASE Head(q2).kind # "Err"
      <3>1. /\ out' = <<Head(q2)>> /\ q2' = Tail(q2)
            /\ UNCHANGED <<sock, pool, q1, hand, reader>>
        BY <1>18, <2>4 DEF SockTake, readerVars, hashVars
      <3>2. ChunksIn(out') + ChunksIn(q2') = ChunksIn(out) + ChunksIn(q2)
        BY <1>3, <2>1, <2>2, <3>1
      <3>3. UNCHANGED <<pool, reader, sock>>  BY <3>1
      <3>4. ChunksIn(q1') = ChunksIn(q1) /\ ChunksIn(hand') = ChunksIn(hand)  BY <3>1
      <3> QED  BY <1>2, <1>3, <3>2, <3>3, <3>4
    <2> QED  BY <2>3, <2>4
  <1>19. CASE SockWrite
    <2>1. out \in Seq(Message) /\ Len(out) <= 1 /\ out # <<>>
      BY <1>19 DEF SockWrite, Typed, SockType
    <2>2. ChunksIn(out) = IF out[1].kind = "Chunk" THEN 1 ELSE 0
      <3>1. Count(out, "Chunk") = IF out[1].kind = "Chunk" THEN 1 ELSE 0
        BY <2>1, CountShort
      <3> QED  BY <3>1, ChunksAreCounted
    <2>3. /\ sock' = sock /\ reader' = reader
          /\ ChunksIn(q1') = ChunksIn(q1) /\ ChunksIn(hand') = ChunksIn(hand)
          /\ ChunksIn(q2') = ChunksIn(q2) /\ ChunksIn(out') = 0
      BY <1>19, NoneIn DEF SockWrite, readerVars, hashVars
    <2>4. pool' + ChunksIn(out') <= pool + ChunksIn(out)
      BY <1>2, <1>19, <2>2, <2>3 DEF SockWrite, Recycled
    <2>5. reader # "gone" => pool' + ChunksIn(out') = pool + ChunksIn(out)
      BY <1>2, <1>19, <2>2, <2>3 DEF SockWrite, Recycled
    <2>6. WithReader' = WithReader /\ WithReader \in Nat  BY <2>3
    <2>7. InUse' <= InUse /\ (reader # "gone" => InUse' = InUse)
      <3>1. /\ pool' + ChunksIn(out') \in Nat /\ pool + ChunksIn(out) \in Nat
        BY <1>2, <1>3
      <3>2. /\ InUse = (pool + ChunksIn(out)) + (WithReader + ChunksIn(q1) + ChunksIn(hand) + ChunksIn(q2))
            /\ InUse' = (pool' + ChunksIn(out')) + (WithReader + ChunksIn(q1) + ChunksIn(hand) + ChunksIn(q2))
        <4> HIDE DEF WithReader
        <4> QED  BY <1>2, <1>3, <2>3, <2>6 DEF InUse
      <3> HIDE DEF WithReader, InUse
      <3> QED  BY <1>2, <2>4, <2>5, <2>6, <3>1, <3>2
    <2>8. InUse \in Int /\ InUse' \in Int
      <3> HIDE DEF WithReader
      <3> QED  BY <1>2, <1>3, <2>6 DEF InUse
    <2> HIDE DEF InUse, PoolInv, BuffersConserved, WithReader
    <2> QED  BY <1>2, <2>3, <2>7, <2>8, PoolFlow
  <1>20. CASE SockFails
    BY <1>2, <1>3, <1>20, NoneIn DEF SockFails, LoopFails, readerVars, hashVars
  <1>21. CASE SockEnds \/ Finish
    BY <1>2, <1>3, <1>21 DEF SockEnds, Finish, readerVars, hashVars
  <1>22. CASE UNCHANGED vars
    BY <1>22 DEF vars, readerVars, hashVars, sockVars
  <1> QED
    BY <1>8, <1>9, <1>10, <1>11, <1>12, <1>13, <1>14, <1>15, <1>16, <1>17, <1>18, <1>19,
       <1>20, <1>21, <1>22 DEF Next, ReaderStep, HashStep, SockStep, Returned

-----------------------------------------------------------------------------
(* The error on its way.                                                   *)

LEMMA ErrNext == Typed /\ StageInv /\ ErrInv /\ [Next]_vars => ErrInv'
  <1> SUFFICES ASSUME Typed, StageInv, ErrInv, [Next]_vars  PROVE ErrInv'  OBVIOUS
  <1> USE DEF ErrInv
  <1>1. /\ q1 \in Seq(Message) /\ q2 \in Seq(Message) /\ hand \in Seq(Message) /\ Len(hand) <= 1
        /\ result \in {"none", "ok", "source", "socket"} /\ it \in Nat /\ sent \in Nat
        /\ reader \notin {"header", "gone"} => Me.size \in Nat
    BY ItemFacts DEF Typed, QueueType, HashType, SockType, ReaderType, Me
  <1>2. sock = "done" /\ (reader # "gone" \/ hash = "run") => result \in {"source", "socket"}
    BY <1>1 DEF StageInv
  <1>3. ASSUME NEW m \in Message, Push(m), UNCHANGED <<hashVars, sockVars, changed>>,
               reader # "error"
        PROVE  ErrInv'
    BY <1>3, PushFacts DEF hashVars, sockVars
  <1>4. CASE SendHeader
    <2>1. Msg("Header", it, <<Header(it)>>) \in Message
      <3>1. <<>> \in Seq(UnitToken)  OBVIOUS
      <3> QED  BY <1>1, <3>1, MadeMessages
    <2> QED  BY <1>3, <1>4, <2>1 DEF SendHeader
  <1>5. CASE SendTarget \/ SendTargetDigest
    <2>1. Units(it, 0, Me.size) \in Seq(UnitToken)
      BY <1>1, <1>5, UnitsTyped DEF SendTarget, SendTargetDigest
    <2>2. /\ Msg("Target", it, Units(it, 0, Me.size)) \in Message
          /\ Msg("Digest", it, <<Digest(it, Units(it, 0, Me.size))>>) \in Message
      BY <1>1, <2>1, MadeMessages
    <2> QED  BY <1>3, <1>5, <2>2 DEF SendTarget, SendTargetDigest
  <1>6. CASE SendChunk
    <2> DEFINE n == MinOf(Me.size, sent + Chunk)
    <2>1. n \in Nat  BY <1>1, <1>6, LaneAssumption DEF SendChunk, MinOf
    <2>2. Msg("Chunk", it, Units(it, sent, n)) \in Message
      BY <1>1, <2>1, UnitsTyped, MadeMessages
    <2> QED  BY <1>3, <1>6, <2>2 DEF SendChunk
  <1>7. CASE SendEndPayload
    <2>1. Msg("EndPayload", it, <<>>) \in Message
      <3>1. <<>> \in Seq(UnitToken)  OBVIOUS
      <3> QED  BY <1>1, <3>1, MadeMessages
    <2> QED  BY <1>3, <1>7, <2>1 DEF SendEndPayload
  <1>8. CASE ReaderEnds \/ ReaderStops \/ ReadLink \/ OpenFile \/ FillBuffer \/ TakeBuffer
             \/ FileReturns
    BY <1>8 DEF ReaderEnds, ReaderStops, ReadLink, OpenFile, FillBuffer, ShortRead, TakeBuffer,
       FileReturns, hashVars, sockVars
  <1>9. CASE SendError
    <2>1. CASE Push(Msg("Err", it, <<>>))
      <3>1. Msg("Err", it, <<>>) \in Message
        <4>1. <<>> \in Seq(UnitToken)  OBVIOUS
        <4> QED  BY <1>1, <4>1, MadeMessages
      <3>2. Msg("Err", it, <<>>).kind = "Err"  BY DEF Msg
      <3> QED  BY <2>1, <3>1, <3>2, PushFacts
    <2>2. CASE NextStageGone
      <3>1. reader = "error" /\ result' = result  BY <1>9 DEF SendError, sockVars
      <3> QED  BY <1>2, <2>2, <3>1, GoneIsDone
    <2> QED  BY <1>9, <2>1, <2>2 DEF SendError
  <1>10. CASE HashTake
    <2> DEFINE m == Head(q1)
    <2>1. /\ q1 # <<>> /\ hand = <<>> /\ q1' = Tail(q1)
          /\ UNCHANGED <<reader, result, q2, changed>>
      BY <1>10 DEF HashTake, readerVars, sockVars
    <2>2. HasErr(q1) => HasErr(q1') \/ m.kind = "Err"  BY <1>1, <2>1, TakeFacts
    <2>3. m.kind = "Err" => HasErr(hand')
      <3>1. m.kind = "Err" => hand' = <<m>>  BY <1>10 DEF HashTake, Forwarded
      <3> QED  BY <1>1, <2>1, <3>1, TakeFacts
    <2> QED  BY <2>1, <2>2, <2>3, NoneIn
  <1>11. CASE HashForward
    <2>1. /\ hand # <<>> /\ q2' = Append(q2, hand[1])
          /\ UNCHANGED <<reader, result, q1, changed>>
      BY <1>11 DEF HashForward, readerVars, sockVars
    <2>2. HasErr(hand) => hand[1].kind = "Err"
      <3>1. \A k \in 1 .. Len(hand) : k = 1  BY <1>1
      <3> QED  BY <3>1 DEF HasErr
    <2>3. /\ \A k \in 1 .. Len(q2) : q2'[k] = q2[k]
          /\ Len(q2') = Len(q2) + 1 /\ Len(q2) \in Nat /\ q2'[Len(q2) + 1] = hand[1]
      BY <1>1, <2>1
    <2>4. HasErr(hand) \/ HasErr(q2) => HasErr(q2')  BY <2>2, <2>3 DEF HasErr
    <2> QED  BY <2>1, <2>4
  <1>12. CASE HashStops
    BY <1>2, <1>12 DEF HashStops, LoopLeft, readerVars, sockVars
  <1>13. CASE HashEnds
    BY <1>13 DEF HashEnds, readerVars, sockVars
  <1>14. CASE SockTake
    <2>1. /\ q2 # <<>> /\ UNCHANGED <<reader, q1, hand, changed>>
          /\ Head(q2).kind = "Err" => result' = "source"
          /\ Head(q2).kind # "Err" => q2' = Tail(q2) /\ result' = result
      BY <1>14 DEF SockTake, LoopFails, readerVars, hashVars
    <2> QED  BY <1>1, <2>1, TakeFacts
  <1>15. CASE SockWrite \/ SockEnds
    BY <1>15 DEF SockWrite, SockEnds, readerVars, hashVars
  <1>16. CASE SockFails
    BY <1>16 DEF SockFails, LoopFails
  <1>17. CASE Finish
    <2>1. ~changed  BY <1>17, NoneIn DEF Finish, StageInv
    <2> QED  BY <1>17, <2>1 DEF Finish
  <1>18. CASE UNCHANGED vars
    BY <1>18 DEF vars, readerVars, hashVars, sockVars
  <1> QED
    BY <1>4, <1>5, <1>6, <1>7, <1>8, <1>9, <1>10, <1>11, <1>12, <1>13, <1>14, <1>15, <1>16,
       <1>17, <1>18 DEF Next, ReaderStep, HashStep, SockStep, Returned

-----------------------------------------------------------------------------
LaneIInv == Typed /\ StageInv /\ PoolInv /\ ErrInv

LEMMA LaneInductive == Spec => []LaneIInv
  <1>1. Init => LaneIInv
    <2>1. Init => ErrInv  BY DEF Init, ErrInv
    <2> QED  BY <2>1, InitTyped, PoolInit DEF LaneIInv
  <1>2. LaneIInv /\ [Next]_vars => LaneIInv'
    BY TypedNext, PoolNext, ErrNext DEF LaneIInv
  <1> QED  BY <1>1, <1>2, PTL DEF Spec

(* Every variable keeps its type. That a buffer given back finds room in   *)
(* the pool (send_lane_inner's pool channel) rests on their conservation.  *)
THEOREM TypeCorrect == Spec => []TypeOK
  <1>1. LaneIInv => TypeOK
    <2> SUFFICES ASSUME LaneIInv  PROVE TypeOK  OBVIOUS
    <2>1. Typed /\ PoolInv  BY DEF LaneIInv
    <2>2. /\ ChunksIn(q1) \in Nat /\ ChunksIn(hand) \in Nat /\ ChunksIn(q2) \in Nat
          /\ ChunksIn(out) \in Nat /\ pool \in Nat /\ Buffers \in Nat
      BY <2>1, ChunksAreNat, LaneAssumption DEF Typed, HashType, SockType, QueueType, Buffers
    <2>3. pool \in 0 .. Buffers  BY <2>1, <2>2 DEF PoolInv, InUse, WithReader
    <2> QED
      BY <2>1, <2>3 DEF Typed, OfferType, ReaderType, HashType, SockType, QueueType, TypeOK
  <1> QED  BY <1>1, LaneInductive, PTL

(* No buffer is lost while the lane runs (stream_file, send_lane_inner).   *)
THEOREM NoBufferLost == Spec => []BuffersConserved
  <1>1. LaneIInv => BuffersConserved  BY DEF LaneIInv, PoolInv
  <1> QED  BY <1>1, LaneInductive, PTL

(* One buffer per queue slot and two more are enough for a reader that     *)
(* feeds the socket itself (send_lane_inner's count of buffers).           *)
THEOREM NeverStarved == Spec => []ReaderNeverStarved
  <1>1. LaneIInv => ReaderNeverStarved
    <2> SUFFICES ASSUME LaneIInv, ~verify, sock = "loop", reader = "buf"  PROVE pool > 0
      BY DEF ReaderNeverStarved
    <2>1. pool + ChunksIn(q1) + ChunksIn(hand) + ChunksIn(q2) + ChunksIn(out) = Depth + 2
      <3>1. /\ ChunksIn(q1) \in Nat /\ ChunksIn(hand) \in Nat /\ ChunksIn(q2) \in Nat
            /\ ChunksIn(out) \in Nat /\ pool \in Nat
        BY ChunksAreNat DEF LaneIInv, Typed, HashType, SockType, QueueType
      <3> QED  BY <3>1, LaneAssumption DEF LaneIInv, PoolInv, BuffersConserved, Buffers
    <2>2. ChunksIn(q1) = 0 /\ ChunksIn(hand) = 0
      BY NoneIn DEF LaneIInv, StageInv
    <2>3. \A q \in Seq(Message) : ChunksIn(q) <= Len(q)
      <3> TAKE q \in Seq(Message)
      <3>1. Count(q, "Chunk") <= Len(q)  BY CountAtMost
      <3> QED  BY <3>1, ChunksAreCounted
    <2>4. ChunksIn(q2) <= Depth /\ ChunksIn(out) <= 1
      <3>1. /\ q2 \in Seq(Message) /\ Len(q2) <= Depth /\ Len(q2) \in Nat
            /\ out \in Seq(Message) /\ Len(out) <= 1 /\ Len(out) \in Nat
        BY DEF LaneIInv, Typed, QueueType, SockType
      <3>2. ChunksIn(q2) \in Nat /\ ChunksIn(out) \in Nat  BY <3>1, ChunksAreNat
      <3> QED  BY <2>3, <3>1, <3>2, LaneAssumption
    <2>5. /\ ChunksIn(q2) \in Nat /\ ChunksIn(out) \in Nat /\ pool \in Nat
      BY ChunksAreNat DEF LaneIInv, Typed, QueueType, SockType
    <2> QED  BY <2>1, <2>2, <2>4, <2>5, LaneAssumption
  <1> QED  BY <1>1, LaneInductive, PTL

(* A source that changed never ends in success (read_items, hash_items):   *)
(* the error is with the reader, in a channel, in the hash stage's hand or *)
(* reported, and past the joins nothing but the report can hold it.        *)
THEOREM ChangeIsReported == Spec => []ChangeSurfaces
  <1>1. LaneIInv => ChangeSurfaces
    BY NoneIn DEF LaneIInv, ChangeSurfaces, ErrInv, StageInv
  <1> QED  BY <1>1, LaneInductive, PTL

-----------------------------------------------------------------------------
(* The frames.  A list l that is verified or not, v, and the place in its  *)
(* frames a message starts from or leads to: so many tokens of one item.   *)

Fed(l, v) == l \in Lists /\ v \in BOOLEAN

LEMMA ListFacts ==
    ASSUME NEW l \in Lists
    PROVE  /\ Len(l) \in Nat
           /\ \A i \in 1 .. Len(l) : /\ l[i].size \in Nat
                                     /\ l[i].kind \in {"Dir", "Symlink", "File"}
                                     /\ l[i].kind = "Dir" => l[i].size = 0
                                     /\ l[i].kind = "Symlink" => l[i].size > 0
  <1>1. l \in Seq(Item)  BY LaneAssumption
  <1>2. Len(l) \in Nat /\ \A i \in 1 .. Len(l) : l[i] \in Item  BY <1>1
  <1> QED  BY <1>2, LaneAssumption DEF Item

LEMMA OneToken ==
    ASSUME NEW t \in Token
    PROVE  <<t>> \in Seq(Token) /\ Len(<<t>>) = 1 /\ <<t>>[1] = t
  OBVIOUS

LEMMA TokensTyped ==
    ASSUME NEW i \in Nat, NEW u \in Seq(UnitToken)
    PROVE  Header(i) \in Token /\ Digest(i, u) \in Token
  <1>1. <<>> \in Seq(UnitToken)  OBVIOUS
  <1> QED  BY <1>1 DEF Header, Digest, Token

\* u is so many units of item i, from one on.
AreUnits(i, from, to, u) ==
    /\ u \in Seq(UnitToken) /\ u \in Seq(Token)
    /\ Len(u) = to - from
    /\ \A k \in 1 .. to - from : u[k] = Unit(i, from + k)

LEMMA UnitsAre ==
    ASSUME NEW i \in Nat, NEW from \in Nat, NEW to \in Nat, from <= to
    PROVE  AreUnits(i, from, to, Units(i, from, to))
  <1>1. to - from \in Nat  OBVIOUS
  <1>2. Units(i, from, to) \in Seq(UnitToken)  BY UnitsTyped
  <1>3. DOMAIN Units(i, from, to) = 1 .. to - from  BY DEF Units
  <1>4. Len(Units(i, from, to)) = to - from  BY <1>1, <1>2, <1>3, LenProperties
  <1>5. Units(i, from, to) \in Seq(Token)  BY <1>2, TokensAreTokens
  <1>6. \A k \in 1 .. to - from : Units(i, from, to)[k] = Unit(i, from + k)  BY DEF Units
  <1> QED  BY <1>2, <1>4, <1>5, <1>6 DEF AreUnits

(* The first units.                                                        *)
LEMMA FirstUnits ==
    ASSUME NEW i \in Nat, NEW n \in Nat
    PROVE  /\ Units(i, 0, n) \in Seq(UnitToken) /\ Units(i, 0, n) \in Seq(Token)
           /\ Len(Units(i, 0, n)) = n
           /\ \A k \in 1 .. n : Units(i, 0, n)[k] = Unit(i, k)
  <1>1. n - 0 = n /\ 0 <= n /\ 0 \in Nat  OBVIOUS
  <1>2. /\ Units(i, 0, n) \in Seq(UnitToken) /\ Units(i, 0, n) \in Seq(Token)
        /\ Len(Units(i, 0, n)) = n - 0
        /\ \A k \in 1 .. n - 0 : Units(i, 0, n)[k] = Unit(i, 0 + k)
    <2>1. AreUnits(i, 0, n, Units(i, 0, n))  BY <1>1, UnitsAre
    <2> QED  BY <2>1 DEF AreUnits
  <1>3. \A k \in 1 .. n : Units(i, 0, n)[k] = Unit(i, k)
    <2> TAKE k \in 1 .. n
    <2>1. k \in 1 .. n - 0 /\ 0 + k = k  BY <1>1
    <2> QED  BY <1>2, <2>1
  <1> QED  BY <1>1, <1>2, <1>3

\* r is s followed by t.
IsJoin(S, s, t, r) ==
    /\ r \in Seq(S) /\ Len(r) = Len(s) + Len(t)
    /\ \A k \in 1 .. Len(s) : r[k] = s[k]
    /\ \A k \in 1 .. Len(t) : r[Len(s) + k] = t[k]

LEMMA Joined ==
    ASSUME NEW S, NEW s \in Seq(S), NEW t \in Seq(S)
    PROVE  IsJoin(S, s, t, s \o t)
  <1>1. Len(s) \in Nat /\ Len(t) \in Nat  OBVIOUS
  <1>2. s \o t \in Seq(S) /\ Len(s \o t) = Len(s) + Len(t)  BY ConcatProperties
  <1>3. \A k \in 1 .. Len(s) + Len(t) :
          (s \o t)[k] = IF k <= Len(s) THEN s[k] ELSE t[k - Len(s)]
    BY ConcatProperties
  <1>4. \A k \in 1 .. Len(s) : (s \o t)[k] = s[k]  BY <1>1, <1>3
  <1>5. ASSUME NEW k \in 1 .. Len(t)  PROVE (s \o t)[Len(s) + k] = t[k]
    <2>1. /\ Len(s) + k \in 1 .. Len(s) + Len(t) /\ ~(Len(s) + k <= Len(s))
          /\ (Len(s) + k) - Len(s) = k
      BY <1>1
    <2> QED  BY <1>3, <2>1
  <1> QED  BY <1>2, <1>4, <1>5 DEF IsJoin

(* The next units after some of them.                                      *)
LEMMA UnitsJoin ==
    ASSUME NEW i \in Nat, NEW a \in Nat, NEW b \in Nat, a <= b
    PROVE  Units(i, 0, a) \o Units(i, a, b) = Units(i, 0, b)
  <1> DEFINE s == Units(i, 0, a)
             t == Units(i, a, b)
             u == Units(i, 0, b)
  <1>1. s \in Seq(Token) /\ Len(s) = a /\ \A k \in 1 .. a : s[k] = Unit(i, k)  BY FirstUnits
  <1>2. t \in Seq(Token) /\ Len(t) = b - a /\ \A k \in 1 .. b - a : t[k] = Unit(i, a + k)
    <2>1. AreUnits(i, a, b, t)  BY UnitsAre
    <2> QED  BY <2>1 DEF AreUnits
  <1>3. u \in Seq(Token) /\ Len(u) = b /\ \A k \in 1 .. b : u[k] = Unit(i, k)  BY FirstUnits
  <1> HIDE DEF s, t, u
  <1>4. /\ s \o t \in Seq(Token) /\ Len(s \o t) = b
        /\ \A k \in 1 .. a : (s \o t)[k] = s[k]
        /\ \A k \in 1 .. b - a : (s \o t)[a + k] = t[k]
    <2>1. IsJoin(Token, s, t, s \o t)  BY <1>1, <1>2, Joined, Zenon
    <2>2. a + (b - a) = b  OBVIOUS
    <2> QED  BY <1>1, <1>2, <2>1, <2>2 DEF IsJoin
  <1>5. \A k \in 1 .. b : (s \o t)[k] = u[k]
    <2> TAKE k \in 1 .. b
    <2>1. CASE k <= a
      <3>1. k \in 1 .. a  BY <2>1
      <3> QED  BY <1>1, <1>3, <1>4, <3>1
    <2>2. CASE ~(k <= a)
      <3>1. k - a \in 1 .. b - a /\ a + (k - a) = k  BY <2>2
      <3>2. (s \o t)[a + (k - a)] = t[k - a] /\ t[k - a] = Unit(i, a + (k - a))
        BY <1>2, <1>4, <3>1
      <3> QED  BY <1>3, <3>1, <3>2
    <2> QED  BY <2>1, <2>2
  <1>6. s \o t = u  BY <1>3, <1>4, <1>5, SeqEqual
  <1> QED  BY <1>6 DEF s, t, u

LEMMA NoUnits == \A i \in Nat : Units(i, 0, 0) = <<>>
  <1> TAKE i \in Nat
  <1>1. Units(i, 0, 0) \in Seq(Token) /\ Len(Units(i, 0, 0)) = 0  BY FirstUnits
  <1> QED  BY <1>1, EmptySeq

-----------------------------------------------------------------------------
(* One frame.                                                              *)

Signed(l, v, i) == v /\ l[i].kind # "Dir"

FrameIs(l, v, i, f) ==
    LET n == l[i].size IN
    /\ f \in Seq(Token)
    /\ Len(f) = IF Signed(l, v, i) THEN 2 + n ELSE 1 + n
    /\ f[1] = Header(i)
    /\ \A k \in 1 .. n : f[1 + k] = Unit(i, k)
    /\ Signed(l, v, i) => f[2 + n] = Digest(i, Units(i, 0, n))

LEMMA FrameFacts ==
    ASSUME NEW l, NEW v, Fed(l, v), NEW i \in 1 .. Len(l)
    PROVE  FrameIs(l, v, i, Frame(l, v, i))
  <1> DEFINE n == l[i].size
             u == Units(i, 0, n)
             h == <<Header(i)>>
             d == IF Signed(l, v, i) THEN <<Digest(i, u)>> ELSE <<>>
  <1>1. n \in Nat /\ i \in Nat  BY ListFacts DEF Fed
  <1>2. /\ u \in Seq(UnitToken) /\ u \in Seq(Token) /\ Len(u) = n
        /\ \A k \in 1 .. n : u[k] = Unit(i, k)
    BY <1>1, FirstUnits
  <1>3. h \in Seq(Token) /\ Len(h) = 1 /\ h[1] = Header(i)
    BY <1>1, <1>2, TokensTyped, OneToken
  <1>4. /\ d \in Seq(Token) /\ Len(d) = IF Signed(l, v, i) THEN 1 ELSE 0
        /\ Signed(l, v, i) => d[1] = Digest(i, u)
    BY <1>1, <1>2, TokensTyped, OneToken
  <1>5. Frame(l, v, i) = h \o u \o d  BY DEF Frame, Signed
  <1> HIDE DEF h, u, d, n
  <1>6. /\ h \o u \in Seq(Token) /\ Len(h \o u) = Len(h) + Len(u)
        /\ \A k \in 1 .. Len(h) : (h \o u)[k] = h[k]
        /\ \A k \in 1 .. Len(u) : (h \o u)[Len(h) + k] = u[k]
    <2>1. IsJoin(Token, h, u, h \o u)  BY <1>2, <1>3, Joined, Zenon
    <2> QED  BY <2>1 DEF IsJoin
  <1>7. /\ (h \o u) \o d \in Seq(Token) /\ Len((h \o u) \o d) = Len(h \o u) + Len(d)
        /\ \A k \in 1 .. Len(h \o u) : ((h \o u) \o d)[k] = (h \o u)[k]
        /\ \A k \in 1 .. Len(d) : ((h \o u) \o d)[Len(h \o u) + k] = d[k]
    <2>1. IsJoin(Token, h \o u, d, (h \o u) \o d)  BY <1>4, <1>6, Joined, Zenon
    <2> QED  BY <2>1 DEF IsJoin
  <1>8. ((h \o u) \o d)[1] = Header(i)
    <2>1. 1 \in 1 .. Len(h) /\ 1 \in 1 .. Len(h \o u)  BY <1>1, <1>2, <1>3, <1>6
    <2> QED  BY <1>3, <1>6, <1>7, <2>1
  <1>9. ASSUME NEW k \in 1 .. n  PROVE ((h \o u) \o d)[1 + k] = Unit(i, k)
    <2>1. 1 + k \in 1 .. Len(h \o u)  BY <1>1, <1>2, <1>3, <1>6
    <2> QED  BY <1>2, <1>3, <1>6, <1>7, <2>1
  <1>10. ASSUME Signed(l, v, i)  PROVE ((h \o u) \o d)[2 + n] = Digest(i, u)
    <2>1. 1 \in 1 .. Len(d) /\ Len(h \o u) + 1 = 2 + n  BY <1>1, <1>2, <1>3, <1>4, <1>6, <1>10
    <2>2. ((h \o u) \o d)[Len(h \o u) + 1] = d[1]  BY <1>7, <2>1
    <2> QED  BY <1>4, <1>10, <2>1, <2>2
  <1>11. Len((h \o u) \o d) = IF Signed(l, v, i) THEN 2 + n ELSE 1 + n
    BY <1>1, <1>2, <1>3, <1>4, <1>6, <1>7
  <1> QED  BY <1>5, <1>7, <1>8, <1>9, <1>10, <1>11 DEF FrameIs, n, u

\* Where an item's frame is cut.
Spot(i, k) == [of |-> i, at |-> k]
Nowhere    == Spot(0, 0)

\* So many tokens into item i's frame: behind all of them the next item begins.
After(l, v, i, k) == IF k = Len(Frame(l, v, i)) THEN Spot(i + 1, 0) ELSE Spot(i, k)

Spots(l, v) ==
    {Spot(Len(l) + 1, 0)} \cup
    {x \in [of : 1 .. Len(l), at : Nat] : x.at < Len(Frame(l, v, x.of))}

LEMMA SpotFields == \A i, k : Spot(i, k).of = i /\ Spot(i, k).at = k
  BY DEF Spot

LEMMA SpotEta == \A x \in [of : Nat, at : Nat] : x = Spot(x.of, x.at)
  BY DEF Spot

LEMMA SpotFacts ==
    ASSUME NEW l, NEW v, Fed(l, v)
    PROVE  /\ Spots(l, v) \subseteq [of : Nat, at : Nat]
           /\ Nowhere \in [of : Nat, at : Nat] /\ Nowhere \notin Spots(l, v)
           /\ \A i \in 1 .. Len(l) + 1 : Spot(i, 0) \in Spots(l, v)
           /\ \A i \in 1 .. Len(l), k \in Nat :
                k <= Len(Frame(l, v, i)) => After(l, v, i, k) \in Spots(l, v)
           /\ \A x \in Spots(l, v) :
                x.of \in 1 .. Len(l) => x.at \in Nat /\ x.at < Len(Frame(l, v, x.of))
  <1>1. Len(l) \in Nat  BY ListFacts DEF Fed
  <1>2. \A i \in 1 .. Len(l) : Len(Frame(l, v, i)) \in Nat /\ Len(Frame(l, v, i)) > 0
    <2> TAKE i \in 1 .. Len(l)
    <2>1. FrameIs(l, v, i, Frame(l, v, i)) /\ l[i].size \in Nat  BY FrameFacts, ListFacts DEF Fed
    <2> QED  BY <2>1 DEF FrameIs
  <1>3. Spots(l, v) \subseteq [of : Nat, at : Nat]  BY <1>1 DEF Spots, Spot
  <1>4. Nowhere \in [of : Nat, at : Nat] /\ Nowhere \notin Spots(l, v)
    <2>1. Nowhere.of = 0 /\ Nowhere \in [of : Nat, at : Nat]  BY DEF Nowhere, Spot
    <2>2. Spot(Len(l) + 1, 0).of = Len(l) + 1  BY SpotFields
    <2> QED  BY <1>1, <2>1, <2>2 DEF Spots
  <1>5. \A i \in 1 .. Len(l), k \in Nat : k < Len(Frame(l, v, i)) => Spot(i, k) \in Spots(l, v)
    <2> TAKE i \in 1 .. Len(l), k \in Nat
    <2>1. Spot(i, k) \in [of : 1 .. Len(l), at : Nat]  BY DEF Spot
    <2> QED  BY <2>1, SpotFields DEF Spots
  <1>6. ASSUME NEW i \in 1 .. Len(l) + 1 PROVE Spot(i, 0) \in Spots(l, v)
    <2>1. CASE i \in 1 .. Len(l)  BY <1>2, <1>5, <2>1
    <2>2. CASE i = Len(l) + 1  BY <2>2 DEF Spots
    <2> QED  BY <1>1, <2>1, <2>2
  <1>7. ASSUME NEW i \in 1 .. Len(l), NEW k \in Nat, k <= Len(Frame(l, v, i))
        PROVE  After(l, v, i, k) \in Spots(l, v)
    <2>1. CASE k = Len(Frame(l, v, i))
      <3>1. i + 1 \in 1 .. Len(l) + 1  BY <1>1
      <3> QED  BY <1>6, <2>1, <3>1 DEF After
    <2>2. CASE k # Len(Frame(l, v, i))
      <3>1. k < Len(Frame(l, v, i))  BY <1>2, <1>7, <2>2
      <3> QED  BY <1>5, <2>2, <3>1 DEF After
    <2> QED  BY <2>1, <2>2
  <1>8. ASSUME NEW x \in Spots(l, v), x.of \in 1 .. Len(l)
        PROVE  x.at \in Nat /\ x.at < Len(Frame(l, v, x.of))
    <2>1. x # Spot(Len(l) + 1, 0)  BY <1>1, <1>8, SpotFields
    <2> QED  BY <2>1 DEF Spots
  <1> QED  BY <1>3, <1>4, <1>6, <1>7, <1>8

-----------------------------------------------------------------------------
(* The frames up to each item.                                             *)

IsParts(l, v, f) ==
    /\ f \in [0 .. Len(l) -> Seq(Token)]
    /\ f[0] = <<>>
    /\ \A i \in 1 .. Len(l) : f[i] = f[i - 1] \o Frame(l, v, i)
    /\ f[Len(l)] = Body(l, v)

Parts(l, v) == CHOOSE f : IsParts(l, v, f)

LEMMA PartsExist ==
    ASSUME NEW l, NEW v, Fed(l, v)
    PROVE  \E f : IsParts(l, v, f)
  <1> DEFINE S == Seq(Token)
             n == Len(l)
             W(x, k) == x \o Frame(l, v, k)
             a == <<>>
             G == [y \in S \X (1 .. n) |-> W(y[1], y[2])]
             Is(f) == f = [k \in 0 .. n |-> IF k = 0 THEN a ELSE W(f[k - 1], k)]
  <1>1. n \in Nat /\ a \in S  BY ListFacts DEF Fed
  <1>2. \A x \in S, k \in 1 .. n : W(x, k) \in S
    <2> TAKE x \in S, k \in 1 .. n
    <2>1. Frame(l, v, k) \in S  BY FrameFacts DEF FrameIs
    <2> QED  BY <2>1, ConcatProperties
  <1>3. \A x \in S, k \in 1 .. n : G[<<x, k>>] = W(x, k)  OBVIOUS
  <1>4. G \in [S \X (1 .. n) -> S]  BY <1>2
  <1> HIDE DEF S, n, a, G, W
  <1>5. PICK f \in [0 .. n -> S] : Runs(f, n, a, G)  BY <1>1, <1>4, Unfolds, Zenon
  <1>6. \A k \in 1 .. n : f[k - 1] \in S /\ f[k] = W(f[k - 1], k)
    <2> TAKE k \in 1 .. n
    <2>1. k - 1 \in 0 .. n  BY <1>1
    <2>2. f[k - 1] \in S  BY <2>1
    <2> QED  BY <1>3, <1>5, <2>2 DEF Runs
  <1>7. Is(f)
    <2>1. \A k \in 0 .. n : f[k] = IF k = 0 THEN a ELSE W(f[k - 1], k)
      <3> TAKE k \in 0 .. n
      <3>1. CASE k = 0  BY <1>5, <3>1 DEF Runs
      <3>2. CASE k # 0
        <4>1. k \in 1 .. n  BY <1>1, <3>2
        <4> QED  BY <1>6, <3>2, <4>1
      <3> QED  BY <3>1, <3>2
    <2> QED  BY <2>1
  <1> DEFINE upto == CHOOSE h : Is(h)
  <1>8. Is(upto)
    <2> HIDE DEF Is
    <2> QED  BY <1>7
  <1>9. Body(l, v) = upto[n]  BY DEF Body, W, n, a
  <1> HIDE DEF upto
  <1>10. upto[0] = a /\ \A k \in 1 .. n : upto[k] = W(upto[k - 1], k)
    <2>1. \A k \in 0 .. n : upto[k] = IF k = 0 THEN a ELSE W(upto[k - 1], k)
      BY <1>8, Zenon
    <2>2. 0 \in 0 .. n /\ \A k \in 1 .. n : k \in 0 .. n /\ k # 0  BY <1>1
    <2> QED  BY <2>1, <2>2
  <1>11. upto[n] = f[n]
    <2> DEFINE T == {k \in 0 .. n : upto[k] # f[k]}
    <2> SUFFICES ASSUME T # {}  PROVE FALSE
      <3>1. n \in 0 .. n  BY <1>1
      <3> QED  BY <3>1
    <2>1. T \subseteq Nat  OBVIOUS
    <2>2. PICK m \in T : \A k \in T : m <= k
      <3> HIDE DEF T
      <3> QED  BY <2>1, LeastOne
    <2>3. m # 0  BY <1>5, <1>10 DEF Runs
    <2>4. m \in 1 .. n /\ m - 1 \in 0 .. n  BY <1>1, <2>3
    <2>5. m - 1 \notin T  BY <2>2, <2>4
    <2>6. upto[m - 1] = f[m - 1]  BY <2>4, <2>5
    <2> QED  BY <1>6, <1>10, <2>4, <2>6
  <1>12. f \in [0 .. n -> S] /\ f[0] = a  BY <1>5 DEF Runs
  <1>13. \A i \in 1 .. n : f[i] = f[i - 1] \o Frame(l, v, i)  BY <1>6 DEF W
  <1> QED  BY <1>9, <1>11, <1>12, <1>13 DEF IsParts, n, S, a

LEMMA PartsFacts ==
    ASSUME NEW l, NEW v, Fed(l, v)
    PROVE  IsParts(l, v, Parts(l, v))
  BY PartsExist, Zenon DEF Parts

\* t begins with s.
Begins(s, t) == s \in Seq(Token) /\ \E r \in Seq(Token) : t = s \o r

LEMMA BeginsSelf == \A s \in Seq(Token) : Begins(s, s)
  <1> TAKE s \in Seq(Token)
  <1>1. <<>> \in Seq(Token) /\ s \o <<>> = s  BY ConcatEmptySeq
  <1> QED  BY <1>1 DEF Begins

LEMMA BeginsTrans ==
    ASSUME NEW s, NEW t, NEW u, Begins(s, t), Begins(t, u)
    PROVE  Begins(s, u)
  <1>1. PICK p \in Seq(Token) : t = s \o p  BY DEF Begins
  <1>2. PICK q \in Seq(Token) : u = t \o q  BY DEF Begins
  <1>3. s \in Seq(Token) /\ p \o q \in Seq(Token)  BY ConcatProperties DEF Begins
  <1>4. u = s \o (p \o q)  BY <1>1, <1>2, <1>3, ConcatAssociative
  <1> QED  BY <1>3, <1>4 DEF Begins

LEMMA BeginsPrefix ==
    ASSUME NEW s, NEW t, Begins(s, t)
    PROVE  /\ t \in Seq(Token) /\ Len(s) \in Nat /\ Len(t) \in Nat /\ Len(s) <= Len(t)
           /\ s = Prefix(t, Len(s))
  <1>1. PICK r \in Seq(Token) : t = s \o r  BY DEF Begins
  <1>2. s \in Seq(Token)  BY DEF Begins
  <1>3. IsJoin(Token, s, r, t)  BY <1>1, <1>2, Joined, Zenon
  <1>4. Len(r) \in Nat /\ Len(s) \in Nat  BY <1>1, <1>2
  <1>5. t \in Seq(Token) /\ Len(t) = Len(s) + Len(r)  BY <1>3 DEF IsJoin
  <1>6. SubSeq(t, 1, Len(s)) = s  BY <1>1, <1>2, SubSeqOfConcat1
  <1> QED  BY <1>4, <1>5, <1>6 DEF Prefix

(* The frames of some items begin those of all.                            *)
LEMMA PartsBegin ==
    ASSUME NEW l, NEW v, Fed(l, v), NEW i \in 0 .. Len(l)
    PROVE  Begins(Parts(l, v)[i], Body(l, v))
  <1> DEFINE f == Parts(l, v)
             n == Len(l)
             T == {k \in 0 .. n : ~Begins(f[n - k], Body(l, v))}
  <1>1. n \in Nat  BY ListFacts DEF Fed
  <1>2. /\ f \in [0 .. n -> Seq(Token)] /\ f[n] = Body(l, v)
        /\ \A k \in 1 .. n : f[k] = f[k - 1] \o Frame(l, v, k)
    BY PartsFacts DEF IsParts
  <1>3. \A k \in 1 .. n : Frame(l, v, k) \in Seq(Token)  BY FrameFacts DEF FrameIs
  <1> HIDE DEF f, n
  <1>4. T = {}
    <2> SUFFICES ASSUME T # {}  PROVE FALSE  OBVIOUS
    <2>1. T \subseteq Nat  OBVIOUS
    <2>2. PICK m \in T : \A k \in T : m <= k
      <3> HIDE DEF T
      <3> QED  BY <2>1, LeastOne
    <2>3. m # 0
      <3>1. n \in 0 .. n /\ n - 0 = n  BY <1>1
      <3>2. f[n - 0] \in Seq(Token) /\ f[n - 0] = Body(l, v)  BY <1>2, <3>1
      <3> QED  BY <3>2, BeginsSelf
    <2>4. m - 1 \in 0 .. n /\ m - 1 \notin T  BY <1>1, <2>2, <2>3
    <2>5. Begins(f[n - (m - 1)], Body(l, v))  BY <2>4
    <2>6. /\ n - (m - 1) \in 1 .. n /\ n - m \in 0 .. n /\ (n - (m - 1)) - 1 = n - m
      BY <1>1, <2>3
    <2>7. f[n - (m - 1)] = f[n - m] \o Frame(l, v, n - (m - 1))  BY <1>2, <2>6
    <2>8. f[n - m] \in Seq(Token) /\ Frame(l, v, n - (m - 1)) \in Seq(Token)
      BY <1>2, <1>3, <2>6
    <2>9. Begins(f[n - m], f[n - (m - 1)])  BY <2>7, <2>8 DEF Begins
    <2>10. Begins(f[n - m], Body(l, v))  BY <2>5, <2>9, BeginsTrans
    <2> QED  BY <2>10
  <1>5. n - i \in 0 .. n /\ n - (n - i) = i  BY <1>1 DEF n
  <1> QED  BY <1>4, <1>5 DEF f

\* What is on the wire at a place.
Words(l, v, x) ==
    IF x.at = 0 THEN Parts(l, v)[x.of - 1]
    ELSE Parts(l, v)[x.of - 1] \o SubSeq(Frame(l, v, x.of), 1, x.at)

LEMMA SlicesTyped ==
    ASSUME NEW f \in Seq(Token), NEW a \in Nat, NEW b \in Nat, a <= b, b <= Len(f)
    PROVE  /\ SubSeq(f, a + 1, b) \in Seq(Token) /\ Len(SubSeq(f, a + 1, b)) = b - a
           /\ \A k \in 1 .. b - a : SubSeq(f, a + 1, b)[k] = f[a + k]
  <1>1. Len(f) \in Nat  OBVIOUS
  <1>2. \A k \in a + 1 .. b : f[k] \in Token  BY <1>1
  <1>3. /\ SubSeq(f, a + 1, b) \in Seq(Token)
        /\ Len(SubSeq(f, a + 1, b)) = IF a + 1 <= b THEN b - (a + 1) + 1 ELSE 0
        /\ \A k \in 1 .. b - (a + 1) + 1 : SubSeq(f, a + 1, b)[k] = f[(a + 1) + k - 1]
    BY <1>2, SubSeqProperties
  <1>4. Len(SubSeq(f, a + 1, b)) = b - a  BY <1>3
  <1>5. \A k \in 1 .. b - a : SubSeq(f, a + 1, b)[k] = f[a + k]
    <2> TAKE k \in 1 .. b - a
    <2>1. k \in 1 .. b - (a + 1) + 1 /\ (a + 1) + k - 1 = a + k  OBVIOUS
    <2> QED  BY <1>3, <2>1
  <1> QED  BY <1>3, <1>4, <1>5

LEMMA TokensRegroup == \A s, t, u \in Seq(Token) : (s \o t) \o u = s \o (t \o u)
  BY ConcatAssociative

LEMMA CutWords ==
    ASSUME NEW l, NEW v, Fed(l, v), NEW i \in 1 .. Len(l), NEW k \in Nat,
           k <= Len(Frame(l, v, i))
    PROVE  /\ Words(l, v, After(l, v, i, k)) = Parts(l, v)[i - 1] \o SubSeq(Frame(l, v, i), 1, k)
           /\ Parts(l, v)[i - 1] \in Seq(Token)
  <1> DEFINE f == Parts(l, v)
             fr == Frame(l, v, i)
  <1>1. Len(l) \in Nat /\ i \in Nat /\ i - 1 \in 0 .. Len(l)
    <2>1. Len(l) \in Nat  BY ListFacts DEF Fed
    <2> QED  BY <2>1
  <1>2. f[i - 1] \in Seq(Token) /\ f[i] = f[i - 1] \o fr
    <2>1. IsParts(l, v, f)  BY PartsFacts
    <2> QED  BY <1>1, <2>1 DEF IsParts
  <1>3. fr \in Seq(Token) /\ Len(fr) \in Nat /\ Len(fr) > 0
    <2>1. FrameIs(l, v, i, fr) /\ l[i].size \in Nat  BY FrameFacts, ListFacts DEF Fed
    <2> QED  BY <2>1 DEF FrameIs
  <1> HIDE DEF f, fr
  <1>4. CASE k = Len(fr)
    <2>1. After(l, v, i, k) = Spot(i + 1, 0)  BY <1>4 DEF After, fr
    <2>2. Words(l, v, Spot(i + 1, 0)) = f[i]
      <3>1. Words(l, v, Spot(i + 1, 0)) = f[(i + 1) - 1]  BY SpotFields DEF Words, f
      <3>2. (i + 1) - 1 = i  BY <1>1
      <3> QED  BY <3>1, <3>2
    <2>3. SubSeq(fr, 1, k) = fr  BY <1>3, <1>4, SubSeqFull
    <2> QED  BY <1>2, <2>1, <2>2, <2>3 DEF f, fr
  <1>5. CASE k # Len(fr)
    <2>1. After(l, v, i, k) = Spot(i, k)  BY <1>5 DEF After, fr
    <2>2. CASE k = 0
      <3>1. Words(l, v, Spot(i, k)) = f[i - 1]  BY <2>2, SpotFields DEF Words, f
      <3>2. SubSeq(fr, 1, k) = <<>>  BY <2>2, SubSeqEmpty
      <3>3. f[i - 1] \o <<>> = f[i - 1]  BY <1>2, ConcatEmptySeq
      <3> QED  BY <1>2, <2>1, <3>1, <3>2, <3>3 DEF f, fr
    <2>3. CASE k # 0
      <3>1. Words(l, v, Spot(i, k)) = f[i - 1] \o SubSeq(fr, 1, k)
        BY <2>3, SpotFields DEF Words, f, fr
      <3> QED  BY <1>2, <2>1, <3>1 DEF f, fr
    <2> QED  BY <2>2, <2>3
  <1> QED  BY <1>4, <1>5 DEF fr

LEMMA SpotIsAfter ==
    ASSUME NEW l, NEW v, Fed(l, v), NEW x \in Spots(l, v), x.of \in 1 .. Len(l)
    PROVE  /\ x.at \in Nat /\ x.at < Len(Frame(l, v, x.of)) /\ Len(Frame(l, v, x.of)) \in Nat
           /\ x = After(l, v, x.of, x.at)
  <1>1. x.at \in Nat /\ x.at < Len(Frame(l, v, x.of))  BY SpotFacts
  <1>2. Len(Frame(l, v, x.of)) \in Nat
    <2>1. FrameIs(l, v, x.of, Frame(l, v, x.of)) /\ l[x.of].size \in Nat
      BY FrameFacts, ListFacts DEF Fed
    <2> QED  BY <2>1 DEF FrameIs
  <1>3. x = Spot(x.of, x.at)
    <2>1. x \in [of : Nat, at : Nat]  BY SpotFacts
    <2> QED  BY <2>1, SpotEta
  <1>4. After(l, v, x.of, x.at) = Spot(x.of, x.at)  BY <1>1, <1>2 DEF After
  <1> QED  BY <1>1, <1>2, <1>3, <1>4

(* Further into the frame.                                                 *)
LEMMA MoreWords ==
    ASSUME NEW l, NEW v, Fed(l, v), NEW x \in Spots(l, v), x.of \in 1 .. Len(l),
           NEW b \in Nat, x.at <= b, b <= Len(Frame(l, v, x.of))
    PROVE  /\ Words(l, v, After(l, v, x.of, b)) =
                Words(l, v, x) \o SubSeq(Frame(l, v, x.of), x.at + 1, b)
           /\ Begins(Words(l, v, x), Words(l, v, After(l, v, x.of, b)))
  <1> DEFINE i == x.of
             a == x.at
             fr == Frame(l, v, i)
             p == Parts(l, v)[i - 1]
  <1>1. i \in 1 .. Len(l) /\ a \in Nat /\ a < Len(fr) /\ Len(fr) \in Nat /\ x = After(l, v, i, a)
    BY SpotIsAfter
  <1>2. fr \in Seq(Token)  BY FrameFacts DEF FrameIs
  <1>3. a <= b /\ b <= Len(fr)  OBVIOUS
  <1> HIDE DEF i, a, fr
  <1>4. /\ Words(l, v, x) = p \o SubSeq(fr, 1, a) /\ p \in Seq(Token)
        /\ Words(l, v, After(l, v, i, b)) = p \o SubSeq(fr, 1, b)
    <2>0. a <= Len(fr)  BY <1>1
    <2>1. Words(l, v, After(l, v, i, a)) = p \o SubSeq(fr, 1, a) /\ p \in Seq(Token)
      BY <1>1, <2>0, CutWords, Zenon DEF fr
    <2>2. Words(l, v, After(l, v, i, b)) = p \o SubSeq(fr, 1, b)
      BY <1>1, <1>3, CutWords, Zenon DEF fr
    <2> QED  BY <1>1, <2>1, <2>2, Zenon
  <1> HIDE DEF p
  <1>5. SubSeq(fr, 1, a) \in Seq(Token) /\ SubSeq(fr, a + 1, b) \in Seq(Token)
    <2>1. 0 \in Nat /\ 0 <= a /\ a <= Len(fr) /\ 0 + 1 = 1  BY <1>1
    <2>2. SubSeq(fr, 0 + 1, a) \in Seq(Token)  BY <1>1, <1>2, <2>1, SlicesTyped
    <2>3. SubSeq(fr, a + 1, b) \in Seq(Token)  BY <1>1, <1>2, <1>3, SlicesTyped
    <2> QED  BY <2>1, <2>2, <2>3
  <1>6. SubSeq(fr, 1, a) \o SubSeq(fr, a + 1, b) = SubSeq(fr, 1, b)
    <2>1. 1 \in 1 .. Len(fr) + 1 /\ a \in 1 - 1 .. Len(fr) /\ b \in a .. Len(fr)  BY <1>1, <1>3
    <2> QED  BY <1>2, <2>1, ConcatAdjacentSubSeq
  <1>7. p \o SubSeq(fr, 1, b) = (p \o SubSeq(fr, 1, a)) \o SubSeq(fr, a + 1, b)
    <2>1. (p \o SubSeq(fr, 1, a)) \o SubSeq(fr, a + 1, b)
            = p \o (SubSeq(fr, 1, a) \o SubSeq(fr, a + 1, b))
      BY <1>4, <1>5, TokensRegroup, Zenon
    <2> QED  BY <1>6, <2>1, Zenon
  <1>8. p \o SubSeq(fr, 1, a) \in Seq(Token)  BY <1>4, <1>5, ConcatProperties
  <1>9. Words(l, v, After(l, v, i, b)) = Words(l, v, x) \o SubSeq(fr, a + 1, b)  BY <1>4, <1>7
  <1>10. Begins(Words(l, v, x), Words(l, v, After(l, v, i, b)))
    BY <1>4, <1>5, <1>8, <1>9 DEF Begins
  <1> QED  BY <1>9, <1>10 DEF i, a, fr

(* The wire only ever holds a beginning of the frames.                     *)
LEMMA WordsBegin ==
    ASSUME NEW l, NEW v, Fed(l, v)
    PROVE  /\ \A x \in Spots(l, v) : Begins(Words(l, v, x), Body(l, v))
           /\ Words(l, v, Spot(1, 0)) = <<>>
           /\ Words(l, v, Spot(Len(l) + 1, 0)) = Body(l, v)
  <1>1. IsParts(l, v, Parts(l, v)) /\ Len(l) \in Nat  BY PartsFacts, ListFacts DEF Fed
  <1>2. Words(l, v, Spot(1, 0)) = <<>>
    <2>1. Words(l, v, Spot(1, 0)) = Parts(l, v)[1 - 1]  BY SpotFields DEF Words
    <2> QED  BY <1>1, <2>1 DEF IsParts
  <1>3. Words(l, v, Spot(Len(l) + 1, 0)) = Body(l, v)
    <2>1. Words(l, v, Spot(Len(l) + 1, 0)) = Parts(l, v)[(Len(l) + 1) - 1]
      BY SpotFields DEF Words
    <2>2. (Len(l) + 1) - 1 = Len(l)  BY <1>1
    <2> QED  BY <1>1, <2>1, <2>2 DEF IsParts
  <1>4. Body(l, v) \in Seq(Token)
    <2>1. Len(l) \in 0 .. Len(l)  BY <1>1
    <2> QED  BY <1>1, <2>1 DEF IsParts
  <1>5. ASSUME NEW x \in Spots(l, v)  PROVE Begins(Words(l, v, x), Body(l, v))
    <2>1. CASE x = Spot(Len(l) + 1, 0)  BY <1>3, <1>4, <2>1, BeginsSelf
    <2>2. CASE x # Spot(Len(l) + 1, 0)
      <3>1. x.of \in 1 .. Len(l)  BY <2>2 DEF Spots
      <3> DEFINE n == Len(Frame(l, v, x.of))
      <3>2. n \in Nat /\ x.at <= n
        <4>1. x.at \in Nat /\ x.at < n /\ n \in Nat  BY <3>1, SpotIsAfter
        <4> HIDE DEF n
        <4> QED  BY <4>1
      <3>3. Begins(Words(l, v, x), Words(l, v, After(l, v, x.of, n)))
        <4>1. n <= n  BY <3>2
        <4> QED  BY <3>1, <3>2, <4>1, MoreWords
      <3>4. Words(l, v, After(l, v, x.of, n)) = Parts(l, v)[x.of]
        <4>1. Words(l, v, Spot(x.of + 1, 0)) = Parts(l, v)[(x.of + 1) - 1]
          BY SpotFields DEF Words
        <4>2. (x.of + 1) - 1 = x.of  BY <1>1, <3>1
        <4> QED  BY <4>1, <4>2 DEF After
      <3>5. x.of \in 0 .. Len(l)  BY <1>1, <3>1
      <3>6. Begins(Parts(l, v)[x.of], Body(l, v))  BY <3>5, PartsBegin
      <3> QED  BY <3>3, <3>4, <3>6, BeginsTrans
    <2> QED  BY <2>1, <2>2
  <1> QED  BY <1>2, <1>3, <1>5

-----------------------------------------------------------------------------
(* The messages.  On the reader's side of the hash stage ("raw") a file's  *)
(* end is an EndPayload, past it ("hashed") a Digest.                      *)

HeaderFits(l, v, m, x, y) ==
    m.kind = "Header" /\ x.at = 0 /\ y = After(l, v, x.of, 1) /\ m.tokens = <<Header(x.of)>>

TargetFits(l, v, m, x, y) ==
    /\ m.kind = "Target" /\ l[x.of].kind = "Symlink"
    /\ x.at = 1 /\ y = After(l, v, x.of, 1 + l[x.of].size)
    /\ m.tokens = Units(x.of, 0, l[x.of].size)

ChunkFits(l, v, m, x, y) ==
    /\ m.kind = "Chunk" /\ l[x.of].kind = "File" /\ x.at >= 1
    /\ \E b \in Nat : /\ x.at <= b /\ b <= 1 + l[x.of].size
                      /\ y = After(l, v, x.of, b)
                      /\ m.tokens = Units(x.of, x.at - 1, b - 1)

DigestFits(l, v, m, x, y) ==
    /\ m.kind = "Digest" /\ v /\ l[x.of].kind # "Dir"
    /\ x.at = 1 + l[x.of].size /\ y = After(l, v, x.of, 2 + l[x.of].size)
    /\ m.tokens = <<Digest(x.of, Units(x.of, 0, l[x.of].size))>>

EndFits(l, v, m, x, y) ==
    /\ m.kind = "EndPayload" /\ v /\ l[x.of].kind = "File"
    /\ x.at = 1 + l[x.of].size /\ y = After(l, v, x.of, 2 + l[x.of].size)

\* Message m is what lies between place x and place y; behind an error there is
\* nothing.
Fits(l, v, side, m, x, y) ==
    \/ m.kind = "Err" /\ y = Nowhere
    \/ /\ x.of \in 1 .. Len(l) /\ m.of = x.of
       /\ \/ HeaderFits(l, v, m, x, y) \/ TargetFits(l, v, m, x, y) \/ ChunkFits(l, v, m, x, y)
          \/ DigestFits(l, v, m, x, y) /\ (side = "raw" => l[x.of].kind = "Symlink")
          \/ EndFits(l, v, m, x, y) /\ side = "raw"

(* The pieces of a frame.                                                  *)
IsSlice(i, a, b, f) == b <= Len(f) /\ SubSeq(f, a + 1, b) = Units(i, a - 1, b - 1)

LEMMA Slices ==
    ASSUME NEW l, NEW v, Fed(l, v), NEW i \in 1 .. Len(l)
    PROVE  /\ SubSeq(Frame(l, v, i), 0 + 1, 1) = <<Header(i)>> /\ 1 <= Len(Frame(l, v, i))
           /\ \A a, b \in Nat :
                1 <= a /\ a <= b /\ b <= 1 + l[i].size => IsSlice(i, a, b, Frame(l, v, i))
           /\ Signed(l, v, i) =>
                /\ 2 + l[i].size = Len(Frame(l, v, i))
                /\ SubSeq(Frame(l, v, i), (1 + l[i].size) + 1, 2 + l[i].size) =
                     <<Digest(i, Units(i, 0, l[i].size))>>
  <1> DEFINE f == Frame(l, v, i)
             n == l[i].size
             w == Signed(l, v, i)
             d == Digest(i, Units(i, 0, n))
  <1>1. n \in Nat /\ i \in Nat  BY ListFacts DEF Fed
  <1>2. /\ f \in Seq(Token) /\ Len(f) = (IF w THEN 2 + n ELSE 1 + n) /\ f[1] = Header(i)
        /\ \A k \in 1 .. n : f[1 + k] = Unit(i, k)
        /\ w => f[2 + n] = d
    BY FrameFacts DEF FrameIs
  <1>3. Header(i) \in Token /\ d \in Token  BY <1>1, FirstUnits, TokensTyped
  <1> HIDE DEF f, n, w, d
  <1>4. Len(f) \in Nat /\ 1 <= Len(f) /\ 1 + n <= Len(f) /\ (w => 2 + n = Len(f))  BY <1>1, <1>2
  <1>5. SubSeq(f, 0 + 1, 1) = <<Header(i)>>
    <2> DEFINE s == SubSeq(f, 0 + 1, 1)
               t == <<Header(i)>>
    <2>1. s \in Seq(Token) /\ Len(s) = 1 - 0 /\ \A k \in 1 .. 1 - 0 : s[k] = f[0 + k]
      BY <1>2, <1>4, SlicesTyped
    <2>2. t \in Seq(Token) /\ Len(t) = 1 /\ t[1] = Header(i)  BY <1>3, OneToken
    <2> HIDE DEF s, t
    <2>3. \A k \in 1 .. Len(s) : s[k] = t[k]
      <3> TAKE k \in 1 .. Len(s)
      <3>1. k = 1 /\ k \in 1 .. 1 - 0 /\ 0 + k = 1  BY <2>1
      <3> QED  BY <1>2, <2>1, <2>2, <3>1
    <2>4. Len(s) = Len(t)  BY <2>1, <2>2
    <2>5. s = t  BY <2>1, <2>2, <2>3, <2>4, SeqEqual
    <2> QED  BY <2>5 DEF s, t
  <1>6. ASSUME NEW a \in Nat, NEW b \in Nat, 1 <= a, a <= b, b <= 1 + n
        PROVE  IsSlice(i, a, b, f)
    <2> DEFINE s == SubSeq(f, a + 1, b)
               t == Units(i, a - 1, b - 1)
    <2>0. b <= Len(f)  BY <1>1, <1>4, <1>6
    <2>1. s \in Seq(Token) /\ Len(s) = b - a /\ \A k \in 1 .. b - a : s[k] = f[a + k]
      BY <1>2, <1>6, <2>0, SlicesTyped
    <2>2. /\ t \in Seq(Token) /\ Len(t) = (b - 1) - (a - 1)
          /\ \A k \in 1 .. (b - 1) - (a - 1) : t[k] = Unit(i, (a - 1) + k)
      <3>1. a - 1 \in Nat /\ b - 1 \in Nat /\ a - 1 <= b - 1  BY <1>6
      <3>2. AreUnits(i, a - 1, b - 1, t)  BY <1>1, <3>1, UnitsAre
      <3> QED  BY <3>2 DEF AreUnits
    <2> HIDE DEF s, t
    <2>3. ASSUME NEW k \in 1 .. b - a  PROVE s[k] = t[k]
      <3>1. /\ (a - 1) + k \in 1 .. n /\ 1 + ((a - 1) + k) = a + k
            /\ k \in 1 .. (b - 1) - (a - 1)
        BY <1>1, <1>6
      <3>2. f[a + k] = Unit(i, (a - 1) + k)
        <4>1. f[1 + ((a - 1) + k)] = Unit(i, (a - 1) + k)  BY <1>2, <3>1
        <4> QED  BY <3>1, <4>1
      <3> QED  BY <2>1, <2>2, <3>1, <3>2
    <2>4. Len(s) = Len(t) /\ Len(s) = b - a  BY <1>6, <2>1, <2>2
    <2>5. s = t  BY <2>1, <2>2, <2>3, <2>4, SeqEqual
    <2> QED  BY <2>0, <2>5 DEF s, t, IsSlice
  <1>7. ASSUME w  PROVE SubSeq(f, (1 + n) + 1, 2 + n) = <<d>>
    <2> DEFINE s == SubSeq(f, (1 + n) + 1, 2 + n)
               t == <<d>>
    <2>0. 1 + n \in Nat /\ 2 + n \in Nat /\ 1 + n <= 2 + n /\ 2 + n <= Len(f)
      BY <1>1, <1>4, <1>7
    <2>1. /\ s \in Seq(Token) /\ Len(s) = (2 + n) - (1 + n)
          /\ \A k \in 1 .. (2 + n) - (1 + n) : s[k] = f[(1 + n) + k]
      BY <1>2, <2>0, SlicesTyped
    <2>2. t \in Seq(Token) /\ Len(t) = 1 /\ t[1] = d  BY <1>3, OneToken
    <2> HIDE DEF s, t
    <2>3. \A k \in 1 .. Len(s) : s[k] = t[k]
      <3> TAKE k \in 1 .. Len(s)
      <3>1. k = 1 /\ k \in 1 .. (2 + n) - (1 + n) /\ (1 + n) + k = 2 + n  BY <1>1, <2>1
      <3> QED  BY <1>2, <1>7, <2>1, <2>2, <3>1
    <2>4. Len(s) = Len(t)  BY <1>1, <2>1, <2>2
    <2>5. s = t  BY <2>1, <2>2, <2>3, <2>4, SeqEqual
    <2> QED  BY <2>5 DEF s, t
  <1> QED  BY <1>4, <1>5, <1>6, <1>7 DEF f, n, w, d

(* Writing a message takes the wire from its one place to the other.       *)
LEMMA FitsWrites ==
    ASSUME NEW l, NEW v, Fed(l, v), NEW m \in Message, NEW x \in Spots(l, v), NEW y,
           Fits(l, v, "hashed", m, x, y), m.kind # "Err"
    PROVE  /\ y \in Spots(l, v) /\ Words(l, v, y) = Words(l, v, x) \o m.tokens
           /\ Begins(Words(l, v, x), Words(l, v, y))
  <1> DEFINE i == x.of
             f == Frame(l, v, i)
             n == l[i].size
  <1>1. i \in 1 .. Len(l)  BY DEF Fits
  <1>2. i \in Nat /\ n \in Nat /\ l[i].kind \in {"Dir", "Symlink", "File"}
    BY <1>1, ListFacts DEF Fed
  <1>3. x.at \in Nat  BY <1>1, SpotIsAfter
  <1>4. SUFFICES \E b \in Nat : /\ x.at <= b /\ b <= Len(f) /\ y = After(l, v, i, b)
                                /\ m.tokens = SubSeq(f, x.at + 1, b)
    <2>1. PICK b \in Nat : /\ x.at <= b /\ b <= Len(f) /\ y = After(l, v, i, b)
                           /\ m.tokens = SubSeq(f, x.at + 1, b)
      BY <1>4
    <2>2. y \in Spots(l, v)  BY <1>1, <2>1, SpotFacts
    <2>3. /\ Words(l, v, After(l, v, i, b)) = Words(l, v, x) \o SubSeq(f, x.at + 1, b)
          /\ Begins(Words(l, v, x), Words(l, v, After(l, v, i, b)))
      BY <1>1, <2>1, MoreWords
    <2> QED  BY <2>1, <2>2, <2>3
  <1>5. CASE HeaderFits(l, v, m, x, y)
    <2>1. x.at = 0 /\ y = After(l, v, i, 1) /\ m.tokens = <<Header(i)>>
      BY <1>5 DEF HeaderFits
    <2>2. m.tokens = SubSeq(f, x.at + 1, 1) /\ 1 <= Len(f)  BY <1>1, <2>1, Slices
    <2> WITNESS 1 \in Nat
    <2> QED  BY <2>1, <2>2
  <1>6. CASE TargetFits(l, v, m, x, y)
    <2>1. x.at = 1 /\ y = After(l, v, i, 1 + n) /\ m.tokens = Units(i, 0, n)
      BY <1>6 DEF TargetFits
    <2>2. /\ 1 \in Nat /\ 1 + n \in Nat /\ 1 <= 1 /\ 1 <= 1 + n /\ 1 + n <= 1 + n
          /\ 1 - 1 = 0 /\ (1 + n) - 1 = n
      BY <1>2
    <2>3. IsSlice(i, 1, 1 + n, f)  BY <1>1, <2>2, Slices
    <2>4. 1 + n <= Len(f) /\ SubSeq(f, 1 + 1, 1 + n) = Units(i, 0, n)
      BY <2>2, <2>3 DEF IsSlice
    <2> 1 + n \in Nat  BY <2>2
    <2> WITNESS 1 + n \in Nat
    <2> QED  BY <2>1, <2>2, <2>4
  <1>7. CASE ChunkFits(l, v, m, x, y)
    <2>1. PICK b \in Nat : /\ x.at <= b /\ b <= 1 + n /\ y = After(l, v, i, b)
                           /\ m.tokens = Units(i, x.at - 1, b - 1)
      BY <1>7 DEF ChunkFits
    <2>2. x.at >= 1 BY <1>7 DEF ChunkFits
    <2>3. b <= Len(f) /\ SubSeq(f, x.at + 1, b) = Units(i, x.at - 1, b - 1)
      <3>1. 1 <= x.at  BY <1>3, <2>2
      <3>2. IsSlice(i, x.at, b, f)  BY <1>1, <1>3, <2>1, <3>1, Slices
      <3> QED  BY <3>2 DEF IsSlice
    <2> WITNESS b \in Nat
    <2> QED  BY <2>1, <2>3
  <1>8. CASE DigestFits(l, v, m, x, y)
    <2>1. /\ x.at = 1 + n /\ y = After(l, v, i, 2 + n)
          /\ m.tokens = <<Digest(i, Units(i, 0, n))>> /\ Signed(l, v, i)
      BY <1>8 DEF DigestFits, Signed
    <2>2. 2 + n = Len(f) /\ SubSeq(f, (1 + n) + 1, 2 + n) = <<Digest(i, Units(i, 0, n))>>
      BY <1>1, <2>1, Slices
    <2>3. 2 + n \in Nat /\ 1 + n <= 2 + n /\ 2 + n <= Len(f)
      <3>1. 2 + n = Len(f)  BY <2>2
      <3> HIDE DEF n, f
      <3> QED  BY <1>2, <3>1
    <2> 2 + n \in Nat  BY <2>3
    <2> WITNESS 2 + n \in Nat
    <2> QED  BY <2>1, <2>2, <2>3
  <1> QED  BY <1>5, <1>6, <1>7, <1>8 DEF Fits

-----------------------------------------------------------------------------
(* A channel's messages lead from place x to place y.                      *)

Anywhere == [of : Nat, at : Nat]

\* p[k] is the place behind message k of q.
Along(l, v, side, q, p) ==
    /\ p \in [0 .. Len(q) -> Anywhere]
    /\ \A k \in 1 .. Len(q) : Fits(l, v, side, q[k], p[k - 1], p[k])

Leads(l, v, side, q, x, y) == \E p : Along(l, v, side, q, p) /\ p[0] = x /\ p[Len(q)] = y

LEMMA LeadsEmpty ==
    ASSUME NEW l, NEW v, NEW side
    PROVE  /\ \A x \in Anywhere : Leads(l, v, side, <<>>, x, x)
           /\ \A x, y : Leads(l, v, side, <<>>, x, y) => x = y
  <1>1. Len(<<>>) = 0 /\ 1 .. 0 = {} /\ 0 .. 0 = {0}  OBVIOUS
  <1>2. ASSUME NEW x \in Anywhere  PROVE Leads(l, v, side, <<>>, x, x)
    <2> DEFINE p == [k \in 0 .. 0 |-> x]
    <2>1. p \in [0 .. 0 -> Anywhere] /\ p[0] = x  BY <1>1
    <2> HIDE DEF p
    <2>2. Along(l, v, side, <<>>, p)  BY <1>1, <2>1 DEF Along
    <2> QED  BY <1>1, <2>1, <2>2 DEF Leads
  <1>3. \A x, y : Leads(l, v, side, <<>>, x, y) => x = y  BY <1>1 DEF Leads
  <1> QED  BY <1>2, <1>3

LEMMA LeadsAppend ==
    ASSUME NEW l, NEW v, NEW side, NEW S, NEW q \in Seq(S), NEW m \in S,
           NEW x, NEW y, NEW z \in Anywhere,
           Leads(l, v, side, q, x, y), Fits(l, v, side, m, y, z)
    PROVE  Leads(l, v, side, Append(q, m), x, z)
  <1> DEFINE n == Len(q)
             r == Append(q, m)
  <1>1. PICK p : Along(l, v, side, q, p) /\ p[0] = x /\ p[n] = y  BY DEF Leads
  <1> DEFINE t == [k \in 0 .. n + 1 |-> IF k <= n THEN p[k] ELSE z]
  <1>2. n \in Nat /\ Len(r) = n + 1 /\ r[n + 1] = m /\ \A k \in 1 .. n : r[k] = q[k]
    OBVIOUS
  <1>3. /\ p \in [0 .. n -> Anywhere]
        /\ \A k \in 1 .. n : Fits(l, v, side, q[k], p[k - 1], p[k])
    BY <1>1 DEF Along
  <1> HIDE DEF r, n
  <1>4. t \in [0 .. n + 1 -> Anywhere]
    <2> SUFFICES ASSUME NEW k \in 0 .. n + 1, k <= n  PROVE p[k] \in Anywhere  OBVIOUS
    <2>1. k \in 0 .. n  BY <1>2
    <2> QED  BY <1>3, <2>1
  <1>5. (\A k \in 0 .. n : t[k] = p[k]) /\ t[n + 1] = z  BY <1>2
  <1> HIDE DEF t
  <1>6. ASSUME NEW k \in 1 .. n + 1  PROVE Fits(l, v, side, r[k], t[k - 1], t[k])
    <2>1. CASE k = n + 1
      <3>1. n \in 0 .. n /\ k - 1 = n  BY <1>2, <2>1
      <3>2. r[k] = m /\ t[k - 1] = y /\ t[k] = z  BY <1>1, <1>2, <1>5, <2>1, <3>1
      <3> QED  BY <3>2
    <2>2. CASE k # n + 1
      <3>1. k \in 1 .. n /\ k \in 0 .. n /\ k - 1 \in 0 .. n  BY <1>2, <2>2
      <3>2. t[k] = p[k] /\ t[k - 1] = p[k - 1] /\ r[k] = q[k]  BY <1>2, <1>5, <3>1
      <3> QED  BY <1>3, <3>1, <3>2
    <2> QED  BY <2>1, <2>2
  <1>7. Along(l, v, side, r, t)  BY <1>2, <1>4, <1>6 DEF Along
  <1>8. t[0] = x /\ t[Len(r)] = z
    <2>1. 0 \in 0 .. n  BY <1>2
    <2> QED  BY <1>1, <1>2, <1>5, <2>1
  <1> QED  BY <1>7, <1>8 DEF Leads, r

LEMMA LeadsTake ==
    ASSUME NEW l, NEW v, NEW side, NEW S, NEW q \in Seq(S), q # <<>>,
           NEW x, NEW z, Leads(l, v, side, q, x, z)
    PROVE  \E y \in Anywhere : Fits(l, v, side, Head(q), x, y) /\ Leads(l, v, side, Tail(q), y, z)
  <1> DEFINE r == Tail(q)
             n == Len(r)
  <1>1. Len(q) = n + 1 /\ n \in Nat /\ Head(q) = q[1] /\ \A k \in 1 .. n : r[k] = q[k + 1]
    <2>1. Len(q) \in Nat \ {0}  BY EmptySeq
    <2> QED  BY <2>1
  <1>2. PICK p : Along(l, v, side, q, p) /\ p[0] = x /\ p[Len(q)] = z  BY DEF Leads
  <1> HIDE DEF r, n
  <1>3. /\ p \in [0 .. n + 1 -> Anywhere]
        /\ \A k \in 1 .. n + 1 : Fits(l, v, side, q[k], p[k - 1], p[k])
    BY <1>1, <1>2 DEF Along
  <1> DEFINE t == [k \in 0 .. n |-> p[k + 1]]
  <1>4. \A k \in 0 .. n : k + 1 \in 0 .. n + 1 /\ t[k] = p[k + 1]  BY <1>1
  <1>5. t \in [0 .. n -> Anywhere]  BY <1>3, <1>4
  <1> HIDE DEF t
  <1>6. ASSUME NEW k \in 1 .. n  PROVE Fits(l, v, side, r[k], t[k - 1], t[k])
    <2>1. /\ k + 1 \in 1 .. n + 1 /\ k \in 0 .. n /\ k - 1 \in 0 .. n
          /\ (k + 1) - 1 = k /\ (k - 1) + 1 = k
      BY <1>1
    <2>2. t[k] = p[k + 1] /\ t[k - 1] = p[(k - 1) + 1] /\ r[k] = q[k + 1]  BY <1>1, <1>4, <2>1
    <2>3. Fits(l, v, side, q[k + 1], p[(k + 1) - 1], p[k + 1])  BY <1>3, <2>1
    <2> QED  BY <2>1, <2>2, <2>3
  <1>7. Along(l, v, side, r, t)  BY <1>5, <1>6 DEF Along, n
  <1>8. t[0] = p[1] /\ t[n] = z /\ p[1] \in Anywhere
    <2>1. 0 \in 0 .. n /\ n \in 0 .. n /\ 0 + 1 = 1 /\ 1 \in 0 .. n + 1  BY <1>1
    <2> QED  BY <1>1, <1>2, <1>3, <1>4, <2>1
  <1>9. Leads(l, v, side, r, p[1], z)  BY <1>7, <1>8 DEF Leads, n
  <1>10. Fits(l, v, side, Head(q), x, p[1])
    <2>1. 1 \in 1 .. n + 1 /\ 1 - 1 = 0  BY <1>1
    <2> QED  BY <1>1, <1>2, <1>3, <2>1
  <1> QED  BY <1>8, <1>9, <1>10 DEF r

(* A stage's hand holds one message or none.                               *)
LEMMA LeadsOne ==
    ASSUME NEW l, NEW v, NEW side, NEW q \in Seq(Message), Len(q) <= 1, q # <<>>, NEW x, NEW y
    PROVE  /\ Leads(l, v, side, q, x, y) => Fits(l, v, side, q[1], x, y)
           /\ q[1] \in Message /\ Tail(q) = <<>>
  <1>1. Len(q) \in Nat \ {0}  BY EmptySeq
  <1>2. Len(q) = 1  BY <1>1
  <1>3. q[1] \in Message /\ Head(q) = q[1] /\ Tail(q) \in Seq(Message) /\ Len(Tail(q)) = 0
    BY <1>2
  <1>4. Tail(q) = <<>>  BY <1>3, EmptySeq
  <1>5. ASSUME Leads(l, v, side, q, x, y)  PROVE Fits(l, v, side, q[1], x, y)
    <2>1. PICK c \in Anywhere : Fits(l, v, side, Head(q), x, c) /\ Leads(l, v, side, Tail(q), c, y)
      BY <1>5, LeadsTake
    <2>2. c = y
      <3>1. Leads(l, v, side, <<>>, c, y)  BY <1>4, <2>1, Zenon
      <3> QED  BY <3>1, LeadsEmpty, Zenon
    <2> QED  BY <1>3, <2>1, <2>2
  <1> QED  BY <1>3, <1>4, <1>5

LEMMA LeadsSingle ==
    ASSUME NEW l, NEW v, NEW side, NEW m \in Message, NEW x \in Anywhere, NEW y \in Anywhere,
           Fits(l, v, side, m, x, y)
    PROVE  Leads(l, v, side, <<m>>, x, y)
  <1>1. <<>> \in Seq(Message) /\ Append(<<>>, m) = <<m>>  OBVIOUS
  <1>2. Leads(l, v, side, <<>>, x, x)  BY LeadsEmpty
  <1>3. Leads(l, v, side, Append(<<>>, m), x, y)  BY <1>1, <1>2, LeadsAppend
  <1> QED  BY <1>1, <1>3

-----------------------------------------------------------------------------
(* The lane: what was written, the messages on their way and the reader    *)
(* fit together, and the hash stage has seen what is between a file's      *)
(* header and the message it takes next.                                   *)

SumAt(l, x) ==
    IF x.of \in 1 .. Len(l) /\ x.at > 0 /\ l[x.of].kind = "File" THEN Units(x.of, 0, x.at - 1)
    ELSE <<>>

\* Where the reader is, with s units of item i in messages.
ReaderAt(l, v, r, i, s, z) ==
    /\ r = "header" => z = Spot(i, 0)
    /\ r \in {"link", "target", "open"} => z = After(l, v, i, 1)
    /\ r = "digest" => z = After(l, v, i, 1 + l[i].size)
    /\ r \in {"buf", "fill", "chunk", "end", "next"} => z = After(l, v, i, 1 + s)
    /\ r = "gone" => z \in {Nowhere, Spot(Len(l) + 1, 0)}

\* What it is about to do suits the item.
ReaderSuits(l, v, r, i, s) ==
    /\ r \in {"link", "target", "digest"} => l[i].kind = "Symlink"
    /\ r \in {"open", "buf", "fill", "chunk", "end", "next"} => l[i].kind = "File"
    /\ r \in {"header", "open"} => s = 0
    /\ r \in {"buf", "fill", "chunk"} => s < l[i].size
    /\ r \in {"end", "next"} => s = l[i].size
    /\ r \in {"digest", "end"} => v
    /\ r = "next" => ~v

Line(x, a, b, y, z) ==
    /\ x \in Spots(items, verify) /\ a \in Anywhere /\ b \in Anywhere /\ y \in Anywhere
    /\ z \in Anywhere
    /\ wire = Words(items, verify, x)
    /\ Leads(items, verify, "hashed", out, x, a)
    /\ Leads(items, verify, "hashed", q2, a, b)
    /\ Leads(items, verify, "hashed", hand, b, y)
    /\ Leads(items, verify, "raw", q1, y, z)
    /\ verify /\ y # Nowhere => sum = SumAt(items, y)
    /\ ReaderAt(items, verify, reader, it, sent, z)

OnTheWay  == \E x, a, b, y, z : Line(x, a, b, y, z)
NoErrOut  == out # <<>> => out[1].kind # "Err"
FlowInv   ==
    sock # "done" => OnTheWay /\ NoErrOut /\ ReaderSuits(items, verify, reader, it, sent)

LEMMA Geometry ==
    ASSUME NEW l, NEW v, Fed(l, v), NEW i \in 1 .. Len(l)
    PROVE  /\ l[i].kind = "Dir" => After(l, v, i, 1) = Spot(i + 1, 0)
           /\ l[i].kind = "Symlink" => After(l, v, i, 1) = Spot(i, 1)
           /\ v /\ l[i].kind # "Dir" =>
                /\ After(l, v, i, 1 + l[i].size) = Spot(i, 1 + l[i].size)
                /\ After(l, v, i, 2 + l[i].size) = Spot(i + 1, 0)
           /\ ~v => After(l, v, i, 1 + l[i].size) = Spot(i + 1, 0)
           /\ \A s \in Nat : s < l[i].size => After(l, v, i, 1 + s) = Spot(i, 1 + s)
           /\ \A k \in Nat : After(l, v, i, k) \in Anywhere
           /\ Spot(i, 0) \in Anywhere /\ Spot(i + 1, 0) \in Anywhere
  <1> DEFINE n == l[i].size
             f == Frame(l, v, i)
  <1>1. /\ n \in Nat /\ i \in Nat /\ l[i].kind \in {"Dir", "Symlink", "File"}
        /\ l[i].kind = "Dir" => n = 0
        /\ l[i].kind = "Symlink" => n > 0
    BY ListFacts DEF Fed
  <1>2. Len(f) = IF Signed(l, v, i) THEN 2 + n ELSE 1 + n
    <2>1. FrameIs(l, v, i, f)  BY FrameFacts
    <2> QED  BY <2>1 DEF FrameIs
  <1> HIDE DEF n, f
  <1>3. /\ l[i].kind = "Dir" => Len(f) = 1
        /\ l[i].kind = "Symlink" => Len(f) # 1
        /\ v /\ l[i].kind # "Dir" => Len(f) = 2 + n
        /\ ~v => Len(f) = 1 + n
        /\ \A s \in Nat : s < n => Len(f) # 1 + s
    BY <1>1, <1>2 DEF Signed
  <1>4. \A j, k \in Nat : Spot(j, k) \in Anywhere  BY DEF Spot, Anywhere
  <1>5. i + 1 \in Nat /\ 0 \in Nat  BY <1>1
  <1>6. \A k \in Nat : After(l, v, i, k) \in Anywhere  BY <1>1, <1>4, <1>5, Zenon DEF After
  <1>7. \A k : /\ k = Len(f) => After(l, v, i, k) = Spot(i + 1, 0)
               /\ k # Len(f) => After(l, v, i, k) = Spot(i, k)
    BY DEF After, f
  <1>8. v /\ l[i].kind # "Dir" => 1 + n # Len(f)  BY <1>1, <1>3
  <1> QED  BY <1>1, <1>3, <1>4, <1>5, <1>6, <1>7, <1>8 DEF n

LEMMA FlowInit == Init => FlowInv
  <1> SUFFICES ASSUME Init  PROVE FlowInv  OBVIOUS
  <1>1. /\ Fed(items, verify) /\ wire = <<>> /\ out = <<>> /\ q2 = <<>> /\ hand = <<>> /\ q1 = <<>>
        /\ sum = <<>> /\ reader = "header" /\ it = 1 /\ sent = 0
    BY DEF Init, Fed
  <1> DEFINE x == Spot(1, 0)
  <1>2. Len(items) \in Nat  BY <1>1, ListFacts DEF Fed
  <1>3. x \in Spots(items, verify)
    <2>1. 1 \in 1 .. Len(items) + 1  BY <1>2
    <2> QED  BY <1>1, <2>1, SpotFacts
  <1>4. x \in Anywhere  BY <1>1, <1>3, SpotFacts DEF Anywhere
  <1>5. wire = Words(items, verify, x)  BY <1>1, WordsBegin
  <1>6. SumAt(items, x) = <<>>  BY SpotFields DEF SumAt
  <1> HIDE DEF x
  <1>7. ReaderAt(items, verify, reader, it, sent, x)  BY <1>1 DEF ReaderAt, x
  <1>8. \A side : Leads(items, verify, side, <<>>, x, x)  BY <1>4, LeadsEmpty
  <1>9. Line(x, x, x, x, x)  BY <1>1, <1>3, <1>4, <1>5, <1>6, <1>7, <1>8 DEF Line
  <1>10. ReaderSuits(items, verify, reader, it, sent)  BY <1>1 DEF ReaderSuits
  <1> QED  BY <1>1, <1>9, <1>10 DEF FlowInv, OnTheWay, NoErrOut

\* What the hash stage makes of a message: it digests what it has seen of the
\* file and starts over.
HashMakes(l, v, m, y, z, s) ==
    /\ m.kind = "Chunk" => Fits(l, v, "hashed", m, y, z) /\ s \o m.tokens = SumAt(l, z)
    /\ m.kind = "EndPayload" =>
         /\ Fits(l, v, "hashed", Msg("Digest", m.of, <<Digest(m.of, s)>>), y, z)
         /\ SumAt(l, z) = <<>>
    /\ m.kind \notin {"Chunk", "EndPayload"} =>
         Fits(l, v, "hashed", m, y, z) /\ (z # Nowhere => s = SumAt(l, z))

LEMMA HashFits ==
    ASSUME NEW l, NEW v, Fed(l, v), v, NEW m \in Message, NEW y \in Anywhere, NEW z \in Anywhere,
           NEW s, Fits(l, v, "raw", m, y, z), y # Nowhere => s = SumAt(l, y)
    PROVE  HashMakes(l, v, m, y, z, s)
  <1> DEFINE i == y.of
             n == l[i].size
  <1>1. CASE m.kind = "Err"
    <2>1. z = Nowhere
      BY <1>1 DEF Fits, HeaderFits, TargetFits, ChunkFits, DigestFits, EndFits
    <2>2. Fits(l, v, "hashed", m, y, z)  BY <1>1, <2>1 DEF Fits
    <2> QED  BY <1>1, <2>1, <2>2 DEF HashMakes
  <1>2. CASE m.kind # "Err"
    <2>1. i \in 1 .. Len(l) /\ m.of = i  BY <1>2 DEF Fits
    <2>2. /\ i \in Nat /\ i # 0 /\ n \in Nat /\ l[i].kind \in {"Dir", "Symlink", "File"}
          /\ Len(l) \in Nat
      BY <2>1, ListFacts DEF Fed
    <2>3. y # Nowhere
      <3>1. Nowhere.of = 0  BY SpotFields DEF Nowhere
      <3> QED  BY <2>2, <3>1
    <2>4. s = SumAt(l, y) /\ y.at \in Nat  BY <2>3 DEF Anywhere
    <2>5. /\ l[i].kind # "File" => \A k : SumAt(l, Spot(i, k)) = <<>>
          /\ \A j : SumAt(l, Spot(j, 0)) = <<>>
          /\ l[i].kind = "File" => \A k \in Nat : k > 0 => SumAt(l, Spot(i, k)) = Units(i, 0, k - 1)
      BY <2>1, SpotFields DEF SumAt
    <2>6. y = Spot(i, y.at)  BY SpotEta DEF Anywhere
    <2>7. CASE HeaderFits(l, v, m, y, z)
      <3>1. y.at = 0 /\ z = After(l, v, i, 1) /\ m.kind = "Header"  BY <2>7 DEF HeaderFits
      <3>2. s = <<>>  BY <2>4, <2>5, <2>6, <3>1
      <3>3. SumAt(l, z) = <<>>
        <4>1. CASE l[i].kind = "File"
          <5>1. CASE n = 0
            <6>1. After(l, v, i, 1 + n) = Spot(i, 1 + n)  BY <2>1, <4>1, Geometry
            <6>0. 1 + n = 1  BY <5>1
            <6>2. z = Spot(i, 1)  BY <3>1, <6>0, <6>1, Zenon
            <6>3. SumAt(l, z) = Units(i, 0, 1 - 1)  BY <2>5, <4>1, <6>2
            <6> QED  BY <2>2, <6>3, NoUnits
          <5>2. CASE n # 0
            <6>1. 0 < n /\ 1 + 0 = 1 /\ 0 \in Nat  BY <2>2, <5>2
            <6>2. After(l, v, i, 1 + 0) = Spot(i, 1 + 0)  BY <2>1, <6>1, Geometry
            <6>3. z = Spot(i, 1)  BY <3>1, <6>1, <6>2
            <6>4. SumAt(l, z) = Units(i, 0, 1 - 1)  BY <2>5, <4>1, <6>3
            <6> QED  BY <2>2, <6>4, NoUnits
          <5> QED  BY <5>1, <5>2
        <4>2. CASE l[i].kind # "File"
          <5>1. CASE l[i].kind = "Dir"
            <6>1. After(l, v, i, 1) = Spot(i + 1, 0)  BY <2>1, <5>1, Geometry
            <6> QED  BY <2>5, <3>1, <6>1
          <5>2. CASE l[i].kind = "Symlink"
            <6>1. After(l, v, i, 1) = Spot(i, 1)  BY <2>1, <5>2, Geometry
            <6> QED  BY <2>5, <3>1, <4>2, <6>1
          <5> QED  BY <2>2, <4>2, <5>1, <5>2
        <4> QED  BY <4>1, <4>2
      <3>4. Fits(l, v, "hashed", m, y, z)  BY <2>1, <2>7 DEF Fits
      <3> QED  BY <3>1, <3>2, <3>3, <3>4 DEF HashMakes
    <2>8. CASE TargetFits(l, v, m, y, z)
      <3>1. /\ y.at = 1 /\ z = After(l, v, i, 1 + n) /\ m.kind = "Target" /\ l[i].kind = "Symlink"
        BY <2>8 DEF TargetFits
      <3>2. s = <<>>  BY <2>4, <2>5, <2>6, <3>1
      <3>3. z = Spot(i, 1 + n)  BY <2>1, <3>1, Geometry
      <3>4. SumAt(l, z) = <<>>  BY <2>5, <3>1, <3>3
      <3>5. Fits(l, v, "hashed", m, y, z)  BY <2>1, <2>8 DEF Fits
      <3> QED  BY <3>1, <3>2, <3>4, <3>5 DEF HashMakes
    <2>9. CASE ChunkFits(l, v, m, y, z)
      <3>1. m.kind = "Chunk" /\ l[i].kind = "File" /\ y.at >= 1  BY <2>9 DEF ChunkFits
      <3>2. PICK b \in Nat : /\ y.at <= b /\ b <= 1 + n /\ z = After(l, v, i, b)
                             /\ m.tokens = Units(i, y.at - 1, b - 1)
        BY <2>9 DEF ChunkFits
      <3>3. s = Units(i, 0, y.at - 1)  BY <2>4, <2>5, <2>6, <3>1
      <3>4. y.at - 1 \in Nat /\ b - 1 \in Nat /\ y.at - 1 <= b - 1 /\ b > 0
        BY <2>4, <3>1, <3>2
      <3>5. s \o m.tokens = Units(i, 0, b - 1)
        <4>1. Units(i, 0, y.at - 1) \o Units(i, y.at - 1, b - 1) = Units(i, 0, b - 1)
          BY <2>2, <3>4, UnitsJoin
        <4> QED  BY <3>2, <3>3, <4>1
      <3>6. z = Spot(i, b)
        <4>1. CASE b = 1 + n
          <5>1. After(l, v, i, 1 + n) = Spot(i, 1 + n)  BY <2>1, <3>1, Geometry
          <5> QED  BY <3>2, <4>1, <5>1
        <4>2. CASE b # 1 + n
          <5>1. b - 1 \in Nat /\ b - 1 < n /\ 1 + (b - 1) = b  BY <2>2, <3>2, <3>4, <4>2
          <5>2. After(l, v, i, 1 + (b - 1)) = Spot(i, 1 + (b - 1))  BY <2>1, <5>1, Geometry
          <5> QED  BY <3>2, <5>1, <5>2
        <4> QED  BY <4>1, <4>2
      <3>7. SumAt(l, z) = Units(i, 0, b - 1)  BY <2>5, <3>1, <3>4, <3>6
      <3>8. Fits(l, v, "hashed", m, y, z)  BY <2>1, <2>9 DEF Fits
      <3> QED  BY <3>1, <3>5, <3>7, <3>8 DEF HashMakes
    <2>10. CASE DigestFits(l, v, m, y, z) /\ l[i].kind = "Symlink"
      <3>1. m.kind = "Digest" /\ z = After(l, v, i, 2 + n)  BY <2>10 DEF DigestFits
      <3>2. s = <<>>  BY <2>4, <2>5, <2>6, <2>10
      <3>3. z = Spot(i + 1, 0)  BY <2>1, <2>10, <3>1, Geometry
      <3>4. SumAt(l, z) = <<>>  BY <2>5, <3>3
      <3>5. Fits(l, v, "hashed", m, y, z)  BY <2>1, <2>10 DEF Fits
      <3> QED  BY <3>1, <3>2, <3>4, <3>5 DEF HashMakes
    <2>11. CASE EndFits(l, v, m, y, z)
      <3>1. /\ m.kind = "EndPayload" /\ l[i].kind = "File" /\ y.at = 1 + n
            /\ z = After(l, v, i, 2 + n)
        BY <2>11 DEF EndFits
      <3>2. s = Units(i, 0, n)
        <4>1. 1 + n \in Nat /\ 1 + n > 0 /\ (1 + n) - 1 = n  BY <2>2
        <4>2. SumAt(l, Spot(i, 1 + n)) = Units(i, 0, (1 + n) - 1)  BY <2>5, <3>1, <4>1
        <4> QED  BY <2>4, <2>6, <3>1, <4>1, <4>2
      <3>3. z = Spot(i + 1, 0)  BY <2>1, <3>1, Geometry
      <3>4. SumAt(l, z) = <<>>  BY <2>5, <3>3
      <3> DEFINE d == Msg("Digest", m.of, <<Digest(m.of, s)>>)
      <3>5. d.kind = "Digest" /\ d.of = i /\ d.tokens = <<Digest(i, Units(i, 0, n))>>
        BY <2>1, <3>2 DEF Msg
      <3> HIDE DEF d
      <3>6. DigestFits(l, v, d, y, z)  BY <3>1, <3>5 DEF DigestFits
      <3>7. Fits(l, v, "hashed", d, y, z)  BY <2>1, <3>5, <3>6 DEF Fits
      <3> QED  BY <3>1, <3>4, <3>7 DEF d, HashMakes
    <2> QED  BY <1>2, <2>7, <2>8, <2>9, <2>10, <2>11 DEF Fits
  <1> QED  BY <1>1, <1>2

-----------------------------------------------------------------------------
(* The reader's steps.                                                     *)

LaneHyp == Typed /\ StageInv /\ FlowInv /\ sock # "done"

LEMMA LaneHypFacts ==
    ASSUME LaneHyp
    PROVE  /\ Fed(items, verify)
           /\ q1 \in Seq(Message) /\ q2 \in Seq(Message)
           /\ hand \in Seq(Message) /\ Len(hand) <= 1
           /\ out \in Seq(Message) /\ Len(out) <= 1
           /\ OnTheWay /\ NoErrOut /\ ReaderSuits(items, verify, reader, it, sent)
           /\ ~verify => hand = <<>> /\ q1 = <<>>
           /\ it \in 1 .. Len(items) + 1 /\ it \in Nat /\ sent \in Nat /\ Len(items) \in Nat
           /\ reader \notin {"header", "gone"} => it \in 1 .. Len(items)
           /\ reader # "gone" => ~NextStageGone
  <1>1. Fed(items, verify)  BY DEF LaneHyp, Typed, OfferType, Fed
  <1>2. Len(items) \in Nat  BY <1>1, ListFacts DEF Fed
  <1>3. reader # "gone" => ~NextStageGone  BY GoneIsDone DEF LaneHyp
  <1>4. ~verify => hand = <<>> /\ q1 = <<>>  BY DEF LaneHyp, StageInv
  <1>5. OnTheWay /\ NoErrOut /\ ReaderSuits(items, verify, reader, it, sent)
    BY DEF LaneHyp, FlowInv
  <1>6. /\ q1 \in Seq(Message) /\ q2 \in Seq(Message)
        /\ hand \in Seq(Message) /\ Len(hand) <= 1
        /\ out \in Seq(Message) /\ Len(out) <= 1
    BY DEF LaneHyp, Typed, QueueType, HashType, SockType
  <1>7. /\ it \in 1 .. Len(items) + 1 /\ sent \in Nat
        /\ reader \notin {"header", "gone"} => it <= Len(items)
    BY DEF LaneHyp, Typed, ReaderType
  <1>8. it \in Nat /\ (it <= Len(items) => it \in 1 .. Len(items))  BY <1>2, <1>7
  <1> QED  BY <1>1, <1>2, <1>3, <1>4, <1>5, <1>6, <1>7, <1>8

(* A step of the reader that sends nothing.                                *)
LEMMA ReaderTurns ==
    ASSUME LaneHyp, UNCHANGED <<items, verify, hashVars, sockVars, q1, q2>>,
           \A z \in Anywhere : ReaderAt(items, verify, reader, it, sent, z) =>
                                 ReaderAt(items, verify, reader', it', sent', z),
           ReaderSuits(items, verify, reader', it', sent')
    PROVE  FlowInv'
  <1>1. PICK x, a, b, y, z : Line(x, a, b, y, z)  BY LaneHypFacts DEF OnTheWay
  <1>2. /\ items' = items /\ verify' = verify /\ hand' = hand /\ sum' = sum /\ out' = out
        /\ wire' = wire /\ q1' = q1 /\ q2' = q2
    BY DEF hashVars, sockVars
  <1>3. ReaderAt(items, verify, reader', it', sent', z)  BY <1>1 DEF Line
  <1>4. Line(x, a, b, y, z)'  BY <1>1, <1>2, <1>3 DEF Line
  <1>5. NoErrOut'  BY <1>2, LaneHypFacts DEF NoErrOut
  <1>6. ReaderSuits(items, verify, reader, it, sent)'  BY <1>2
  <1> QED  BY <1>4, <1>5, <1>6 DEF FlowInv, OnTheWay

\* The message as both sides of the hash stage may see it.
FitsBoth(l, v, m, z, c) ==
    /\ v => Fits(l, v, "raw", m, z, c)
    /\ ~v => Fits(l, v, "hashed", m, z, c)

(* A send by the reader.                                                   *)
LEMMA ReaderPushes ==
    ASSUME LaneHyp, UNCHANGED <<items, verify, hashVars, sockVars>>,
           NEW m \in Message, Push(m),
           NEW c \in Anywhere,
           \A z \in Anywhere : ReaderAt(items, verify, reader, it, sent, z) =>
                                 FitsBoth(items, verify, m, z, c),
           ReaderAt(items, verify, reader', it', sent', c),
           ReaderSuits(items, verify, reader', it', sent')
    PROVE  FlowInv'
  <1>1. PICK x, a, b, y, z : Line(x, a, b, y, z)  BY LaneHypFacts DEF OnTheWay
  <1>2. /\ items' = items /\ verify' = verify /\ hand' = hand /\ sum' = sum /\ out' = out
        /\ wire' = wire
    BY DEF hashVars, sockVars
  <1>3. /\ x \in Spots(items, verify) /\ a \in Anywhere /\ b \in Anywhere /\ y \in Anywhere
        /\ z \in Anywhere /\ wire = Words(items, verify, x)
        /\ Leads(items, verify, "hashed", out, x, a)
        /\ Leads(items, verify, "hashed", q2, a, b)
        /\ Leads(items, verify, "hashed", hand, b, y)
        /\ Leads(items, verify, "raw", q1, y, z)
        /\ verify /\ y # Nowhere => sum = SumAt(items, y)
        /\ ReaderAt(items, verify, reader, it, sent, z)
    BY <1>1 DEF Line
  <1>4. FitsBoth(items, verify, m, z, c)  BY <1>3
  <1>5. NoErrOut'  BY <1>2, LaneHypFacts DEF NoErrOut
  <1>6. ReaderSuits(items, verify, reader, it, sent)'  BY <1>2
  <1>7. ReaderAt(items, verify, reader, it, sent, c)'  BY <1>2
  <1>8. CASE verify
    <2>1. q1' = Append(q1, m) /\ q2' = q2  BY <1>8 DEF Push
    <2>2. Fits(items, verify, "raw", m, z, c)  BY <1>4, <1>8 DEF FitsBoth
    <2>3. q1 \in Seq(Message)  BY LaneHypFacts
    <2>4. Leads(items, verify, "raw", q1', y, c)  BY <1>3, <2>1, <2>2, <2>3, LeadsAppend
    <2>5. Line(x, a, b, y, c)'  BY <1>2, <1>3, <1>7, <2>1, <2>4 DEF Line
    <2> QED  BY <1>5, <1>6, <2>5 DEF FlowInv, OnTheWay
  <1>9. CASE ~verify
    <2>1. q2' = Append(q2, m) /\ q1' = q1  BY <1>9 DEF Push
    <2>2. hand = <<>> /\ q1 = <<>> /\ q2 \in Seq(Message)  BY <1>9, LaneHypFacts
    <2>3. b = y /\ y = z
      <3>1. /\ Leads(items, verify, "hashed", <<>>, b, y)
            /\ Leads(items, verify, "raw", <<>>, y, z)
        BY <1>3, <2>2, Zenon
      <3> QED  BY <3>1, LeadsEmpty, Zenon
    <2>4. Fits(items, verify, "hashed", m, b, c)  BY <1>4, <1>9, <2>3 DEF FitsBoth
    <2>5. Leads(items, verify, "hashed", q2', a, c)  BY <1>3, <2>1, <2>2, <2>4, LeadsAppend
    <2>6. \A side : Leads(items, verify, side, <<>>, c, c)  BY LeadsEmpty
    <2>7. Line(x, a, c, c, c)'
      <3>1. hand' = <<>> /\ q1' = <<>>  BY <1>2, <2>1, <2>2
      <3> QED  BY <1>2, <1>3, <1>7, <1>9, <2>5, <2>6, <3>1 DEF Line
    <2> QED  BY <1>5, <1>6, <2>7 DEF FlowInv, OnTheWay
  <1> QED  BY <1>8, <1>9

\* Everything of item it, and of what is sent of it, that the steps need.
ItemHere(n) ==
    /\ it \in 1 .. Len(items) /\ it \in Nat /\ n = Me.size /\ n \in Nat /\ Me = items[it]
    /\ Me.kind = "Dir" => n = 0
    /\ Me.kind = "Symlink" => n > 0

LEMMA ItemIsHere ==
    ASSUME LaneHyp, it \in 1 .. Len(items)
    PROVE  ItemHere(Me.size)
  <1>1. items \in Lists  BY DEF LaneHyp, Typed, OfferType
  <1>2. Me = items[it]  BY DEF Me
  <1>3. /\ Me.size \in Nat
        /\ Me.kind = "Dir" => Me.size = 0
        /\ Me.kind = "Symlink" => Me.size > 0
    BY <1>1, <1>2, ListFacts
  <1> QED  BY <1>2, <1>3, LaneHypFacts DEF ItemHere

LEMMA MessageFields ==
    \A k, i, t : Msg(k, i, t).kind = k /\ Msg(k, i, t).of = i /\ Msg(k, i, t).tokens = t
  BY DEF Msg

LEMMA NextItemFits ==
    ASSUME LaneHyp, it \in 1 .. Len(items), NextItem
    PROVE  /\ ReaderAt(items, verify, reader', it', sent', Spot(it + 1, 0))
           /\ ReaderSuits(items, verify, reader', it', sent')
  BY DEF NextItem, ReaderAt, ReaderSuits

LEMMA FlowHeader == LaneHyp /\ SendHeader => FlowInv'
  <1> SUFFICES ASSUME LaneHyp, SendHeader  PROVE FlowInv'  OBVIOUS
  <1> DEFINE m == Msg("Header", it, <<Header(it)>>)
  <1>1. reader = "header" /\ it <= Len(items) /\ Push(m)
        /\ UNCHANGED <<items, verify, hashVars, sockVars>>
    BY DEF SendHeader
  <1>2. it \in 1 .. Len(items) /\ it \in Nat /\ Fed(items, verify)  BY <1>1, LaneHypFacts
  <1>3. ItemHere(Me.size) /\ sent = 0
    <2>1. ReaderSuits(items, verify, reader, it, sent)  BY LaneHypFacts
    <2> QED  BY <1>1, <1>2, <2>1, ItemIsHere DEF ReaderSuits
  <1>4. m \in Message
    <2>1. <<>> \in Seq(UnitToken)  OBVIOUS
    <2> QED  BY <1>2, <2>1, MadeMessages
  <1>5. PICK c \in Anywhere : c = After(items, verify, it, 1)  BY <1>2, Geometry
  <1>6. \A z \in Anywhere : ReaderAt(items, verify, reader, it, sent, z) =>
                              FitsBoth(items, verify, m, z, c)
    <2> SUFFICES ASSUME NEW z \in Anywhere, z = Spot(it, 0)  PROVE FitsBoth(items, verify, m, z, c)
      BY <1>1 DEF ReaderAt
    <2>1. z.of = it /\ z.at = 0  BY SpotFields
    <2>2. HeaderFits(items, verify, m, z, c)  BY <1>5, <2>1, MessageFields DEF HeaderFits
    <2>3. m.of = it  BY MessageFields
    <2> HIDE DEF m
    <2> QED  BY <1>2, <2>1, <2>2, <2>3 DEF FitsBoth, Fits
  <1>7. /\ ReaderAt(items, verify, reader', it', sent', c)
        /\ ReaderSuits(items, verify, reader', it', sent')
    <2>1. CASE Me.kind = "Dir" /\ NextItem
      <3>1. c = Spot(it + 1, 0)
        <4>1. items[it].kind = "Dir"  BY <1>3, <2>1 DEF ItemHere
        <4> QED  BY <1>2, <1>5, <4>1, Geometry
      <3> QED  BY <1>2, <2>1, <3>1, NextItemFits
    <2>2. CASE Me.kind = "Symlink" /\ reader' = "link" /\ UNCHANGED <<it, sent>>
      BY <1>3, <1>5, <2>2 DEF ReaderAt, ReaderSuits, ItemHere
    <2>3. CASE Me.kind = "File" /\ reader' = "open" /\ UNCHANGED <<it, sent>>
      BY <1>3, <1>5, <2>3 DEF ReaderAt, ReaderSuits, ItemHere
    <2> QED  BY <2>1, <2>2, <2>3 DEF SendHeader
  <1> HIDE DEF m
  <1> QED  BY <1>1, <1>4, <1>6, <1>7, ReaderPushes

LEMMA FlowTarget == LaneHyp /\ SendTarget => FlowInv'
  <1> SUFFICES ASSUME LaneHyp, SendTarget  PROVE FlowInv'  OBVIOUS
  <1> DEFINE n == Me.size
             m == Msg("Target", it, Units(it, 0, n))
  <1>1. reader = "target" /\ Push(m) /\ UNCHANGED <<items, verify, hashVars, sockVars>>
    BY DEF SendTarget
  <1>2. it \in 1 .. Len(items) /\ it \in Nat /\ Fed(items, verify)  BY <1>1, LaneHypFacts
  <1>3. ItemHere(n) /\ Me.kind = "Symlink"
    <2>1. ReaderSuits(items, verify, reader, it, sent)  BY LaneHypFacts
    <2> QED  BY <1>1, <1>2, <2>1, ItemIsHere DEF ReaderSuits, ItemHere
  <1>4. m \in Message  BY <1>3, FirstUnits, MadeMessages DEF ItemHere
  <1> HIDE DEF n
  <1>5. n = items[it].size /\ items[it].kind = "Symlink" /\ n \in Nat /\ 1 + n \in Nat
    BY <1>3 DEF ItemHere
  <1>6. PICK c \in Anywhere : c = After(items, verify, it, 1 + n)  BY <1>2, <1>5, Geometry
  <1>7. \A z \in Anywhere : ReaderAt(items, verify, reader, it, sent, z) =>
                              FitsBoth(items, verify, m, z, c)
    <2> SUFFICES ASSUME NEW z \in Anywhere, z = After(items, verify, it, 1)
                 PROVE  FitsBoth(items, verify, m, z, c)
      BY <1>1 DEF ReaderAt
    <2>1. z.of = it /\ z.at = 1
      <3>1. z = Spot(it, 1)  BY <1>2, <1>5, Geometry
      <3> QED  BY <3>1, SpotFields
    <2>2. TargetFits(items, verify, m, z, c)  BY <1>5, <1>6, <2>1, MessageFields DEF TargetFits
    <2>3. m.of = it  BY MessageFields
    <2> HIDE DEF m
    <2> QED  BY <1>2, <2>1, <2>2, <2>3 DEF FitsBoth, Fits
  <1>8. /\ ReaderAt(items, verify, reader', it', sent', c)
        /\ ReaderSuits(items, verify, reader', it', sent')
    <2>1. CASE verify
      <3>1. reader' = "digest" /\ it' = it /\ sent' = sent  BY <2>1 DEF SendTarget
      <3> QED  BY <1>5, <1>6, <2>1, <3>1 DEF ReaderAt, ReaderSuits
    <2>2. CASE ~verify
      <3>1. NextItem  BY <2>2 DEF SendTarget
      <3>2. c = Spot(it + 1, 0)  BY <1>2, <1>5, <1>6, <2>2, Geometry
      <3> QED  BY <1>2, <3>1, <3>2, NextItemFits
    <2> QED  BY <2>1, <2>2
  <1> HIDE DEF m
  <1> QED  BY <1>1, <1>4, <1>7, <1>8, ReaderPushes

LEMMA FlowTargetDigest == LaneHyp /\ SendTargetDigest => FlowInv'
  <1> SUFFICES ASSUME LaneHyp, SendTargetDigest  PROVE FlowInv'  OBVIOUS
  <1> DEFINE n == Me.size
             m == Msg("Digest", it, <<Digest(it, Units(it, 0, n))>>)
  <1>1. /\ reader = "digest" /\ Push(m) /\ NextItem
        /\ UNCHANGED <<items, verify, hashVars, sockVars>>
    BY DEF SendTargetDigest
  <1>2. it \in 1 .. Len(items) /\ it \in Nat /\ Fed(items, verify)  BY <1>1, LaneHypFacts
  <1>3. ItemHere(n) /\ Me.kind = "Symlink" /\ verify
    <2>1. ReaderSuits(items, verify, reader, it, sent)  BY LaneHypFacts
    <2> QED  BY <1>1, <1>2, <2>1, ItemIsHere DEF ReaderSuits, ItemHere
  <1>4. m \in Message  BY <1>3, FirstUnits, MadeMessages DEF ItemHere
  <1> HIDE DEF n
  <1>5. n = items[it].size /\ items[it].kind = "Symlink" /\ n \in Nat
    BY <1>3 DEF ItemHere
  <1>6. /\ After(items, verify, it, 1 + n) = Spot(it, 1 + n)
        /\ After(items, verify, it, 2 + n) = Spot(it + 1, 0)
        /\ Spot(it + 1, 0) \in Anywhere
    BY <1>2, <1>3, <1>5, Geometry
  <1>7. PICK c \in Anywhere : c = Spot(it + 1, 0)  BY <1>6
  <1>8. \A z \in Anywhere : ReaderAt(items, verify, reader, it, sent, z) =>
                              FitsBoth(items, verify, m, z, c)
    <2> SUFFICES ASSUME NEW z \in Anywhere, z = After(items, verify, it, 1 + n)
                 PROVE  FitsBoth(items, verify, m, z, c)
      BY <1>1, <1>5 DEF ReaderAt
    <2>1. z.of = it /\ z.at = 1 + n  BY <1>6, SpotFields
    <2>2. DigestFits(items, verify, m, z, c)
      <3>1. m.kind = "Digest" /\ m.tokens = <<Digest(it, Units(it, 0, n))>>  BY MessageFields
      <3> HIDE DEF m
      <3>2. c = After(items, verify, it, 2 + n)  BY <1>6, <1>7
      <3>3. m.tokens = <<Digest(z.of, Units(z.of, 0, items[z.of].size))>>
        BY <1>5, <2>1, <3>1, Zenon
      <3> QED  BY <1>3, <1>5, <2>1, <3>1, <3>2, <3>3 DEF DigestFits
    <2>3. m.of = it  BY MessageFields
    <2> HIDE DEF m
    <2> QED  BY <1>2, <1>5, <2>1, <2>2, <2>3 DEF FitsBoth, Fits
  <1>9. /\ ReaderAt(items, verify, reader', it', sent', c)
        /\ ReaderSuits(items, verify, reader', it', sent')
    BY <1>1, <1>2, <1>7, NextItemFits
  <1> HIDE DEF m
  <1> QED  BY <1>1, <1>4, <1>8, <1>9, ReaderPushes

LEMMA FlowChunk == LaneHyp /\ SendChunk => FlowInv'
  <1> SUFFICES ASSUME LaneHyp, SendChunk  PROVE FlowInv'  OBVIOUS
  <1> DEFINE n == Me.size
             u == MinOf(n, sent + Chunk)
             m == Msg("Chunk", it, Units(it, sent, u))
  <1>1. /\ reader = "chunk" /\ Push(m) /\ sent' = u /\ reader' = AfterChunk(u) /\ it' = it
        /\ UNCHANGED <<items, verify, hashVars, sockVars>>
    BY DEF SendChunk
  <1>2. it \in 1 .. Len(items) /\ it \in Nat /\ Fed(items, verify) /\ sent \in Nat
    BY <1>1, LaneHypFacts
  <1>3. ItemHere(n) /\ Me.kind = "File" /\ sent < n
    <2>1. ReaderSuits(items, verify, reader, it, sent)  BY LaneHypFacts
    <2> QED  BY <1>1, <1>2, <2>1, ItemIsHere DEF ReaderSuits, ItemHere
  <1>4. u \in Nat /\ sent <= u /\ u <= n
    <2>1. n \in Nat /\ Chunk \in Nat  BY <1>3, LaneAssumption DEF ItemHere
    <2> HIDE DEF n
    <2> QED  BY <1>2, <1>3, <2>1 DEF MinOf
  <1>5. reader' = (IF u < n THEN "buf" ELSE IF verify THEN "end" ELSE "next")
    BY <1>1 DEF AfterChunk
  <1> HIDE DEF u
  <1>6. m \in Message  BY <1>2, <1>4, UnitsTyped, MadeMessages
  <1> HIDE DEF n
  <1>7. n = items[it].size /\ items[it].kind = "File" /\ n \in Nat  BY <1>3 DEF ItemHere
  <1>8. PICK c \in Anywhere : c = After(items, verify, it, 1 + u)
    <2>1. 1 + u \in Nat  BY <1>4
    <2> QED  BY <1>2, <2>1, Geometry
  <1>9. \A z \in Anywhere : ReaderAt(items, verify, reader, it, sent, z) =>
                              FitsBoth(items, verify, m, z, c)
    <2> SUFFICES ASSUME NEW z \in Anywhere, z = After(items, verify, it, 1 + sent)
                 PROVE  FitsBoth(items, verify, m, z, c)
      BY <1>1 DEF ReaderAt
    <2>1. z.of = it /\ z.at = 1 + sent
      <3>1. z = Spot(it, 1 + sent)  BY <1>2, <1>3, <1>7, Geometry
      <3> QED  BY <3>1, SpotFields
    <2>2. ChunkFits(items, verify, m, z, c)
      <3>1. /\ 1 + u \in Nat /\ z.at <= 1 + u /\ 1 + u <= 1 + n /\ z.at >= 1
            /\ z.at - 1 = sent /\ (1 + u) - 1 = u
        BY <1>2, <1>4, <1>7, <2>1
      <3>2. m.kind = "Chunk" /\ m.tokens = Units(it, sent, u)  BY MessageFields
      <3> HIDE DEF m
      <3>3. m.tokens = Units(it, z.at - 1, (1 + u) - 1)  BY <3>1, <3>2, Zenon
      <3> QED  BY <1>7, <1>8, <2>1, <3>1, <3>2, <3>3 DEF ChunkFits
    <2>3. m.of = it  BY MessageFields
    <2> HIDE DEF m
    <2> QED  BY <1>2, <2>1, <2>2, <2>3 DEF FitsBoth, Fits
  <1>10. /\ ReaderAt(items, verify, reader', it', sent', c)
         /\ ReaderSuits(items, verify, reader', it', sent')
    BY <1>1, <1>4, <1>5, <1>7, <1>8 DEF ReaderAt, ReaderSuits
  <1> HIDE DEF m
  <1> QED  BY <1>1, <1>6, <1>9, <1>10, ReaderPushes

LEMMA FlowEndPayload == LaneHyp /\ SendEndPayload => FlowInv'
  <1> SUFFICES ASSUME LaneHyp, SendEndPayload  PROVE FlowInv'  OBVIOUS
  <1> DEFINE n == Me.size
             m == Msg("EndPayload", it, <<>>)
  <1>1. /\ reader = "end" /\ Push(m) /\ NextItem
        /\ UNCHANGED <<items, verify, hashVars, sockVars>>
    BY DEF SendEndPayload
  <1>2. it \in 1 .. Len(items) /\ it \in Nat /\ Fed(items, verify)  BY <1>1, LaneHypFacts
  <1>3. ItemHere(n) /\ Me.kind = "File" /\ verify /\ sent = n
    <2>1. ReaderSuits(items, verify, reader, it, sent)  BY LaneHypFacts
    <2> QED  BY <1>1, <1>2, <2>1, ItemIsHere DEF ReaderSuits, ItemHere
  <1>4. m \in Message
    <2>1. <<>> \in Seq(UnitToken)  OBVIOUS
    <2> QED  BY <1>2, <2>1, MadeMessages
  <1> HIDE DEF n
  <1>5. n = items[it].size /\ items[it].kind = "File" /\ n \in Nat
    BY <1>3 DEF ItemHere
  <1>6. /\ After(items, verify, it, 1 + n) = Spot(it, 1 + n)
        /\ After(items, verify, it, 2 + n) = Spot(it + 1, 0)
        /\ Spot(it + 1, 0) \in Anywhere
    BY <1>2, <1>3, <1>5, Geometry
  <1>7. PICK c \in Anywhere : c = Spot(it + 1, 0)  BY <1>6
  <1>8. \A z \in Anywhere : ReaderAt(items, verify, reader, it, sent, z) =>
                              FitsBoth(items, verify, m, z, c)
    <2> SUFFICES ASSUME NEW z \in Anywhere, z = After(items, verify, it, 1 + n)
                 PROVE  FitsBoth(items, verify, m, z, c)
      BY <1>1, <1>3 DEF ReaderAt
    <2>1. z.of = it /\ z.at = 1 + n  BY <1>6, SpotFields
    <2>2. EndFits(items, verify, m, z, c)
      BY <1>3, <1>5, <1>6, <1>7, <2>1, MessageFields DEF EndFits
    <2>3. m.of = it  BY MessageFields
    <2> HIDE DEF m
    <2> QED  BY <1>2, <1>3, <2>1, <2>2, <2>3 DEF FitsBoth, Fits
  <1>9. /\ ReaderAt(items, verify, reader', it', sent', c)
        /\ ReaderSuits(items, verify, reader', it', sent')
    BY <1>1, <1>2, <1>7, NextItemFits
  <1> HIDE DEF m
  <1> QED  BY <1>1, <1>4, <1>8, <1>9, ReaderPushes

LEMMA FlowReader == LaneHyp /\ ReaderStep => FlowInv'
  <1> SUFFICES ASSUME LaneHyp, ReaderStep  PROVE FlowInv'  OBVIOUS
  <1>1. /\ Fed(items, verify) /\ it \in Nat /\ sent \in Nat /\ Len(items) \in Nat
        /\ it \in 1 .. Len(items) + 1
        /\ reader \notin {"header", "gone"} => it \in 1 .. Len(items)
        /\ ReaderSuits(items, verify, reader, it, sent)
        /\ reader # "gone" => ~NextStageGone
    BY LaneHypFacts
  <1>2. CASE ReaderEnds
    <2>1. it = Len(items) + 1 /\ reader = "header" /\ reader' = "gone"
          /\ UNCHANGED <<items, verify, it, sent, hashVars, sockVars, q1, q2>>
      BY <1>1, <1>2 DEF ReaderEnds
    <2>2. \A z \in Anywhere : ReaderAt(items, verify, reader, it, sent, z) =>
                                ReaderAt(items, verify, reader', it', sent', z)
      BY <2>1 DEF ReaderAt
    <2>3. ReaderSuits(items, verify, reader', it', sent')  BY <2>1 DEF ReaderSuits
    <2> QED  BY <2>1, <2>2, <2>3, ReaderTurns
  <1>3. CASE ReaderStops  BY <1>1, <1>3 DEF ReaderStops
  <1>4. CASE ReadLink
    <2>1. /\ reader = "link" /\ reader' \in {"target", "error"}
          /\ UNCHANGED <<items, verify, it, sent, hashVars, sockVars, q1, q2>>
      BY <1>4 DEF ReadLink
    <2>2. \A z \in Anywhere : ReaderAt(items, verify, reader, it, sent, z) =>
                                ReaderAt(items, verify, reader', it', sent', z)
      BY <2>1 DEF ReaderAt
    <2>3. ReaderSuits(items, verify, reader', it', sent')  BY <1>1, <2>1 DEF ReaderSuits
    <2> QED  BY <2>1, <2>2, <2>3, ReaderTurns
  <1>5. CASE OpenFile
    <2>1. /\ reader = "open" /\ (reader' = AfterChunk(0) \/ reader' = "error")
          /\ UNCHANGED <<items, verify, it, sent, hashVars, sockVars, q1, q2>>
      BY <1>5 DEF OpenFile
    <2>2. ItemHere(Me.size) /\ sent = 0  BY <1>1, <2>1, ItemIsHere DEF ReaderSuits
    <2> DEFINE n == items[it].size
    <2>3. /\ n \in Nat /\ 1 + 0 = 1 /\ items[it].kind = "File"
          /\ AfterChunk(0) = IF 0 < n THEN "buf" ELSE IF verify THEN "end" ELSE "next"
      BY <1>1, <2>1, <2>2 DEF ItemHere, AfterChunk, ReaderSuits
    <2>4. \A z \in Anywhere : ReaderAt(items, verify, reader, it, sent, z) =>
                                ReaderAt(items, verify, reader', it', sent', z)
      BY <2>1, <2>2, <2>3 DEF ReaderAt
    <2>5. ReaderSuits(items, verify, reader', it', sent')
      BY <2>1, <2>2, <2>3 DEF ReaderSuits
    <2> QED  BY <2>1, <2>4, <2>5, ReaderTurns
  <1>6. CASE TakeBuffer
    <2>1. /\ reader = "buf" /\ reader' = "fill"
          /\ UNCHANGED <<items, verify, it, sent, hashVars, sockVars, q1, q2>>
      BY <1>6 DEF TakeBuffer, PoolClosed, LoopLeft, LaneHyp
    <2>2. \A z \in Anywhere : ReaderAt(items, verify, reader, it, sent, z) =>
                                ReaderAt(items, verify, reader', it', sent', z)
      BY <2>1 DEF ReaderAt
    <2>3. ReaderSuits(items, verify, reader', it', sent')  BY <1>1, <2>1 DEF ReaderSuits
    <2> QED  BY <2>1, <2>2, <2>3, ReaderTurns
  <1>7. CASE FillBuffer
    <2>1. /\ reader = "fill" /\ reader' \in {"chunk", "error"}
          /\ UNCHANGED <<items, verify, it, sent, hashVars, sockVars, q1, q2>>
      BY <1>7 DEF FillBuffer, ShortRead
    <2>2. \A z \in Anywhere : ReaderAt(items, verify, reader, it, sent, z) =>
                                ReaderAt(items, verify, reader', it', sent', z)
      BY <2>1 DEF ReaderAt
    <2>3. ReaderSuits(items, verify, reader', it', sent')  BY <1>1, <2>1 DEF ReaderSuits
    <2> QED  BY <2>1, <2>2, <2>3, ReaderTurns
  <1>8. CASE FileReturns
    <2>1. /\ reader = "next" /\ NextItem
          /\ UNCHANGED <<items, verify, hashVars, sockVars, q1, q2>>
      BY <1>1, <1>8 DEF FileReturns
    <2>2. it \in 1 .. Len(items) /\ ~verify /\ sent = items[it].size
      BY <1>1, <2>1 DEF ReaderSuits
    <2>3. After(items, verify, it, 1 + sent) = Spot(it + 1, 0)  BY <1>1, <2>2, Geometry
    <2>4. \A z \in Anywhere : ReaderAt(items, verify, reader, it, sent, z) =>
                                ReaderAt(items, verify, reader', it', sent', z)
      BY <2>1, <2>2, <2>3, NextItemFits DEF ReaderAt
    <2>5. ReaderSuits(items, verify, reader', it', sent')  BY <2>1, <2>2, NextItemFits
    <2> QED  BY <2>1, <2>4, <2>5, ReaderTurns
  <1>9. CASE SendError
    <2> DEFINE m == Msg("Err", it, <<>>)
    <2>1. /\ reader = "error" /\ Push(m) /\ reader' = "gone"
          /\ UNCHANGED <<items, verify, it, sent, hashVars, sockVars>>
      BY <1>1, <1>9 DEF SendError
    <2>2. m \in Message
      <3>1. <<>> \in Seq(UnitToken)  OBVIOUS
      <3> QED  BY <1>1, <3>1, MadeMessages
    <2>3. PICK c \in Anywhere : c = Nowhere  BY <1>1, SpotFacts DEF Anywhere
    <2>4. \A z \in Anywhere : ReaderAt(items, verify, reader, it, sent, z) =>
                                FitsBoth(items, verify, m, z, c)
      <3>1. m.kind = "Err"  BY MessageFields
      <3> HIDE DEF m
      <3> QED  BY <2>3, <3>1 DEF FitsBoth, Fits
    <2>5. ReaderAt(items, verify, reader', it', sent', c)  BY <2>1, <2>3 DEF ReaderAt
    <2>6. ReaderSuits(items, verify, reader', it', sent')  BY <2>1 DEF ReaderSuits
    <2> HIDE DEF m
    <2> QED  BY <2>1, <2>2, <2>4, <2>5, <2>6, ReaderPushes
  <1> QED
    BY <1>2, <1>3, <1>4, <1>5, <1>6, <1>7, <1>8, <1>9, FlowHeader, FlowTarget,
       FlowTargetDigest, FlowChunk, FlowEndPayload DEF ReaderStep

-----------------------------------------------------------------------------
(* The hash stage's steps.                                                 *)

LEMMA FlowTake == LaneHyp /\ HashTake => FlowInv'
  <1> SUFFICES ASSUME LaneHyp, HashTake  PROVE FlowInv'  OBVIOUS
  <1> DEFINE m == Head(q1)
  <1>1. /\ hand = <<>> /\ q1 # <<>> /\ q1' = Tail(q1) /\ hash = "run"
        /\ UNCHANGED <<items, verify, readerVars, sockVars, q2>>
    BY DEF HashTake
  <1>2. /\ q1 \in Seq(Message) /\ Fed(items, verify)
        /\ OnTheWay /\ NoErrOut /\ ReaderSuits(items, verify, reader, it, sent)
    BY LaneHypFacts
  <1>3. /\ items' = items /\ verify' = verify /\ out' = out /\ wire' = wire /\ q2' = q2
        /\ reader' = reader /\ it' = it /\ sent' = sent
    BY <1>1 DEF readerVars, sockVars
  <1>4. verify  BY <1>1 DEF LaneHyp, StageInv, Typed, OfferType
  <1>5. PICK x, a, b, y, z : Line(x, a, b, y, z)  BY <1>2 DEF OnTheWay
  <1>6. /\ x \in Spots(items, verify) /\ a \in Anywhere /\ b \in Anywhere /\ y \in Anywhere
        /\ z \in Anywhere /\ wire = Words(items, verify, x)
        /\ Leads(items, verify, "hashed", out, x, a)
        /\ Leads(items, verify, "hashed", q2, a, b)
        /\ Leads(items, verify, "hashed", hand, b, y)
        /\ Leads(items, verify, "raw", q1, y, z)
        /\ y # Nowhere => sum = SumAt(items, y)
        /\ ReaderAt(items, verify, reader, it, sent, z)
    BY <1>4, <1>5 DEF Line
  <1>7. b = y
    <2>1. Leads(items, verify, "hashed", <<>>, b, y)  BY <1>1, <1>6, Zenon
    <2> QED  BY <2>1, LeadsEmpty, Zenon
  <1>8. m \in Message  BY <1>1, <1>2, TakeFacts
  <1>9. PICK c \in Anywhere : /\ Fits(items, verify, "raw", m, y, c)
                              /\ Leads(items, verify, "raw", Tail(q1), c, z)
    BY <1>1, <1>2, <1>6, LeadsTake
  <1> HIDE DEF m
  <1>10. SUFFICES \E d \in Message : /\ Fits(items, verify, "hashed", d, y, c) /\ hand' = <<d>>
                                     /\ c # Nowhere => sum' = SumAt(items, c)
    <2>1. PICK d \in Message : /\ Fits(items, verify, "hashed", d, y, c) /\ hand' = <<d>>
                               /\ c # Nowhere => sum' = SumAt(items, c)
      BY <1>10
    <2>2. Leads(items, verify, "hashed", hand', b, c)  BY <1>6, <1>7, <2>1, LeadsSingle
    <2>3. ReaderAt(items, verify, reader, it, sent, z)'  BY <1>3, <1>6
    <2>4. Line(x, a, b, c, z)'  BY <1>1, <1>3, <1>6, <1>9, <2>1, <2>2, <2>3 DEF Line
    <2>5. NoErrOut' /\ ReaderSuits(items, verify, reader, it, sent)'
      BY <1>2, <1>3 DEF NoErrOut
    <2> QED  BY <2>4, <2>5 DEF FlowInv, OnTheWay
  <1> HashMakes(items, verify, m, y, c, sum)
    BY <1>2, <1>4, <1>6, <1>8, <1>9, HashFits
  <1>11. CASE m.kind = "Chunk"
    <2>1. hand' = <<m>> /\ sum' = sum \o m.tokens  BY <1>11 DEF HashTake, m
    <2>2. Fits(items, verify, "hashed", m, y, c) /\ sum \o m.tokens = SumAt(items, c)
      BY <1>11 DEF HashMakes
    <2> QED  BY <1>8, <2>1, <2>2
  <1>12. CASE m.kind = "EndPayload"
    <2> DEFINE d == Msg("Digest", m.of, <<Digest(m.of, sum)>>)
    <2>1. hand' = <<d>> /\ sum' = <<>>  BY <1>12 DEF HashTake, m, SumAfterDigest
    <2>2. Fits(items, verify, "hashed", d, y, c) /\ SumAt(items, c) = <<>>
      BY <1>12 DEF HashMakes
    <2>3. d \in Message
      BY <1>8, MessageFacts, MadeMessages DEF LaneHyp, Typed, HashType
    <2> HIDE DEF d
    <2> QED  BY <2>1, <2>2, <2>3
  <1>13. CASE m.kind \notin {"Chunk", "EndPayload"}
    <2>1. hand' = <<m>> /\ sum' = sum  BY <1>13 DEF HashTake, Forwarded, m
    <2>2. Fits(items, verify, "hashed", m, y, c) /\ (c # Nowhere => sum = SumAt(items, c))
      BY <1>13 DEF HashMakes
    <2> QED  BY <1>8, <2>1, <2>2
  <1> QED  BY <1>11, <1>12, <1>13

LEMMA FlowForward == LaneHyp /\ HashForward => FlowInv'
  <1> SUFFICES ASSUME LaneHyp, HashForward  PROVE FlowInv'  OBVIOUS
  <1>1. /\ hand # <<>> /\ q2' = Append(q2, hand[1]) /\ hand' = <<>>
        /\ items' = items /\ verify' = verify /\ out' = out /\ wire' = wire /\ q1' = q1
        /\ reader' = reader /\ it' = it /\ sent' = sent /\ sum' = sum
    BY DEF HashForward, readerVars, sockVars
  <1>2. /\ hand \in Seq(Message) /\ Len(hand) <= 1 /\ q2 \in Seq(Message)
        /\ OnTheWay /\ NoErrOut /\ ReaderSuits(items, verify, reader, it, sent)
    BY LaneHypFacts
  <1>3. PICK x, a, b, y, z : Line(x, a, b, y, z)  BY <1>2 DEF OnTheWay
  <1>4. /\ y \in Anywhere
        /\ Leads(items, verify, "hashed", q2, a, b) /\ Leads(items, verify, "hashed", hand, b, y)
    BY <1>3 DEF Line
  <1>5. hand[1] \in Message /\ Fits(items, verify, "hashed", hand[1], b, y)
    BY <1>1, <1>2, <1>4, LeadsOne
  <1>6. Leads(items, verify, "hashed", q2', a, y)  BY <1>1, <1>2, <1>4, <1>5, LeadsAppend
  <1>7. Leads(items, verify, "hashed", hand', y, y)  BY <1>1, <1>4, LeadsEmpty
  <1>8. Line(x, a, y, y, z)'  BY <1>1, <1>3, <1>6, <1>7 DEF Line
  <1>9. NoErrOut' /\ ReaderSuits(items, verify, reader, it, sent)'
    BY <1>1, <1>2 DEF NoErrOut
  <1> QED  BY <1>8, <1>9 DEF FlowInv, OnTheWay

(* A step that leaves alone what is on its way.                            *)
LEMMA FlowSame ==
    ASSUME FlowInv, UNCHANGED <<items, verify, reader, it, sent, hand, sum, out, wire, q1, q2>>,
           sock = "done" => sock' = "done"
    PROVE  FlowInv'
  <1> SUFFICES ASSUME sock # "done"  PROVE FlowInv'  BY DEF FlowInv
  <1>1. PICK x, a, b, y, z : Line(x, a, b, y, z)  BY DEF FlowInv, OnTheWay
  <1>2. Line(x, a, b, y, z)'  BY <1>1 DEF Line
  <1>3. NoErrOut' /\ ReaderSuits(items, verify, reader, it, sent)'  BY DEF FlowInv, NoErrOut
  <1> QED  BY <1>2, <1>3 DEF FlowInv, OnTheWay

-----------------------------------------------------------------------------
(* The socket loop's steps.                                                *)

LEMMA FlowSockTake == LaneHyp /\ SockTake => FlowInv'
  <1> SUFFICES ASSUME LaneHyp, SockTake, sock' # "done"  PROVE FlowInv'  BY DEF FlowInv
  <1> DEFINE m == Head(q2)
  <1>1. /\ out = <<>> /\ q2 # <<>> /\ m.kind # "Err" /\ out' = <<m>> /\ q2' = Tail(q2)
        /\ wire' = wire /\ items' = items /\ verify' = verify /\ hand' = hand /\ sum' = sum
        /\ q1' = q1 /\ reader' = reader /\ it' = it /\ sent' = sent
    BY DEF SockTake, LoopFails, readerVars, hashVars
  <1>2. /\ q2 \in Seq(Message) /\ OnTheWay /\ ReaderSuits(items, verify, reader, it, sent)
    BY LaneHypFacts
  <1>3. PICK x, a, b, y, z : Line(x, a, b, y, z)  BY <1>2 DEF OnTheWay
  <1>4. /\ a \in Anywhere
        /\ Leads(items, verify, "hashed", out, x, a) /\ Leads(items, verify, "hashed", q2, a, b)
    BY <1>3 DEF Line
  <1>5. x = a
    <2>1. Leads(items, verify, "hashed", <<>>, x, a)  BY <1>1, <1>4, Zenon
    <2> QED  BY <2>1, LeadsEmpty, Zenon
  <1>6. m \in Message  BY <1>1, <1>2, TakeFacts
  <1>7. PICK c \in Anywhere : /\ Fits(items, verify, "hashed", m, a, c)
                              /\ Leads(items, verify, "hashed", Tail(q2), c, b)
    BY <1>1, <1>2, <1>4, LeadsTake
  <1> HIDE DEF m
  <1>8. Leads(items, verify, "hashed", out', x, c)  BY <1>1, <1>4, <1>5, <1>6, <1>7, LeadsSingle
  <1>9. Line(x, c, b, y, z)'  BY <1>1, <1>3, <1>7, <1>8 DEF Line
  <1>10. NoErrOut' /\ ReaderSuits(items, verify, reader, it, sent)'
    <2>1. out'[1] = m  BY <1>1
    <2> QED  BY <1>1, <1>2, <2>1 DEF NoErrOut
  <1> QED  BY <1>9, <1>10 DEF FlowInv, OnTheWay

(* Where the message being written leads the wire.                         *)
Written(a) ==
    /\ a \in Spots(items, verify) /\ Words(items, verify, a) = wire \o out[1].tokens
    /\ Begins(wire, Words(items, verify, a))
    /\ Begins(Words(items, verify, a), Body(items, verify))

LEMMA Writing ==
    ASSUME LaneHyp, out # <<>>, NEW x, NEW a, NEW b, NEW y, NEW z, Line(x, a, b, y, z)
    PROVE  Written(a)
  <1>1. Fed(items, verify) /\ out \in Seq(Message) /\ Len(out) <= 1 /\ out[1].kind # "Err"
    BY LaneHypFacts DEF NoErrOut
  <1>2. /\ x \in Spots(items, verify) /\ wire = Words(items, verify, x)
        /\ Leads(items, verify, "hashed", out, x, a)
    BY DEF Line
  <1>3. out[1] \in Message /\ Fits(items, verify, "hashed", out[1], x, a)  BY <1>1, <1>2, LeadsOne
  <1>4. /\ a \in Spots(items, verify)
        /\ Words(items, verify, a) = Words(items, verify, x) \o out[1].tokens
        /\ Begins(Words(items, verify, x), Words(items, verify, a))
    BY <1>1, <1>2, <1>3, FitsWrites
  <1> QED  BY <1>1, <1>2, <1>4, WordsBegin DEF Written

LEMMA FlowSockWrite == LaneHyp /\ SockWrite => FlowInv'
  <1> SUFFICES ASSUME LaneHyp, SockWrite  PROVE FlowInv'  OBVIOUS
  <1>1. /\ out # <<>> /\ out' = <<>> /\ wire' = wire \o out[1].tokens /\ q2' = q2
        /\ items' = items /\ verify' = verify /\ hand' = hand /\ sum' = sum
        /\ q1' = q1 /\ reader' = reader /\ it' = it /\ sent' = sent
    BY DEF SockWrite, readerVars, hashVars
  <1>2. OnTheWay /\ ReaderSuits(items, verify, reader, it, sent)  BY LaneHypFacts
  <1>3. PICK x, a, b, y, z : Line(x, a, b, y, z)  BY <1>2 DEF OnTheWay
  <1>4. a \in Anywhere  BY <1>3 DEF Line
  <1>5. a \in Spots(items, verify) /\ wire' = Words(items, verify, a)
    BY <1>1, <1>3, Writing DEF Written
  <1>6. Leads(items, verify, "hashed", out', a, a)  BY <1>1, <1>4, LeadsEmpty
  <1>7. Line(a, a, b, y, z)'  BY <1>1, <1>3, <1>5, <1>6 DEF Line
  <1>8. NoErrOut' /\ ReaderSuits(items, verify, reader, it, sent)'  BY <1>1, <1>2 DEF NoErrOut
  <1> QED  BY <1>7, <1>8 DEF FlowInv, OnTheWay

LEMMA FlowNext == Typed /\ StageInv /\ FlowInv /\ [Next]_vars => FlowInv'
  <1> SUFFICES ASSUME Typed, StageInv, FlowInv, [Next]_vars  PROVE FlowInv'  OBVIOUS
  <1>1. CASE sock = "done"
    <2>1. sock' = "done"
      BY <1>1 DEF Next, ReaderStep, HashStep, SockStep, Returned, SendHeader, ReaderEnds,
         ReaderStops, ReadLink, SendTarget, SendTargetDigest, OpenFile, TakeBuffer, FillBuffer,
         SendChunk, SendEndPayload, FileReturns, SendError, HashTake, HashForward, HashStops,
         HashEnds, SockTake, SockWrite, SockFails, SockEnds, Finish, vars, sockVars
    <2> QED  BY <2>1 DEF FlowInv
  <1>2. CASE sock # "done"
    <2>1. LaneHyp  BY <1>2 DEF LaneHyp
    <2>2. CASE ReaderStep \/ HashTake \/ HashForward
      BY <2>1, <2>2, FlowReader, FlowTake, FlowForward
    <2>3. CASE HashStops  BY <1>2, <2>3 DEF HashStops, LoopLeft
    <2>4. CASE HashEnds \/ SockEnds
      BY <1>2, <2>4, FlowSame DEF HashEnds, SockEnds, readerVars, sockVars, hashVars
    <2>5. CASE SockTake \/ SockWrite  BY <2>1, <2>5, FlowSockTake, FlowSockWrite
    <2>6. CASE SockFails \/ Finish
      BY <2>6 DEF SockFails, LoopFails, Finish, FlowInv
    <2>7. CASE UNCHANGED vars
      BY <1>2, <2>7, FlowSame DEF vars, readerVars, sockVars, hashVars
    <2> QED
      BY <2>2, <2>3, <2>4, <2>5, <2>6, <2>7 DEF Next, HashStep, SockStep, Returned
  <1> QED  BY <1>1, <1>2

-----------------------------------------------------------------------------
(* The promise.                                                            *)

\* The lane's own invariant and the line of its messages.
FlowIInv == LaneIInv /\ FlowInv

LEMMA FlowInductive == Spec => []FlowIInv
  <1>1. Init => FlowInv  BY FlowInit
  <1>2. LaneIInv /\ FlowInv /\ [Next]_vars => FlowInv'
    BY FlowNext DEF LaneIInv
  <1> QED  BY <1>1, <1>2, LaneInductive, PTL DEF Spec, FlowIInv

LEMMA SameBody == \A l, v : Lane!Body(l, v) = Body(l, v)
  BY DEF Body, Lane!Body, Frame, Lane!Frame, Units, Lane!Units, Unit, Lane!Unit,
     Header, Lane!Header, Digest, Lane!Digest

(* The wire grew along the frames.                                         *)
LEMMA Extends ==
    ASSUME Fed(items, verify), Begins(wire, wire'), Begins(wire', Body(items, verify))
    PROVE  Lane!Extend
  <1> DEFINE w == wire'
             t == Body(items, verify)
  <1>1. Len(wire) \in Nat /\ Len(w) \in Nat /\ Len(wire) <= Len(w)  BY BeginsPrefix
  <1>2. Len(t) \in Nat /\ Len(w) <= Len(t) /\ w = Prefix(t, Len(w))  BY BeginsPrefix
  <1>3. Len(w) \in Len(wire) .. Len(t)  BY <1>1, <1>2
  <1>4. t = Lane!Body(items, verify)  BY SameBody
  <1> HIDE DEF t
  <1>5. \E n \in Len(wire) .. Len(t) : w = Prefix(t, n)  BY <1>2, <1>3
  <1> QED  BY <1>4, <1>5 DEF Lane!Extend, Lane!Prefix, Prefix, w

(* Nothing follows the frames but the terminator: a wire that holds all of *)
(* them grows no more.                                                     *)
LEMMA FullStays ==
    ASSUME Begins(wire, wire'), Begins(wire', Body(items, verify)), wire = Body(items, verify)
    PROVE  wire' = wire
  <1> DEFINE w == wire'
             t == Body(items, verify)
  <1>1. Len(wire) \in Nat /\ Len(w) \in Nat /\ Len(wire) <= Len(w)  BY BeginsPrefix
  <1>2. w \in Seq(Token) /\ t \in Seq(Token) /\ Len(w) <= Len(t) /\ w = Prefix(t, Len(w))
    BY BeginsPrefix DEF Begins
  <1>3. Len(w) = Len(t)  BY <1>1, <1>2
  <1>4. Prefix(t, Len(t)) = t  BY <1>2, SubSeqFull DEF Prefix
  <1> QED  BY <1>2, <1>3, <1>4

(* Some of a sequence begins it.                                           *)
LEMMA PartWritten ==
    ASSUME NEW s \in Seq(Token), NEW t \in Seq(Token), NEW n \in 0 .. Len(t)
    PROVE  Begins(s, s \o SubSeq(t, 1, n)) /\ Begins(s \o SubSeq(t, 1, n), s \o t)
  <1>1. Len(t) \in Nat /\ n \in Nat /\ n <= Len(t)  OBVIOUS
  <1> DEFINE p == SubSeq(t, 0 + 1, n)
             q == SubSeq(t, n + 1, Len(t))
  <1>2. p \in Seq(Token) /\ q \in Seq(Token)
    <2>1. 0 \in Nat /\ 0 <= n /\ Len(t) <= Len(t)  BY <1>1
    <2> QED  BY <1>1, <2>1, SlicesTyped
  <1>3. p \o q = t
    <2>1. 1 \in 1 .. Len(t) + 1 /\ n \in 1 - 1 .. Len(t) /\ Len(t) \in n .. Len(t)  BY <1>1
    <2>2. SubSeq(t, 1, n) \o SubSeq(t, n + 1, Len(t)) = SubSeq(t, 1, Len(t))
      BY <2>1, ConcatAdjacentSubSeq
    <2>3. SubSeq(t, 1, Len(t)) = t  BY SubSeqFull
    <2>4. p = SubSeq(t, 1, n)  OBVIOUS
    <2> HIDE DEF p
    <2>5. p \o q = SubSeq(t, 1, Len(t))  BY <2>2, <2>4, Zenon
    <2> QED  BY <2>3, <2>5
  <1>4. p = SubSeq(t, 1, n)  OBVIOUS
  <1> HIDE DEF p, q
  <1>5. s \o p \in Seq(Token)  BY <1>2, ConcatProperties
  <1>6. (s \o p) \o q = s \o t  BY <1>2, <1>3, TokensRegroup
  <1>7. Begins(s, s \o p) /\ Begins(s \o p, s \o t)  BY <1>2, <1>5, <1>6 DEF Begins
  <1> QED  BY <1>4, <1>7

Stutters == UNCHANGED <<items, verify, wire, result>>

LEMMA PromiseInit == Init => Lane!Init
  BY DEF Init, Lane!Init

LEMMA PromiseWrite == LaneHyp /\ SockWrite => Lane!Write \/ Stutters
  <1> SUFFICES ASSUME LaneHyp, SockWrite  PROVE Lane!Write \/ Stutters  OBVIOUS
  <1>1. /\ out # <<>> /\ wire' = wire \o out[1].tokens /\ result' = result
        /\ items' = items /\ verify' = verify
    BY DEF SockWrite
  <1>2. PICK x, a, b, y, z : Line(x, a, b, y, z)  BY LaneHypFacts DEF OnTheWay
  <1>3. Begins(wire, wire') /\ Begins(wire', Body(items, verify))
    BY <1>1, <1>2, Writing DEF Written
  <1>4. Fed(items, verify) /\ result = "none"  BY LaneHypFacts DEF LaneHyp, StageInv
  <1>5. CASE wire = Body(items, verify)  BY <1>1, <1>3, <1>5, FullStays DEF Stutters
  <1>6. CASE wire # Body(items, verify)
    BY <1>1, <1>3, <1>4, <1>6, Extends, SameBody DEF Lane!Write
  <1> QED  BY <1>5, <1>6

LEMMA PromiseFails == LaneHyp /\ SockFails => Lane!Fail
  <1> SUFFICES ASSUME LaneHyp, SockFails  PROVE Lane!Fail  OBVIOUS
  <1>1. out # <<>> /\ result' = "socket" /\ items' = items /\ verify' = verify
    BY DEF SockFails, LoopFails
  <1>2. PICK n \in 0 .. Len(out[1].tokens) : wire' = wire \o SubSeq(out[1].tokens, 1, n)
    BY DEF SockFails
  <1>3. PICK x, a, b, y, z : Line(x, a, b, y, z)  BY LaneHypFacts DEF OnTheWay
  <1>4. /\ Words(items, verify, a) = wire \o out[1].tokens
        /\ Begins(Words(items, verify, a), Body(items, verify))
    BY <1>1, <1>3, Writing DEF Written
  <1>5. wire \in Seq(Token) /\ out[1].tokens \in Seq(Token)
    <2>1. out \in Seq(Message) /\ Len(out) <= 1  BY LaneHypFacts
    <2>2. out[1] \in Message  BY <1>1, <2>1, LeadsOne
    <2> QED  BY <2>2, MessageFacts DEF LaneHyp, Typed, SockType
  <1>6. Begins(wire, wire') /\ Begins(wire', wire \o out[1].tokens)  BY <1>2, <1>5, PartWritten
  <1>7. Begins(wire', Body(items, verify))  BY <1>4, <1>6, BeginsTrans
  <1>8. Fed(items, verify) /\ result = "none"  BY LaneHypFacts DEF LaneHyp, StageInv
  <1> QED  BY <1>1, <1>6, <1>7, <1>8, Extends DEF Lane!Fail

(* With nothing on its way the wire is where the lane stands.              *)
LEMMA WireBegins ==
    ASSUME LaneHyp
    PROVE  Begins(wire, wire) /\ Begins(wire, Body(items, verify))
  <1>1. PICK x, a, b, y, z : Line(x, a, b, y, z)  BY LaneHypFacts DEF OnTheWay
  <1>2. Fed(items, verify)  BY LaneHypFacts
  <1>3. x \in Spots(items, verify) /\ wire = Words(items, verify, x)  BY <1>1 DEF Line
  <1>4. Begins(wire, Body(items, verify))  BY <1>2, <1>3, WordsBegin
  <1>5. wire \in Seq(Token)  BY <1>4 DEF Begins
  <1> QED  BY <1>4, <1>5, BeginsSelf

LEMMA PromiseSource ==
    ASSUME LaneHyp, UNCHANGED <<items, verify, wire>>, result' \in {"source", "socket"}
    PROVE  Lane!Fail
  <1>1. Begins(wire, wire') /\ Begins(wire', Body(items, verify))  BY WireBegins
  <1>2. Fed(items, verify) /\ result = "none"  BY LaneHypFacts DEF LaneHyp, StageInv
  <1> QED  BY <1>1, <1>2, Extends DEF Lane!Fail

LEMMA PromiseFinish == LaneHyp /\ Finish => Lane!Complete \/ Lane!Fail
  <1> SUFFICES ASSUME LaneHyp, Finish  PROVE Lane!Complete \/ Lane!Fail  OBVIOUS
  <1>1. sock = "join" /\ reader = "gone" /\ hash = "gone" /\ items' = items /\ verify' = verify
    BY DEF Finish
  <1>2. CASE result' = "socket" /\ UNCHANGED wire  BY <1>1, <1>2, PromiseSource
  <1>3. CASE wire' = Append(wire, Terminator) /\ result' = "ok"
    <2>1. out = <<>> /\ q2 = <<>> /\ hand = <<>> /\ q1 = <<>> /\ result = "none"
      BY <1>1 DEF LaneHyp, StageInv
    <2>2. PICK x, a, b, y, z : Line(x, a, b, y, z)  BY LaneHypFacts DEF OnTheWay
    <2>3. /\ Leads(items, verify, "hashed", <<>>, x, a)
          /\ Leads(items, verify, "hashed", <<>>, a, b)
          /\ Leads(items, verify, "hashed", <<>>, b, y)
          /\ Leads(items, verify, "raw", <<>>, y, z)
      BY <2>1, <2>2, Zenon DEF Line
    <2>4. x = z  BY <2>3, LeadsEmpty, Zenon
    <2>5. /\ x \in Spots(items, verify) /\ wire = Words(items, verify, x)
          /\ z \in {Nowhere, Spot(Len(items) + 1, 0)} /\ Fed(items, verify)
      BY <1>1, <2>2, LaneHypFacts DEF Line, ReaderAt
    <2>6. x = Spot(Len(items) + 1, 0)  BY <2>4, <2>5, SpotFacts
    <2>7. wire = Body(items, verify)  BY <2>5, <2>6, WordsBegin
    <2> QED
      BY <1>1, <1>3, <2>1, <2>7, SameBody DEF Lane!Complete, Terminator, Lane!Terminator
  <1> QED  BY <1>2, <1>3 DEF Finish

LEMMA PromiseNext == FlowIInv /\ [Next]_vars => Lane!Next \/ Stutters
  <1> SUFFICES ASSUME FlowIInv, [Next]_vars  PROVE Lane!Next \/ Stutters  OBVIOUS
  <1> USE DEF Lane!Next
  <1>1. CASE ReaderStep
    BY <1>1 DEF ReaderStep, SendHeader, ReaderEnds, ReaderStops, ReadLink, SendTarget,
       SendTargetDigest, OpenFile, TakeBuffer, FillBuffer, SendChunk, SendEndPayload,
       FileReturns, SendError, sockVars, Stutters
  <1>2. CASE HashStep
    BY <1>2 DEF HashStep, HashTake, HashForward, HashStops, HashEnds, sockVars, Stutters
  <1>3. CASE SockStep
    <2>1. LaneHyp  BY <1>3 DEF SockStep, SockTake, SockWrite, SockFails, SockEnds, Finish,
                              LaneHyp, FlowIInv, LaneIInv
    <2>2. CASE SockTake
      <3>1. CASE Head(q2).kind = "Err"
        BY <2>1, <2>2, <3>1, PromiseSource DEF SockTake, LoopFails
      <3>2. CASE Head(q2).kind # "Err"  BY <2>2, <3>2 DEF SockTake, Stutters
      <3> QED  BY <3>1, <3>2
    <2>3. CASE SockEnds  BY <2>3 DEF SockEnds, Stutters
    <2> QED
      BY <1>3, <2>1, <2>2, <2>3, PromiseWrite, PromiseFails, PromiseFinish DEF SockStep
  <1>4. CASE UNCHANGED vars  BY <1>4 DEF vars, sockVars, Stutters
  <1> QED  BY <1>1, <1>2, <1>3, <1>4 DEF Next, Returned

(* Whatever its threads and channels do, a lane keeps the safety part of   *)
(* its promise (LaneSpec): the wire always holds a beginning of the items' *)
(* frames, each digest covers exactly its own payload, and success is      *)
(* reported with the terminator behind all of the frames and nothing else  *)
(* (send_lane_inner, read_items, stream_file, hash_items).                 *)
THEOREM LaneRefines == Spec => Lane!Init /\ [][Lane!Next]_<<items, verify, wire, result>>
  <1>1. FlowIInv /\ [Next]_vars => [Lane!Next]_<<items, verify, wire, result>>
    BY PromiseNext DEF Stutters
  <1> QED  BY <1>1, PromiseInit, FlowInductive, PTL DEF Spec
=============================================================================
