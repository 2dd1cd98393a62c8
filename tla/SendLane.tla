------------------------------ MODULE SendLane ------------------------------
(***************************************************************************)
(* The sending end of one flow: send_lane_inner with read_items,           *)
(* stream_file and hash_items.                                             *)
(*                                                                         *)
(* Three threads.  The reader turns the items into messages, the hash      *)
(* stage (when the session verifies) puts each file's digest after its     *)
(* payload, and the calling thread writes them to the socket.  The buffers *)
(* for file data come from a pool the socket loop refills.                 *)
(*                                                                         *)
(* A message carries the tokens (module Framing) it puts on the wire.      *)
(*                                                                         *)
(* A definition marked "Variation" is not part of the system: it is the    *)
(* definition after it with a plausible mistake, kept to show that a       *)
(* property depends on the code being as it is.                            *)
(***************************************************************************)
EXTENDS Framing, FiniteSets

CONSTANTS
    Lists,      \* the item lists the lane may be given
    Depth,      \* queue_depth(): capacity of each channel
    Chunk       \* capacity of one buffer, in payload units

\* queue_depth() is clamped to 1..64 and CHUNK is positive; a directory is
\* announced with size 0, and a symlink's target is never empty.
ASSUME LaneAssumption ==
    /\ Lists \subseteq Seq(Item)
    /\ \A l \in Lists : \A i \in 1 .. Len(l) :
          /\ l[i].kind = "Dir" => l[i].size = 0
          /\ l[i].kind = "Symlink" => l[i].size > 0
    /\ Depth \in Nat \ {0}
    /\ Chunk \in Nat \ {0}

VARIABLES
    items,      \* what the lane was given
    verify,     \* is it to be verified
    reader,     \* where the reader thread is
    it,         \* the item it works on
    sent,       \* payload units of it in messages so far
    hash,       \* is the hash stage running
    hand,       \* the message it holds between recv and send
    sum,        \* the payload units hashed since the last reset
    sock,       \* where the socket loop is
    out,        \* the message it is writing
    q1, q2,     \* reader -> hash and (hash or reader) -> socket channels
    pool,       \* buffers waiting in the pool
    wire,       \* tokens on the socket
    result,     \* what send_lane_inner returned
    changed     \* the source failed or was not what the walk recorded (history)

readerVars == <<reader, it, sent>>
hashVars   == <<hash, hand, sum>>
sockVars   == <<sock, out, wire, result>>
vars == <<items, verify, readerVars, hashVars, sockVars, q1, q2, pool, changed>>

Me == items[it]

Msg(kind, i, tokens) == [kind |-> kind, of |-> i, tokens |-> tokens]
MinOf(a, b) == IF a <= b THEN a ELSE b

\* Variation of Buffers: one per queue slot and no more.
OnePerSlot == Depth

\* One buffer per queue slot, one being filled and one being written.
Buffers == Depth + 2

Init ==
    /\ items \in Lists /\ verify \in BOOLEAN
    /\ reader = "header" /\ it = 1 /\ sent = 0
    /\ hash = IF verify THEN "run" ELSE "gone"
    /\ hand = <<>> /\ sum = <<>>
    /\ sock = "loop" /\ out = <<>> /\ wire = <<>> /\ result = "none"
    /\ q1 = <<>> /\ q2 = <<>> /\ pool = Buffers
    /\ changed = FALSE

-----------------------------------------------------------------------------
(* The channels.                                                           *)

\* rx and pool_tx are dropped when the loop is left early.
LoopLeft == sock = "done"

\* Variation of PoolClosed: the pool's sender outlives the loop.
PoolKept == FALSE

\* pool.recv() fails: pool_tx is dropped and no buffer waits.
PoolClosed == LoopLeft /\ pool = 0

\* The stage the reader feeds has dropped its receiver.
NextStageGone == IF verify THEN hash = "gone" ELSE LoopLeft

\* Variation of Push: an unbounded channel.
PushUnbounded(m) ==
    /\ ~NextStageGone
    /\ IF verify THEN q1' = Append(q1, m) /\ UNCHANGED q2
                 ELSE q2' = Append(q2, m) /\ UNCHANGED q1

\* tx.send(m) succeeds.
Push(m) ==
    /\ ~NextStageGone
    /\ IF verify
       THEN Len(q1) < Depth /\ q1' = Append(q1, m) /\ UNCHANGED q2
       ELSE Len(q2) < Depth /\ q2' = Append(q2, m) /\ UNCHANGED q1

-----------------------------------------------------------------------------
(* The reader: read_items and stream_file.                                 *)

NextItem == reader' = "header" /\ it' = it + 1 /\ sent' = 0

\* The header the walk encoded goes first.
SendHeader ==
    /\ reader = "header" /\ it <= Len(items)
    /\ Push(Msg("Header", it, <<Header(it)>>))
    /\ \/ Me.kind = "Dir" /\ NextItem
       \/ Me.kind = "Symlink" /\ reader' = "link" /\ UNCHANGED <<it, sent>>
       \/ Me.kind = "File" /\ reader' = "open" /\ UNCHANGED <<it, sent>>
    /\ UNCHANGED <<items, verify, hashVars, sockVars, pool, changed>>

ReaderEnds ==
    /\ reader = "header" /\ it > Len(items)
    /\ reader' = "gone"
    /\ UNCHANGED <<items, verify, it, sent, hashVars, sockVars, q1, q2, pool, changed>>

\* A header, a target or its digest cannot be sent: the reader returns.
ReaderStops ==
    /\ reader \in {"header", "target", "digest"} /\ it <= Len(items) /\ NextStageGone
    /\ reader' = "gone"
    /\ UNCHANGED <<items, verify, it, sent, hashVars, sockVars, q1, q2, pool, changed>>

\* read_link: the target has the length announced, or the send is aborted.
ReadLink ==
    /\ reader = "link"
    /\ \/ reader' = "target" /\ UNCHANGED changed
       \/ reader' = "error" /\ changed' = TRUE
    /\ UNCHANGED <<items, verify, it, sent, hashVars, sockVars, q1, q2, pool>>

SendTarget ==
    /\ reader = "target"
    /\ Push(Msg("Target", it, Units(it, 0, Me.size)))
    /\ IF verify THEN reader' = "digest" /\ UNCHANGED <<it, sent>> ELSE NextItem
    /\ UNCHANGED <<items, verify, hashVars, sockVars, pool, changed>>

\* A symlink's digest is computed by the reader itself.
SendTargetDigest ==
    /\ reader = "digest"
    /\ Push(Msg("Digest", it, <<Digest(it, Units(it, 0, Me.size))>>))
    /\ NextItem
    /\ UNCHANGED <<items, verify, hashVars, sockVars, pool, changed>>

\* Where stream_file goes once n units are in messages.
AfterChunk(n) == IF n < Me.size THEN "buf" ELSE IF verify THEN "end" ELSE "next"

OpenFile ==
    /\ reader = "open"
    /\ \/ reader' = AfterChunk(0) /\ UNCHANGED changed
       \/ reader' = "error" /\ changed' = TRUE
    /\ UNCHANGED <<items, verify, it, sent, hashVars, sockVars, q1, q2, pool>>

\* pooled_recv; with the socket loop gone stream_file returns Ok, since the
\* loop has the error worth reporting.
TakeBuffer ==
    /\ reader = "buf"
    /\ \/ pool > 0 /\ pool' = pool - 1 /\ reader' = "fill"
       \/ PoolClosed /\ reader' = "next" /\ UNCHANGED pool
    /\ UNCHANGED <<items, verify, it, sent, hashVars, sockVars, q1, q2, changed>>

\* Variation of ShortRead: a file that shrank just ends.
ShortReadEnds == reader' = "next" /\ changed' = TRUE

\* The file shrank since the walk, or a read failed: abort.
ShortRead == reader' = "error" /\ changed' = TRUE

\* Read until the buffer holds min(rest, CHUNK): never past the size announced.
FillBuffer ==
    /\ reader = "fill"
    /\ \/ reader' = "chunk" /\ UNCHANGED changed
       \/ ShortRead
    /\ UNCHANGED <<items, verify, it, sent, hashVars, sockVars, q1, q2, pool>>

SendChunk ==
    /\ reader = "chunk"
    /\ LET n == MinOf(Me.size, sent + Chunk) IN
         /\ Push(Msg("Chunk", it, Units(it, sent, n)))
         /\ sent' = n
         /\ reader' = AfterChunk(n)
    /\ UNCHANGED <<items, verify, it, hashVars, sockVars, pool, changed>>

\* EndPayload asks the hash stage for the digest.
SendEndPayload ==
    /\ reader = "end"
    /\ Push(Msg("EndPayload", it, <<>>))
    /\ NextItem
    /\ UNCHANGED <<items, verify, hashVars, sockVars, pool, changed>>

\* stream_file returns Ok also when a chunk or the EndPayload cannot be sent.
FileReturns ==
    /\ \/ reader = "next"
       \/ reader \in {"chunk", "end"} /\ NextStageGone
    /\ NextItem
    /\ UNCHANGED <<items, verify, hashVars, sockVars, q1, q2, pool, changed>>

\* The error goes down the same channel, behind what is queued, and the reader
\* returns whether or not it could be sent.
SendError ==
    /\ reader = "error"
    /\ \/ Push(Msg("Err", it, <<>>))
       \/ NextStageGone /\ UNCHANGED <<q1, q2>>
    /\ reader' = "gone"
    /\ UNCHANGED <<items, verify, it, sent, hashVars, sockVars, pool, changed>>

-----------------------------------------------------------------------------
(* The hash stage: hash_items.                                             *)

\* Variation of SumAfterDigest: no hasher.reset().
SumNotReset == sum

\* finalize, then hasher.reset().
SumAfterDigest == <<>>

\* Variation of Forwarded: an error is not the stage's business.
OnlyData(m) == IF m.kind = "Err" THEN <<>> ELSE <<m>>

\* Anything but a chunk or an EndPayload passes as it is.
Forwarded(m) == <<m>>

HashTake ==
    /\ hash = "run" /\ hand = <<>> /\ q1 # <<>>
    /\ LET m == Head(q1) IN
         \/ /\ m.kind = "Chunk"
            /\ sum' = sum \o m.tokens /\ hand' = <<m>>
         \/ /\ m.kind = "EndPayload"
            /\ hand' = <<Msg("Digest", m.of, <<Digest(m.of, sum)>>)>> /\ sum' = SumAfterDigest
         \/ /\ m.kind \notin {"Chunk", "EndPayload"}
            /\ hand' = Forwarded(m) /\ UNCHANGED sum
    /\ q1' = Tail(q1)
    /\ UNCHANGED <<items, verify, readerVars, hash, sockVars, q2, pool, changed>>

HashForward ==
    /\ hash = "run" /\ hand # <<>> /\ ~LoopLeft /\ Len(q2) < Depth
    /\ q2' = Append(q2, hand[1])
    /\ hand' = <<>>
    /\ UNCHANGED <<items, verify, readerVars, hash, sum, sockVars, q1, pool, changed>>

\* The socket loop is gone: the stage returns and drops what it was sent.
HashStops ==
    /\ hash = "run" /\ hand # <<>> /\ LoopLeft
    /\ hash' = "gone" /\ hand' = <<>> /\ q1' = <<>>
    /\ UNCHANGED <<items, verify, readerVars, sum, sockVars, q2, pool, changed>>

HashEnds ==
    /\ hash = "run" /\ hand = <<>> /\ q1 = <<>> /\ reader = "gone"
    /\ hash' = "gone"
    /\ UNCHANGED <<items, verify, readerVars, hand, sum, sockVars, q1, q2, pool, changed>>

-----------------------------------------------------------------------------
(* The socket loop and the end of the lane.                                *)

\* The loop is left with an error: rx is dropped with everything queued.
LoopFails(why) ==
    /\ sock' = "done" /\ result' = why
    /\ out' = <<>> /\ q2' = <<>>

SockTake ==
    /\ sock = "loop" /\ out = <<>> /\ q2 # <<>>
    /\ IF Head(q2).kind = "Err" THEN LoopFails("source") /\ UNCHANGED <<wire, pool>>
       ELSE /\ out' = <<Head(q2)>> /\ q2' = Tail(q2)
            /\ UNCHANGED <<sock, wire, result, pool>>
    /\ UNCHANGED <<items, verify, readerVars, hashVars, q1, changed>>

\* Variation of Recycled: the buffer is dropped after the write.
BufferKept == pool

\* pool_tx.send(buf): fails once the reader has returned.
Recycled == IF reader = "gone" THEN pool ELSE pool + 1

\* write_all succeeds; a chunk's buffer goes back to the pool.
SockWrite ==
    /\ sock = "loop" /\ out # <<>>
    /\ wire' = wire \o out[1].tokens
    /\ pool' = IF out[1].kind = "Chunk" THEN Recycled ELSE pool
    /\ out' = <<>>
    /\ UNCHANGED <<items, verify, readerVars, hashVars, sock, result, q1, q2, changed>>

\* write_all fails (the peer is gone, or took nothing for IDLE_TIMEOUT), with
\* any part of the message on the wire.
SockFails ==
    /\ sock = "loop" /\ out # <<>>
    /\ \E n \in 0 .. Len(out[1].tokens) : wire' = wire \o SubSeq(out[1].tokens, 1, n)
    /\ LoopFails("socket")
    /\ UNCHANGED <<items, verify, readerVars, hashVars, q1, pool, changed>>

\* rx is closed and drained.
SockEnds ==
    /\ sock = "loop" /\ out = <<>> /\ q2 = <<>>
    /\ IF verify THEN hash = "gone" ELSE reader = "gone"
    /\ sock' = "join"
    /\ UNCHANGED <<items, verify, readerVars, hashVars, out, wire, result, q1, q2, pool, changed>>

\* Both joins, then the terminator.
Finish ==
    /\ sock = "join" /\ reader = "gone" /\ hash = "gone"
    /\ sock' = "done"
    /\ \/ wire' = Append(wire, Terminator) /\ result' = "ok"
       \/ result' = "socket" /\ UNCHANGED wire
    /\ UNCHANGED <<items, verify, readerVars, hashVars, out, q1, q2, pool, changed>>

-----------------------------------------------------------------------------
ReaderStep ==
    \/ SendHeader \/ ReaderEnds \/ ReaderStops \/ ReadLink \/ SendTarget
    \/ SendTargetDigest \/ OpenFile \/ TakeBuffer \/ FillBuffer \/ SendChunk
    \/ SendEndPayload \/ FileReturns \/ SendError
HashStep == HashTake \/ HashForward \/ HashStops \/ HashEnds
SockStep == SockTake \/ SockWrite \/ SockFails \/ SockEnds \/ Finish

AllGone == sock = "done" /\ reader = "gone" /\ hash = "gone"
Returned == AllGone /\ UNCHANGED vars

Next == ReaderStep \/ HashStep \/ SockStep \/ Returned
Spec == Init /\ [][Next]_vars

\* Threads are scheduled, and a write to a peer that takes nothing ends in
\* IDLE_TIMEOUT.
Fairness == WF_vars(ReaderStep) /\ WF_vars(HashStep) /\ WF_vars(SockStep)
FairSpec == Spec /\ Fairness
-----------------------------------------------------------------------------
(* Properties.                                                             *)

Message ==
    [kind : {"Target", "Chunk"}, of : Nat, tokens : Seq(UnitToken)] \cup
    [kind : {"Header", "Digest", "EndPayload", "Err"}, of : Nat, tokens : Seq(Token)]

\* Every variable keeps its type, and no channel or pool holds more than its
\* sync_channel was made for (send_lane_inner).
TypeOK ==
    /\ items \in Lists /\ verify \in BOOLEAN
    /\ reader \in {"header", "link", "target", "digest", "open", "buf", "fill", "chunk", "end",
                   "next", "error", "gone"}
    /\ it \in 1 .. Len(items) + 1 /\ (reader \notin {"header", "gone"} => it <= Len(items))
    /\ sent \in Nat
    /\ hash \in {"run", "gone"} /\ hand \in Seq(Message) /\ Len(hand) <= 1
    /\ sum \in Seq(UnitToken)
    /\ sock \in {"loop", "join", "done"} /\ out \in Seq(Message) /\ Len(out) <= 1
    /\ wire \in Seq(Token) /\ result \in {"none", "ok", "source", "socket"}
    /\ q1 \in Seq(Message) /\ Len(q1) <= Depth
    /\ q2 \in Seq(Message) /\ Len(q2) <= Depth
    /\ pool \in 0 .. Buffers /\ changed \in BOOLEAN

\* While the lane runs every buffer is in the pool, with the reader, in a queue
\* or being written: the pool that bounds memory never leaks one
\* (send_lane_inner, stream_file).
ChunksIn(q) == Cardinality({k \in 1 .. Len(q) : q[k].kind = "Chunk"})
BuffersConserved ==
    sock = "loop" /\ reader \notin {"error", "gone"} =>
        pool + (IF reader \in {"fill", "chunk"} THEN 1 ELSE 0)
             + ChunksIn(q1) + ChunksIn(hand) + ChunksIn(q2) + ChunksIn(out) = Buffers

\* Without the hash stage the reader never waits for a buffer: "one buffer per
\* queue slot, plus one being filled by the reader and one being written", "any
\* fewer and the pipeline stalls on itself" (send_lane_inner).
ReaderNeverStarved == ~verify /\ sock = "loop" /\ reader = "buf" => pool > 0

\* A source that cannot be read, gives fewer bytes than announced or whose link
\* target is of another length never ends in success (the code does not see a
\* change that keeps the length): the error overtakes nothing and is not overtaken
\* by the closing of the channel (read_items, hash_items).
ChangeSurfaces == changed => result # "ok"

\* The lane implements its promise, liveness included: the wire is always a
\* prefix of the frames, each digest covering exactly its own payload, the
\* terminator comes after all of them, and the lane always returns.
Lane == INSTANCE LaneSpec
LaneKeepsPromise == Lane!Spec

\* All three threads end, whichever leaves first: "neither side can be left
\* blocked on a channel the other still holds" (send_lane_inner). A detached
\* reader would hold its file and its buffers for the life of the process.
ThreadsEnd == <>AllGone
=============================================================================
