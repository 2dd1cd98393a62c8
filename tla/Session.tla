------------------------------ MODULE Session ------------------------------
(***************************************************************************)
(* One run of the receiver (accept_one, accept_multi) and the senders that *)
(* reach its one listener (send_to_diag_streamed, send_multi): handshakes, *)
(* the manifest and its answer, the pairing of the v4 flows, the data      *)
(* phase and the acknowledgement.                                          *)
(*                                                                         *)
(* A flow's data phase is what SendLane and RecvPipeline promise of it: a  *)
(* lane returns ok only with all its items and the terminator on the wire, *)
(* a pipeline returns ok only once they are all in the destination, and    *)
(* either may fail at any time.  A machine may also vanish: it stops, and  *)
(* its peer hears nothing more, not even that the connection closed.       *)
(*                                                                         *)
(* A definition marked "Variation" is not part of the system: it is the    *)
(* definition after it with a plausible mistake, kept to show that a       *)
(* property depends on the code being as it is.                            *)
(***************************************************************************)
EXTENDS Integers, Sequences, FiniteSets

CONSTANTS
    Senders,    \* the tf send processes that reach this receiver
    Flows,      \* the flow count of each: 1 speaks v3, more speaks v4
    Knows,      \* the senders that have the receiver's phrase
    Verifies,   \* the senders that verify
    Offer,      \* the entries each offers, in walk order
    Files,      \* the entries that are Files, which alone may be skipped
    MaxStreams  \* MAX_STREAMS

\* streams_count() clamps to MAX_STREAMS, so no sender announces more.
ASSUME SessionAssumption ==
    /\ MaxStreams \in Nat \ {0, 1}
    /\ Flows \in [Senders -> 1 .. MaxStreams]
    /\ Knows \subseteq Senders
    /\ Verifies \subseteq Senders
    /\ \A s \in Senders : Offer[s] \in Seq(Nat)
    /\ Files \subseteq Nat

Items(s) == {Offer[s][k] : k \in DOMAIN Offer[s]}

\* A connection is <<s, i>>: flow i of sender s. Flow 0 is the primary.
Conns      == Senders \X (0 .. MaxStreams - 1)
From(c)    == c[1]
Index(c)   == c[2]
Primary(s) == <<s, 0>>
Flow(s)    == {s} \X (0 .. Flows[s] - 1)

VARIABLES
    spc,        \* where each sender is
    said,       \* handshakes it has written: flows 0 .. said - 1
    lane,       \* how each lane ended, "none" before
    alive,      \* connections whose sending end has not closed
    listed,     \* senders whose manifest is on the wire
    backlog,    \* connections the listener has not accepted
    rpc,        \* where the receiver is
    taken,      \* connections it has accepted, in order
    replied,    \* senders whose bitmap is on the wire
    answer,     \* the entries the bitmap marks as held
    pipe,       \* how each pipeline ended, "none" before
    stored,     \* entries the destination holds
    acked,      \* senders whose acknowledgement is on the wire
    committed   \* senders whose session passed the directory flush (history)

senderVars == <<spc, said, lane, alive, listed>>
recvVars   == <<rpc, taken, replied, answer, pipe, stored, acked, committed>>
vars == <<senderVars, backlog, recvVars>>

Returned  == rpc \in {"ok", "err"}
Listening == rpc \notin {"ok", "err", "gone"}
SenderOver(s) == spc[s] \in {"ok", "failed", "gone"}

Session == From(taken[1])
Newest  == taken[Len(taken)]
Taken   == {taken[k] : k \in DOMAIN taken}

\* keep_unskipped: the positions whose entries still travel.
Kept(s) == {k \in DOMAIN Offer[s] : Offer[s][k] \notin answer}

\* The deal: the kept entry with n kept ones before it goes to flow n mod count.
Ahead(s, k) == Cardinality({j \in Kept(s) : j < k})
Dealt(c) ==
    LET s == From(c) IN
    {Offer[s][k] : k \in {j \in Kept(s) : Ahead(s, j) % Flows[s] = Index(c)}}

Init ==
    /\ spc = [s \in Senders |-> "start"] /\ said = [s \in Senders |-> 0]
    /\ lane = [c \in Conns |-> "none"]
    /\ alive = {} /\ listed = {} /\ backlog = <<>>
    /\ rpc = "accept" /\ taken = <<>> /\ replied = {} /\ answer = {}
    /\ pipe = [c \in Conns |-> "none"]
    /\ stored \in SUBSET (Files \cap UNION {Items(s) : s \in Senders})
    /\ acked = {} /\ committed = {}

-----------------------------------------------------------------------------
(* A sender.                                                               *)

Becomes(s, where) == spc' = [spc EXCEPT ![s] = where]

\* The process ends and the kernel closes its connections.
Exits(s, where) ==
    /\ Becomes(s, where)
    /\ alive' = {c \in alive : From(c) # s}
    /\ UNCHANGED <<said, lane, listed, backlog, recvVars>>

\* connect: the kernel completes it whatever the receiver is doing.
Connect(s) ==
    /\ spc[s] \in {"start", "band"} /\ Listening
    /\ alive' = alive \cup {<<s, said[s]>>}
    /\ backlog' = Append(backlog, <<s, said[s]>>)
    /\ Becomes(s, "hello")
    /\ UNCHANGED <<said, lane, listed, recvVars>>

\* Variation of MoreBands: 1..=count.
OneBandMore(s) == said[s] < Flows[s]

\* for index in 1..count.
MoreBands(s) == said[s] + 1 < Flows[s]

\* The handshake, the primary's or a band's; the lanes start after the last.
SayHello(s) ==
    /\ spc[s] = "hello"
    /\ said' = [said EXCEPT ![s] = @ + 1]
    /\ Becomes(s, IF said[s] = 0 THEN "manifest"
                  ELSE IF MoreBands(s) THEN "band" ELSE "data")
    /\ UNCHANGED <<lane, alive, listed, backlog, recvVars>>

SendManifest(s) ==
    /\ spc[s] = "manifest"
    /\ listed' = listed \cup {s}
    /\ Becomes(s, "bitmap")
    /\ UNCHANGED <<said, lane, alive, backlog, recvVars>>

\* read_bitmap.
ReadBitmap(s) ==
    /\ spc[s] = "bitmap" /\ s \in replied
    /\ Becomes(s, IF Flows[s] = 1 THEN "data" ELSE "band")
    /\ UNCHANGED <<said, lane, alive, listed, backlog, recvVars>>

\* send_lane returns. A band's connection is dropped with it; the primary's is
\* the session's.
LaneEnds(s) ==
    /\ spc[s] = "data"
    /\ \E c \in Flow(s), how \in {"ok", "err"} :
         /\ lane[c] = "none"
         /\ lane' = [lane EXCEPT ![c] = how]
         /\ alive' = alive \ ({c} \ {Primary(s)})
    /\ UNCHANGED <<spc, said, listed, backlog, recvVars>>

\* The scope joins every lane, whichever failed.
JoinLanes(s) ==
    /\ spc[s] = "data" /\ \A c \in Flow(s) : lane[c] # "none"
    /\ \/ /\ \A c \in Flow(s) : lane[c] = "ok"
          /\ Becomes(s, "ack")
          /\ UNCHANGED <<said, lane, alive, listed, backlog, recvVars>>
       \/ /\ \E c \in Flow(s) : lane[c] = "err"
          /\ Exits(s, "failed")

\* Variation of AckRead: the end of the stream is taken for success.
AckOrEnd(s) == s \in acked \/ Returned

\* read_ack: one byte, and nothing else, means success.
AckRead(s) == s \in acked

ReadAck(s) ==
    /\ spc[s] = "ack" /\ AckRead(s)
    /\ Exits(s, "ok")

\* Variation of SenderTimesOut: a sender that never calls set_timeouts.
SenderWaits == FALSE

\* IDLE_TIMEOUT is set on every connection of a sender.
SenderTimesOut == TRUE

\* A connect is refused; a read or a write meets a closed connection or a
\* timeout.
SenderFails(s) ==
    /\ \/ spc[s] \in {"start", "band"} /\ ~Listening
       \/ spc[s] \in {"hello", "manifest", "bitmap", "ack"} /\ (Returned \/ SenderTimesOut)
    /\ Exits(s, "failed")

\* The process is killed, or its machine vanishes and nothing is closed.
SenderStops(s) ==
    /\ ~SenderOver(s)
    /\ \/ Exits(s, "failed")
       \/ Becomes(s, "gone") /\ UNCHANGED <<said, lane, alive, listed, backlog, recvVars>>

SenderStep(s) ==
    \/ Connect(s) \/ SayHello(s) \/ SendManifest(s) \/ ReadBitmap(s)
    \/ LaneEnds(s) \/ JoinLanes(s) \/ ReadAck(s) \/ SenderFails(s)

-----------------------------------------------------------------------------
(* The receiver.                                                           *)

\* accept, for the primary and for each band. It has no timeout.
Accept ==
    /\ rpc \in {"accept", "band"} /\ backlog # <<>>
    /\ taken' = Append(taken, Head(backlog))
    /\ backlog' = Tail(backlog)
    /\ rpc' = IF rpc = "accept" THEN "shake" ELSE "bandshake"
    /\ UNCHANGED <<senderVars, replied, answer, pipe, stored, acked, committed>>

Heard(c) == Index(c) < said[From(c)]

\* verify_handshake on the primary.
Admits(c) ==
    /\ From(c) \in Knows
    /\ Flows[From(c)] = 1 \/ (Index(c) = 0 /\ Flows[From(c)] \in 2 .. MaxStreams)

\* Variation of Pairs: the index is only bounded above.
PairsAnyIndex(c) ==
    /\ From(c) \in Knows
    /\ Flows[From(c)] > 1
    /\ Flows[From(c)] = Flows[Session]
    /\ Index(c) < Flows[Session]
    /\ (From(c) \in Verifies) = (Session \in Verifies)

\* What accept_multi asks of a band: token, version, count, index, verify flag.
Pairs(c) ==
    /\ From(c) \in Knows
    /\ Flows[From(c)] > 1
    /\ Flows[From(c)] = Flows[Session]
    /\ Index(c) # 0 /\ Index(c) < Flows[Session]
    /\ (From(c) \in Verifies) = (Session \in Verifies)

ReceiverBecomes(where) ==
    /\ rpc' = where
    /\ UNCHANGED <<senderVars, backlog, taken, replied, answer, pipe, stored, acked, committed>>

\* Variation of Shake: the receiver goes on listening after a refusal.
ShakeAgain ==
    /\ rpc = "shake" /\ Heard(Newest)
    /\ ReceiverBecomes(IF Admits(Newest) THEN "manifest" ELSE "accept")

\* The primary's handshake; any refusal ends the run.
Shake ==
    /\ rpc = "shake" /\ Heard(Newest)
    /\ ReceiverBecomes(IF Admits(Newest) THEN "manifest" ELSE "err")

\* A band's handshake; the pipelines start after the last.
BandShake ==
    /\ rpc = "bandshake" /\ Heard(Newest)
    /\ ReceiverBecomes(IF ~Pairs(Newest) THEN "err"
                       ELSE IF Len(taken) < Flows[Session] THEN "band" ELSE "data")

\* answer_manifest: one bit per File, set when the destination holds it.
AnswerManifest ==
    /\ rpc = "manifest" /\ Session \in listed
    /\ answer' = stored \cap Files \cap Items(Session)
    /\ replied' = replied \cup {Session}
    /\ rpc' = IF Flows[Session] = 1 THEN "data" ELSE "band"
    /\ UNCHANGED <<senderVars, backlog, taken, pipe, stored, acked, committed>>

\* run_pipeline returns: ok past the terminator, with everything written; with
\* an error anywhere before, when some of it may be.
PipeEnds ==
    /\ rpc = "data"
    /\ \E c \in Taken :
         /\ pipe[c] = "none"
         /\ \/ /\ lane[c] = "ok"
               /\ pipe' = [pipe EXCEPT ![c] = "ok"]
               /\ stored' = stored \cup Dealt(c)
            \/ /\ pipe' = [pipe EXCEPT ![c] = "err"]
               /\ \E some \in SUBSET Dealt(c) : stored' = stored \cup some
    /\ UNCHANGED <<senderVars, backlog, rpc, taken, replied, answer, acked, committed>>

\* Variation of AllPiped: only the primary's own result is looked at.
PrimaryPiped == pipe[taken[1]] = "ok"

AllPiped == \A c \in Taken : pipe[c] = "ok"

\* The scope joins every pipeline; one error is the session's.
JoinPipes ==
    /\ rpc = "data" /\ \A c \in Taken : pipe[c] # "none"
    /\ ReceiverBecomes(IF AllPiped THEN "flush" ELSE "err")

\* flush_directories.
Flush ==
    /\ rpc = "flush"
    /\ rpc' = "ack"
    /\ committed' = committed \cup {Session}
    /\ UNCHANGED <<senderVars, backlog, taken, replied, answer, pipe, stored, acked>>

\* The one acknowledgement, on the primary; then the run returns.
Ack ==
    /\ rpc = "ack"
    /\ acked' = acked \cup {Session}
    /\ rpc' = "ok"
    /\ UNCHANGED <<senderVars, backlog, taken, replied, answer, pipe, stored, committed>>

\* Variation of ReceiverTimesOut: an accepted connection is read without one.
ReceiverWaits == FALSE

\* HANDSHAKE_TIMEOUT, then IDLE_TIMEOUT, on every accepted connection.
ReceiverTimesOut == TRUE

\* A read meets the end of a connection or a timeout; a reply or a flush fails.
ReceiverFails ==
    /\ \/ rpc \in {"shake", "bandshake"} /\ (Newest \notin alive \/ ReceiverTimesOut)
       \/ rpc = "manifest" /\ (taken[1] \notin alive \/ ReceiverTimesOut)
       \/ rpc \in {"flush", "ack"}
    /\ ReceiverBecomes("err")

\* A socket call fails, the process is killed, or its machine vanishes.
ReceiverStops ==
    /\ Listening
    /\ \E end \in {"err", "gone"} : ReceiverBecomes(end)

ReceiverStep ==
    \/ Accept \/ Shake \/ BandShake \/ AnswerManifest
    \/ PipeEnds \/ JoinPipes \/ Flush \/ Ack \/ ReceiverFails

-----------------------------------------------------------------------------
Next ==
    \/ \E s \in Senders : SenderStep(s) \/ SenderStops(s)
    \/ ReceiverStep \/ ReceiverStops

\* The scheduler runs every thread that can run, and armed timeouts fire. Nobody
\* has to connect or to stop.
Fairness == WF_vars(ReceiverStep) /\ \A s \in Senders : WF_vars(SenderStep(s))

Spec == Init /\ [][Next]_vars /\ Fairness

-----------------------------------------------------------------------------
(* Type correctness of the senders' and the receiver's state.              *)
TypeOK ==
    /\ spc \in [Senders -> {"start", "hello", "manifest", "bitmap", "band", "data",
                            "ack", "ok", "failed", "gone"}]
    /\ said \in [Senders -> 0 .. MaxStreams]
    /\ lane \in [Conns -> {"none", "ok", "err"}]
    /\ alive \subseteq Conns /\ listed \subseteq Senders
    /\ backlog \in Seq(Conns) /\ taken \in Seq(Conns)
    /\ rpc \in {"accept", "shake", "manifest", "band", "bandshake", "data",
                "flush", "ack", "ok", "err", "gone"}
    /\ replied \subseteq Senders /\ answer \subseteq Nat
    /\ pipe \in [Conns -> {"none", "ok", "err"}]
    /\ stored \subseteq Nat
    /\ acked \subseteq Senders /\ committed \subseteq Senders

(* The flows whose data is received are those of one sender that has the   *)
(* phrase, each once, the primary first.  accept_multi never asks that two *)
(* bands differ in index, nor that they come from the primary's sender: it *)
(* follows from what it does ask and from the order a sender connects in.  *)
FlowsAgree ==
    rpc \in {"data", "flush", "ack"} =>
        /\ Session \in Knows
        /\ taken[1] = Primary(Session)
        /\ Len(taken) = Flows[Session]
        /\ Taken = Flow(Session)

(* A phrase is guessed at most once: only the last connection the receiver *)
(* has accepted may lack it, and then the run comes to nothing.  "The      *)
(* receiver accepts exactly one connection per run, so an attacker on the  *)
(* cable gets a single guess" (phrase.rs:7), in v4 with its bands too.     *)
OneGuess ==
    /\ \A k \in 1 .. Len(taken) - 1 : From(taken[k]) \in Knows
    /\ rpc \in {"manifest", "band", "data", "flush", "ack", "ok"} => \A c \in Taken : From(c) \in Knows

(* A sender that reports success has its whole offer in the destination:   *)
(* what the bitmap let it skip, and what each of its lanes was dealt       *)
(* (keep_unskipped, the deal, the joins and the one acknowledgement).      *)
SuccessMeansStored == \A s \in Senders : spc[s] = "ok" => Items(s) \subseteq stored

\* What each sender was told, in the terms of Transfer.
Outcome == [s \in Senders |-> IF spc[s] = "ok" THEN "ok"
                              ELSE IF spc[s] \in {"failed", "gone"} THEN "failed" ELSE "none"]
Promise == INSTANCE Transfer WITH outcome <- Outcome

(* A run commits at most one sender's offer, and only that sender learns   *)
(* of success, after the directory flush (accept_multi, read_ack).         *)
TransferKept == Promise!Spec

(* Every sender returns, whatever the receiver does: nothing it waits for  *)
(* is without a timeout (set_timeouts in send_to_diag_streamed and         *)
(* send_multi).                                                            *)
SenderReturns == \A s \in Senders : <>SenderOver(s)

(* Once a connection is accepted the receiver returns, unless it is in     *)
(* accept waiting for the band of a sender that is no more (accept_multi). *)
OnlyTheBandIsAwaited ==
    (taken # <<>>) ~> (\/ ~Listening
                       \/ rpc = "band" /\ SenderOver(Session))

(* "Neither end blocks forever on a peer that goes quiet" (README).        *)
NeverBlocksForever == (taken # <<>>) ~> ~Listening
=============================================================================
