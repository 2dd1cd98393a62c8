---------------------------- MODULE SessionProofs ----------------------------
(***************************************************************************)
(* What holds of Session for any number of senders, with any flow counts,  *)
(* phrases, offers and limit of flows: the state is typed, the flows that  *)
(* are received together belong together, success means stored, and the    *)
(* run keeps the promise of Transfer.                                      *)
(***************************************************************************)
EXTENDS Session, FiniteSetTheorems, TLAPS

-----------------------------------------------------------------------------
(* The inductive invariant, in parts.                                      *)

\* How many handshakes a sender has written, by where it is; past the first it
\* has read the bitmap.
SenderInv ==
    \A s \in Senders :
        /\ spc[s] = "start" => said[s] = 0
        /\ spc[s] = "hello" => said[s] < Flows[s]
        /\ spc[s] \in {"manifest", "bitmap"} => said[s] = 1
        /\ spc[s] = "band" => said[s] > 0 /\ said[s] < Flows[s]
        /\ (spc[s] = "hello" /\ said[s] > 0) \/ spc[s] = "band" => s \in replied

\* How many connections the receiver has, by where it is; only the first one's
\* sender gets a bitmap.
CountInv ==
    /\ rpc = "accept" => taken = <<>>
    /\ taken = <<>> => rpc \in {"accept", "err", "gone"}
    /\ \A s \in replied : taken # <<>> /\ s = Session
    /\ rpc \in {"shake", "manifest"} => Len(taken) = 1
    /\ rpc = "band" => Len(taken) < Flows[Session]
    /\ rpc = "bandshake" => Len(taken) > 1 /\ Len(taken) <= Flows[Session]
    /\ rpc \in {"data", "flush", "ack", "ok"} => Len(taken) = Flows[Session]
    /\ rpc \notin {"accept", "shake", "err", "gone"} => Session \in Knows

Waiting == {backlog[k] : k \in DOMAIN backlog}

\* Where a sender may have one connection more than it has written handshakes.
Undecided == {"hello", "failed", "gone"}

\* A connection arrives once, none arrives before it is made, and a band only
\* from a sender that was answered.
ArrivalInv ==
    /\ \A j, k \in DOMAIN taken : taken[j] = taken[k] => j = k
    /\ \A j, k \in DOMAIN backlog : backlog[j] = backlog[k] => j = k
    /\ Taken \cap Waiting = {}
    /\ \A c \in Taken \cup Waiting :
          /\ Index(c) <= said[From(c)]
          /\ spc[From(c)] \notin Undecided => Index(c) < said[From(c)]
          /\ Index(c) # 0 => From(c) \in replied
    /\ taken # <<>> => Index(taken[1]) = 0

\* Every band but the one still to be heard has an index of its own session's.
BandInv ==
    rpc \in {"band", "bandshake", "data", "flush", "ack", "ok"} =>
        \A k \in DOMAIN taken :
            \/ k = 1
            \/ k = Len(taken) /\ rpc = "bandshake"
            \/ Index(taken[k]) # 0 /\ Index(taken[k]) < Flows[Session]

\* Success travels from the flush to the acknowledgement to the sender.
CommitInv ==
    /\ rpc \notin {"ack", "ok", "err", "gone"} => committed = {}
    /\ rpc = "ack" => Session \in committed
    /\ \A s \in committed : taken # <<>> /\ s = Session
    /\ acked \subseteq committed
    /\ \A s \in Senders : spc[s] = "ok" => s \in acked

\* What is held or was received by a pipeline that ended well is stored.
StoreInv ==
    /\ answer \subseteq stored
    /\ \A c \in Conns : pipe[c] = "ok" => Dealt(c) \subseteq stored
    /\ rpc \in {"accept", "shake", "manifest", "band", "bandshake"} =>
          \A c \in Conns : pipe[c] = "none"
    /\ rpc = "flush" => \A c \in Taken : pipe[c] = "ok"
    /\ \A s \in committed : Items(s) \subseteq stored

TypeInv == TypeOK /\ SenderInv /\ CountInv
PairInv == TypeInv /\ ArrivalInv /\ BandInv

-----------------------------------------------------------------------------
(* The facts about the constants every proof below starts from.            *)
LEMMA FlowFacts ==
    /\ MaxStreams \in Nat /\ MaxStreams > 1
    /\ \A s \in Senders : Flows[s] \in Nat /\ Flows[s] > 0 /\ Flows[s] <= MaxStreams
    /\ \A s \in Senders : Offer[s] \in Seq(Nat) /\ Items(s) \subseteq Nat
  BY SessionAssumption DEF Items

LEMMA ConnFacts ==
    /\ \A s \in Senders, i \in Nat : i < MaxStreams => <<s, i>> \in Conns
    /\ \A c \in Conns : /\ From(c) \in Senders
                        /\ Index(c) \in Nat /\ Index(c) < MaxStreams
                        /\ c = <<From(c), Index(c)>>
    /\ \A s \in Senders : Flow(s) \subseteq Conns
    /\ \A s \in Senders, i \in Nat : <<s, i>> \in Flow(s) <=> i < Flows[s]
    /\ \A s, i : From(<<s, i>>) = s /\ Index(<<s, i>>) = i
  <1>1. \A s, i : From(<<s, i>>) = s /\ Index(<<s, i>>) = i  BY DEF From, Index
  <1>2. \A s \in Senders, i \in Nat : i < MaxStreams => <<s, i>> \in Conns
    BY FlowFacts DEF Conns
  <1>3. \A c \in Conns : /\ From(c) \in Senders
                         /\ Index(c) \in Nat /\ Index(c) < MaxStreams
                         /\ c = <<From(c), Index(c)>>
    BY FlowFacts DEF Conns, From, Index
  <1>4. \A s \in Senders : Flow(s) \subseteq Conns  BY FlowFacts DEF Flow, Conns
  <1>5. \A s \in Senders, i \in Nat : <<s, i>> \in Flow(s) <=> i < Flows[s]
    BY FlowFacts DEF Flow
  <1> QED  BY <1>1, <1>2, <1>3, <1>4, <1>5

(* The session's sender is one of the senders.                             *)
LEMMA SessionFacts ==
    ASSUME TypeOK, taken # <<>>
    PROVE  /\ Session \in Senders /\ taken[1] \in Conns
           /\ Len(taken) \in Nat /\ Len(taken) > 0 /\ Newest \in Conns
           /\ Newest \in Taken /\ taken[1] \in Taken
  BY ConnFacts DEF TypeOK, Session, Newest, Taken

(* The entries dealt to a flow are entries.                                *)
LEMMA DealtType == ASSUME NEW c \in Conns  PROVE Dealt(c) \subseteq Nat
  BY ConnFacts, FlowFacts DEF Dealt, Kept

-----------------------------------------------------------------------------
(* Every step keeps the state typed and the counts in order.               *)
LEMMA TypeInit == Init => TypeInv
  <1> SUFFICES ASSUME Init  PROVE TypeInv  OBVIOUS
  <1>1. TypeOK  BY FlowFacts DEF Init, TypeOK
  <1> QED  BY <1>1 DEF Init, TypeInv, SenderInv, CountInv

(* A step of a sender.                                                     *)
LEMMA SenderType ==
    ASSUME TypeInv, NEW s \in Senders, SenderStep(s) \/ SenderStops(s)
    PROVE  TypeInv'
  <1> USE DEF TypeInv, TypeOK, SenderInv, recvVars
  <1>0. ASSUME UNCHANGED <<rpc, taken, replied>>  PROVE CountInv'
    BY <1>0 DEF CountInv, Session
  <1>1. CASE Connect(s)
    <2>1. said[s] \in Nat /\ said[s] < Flows[s]  BY <1>1, FlowFacts DEF Connect
    <2>2. <<s, said[s]>> \in Conns  BY <2>1, FlowFacts, ConnFacts
    <2>3. backlog' = Append(backlog, <<s, said[s]>>)  BY <1>1 DEF Connect
    <2>4. alive' \subseteq Conns  BY <1>1, <2>2 DEF Connect
    <2>5. backlog' \in Seq(Conns)  BY <2>2, <2>3
    <2>6. spc' = [spc EXCEPT ![s] = "hello"] /\ UNCHANGED <<said, lane, listed, recvVars>>
      BY <1>1 DEF Connect, Becomes
    <2>7. TypeOK'  BY <2>4, <2>5, <2>6
    <2>8. SenderInv'  BY <1>1, <2>1, <2>6 DEF Connect
    <2> QED  BY <1>0, <2>6, <2>7, <2>8
  <1>2. CASE SayHello(s)
    <2>1. said[s] + 1 \in 0 .. MaxStreams  BY <1>2, FlowFacts DEF SayHello
    <2>2. TypeOK'  BY <1>2, <2>1 DEF SayHello, Becomes
    <2>3. SenderInv'  BY <1>2, FlowFacts DEF SayHello, Becomes, MoreBands
    <2> QED  BY <1>0, <1>2, <2>2, <2>3 DEF SayHello
  <1>3. CASE SendManifest(s)
    <2>1. TypeOK'  BY <1>3 DEF SendManifest, Becomes
    <2>2. SenderInv'  BY <1>3 DEF SendManifest, Becomes
    <2> QED  BY <1>0, <1>3, <2>1, <2>2 DEF SendManifest
  <1>4. CASE ReadBitmap(s)
    <2>1. TypeOK'  BY <1>4 DEF ReadBitmap, Becomes
    <2>2. SenderInv'  BY <1>4, FlowFacts DEF ReadBitmap, Becomes
    <2> QED  BY <1>0, <1>4, <2>1, <2>2 DEF ReadBitmap
  <1>5. CASE LaneEnds(s)
    <2>1. TypeOK'  BY <1>5, ConnFacts DEF LaneEnds
    <2>2. SenderInv'  BY <1>5 DEF LaneEnds
    <2> QED  BY <1>0, <1>5, <2>1, <2>2 DEF LaneEnds
  <1>6. ASSUME NEW w \in {"ok", "failed"}, Exits(s, w)  PROVE TypeInv'
    <2>1. TypeOK'  BY <1>6 DEF Exits, Becomes
    <2>2. SenderInv'  BY <1>6 DEF Exits, Becomes
    <2> QED  BY <1>0, <1>6, <2>1, <2>2 DEF Exits
  <1>7. ASSUME NEW w \in {"ack", "gone"}, Becomes(s, w),
               UNCHANGED <<said, lane, alive, listed, backlog, recvVars>>
        PROVE TypeInv'
    <2>1. TypeOK'  BY <1>7 DEF Becomes
    <2>2. SenderInv'  BY <1>7 DEF Becomes
    <2> QED  BY <1>0, <1>7, <2>1, <2>2
  <1>8. CASE JoinLanes(s)  BY <1>6, <1>7, <1>8 DEF JoinLanes
  <1>9. CASE ReadAck(s)  BY <1>6, <1>9 DEF ReadAck
  <1>10. CASE SenderFails(s)  BY <1>6, <1>10 DEF SenderFails
  <1>11. CASE SenderStops(s)  BY <1>6, <1>7, <1>11 DEF SenderStops
  <1> QED
    BY <1>1, <1>2, <1>3, <1>4, <1>5, <1>8, <1>9, <1>10, <1>11 DEF SenderStep

(* A step of the receiver.                                                 *)
LEMMA ReceiverType ==
    ASSUME TypeInv, ReceiverStep \/ ReceiverStops
    PROVE  TypeInv'
  <1> USE DEF TypeInv, TypeOK, senderVars
  <1>0. ASSUME UNCHANGED <<spc, said>>, replied \subseteq replied'  PROVE SenderInv'
    BY <1>0 DEF SenderInv
  <1>a. taken # <<>> => Session \in Senders /\ Len(taken) \in Nat /\ Len(taken) > 0
    BY SessionFacts
  <1>b. taken # <<>> /\ taken' = taken => Session' = Session  BY DEF Session
  <1>1. CASE Accept
    <2>1. Head(backlog) \in Conns /\ Tail(backlog) \in Seq(Conns)  BY <1>1 DEF Accept
    <2>2. TypeOK'  BY <1>1, <2>1 DEF Accept
    <2>3. /\ taken' # <<>> /\ Len(taken') = Len(taken) + 1
          /\ taken # <<>> => Session' = Session
      BY <1>1, <2>1 DEF Accept, Session
    <2>4. CountInv'
      <3>1. CASE rpc = "accept"
        BY <1>1, <2>3, <3>1 DEF Accept, CountInv
      <3>2. CASE rpc = "band"
        BY <1>1, <1>a, <2>3, <3>2, FlowFacts DEF Accept, CountInv
      <3> QED  BY <1>1, <3>1, <3>2 DEF Accept
    <2> QED  BY <1>0, <1>1, <2>2, <2>4 DEF Accept
  <1>2. ASSUME NEW w, ReceiverBecomes(w), w \in {"err", "gone"}  PROVE TypeInv'
    <2>1. TypeOK'  BY <1>2 DEF ReceiverBecomes
    <2>2. CountInv'  BY <1>2 DEF ReceiverBecomes, CountInv, Session
    <2> QED  BY <1>0, <1>2, <2>1, <2>2 DEF ReceiverBecomes
  <1>3. CASE Shake
    <2>1. CASE Admits(Newest)
      <3>1. taken # <<>> /\ Len(taken) = 1  BY <1>3 DEF Shake, CountInv
      <3>2. Session \in Knows  BY <2>1, <3>1 DEF Admits, Session, Newest
      <3>3. TypeOK'  BY <1>3, <2>1 DEF Shake, ReceiverBecomes
      <3>4. CountInv'  BY <1>3, <1>b, <2>1, <3>1, <3>2 DEF Shake, ReceiverBecomes, CountInv
      <3> QED  BY <1>0, <1>3, <3>3, <3>4 DEF Shake, ReceiverBecomes
    <2> QED  BY <1>2, <1>3, <2>1 DEF Shake
  <1>4. CASE BandShake
    <2>1. CASE Pairs(Newest)
      <3>1. TypeOK'  BY <1>4, <2>1 DEF BandShake, ReceiverBecomes
      <3>2. CountInv'
        BY <1>4, <1>a, <1>b, <2>1, FlowFacts DEF BandShake, ReceiverBecomes, CountInv
      <3> QED  BY <1>0, <1>4, <3>1, <3>2 DEF BandShake, ReceiverBecomes
    <2> QED  BY <1>2, <1>4, <2>1 DEF BandShake
  <1>5. CASE AnswerManifest
    <2>1. taken # <<>>  BY <1>5 DEF AnswerManifest, CountInv
    <2>2. TypeOK'  BY <1>5, <1>a, <2>1 DEF AnswerManifest
    <2>3. /\ rpc = "manifest" /\ UNCHANGED taken
          /\ replied' = replied \cup {Session}
      BY <1>5 DEF AnswerManifest
    <2>4. \/ rpc' = "data" /\ Flows[Session] = 1
          \/ rpc' = "band" /\ Flows[Session] # 1
      BY <1>5 DEF AnswerManifest
    <2>5. Flows[Session] \in Nat /\ Flows[Session] > 0  BY <1>a, <2>1, FlowFacts
    <2>6. Session' = Session /\ Len(taken) = 1 /\ Session \in Knows
      BY <1>b, <2>1, <2>3 DEF CountInv
    <2>7. \A s \in replied' : taken' # <<>> /\ s = Session'
      BY <2>1, <2>3, <2>6 DEF CountInv
    <2>8. CountInv'  BY <2>1, <2>3, <2>4, <2>5, <2>6, <2>7 DEF CountInv
    <2> QED  BY <1>0, <1>5, <2>2, <2>8 DEF AnswerManifest
  <1>6. CASE PipeEnds
    <2>1. Taken \subseteq Conns  BY DEF Taken
    <2>2. TypeOK'  BY <1>6, <2>1, DealtType DEF PipeEnds
    <2>3. CountInv'  BY <1>6 DEF PipeEnds, CountInv, Session
    <2> QED  BY <1>0, <1>6, <2>2, <2>3 DEF PipeEnds
  <1>7. CASE JoinPipes
    <2>1. CASE AllPiped
      <3>1. TypeOK'  BY <1>7, <2>1 DEF JoinPipes, ReceiverBecomes
      <3>2. CountInv'  BY <1>7, <2>1 DEF JoinPipes, ReceiverBecomes, CountInv, Session
      <3> QED  BY <1>0, <1>7, <3>1, <3>2 DEF JoinPipes, ReceiverBecomes
    <2> QED  BY <1>2, <1>7, <2>1 DEF JoinPipes
  <1>8. CASE Flush
    <2>1. TypeOK'  BY <1>8, <1>a DEF Flush, CountInv
    <2>2. CountInv'  BY <1>8 DEF Flush, CountInv, Session
    <2> QED  BY <1>0, <1>8, <2>1, <2>2 DEF Flush
  <1>9. CASE Ack
    <2>1. TypeOK'  BY <1>9, <1>a DEF Ack, CountInv
    <2>2. CountInv'  BY <1>9 DEF Ack, CountInv, Session
    <2> QED  BY <1>0, <1>9, <2>1, <2>2 DEF Ack
  <1>10. CASE ReceiverFails  BY <1>2, <1>10 DEF ReceiverFails
  <1>11. CASE ReceiverStops  BY <1>2, <1>11 DEF ReceiverStops
  <1> QED
    BY <1>1, <1>3, <1>4, <1>5, <1>6, <1>7, <1>8, <1>9, <1>10, <1>11 DEF ReceiverStep

LEMMA TypeStep == TypeInv /\ [Next]_vars => TypeInv'
  <1> SUFFICES ASSUME TypeInv, [Next]_vars  PROVE TypeInv'  OBVIOUS
  <1>1. CASE Next  BY <1>1, SenderType, ReceiverType DEF Next
  <1>2. CASE UNCHANGED vars
    BY <1>2 DEF vars, senderVars, recvVars, TypeInv, TypeOK, SenderInv, CountInv, Session
  <1> QED  BY <1>1, <1>2

(* The state of the receiver and of every sender is typed in every run     *)
(* (accept_one, accept_multi, send_multi), for any number of senders.      *)
THEOREM TypeCorrect == Spec => []TypeOK
  <1>1. TypeInv => TypeOK  BY DEF TypeInv
  <1> QED  BY TypeInit, TypeStep, <1>1, PTL DEF Spec

-----------------------------------------------------------------------------
(* Which connections arrive, and in which order.                           *)

(* A step that adds no connection keeps what is known of them.             *)
LEMMA ArrivalKept ==
    ASSUME ArrivalInv, UNCHANGED <<taken, backlog, said>>, replied \subseteq replied',
           \A s : spc'[s] \notin Undecided => spc[s] \notin Undecided
    PROVE  ArrivalInv'
  <1>1. UNCHANGED <<Taken, Waiting>>  BY DEF Taken, Waiting
  <1>2. \A c \in Taken \cup Waiting :
          /\ Index(c) <= said'[From(c)]
          /\ spc'[From(c)] \notin Undecided => Index(c) < said'[From(c)]
          /\ Index(c) # 0 => From(c) \in replied'
    BY DEF ArrivalInv
  <1> QED  BY <1>1, <1>2 DEF ArrivalInv

LEMMA SenderArrival ==
    ASSUME TypeInv, ArrivalInv, NEW s \in Senders, SenderStep(s) \/ SenderStops(s)
    PROVE  ArrivalInv'
  <1> USE DEF recvVars
  <1>t. DOMAIN spc = Senders /\ said \in [Senders -> 0 .. MaxStreams]
    BY DEF TypeInv, TypeOK
  <1>c. Taken \cup Waiting \subseteq Conns  BY DEF TypeInv, TypeOK, Taken, Waiting
  <1>1. CASE Connect(s)
    <2> DEFINE new == <<s, said[s]>>
    <2>1. backlog' = Append(backlog, new) /\ backlog \in Seq(Conns)
      BY <1>1 DEF Connect, TypeInv, TypeOK
    <2>2. /\ DOMAIN backlog' = DOMAIN backlog \cup {Len(backlog) + 1}
          /\ Len(backlog) + 1 \notin DOMAIN backlog
          /\ backlog'[Len(backlog) + 1] = new
          /\ \A k \in DOMAIN backlog : backlog'[k] = backlog[k]
      BY <2>1
    <2>3. Waiting' = Waiting \cup {new}  BY <2>2 DEF Waiting
    <2>4. UNCHANGED <<taken, said, replied>> /\ spc' = [spc EXCEPT ![s] = "hello"]
      BY <1>1 DEF Connect, Becomes
    <2>5. Taken' = Taken  BY <2>4 DEF Taken
    <2>6. From(new) = s /\ Index(new) = said[s]  BY ConnFacts
    <2>7. new \notin Taken \cup Waiting
      <3>1. spc[s] \notin Undecided  BY <1>1 DEF Connect, Undecided
      <3>2. \A c \in Taken \cup Waiting : From(c) = s => Index(c) < said[s]
        BY <3>1 DEF ArrivalInv
      <3>3. ~(said[s] < said[s])  BY <1>t
      <3> QED  BY <2>6, <3>2, <3>3
    <2>8. said[s] # 0 => s \in replied
      BY <1>1, <1>t DEF Connect, TypeInv, SenderInv
    <2>9. \A j, k \in DOMAIN backlog' : backlog'[j] = backlog'[k] => j = k
      BY <2>2, <2>7 DEF ArrivalInv, Waiting
    <2>10. \A c \in Taken' \cup Waiting' :
             /\ Index(c) <= said'[From(c)]
             /\ spc'[From(c)] \notin Undecided => Index(c) < said'[From(c)]
             /\ Index(c) # 0 => From(c) \in replied'
      <3>1. spc'[s] = "hello" /\ \A r : r # s => spc'[r] = spc[r]  BY <1>t, <2>4
      <3>2. said[s] <= said[s]  BY <1>t
      <3> QED  BY <2>3, <2>4, <2>5, <2>6, <2>8, <3>1, <3>2 DEF ArrivalInv, Undecided
    <2> QED
      BY <2>3, <2>4, <2>5, <2>7, <2>9, <2>10 DEF ArrivalInv
  <1>2. CASE SayHello(s)
    <2>1. /\ UNCHANGED <<taken, backlog, replied>>
          /\ said'[s] = said[s] + 1 /\ \A r : r # s => said'[r] = said[r] /\ spc'[r] = spc[r]
      BY <1>2, <1>t DEF SayHello, Becomes
    <2>2. UNCHANGED <<Taken, Waiting>>  BY <2>1 DEF Taken, Waiting
    <2>3. \A c \in Taken \cup Waiting :
            /\ Index(c) <= said'[From(c)]
            /\ spc'[From(c)] \notin Undecided => Index(c) < said'[From(c)]
            /\ Index(c) # 0 => From(c) \in replied'
      <3> SUFFICES ASSUME NEW c \in Taken \cup Waiting
                   PROVE  /\ Index(c) <= said'[From(c)]
                          /\ spc'[From(c)] \notin Undecided => Index(c) < said'[From(c)]
                          /\ Index(c) # 0 => From(c) \in replied'
        OBVIOUS
      <3>1. Index(c) \in Nat /\ From(c) \in Senders  BY <1>c, ConnFacts
      <3>2. Index(c) <= said[From(c)] /\ (Index(c) # 0 => From(c) \in replied)
        BY DEF ArrivalInv
      <3>3. CASE From(c) = s  BY <1>t, <2>1, <3>1, <3>2, <3>3
      <3>4. CASE From(c) # s  BY <2>1, <3>4 DEF ArrivalInv
      <3> QED  BY <3>3, <3>4
    <2> QED  BY <2>1, <2>2, <2>3 DEF ArrivalInv
  <1>3. ASSUME NEW w, spc' = [spc EXCEPT ![s] = w], w \in Undecided \/ spc[s] \notin Undecided,
               UNCHANGED <<taken, backlog, said, replied>>
        PROVE  ArrivalInv'
    <2>1. \A r : spc'[r] \notin Undecided => spc[r] \notin Undecided  BY <1>t, <1>3
    <2> QED  BY <1>3, <2>1, ArrivalKept
  <1>4. CASE SendManifest(s)  BY <1>3, <1>4 DEF SendManifest, Becomes, Undecided
  <1>5. CASE ReadBitmap(s)  BY <1>3, <1>5 DEF ReadBitmap, Becomes, Undecided
  <1>6. CASE LaneEnds(s)
    <2>1. UNCHANGED <<taken, backlog, said, replied, spc>>  BY <1>6 DEF LaneEnds
    <2> QED  BY <2>1, ArrivalKept
  <1>7. CASE JoinLanes(s)  BY <1>3, <1>7 DEF JoinLanes, Exits, Becomes, Undecided
  <1>8. CASE ReadAck(s)  BY <1>3, <1>8 DEF ReadAck, Exits, Becomes, Undecided
  <1>9. CASE SenderFails(s)  BY <1>3, <1>9 DEF SenderFails, Exits, Becomes, Undecided
  <1>10. CASE SenderStops(s)  BY <1>3, <1>10 DEF SenderStops, Exits, Becomes, Undecided
  <1> QED
    BY <1>1, <1>2, <1>4, <1>5, <1>6, <1>7, <1>8, <1>9, <1>10 DEF SenderStep

LEMMA ReceiverArrival ==
    ASSUME TypeInv, ArrivalInv, ReceiverStep \/ ReceiverStops
    PROVE  ArrivalInv'
  <1> USE DEF senderVars
  <1>1. CASE Accept
    <2> DEFINE new == Head(backlog)
    <2>1. /\ backlog \in Seq(Conns) /\ taken \in Seq(Conns) /\ backlog # <<>>
          /\ taken' = Append(taken, new) /\ backlog' = Tail(backlog)
          /\ UNCHANGED <<spc, said, replied>>
      BY <1>1 DEF Accept, TypeInv, TypeOK
    <2>2. /\ DOMAIN taken' = DOMAIN taken \cup {Len(taken) + 1}
          /\ Len(taken) + 1 \notin DOMAIN taken
          /\ taken'[Len(taken) + 1] = new
          /\ \A k \in DOMAIN taken : taken'[k] = taken[k]
          /\ taken' # <<>>
      BY <2>1
    <2>3. /\ 1 \in DOMAIN backlog /\ backlog[1] = new
          /\ \A k \in DOMAIN backlog' :
                k \in Nat /\ k > 0 /\ k + 1 \in DOMAIN backlog /\ backlog'[k] = backlog[k + 1]
      BY <2>1
    <2>4. Taken' = Taken \cup {new}  BY <2>2 DEF Taken
    <2>5. new \in Waiting /\ Waiting' \subseteq Waiting  BY <2>3 DEF Waiting
    <2>6. new \notin Waiting'
      <3> SUFFICES ASSUME NEW k \in DOMAIN backlog', backlog'[k] = new  PROVE FALSE
        BY DEF Waiting
      <3>1. k + 1 = 1  BY <2>3 DEF ArrivalInv
      <3> QED  BY <2>3, <3>1
    <2>7. \A j, k \in DOMAIN taken' : taken'[j] = taken'[k] => j = k
      <3>1. new \notin Taken  BY <2>5 DEF ArrivalInv
      <3> QED  BY <2>2, <3>1 DEF ArrivalInv, Taken
    <2>8. \A j, k \in DOMAIN backlog' : backlog'[j] = backlog'[k] => j = k
      <3> SUFFICES ASSUME NEW j \in DOMAIN backlog', NEW k \in DOMAIN backlog',
                          backlog'[j] = backlog'[k]
                   PROVE  j = k
        OBVIOUS
      <3>1. j + 1 = k + 1  BY <2>3 DEF ArrivalInv
      <3> QED  BY <2>3, <3>1
    <2>9. Taken' \cap Waiting' = {}  BY <2>4, <2>5, <2>6 DEF ArrivalInv
    <2>10. Index(taken'[1]) = 0
      <3>1. CASE taken = <<>>
        <4>1. taken'[1] = new  BY <2>1, <3>1
        <4>2. replied = {}  BY <3>1 DEF TypeInv, CountInv
        <4>3. Index(new) # 0 => From(new) \in replied  BY <2>5 DEF ArrivalInv
        <4> QED  BY <4>1, <4>2, <4>3
      <3>2. CASE taken # <<>>
        <4>1. 1 \in DOMAIN taken  BY <2>1, <3>2
        <4> QED  BY <2>2, <3>2, <4>1 DEF ArrivalInv
      <3> QED  BY <3>1, <3>2
    <2>11. Taken' \cup Waiting' \subseteq Taken \cup Waiting  BY <2>4, <2>5
    <2> QED  BY <2>1, <2>7, <2>8, <2>9, <2>10, <2>11 DEF ArrivalInv
  <1>2. ASSUME UNCHANGED <<taken, backlog, said, spc>>, replied \subseteq replied'
        PROVE  ArrivalInv'
    BY <1>2, ArrivalKept
  <1>3. CASE Shake  BY <1>2, <1>3 DEF Shake, ReceiverBecomes
  <1>4. CASE BandShake  BY <1>2, <1>4 DEF BandShake, ReceiverBecomes
  <1>5. CASE AnswerManifest  BY <1>2, <1>5 DEF AnswerManifest
  <1>6. CASE PipeEnds  BY <1>2, <1>6 DEF PipeEnds
  <1>7. CASE JoinPipes  BY <1>2, <1>7 DEF JoinPipes, ReceiverBecomes
  <1>8. CASE Flush  BY <1>2, <1>8 DEF Flush
  <1>9. CASE Ack  BY <1>2, <1>9 DEF Ack
  <1>10. CASE ReceiverFails  BY <1>2, <1>10 DEF ReceiverFails, ReceiverBecomes
  <1>11. CASE ReceiverStops  BY <1>2, <1>11 DEF ReceiverStops, ReceiverBecomes
  <1> QED
    BY <1>1, <1>3, <1>4, <1>5, <1>6, <1>7, <1>8, <1>9, <1>10, <1>11 DEF ReceiverStep

LEMMA ArrivalStep == TypeInv /\ ArrivalInv /\ [Next]_vars => ArrivalInv'
  <1> SUFFICES ASSUME TypeInv, ArrivalInv, [Next]_vars  PROVE ArrivalInv'  OBVIOUS
  <1>1. CASE Next  BY <1>1, SenderArrival, ReceiverArrival DEF Next
  <1>2. CASE UNCHANGED vars
    <2>1. UNCHANGED <<taken, backlog, said, spc, replied>>
      BY <1>2 DEF vars, senderVars, recvVars
    <2> QED  BY <2>1, ArrivalKept
  <1> QED  BY <1>1, <1>2

(* A sender's step leaves the receiver alone.                              *)
LEMMA SenderLeaves ==
    ASSUME NEW s, SenderStep(s) \/ SenderStops(s)
    PROVE  UNCHANGED recvVars
  BY DEF SenderStep, SenderStops, Connect, SayHello, SendManifest, ReadBitmap,
         LaneEnds, JoinLanes, ReadAck, SenderFails, Exits

LEMMA BandStep == TypeInv /\ BandInv /\ [Next]_vars => BandInv'
  <1> SUFFICES ASSUME TypeInv, BandInv, [Next]_vars  PROVE BandInv'  OBVIOUS
  <1> USE DEF senderVars, recvVars
  <1>1. ASSUME UNCHANGED taken,
               \/ rpc' = rpc
               \/ rpc' \in {"err", "gone", "manifest"}
               \/ rpc \in {"data", "flush", "ack"} /\ rpc' \in {"flush", "ack", "ok"}
        PROVE  BandInv'
    BY <1>1 DEF BandInv, Session
  <1>2. CASE Accept
    <2>1. /\ taken \in Seq(Conns) /\ taken' = Append(taken, Head(backlog))
          /\ Head(backlog) \in Conns
      BY <1>2 DEF Accept, TypeInv, TypeOK
    <2>2. CASE rpc = "band"
      <3>1. rpc' = "bandshake" /\ taken # <<>>
        BY <1>2, <2>2 DEF Accept, TypeInv, CountInv
      <3>2. /\ Len(taken') = Len(taken) + 1
            /\ \A k \in DOMAIN taken' :
                  k = Len(taken') \/ (k \in DOMAIN taken /\ taken'[k] = taken[k])
            /\ Session' = Session
        BY <2>1, <3>1 DEF Session
      <3> QED  BY <2>2, <3>1, <3>2 DEF BandInv
    <2>3. CASE rpc = "accept"  BY <1>2, <2>3 DEF Accept, BandInv
    <2> QED  BY <1>2, <2>2, <2>3 DEF Accept
  <1>3. CASE Shake  BY <1>1, <1>3 DEF Shake, ReceiverBecomes
  <1>4. CASE BandShake
    <2>1. UNCHANGED taken /\ rpc = "bandshake"  BY <1>4 DEF BandShake, ReceiverBecomes
    <2>2. CASE Pairs(Newest)
      BY <2>1, <2>2 DEF BandInv, Pairs, Newest, Session
    <2>3. CASE ~Pairs(Newest)  BY <1>1, <1>4, <2>3 DEF BandShake, ReceiverBecomes
    <2> QED  BY <2>2, <2>3
  <1>5. CASE AnswerManifest
    <2>1. UNCHANGED taken /\ Len(taken) = 1 /\ taken \in Seq(Conns)
      BY <1>5 DEF AnswerManifest, TypeInv, TypeOK, CountInv
    <2>2. \A k \in DOMAIN taken' : k = 1  BY <2>1
    <2> QED  BY <2>2 DEF BandInv
  <1>6. CASE PipeEnds  BY <1>1, <1>6 DEF PipeEnds
  <1>7. CASE JoinPipes  BY <1>1, <1>7 DEF JoinPipes, ReceiverBecomes
  <1>8. CASE Flush  BY <1>1, <1>8 DEF Flush
  <1>9. CASE Ack  BY <1>1, <1>9 DEF Ack
  <1>10. CASE ReceiverFails  BY <1>1, <1>10 DEF ReceiverFails, ReceiverBecomes
  <1>11. CASE ReceiverStops  BY <1>1, <1>11 DEF ReceiverStops, ReceiverBecomes
  <1>12. ASSUME NEW s \in Senders, SenderStep(s) \/ SenderStops(s)  PROVE BandInv'
    <2>1. UNCHANGED <<taken, rpc>>  BY <1>12, SenderLeaves
    <2> QED  BY <1>1, <2>1
  <1>13. CASE UNCHANGED vars  BY <1>1, <1>13 DEF vars
  <1> QED
    BY <1>2, <1>3, <1>4, <1>5, <1>6, <1>7, <1>8, <1>9, <1>10, <1>11, <1>12, <1>13
       DEF Next, ReceiverStep

LEMMA PairInvariant == Spec => []PairInv
  <1>1. Init => ArrivalInv /\ BandInv
    BY DEF Init, ArrivalInv, BandInv, Taken, Waiting
  <1>2. PairInv /\ [Next]_vars => PairInv'
    BY TypeStep, ArrivalStep, BandStep DEF PairInv
  <1>3. Init => PairInv  BY <1>1, TypeInit DEF PairInv
  <1> QED  BY <1>2, <1>3, PTL DEF Spec

(* Only the newest connection can lack the phrase, while its handshake is  *)
(* being read or once it has ended the run.                                *)
GuessInv ==
    \A k \in DOMAIN taken :
        \/ From(taken[k]) \in Knows
        \/ k = Len(taken) /\ rpc \in {"shake", "bandshake", "err", "gone"}

LEMMA GuessStep == PairInv /\ GuessInv /\ [Next]_vars => GuessInv'
  <1> SUFFICES ASSUME PairInv, GuessInv, [Next]_vars  PROVE GuessInv'  OBVIOUS
  <1> USE DEF senderVars, recvVars
  <1>1. ASSUME UNCHANGED taken,
               \/ rpc' = rpc
               \/ rpc' \in {"err", "gone"}
               \/ rpc \notin {"shake", "bandshake", "err", "gone"}
        PROVE  GuessInv'
    BY <1>1 DEF GuessInv
  <1>2. CASE Accept
    <2>1. /\ taken \in Seq(Conns) /\ taken' = Append(taken, Head(backlog))
          /\ rpc \in {"accept", "band"} /\ rpc' \in {"shake", "bandshake"}
      BY <1>2 DEF Accept, PairInv, TypeInv, TypeOK
    <2>2. /\ Len(taken') = Len(taken) + 1
          /\ \A k \in DOMAIN taken' :
                k = Len(taken') \/ (k \in DOMAIN taken /\ taken'[k] = taken[k])
      BY <1>2, <2>1 DEF Accept, PairInv, TypeInv, TypeOK
    <2> QED  BY <2>1, <2>2 DEF GuessInv
  <1>3. CASE Shake \/ BandShake
    <2>1. /\ UNCHANGED taken
          /\ \/ rpc' = "err"
             \/ From(Newest) \in Knows
      BY <1>3 DEF Shake, BandShake, ReceiverBecomes, Admits, Pairs
    <2> QED  BY <2>1 DEF GuessInv, Newest
  <1>4. CASE AnswerManifest \/ PipeEnds \/ JoinPipes \/ Flush \/ Ack
    BY <1>1, <1>4 DEF AnswerManifest, PipeEnds, JoinPipes, Flush, Ack, ReceiverBecomes
  <1>5. CASE ReceiverFails \/ ReceiverStops
    BY <1>1, <1>5 DEF ReceiverFails, ReceiverStops, ReceiverBecomes
  <1>6. ASSUME NEW s \in Senders, SenderStep(s) \/ SenderStops(s)  PROVE GuessInv'
    <2>1. UNCHANGED <<taken, rpc>>  BY <1>6, SenderLeaves
    <2> QED  BY <1>1, <2>1
  <1>7. CASE UNCHANGED vars  BY <1>1, <1>7 DEF vars
  <1> QED  BY <1>2, <1>3, <1>4, <1>5, <1>6, <1>7 DEF Next, ReceiverStep

LEMMA GuessIsOne == PairInv /\ GuessInv => OneGuess
  <1> SUFFICES ASSUME PairInv, GuessInv  PROVE OneGuess  OBVIOUS
  <1>1. taken \in Seq(Conns) /\ DOMAIN taken = 1 .. Len(taken) /\ Len(taken) \in Nat
    BY DEF PairInv, TypeInv, TypeOK
  <1>2. \A k \in 1 .. Len(taken) - 1 : From(taken[k]) \in Knows
    BY <1>1 DEF GuessInv
  <1>3. ASSUME rpc \in {"manifest", "band", "data", "flush", "ack", "ok"}, NEW c \in Taken
        PROVE  From(c) \in Knows
    BY <1>1, <1>3 DEF GuessInv, Taken
  <1> QED  BY <1>2, <1>3 DEF OneGuess

(* A run of the receiver compares at most one wrong phrase, over all the   *)
(* connections it accepts and whatever the session's flow count: every     *)
(* refusal of verify_handshake and of accept_multi ends the run.           *)
THEOREM GuessedOnce == Spec => []OneGuess
  <1>1. Init => GuessInv  BY DEF Init, GuessInv
  <1>2. PairInv /\ GuessInv /\ [Next]_vars => GuessInv'  BY GuessStep
  <1> QED  BY <1>1, <1>2, PairInvariant, GuessIsOne, PTL DEF Spec

(* The counted, distinct, checked flows are all of the session's flows.    *)
LEMMA FlowsComplete ==
    ASSUME PairInv, rpc \in {"data", "flush", "ack"}
    PROVE  taken[1] = Primary(Session) /\ Taken = Flow(Session)
  <1> DEFINE n    == Flows[Session]
             g    == [k \in 1 .. n |-> Index(taken[k]) + 1]
  <1>1. /\ taken # <<>> /\ Session \in Senders /\ taken \in Seq(Conns)
        /\ n \in Nat /\ n > 0 /\ n <= MaxStreams /\ Len(taken) = n /\ DOMAIN taken = 1 .. n
    BY SessionFacts, FlowFacts DEF PairInv, TypeInv, TypeOK, CountInv
  <1>2. \A k \in 1 .. n : /\ taken[k] \in Conns /\ taken[k] \in Taken
                          /\ Index(taken[k]) \in Nat
                          /\ taken[k] = <<From(taken[k]), Index(taken[k])>>
    <2>1. \A k \in 1 .. n : taken[k] \in Conns  BY <1>1
    <2>2. \A k \in 1 .. n : taken[k] \in Taken  BY <1>1 DEF Taken
    <2> QED  BY <2>1, <2>2, ConnFacts
  <1>3. Index(taken[1]) = 0 /\ From(taken[1]) = Session
    BY <1>1 DEF PairInv, ArrivalInv, Session
  <1>4. \A k \in 1 .. n : Index(taken[k]) < n /\ (k # 1 => Index(taken[k]) # 0)
    BY <1>1, <1>3 DEF PairInv, BandInv
  <1>5. \A k \in 1 .. n : From(taken[k]) = Session
    <2> SUFFICES ASSUME NEW k \in 1 .. n, k # 1  PROVE From(taken[k]) = Session
      BY <1>3
    <2>1. From(taken[k]) \in replied  BY <1>2, <1>4 DEF PairInv, ArrivalInv
    <2> QED  BY <2>1 DEF PairInv, TypeInv, CountInv
  <1>6. g \in Injection(1 .. n, 1 .. n)
    <2>1. g \in [1 .. n -> 1 .. n]  BY <1>1, <1>2, <1>4
    <2>2. ASSUME NEW j \in 1 .. n, NEW k \in 1 .. n, g[j] = g[k]  PROVE j = k
      <3>1. Index(taken[j]) = Index(taken[k])  BY <1>2, <2>2
      <3>2. taken[j] = taken[k]  BY <1>2, <1>5, <3>1
      <3> QED  BY <1>1, <3>2 DEF PairInv, ArrivalInv
    <2> QED  BY <2>1, <2>2 DEF Injection, IsInjective
  <1>7. \A t \in 1 .. n : \E k \in 1 .. n : g[k] = t
    <2> HIDE DEF g
    <2>1. IsFiniteSet(1 .. n)  BY <1>1, FS_Interval
    <2>2. g \in Surjection(1 .. n, 1 .. n)  BY <1>6, <2>1, FS_Injection
    <2> QED  BY <2>2 DEF Surjection
  <1>8. \A i \in Nat : i < n => <<Session, i>> \in Taken
    <2> SUFFICES ASSUME NEW i \in Nat, i < n  PROVE <<Session, i>> \in Taken
      OBVIOUS
    <2>1. i + 1 \in 1 .. n  BY <1>1
    <2>2. PICK k \in 1 .. n : g[k] = i + 1  BY <1>7, <2>1
    <2>3. Index(taken[k]) = i  BY <1>2, <2>2
    <2> QED  BY <1>2, <1>5, <2>3
  <1>9. Taken \subseteq Flow(Session)
    <2>1. \A k \in 1 .. n : taken[k] \in Flow(Session)
      BY <1>1, <1>2, <1>4, <1>5, ConnFacts
    <2> QED  BY <1>1, <2>1 DEF Taken
  <1>10. Flow(Session) \subseteq Taken
    BY <1>1, <1>8 DEF Flow
  <1> QED  BY <1>1, <1>2, <1>3, <1>9, <1>10 DEF Primary

(* The flows a session receives are those of one sender that has the       *)
(* phrase, each once, the primary first: accept_multi needs no check that  *)
(* two bands differ, for any number of senders and of flows.               *)
THEOREM FlowsBelongTogether == Spec => []FlowsAgree
  <1>1. PairInv => FlowsAgree
    BY FlowsComplete DEF FlowsAgree, PairInv, TypeInv, CountInv
  <1> QED  BY PairInvariant, <1>1, PTL

-----------------------------------------------------------------------------
(* What success means.                                                     *)

(* Whatever the bitmap leaves is dealt to some flow.                       *)
LEMMA OfferCovered ==
    ASSUME NEW s \in Senders, answer \subseteq stored,
           \A c \in Flow(s) : Dealt(c) \subseteq stored
    PROVE  Items(s) \subseteq stored
  <1> SUFFICES ASSUME NEW k \in DOMAIN Offer[s], Offer[s][k] \notin answer
               PROVE  Offer[s][k] \in stored
    BY DEF Items
  <1> DEFINE i == Ahead(s, k) % Flows[s]
  <1>1. k \in Kept(s)  BY DEF Kept
  <1>2. Ahead(s, k) \in Nat
    <2>1. DOMAIN Offer[s] \subseteq Nat /\ k \in Nat  BY FlowFacts
    <2>2. {j \in Kept(s) : j < k} \in SUBSET (0 .. k)  BY <2>1 DEF Kept
    <2>3. IsFiniteSet(0 .. k)  BY <2>1, FS_Interval
    <2>4. IsFiniteSet({j \in Kept(s) : j < k})  BY <2>2, <2>3, FS_Subset
    <2> QED  BY <2>4, FS_CardinalityType DEF Ahead
  <1>3. i \in Nat /\ i < Flows[s]  BY <1>2, FlowFacts
  <1>4. <<s, i>> \in Flow(s)  BY <1>3, ConnFacts
  <1>5. Offer[s][k] \in Dealt(<<s, i>>)
    <2>1. From(<<s, i>>) = s /\ Index(<<s, i>>) = i  BY ConnFacts
    <2>2. k \in {j \in Kept(s) : Ahead(s, j) % Flows[s] = i}  BY <1>1
    <2> QED  BY <2>1, <2>2 DEF Dealt
  <1> QED  BY <1>4, <1>5

LEMMA CommitStep == TypeInv /\ CommitInv /\ [Next]_vars => CommitInv'
  <1> SUFFICES ASSUME TypeInv, CommitInv, [Next]_vars  PROVE CommitInv'  OBVIOUS
  <1> USE DEF CommitInv, senderVars
  <1>1. ASSUME NEW s \in Senders, SenderStep(s) \/ SenderStops(s)  PROVE CommitInv'
    <2>1. UNCHANGED <<rpc, taken, acked, committed>>  BY <1>1, SenderLeaves DEF recvVars
    <2>2. Session' = Session  BY <2>1 DEF Session
    <2>3. DOMAIN spc = Senders  BY DEF TypeInv, TypeOK
    <2>4. \A r \in Senders : spc'[r] = "ok" => spc[r] = "ok" \/ r \in acked
      BY <1>1, <2>3 DEF SenderStep, SenderStops, Connect, SayHello, SendManifest, ReadBitmap,
                 LaneEnds, JoinLanes, ReadAck, AckRead, SenderFails, Exits, Becomes
    <2> QED  BY <2>1, <2>2, <2>4
  <1>2. ASSUME UNCHANGED <<spc, acked, committed, taken>>,
               \/ rpc' = rpc \/ rpc' \in {"err", "gone"}
               \/ rpc \notin {"flush", "ack", "ok", "err", "gone"} /\ rpc' # "ack"
        PROVE  CommitInv'
    BY <1>2 DEF Session
  <1>3. CASE Accept
    <2>1. /\ committed = {} /\ rpc' \in {"shake", "bandshake"}
          /\ UNCHANGED <<spc, acked, committed>>
      BY <1>3 DEF Accept
    <2> QED  BY <2>1
  <1>4. CASE Shake  BY <1>2, <1>4 DEF Shake, ReceiverBecomes
  <1>5. CASE BandShake  BY <1>2, <1>5 DEF BandShake, ReceiverBecomes
  <1>6. CASE AnswerManifest  BY <1>2, <1>6 DEF AnswerManifest
  <1>7. CASE PipeEnds  BY <1>2, <1>7 DEF PipeEnds
  <1>8. CASE JoinPipes  BY <1>2, <1>8 DEF JoinPipes, ReceiverBecomes
  <1>9. CASE Flush
    <2>1. taken # <<>>  BY <1>9 DEF Flush, TypeInv, CountInv
    <2> QED  BY <1>9, <2>1 DEF Flush, Session
  <1>10. CASE Ack  BY <1>10 DEF Ack, Session
  <1>11. CASE ReceiverFails  BY <1>2, <1>11 DEF ReceiverFails, ReceiverBecomes
  <1>12. CASE ReceiverStops  BY <1>2, <1>12 DEF ReceiverStops, ReceiverBecomes
  <1>13. CASE UNCHANGED vars  BY <1>13 DEF vars, recvVars, Session
  <1> QED
    BY <1>1, <1>3, <1>4, <1>5, <1>6, <1>7, <1>8, <1>9, <1>10, <1>11, <1>12, <1>13
       DEF Next, ReceiverStep

LEMMA StoreStep == PairInv /\ StoreInv /\ [Next]_vars => StoreInv'
  <1> SUFFICES ASSUME PairInv, StoreInv, [Next]_vars  PROVE StoreInv'  OBVIOUS
  <1> USE DEF StoreInv
  <1>1. ASSUME UNCHANGED <<answer, stored, pipe, committed, taken>>,
               \/ rpc' = rpc \/ rpc' \in {"ack", "ok", "err", "gone"}
               \/ rpc' = "flush" /\ AllPiped
               \/ rpc' \in {"manifest", "band", "data"} /\ rpc \in {"shake", "bandshake"}
        PROVE  StoreInv'
    <2>1. \A c : Dealt(c)' = Dealt(c)  BY <1>1 DEF Dealt, Kept, Ahead
    <2>2. Taken' = Taken  BY <1>1 DEF Taken
    <2> QED  BY <1>1, <2>1, <2>2 DEF AllPiped
  <1>2. ASSUME NEW s \in Senders, SenderStep(s) \/ SenderStops(s)  PROVE StoreInv'
    BY <1>1, <1>2, SenderLeaves DEF recvVars
  <1>3. CASE Accept
    <2>1. \A c : Dealt(c)' = Dealt(c)  BY <1>3 DEF Accept, Dealt, Kept, Ahead
    <2> QED  BY <1>3, <2>1 DEF Accept
  <1>4. CASE Shake  BY <1>1, <1>4 DEF Shake, ReceiverBecomes
  <1>5. CASE BandShake  BY <1>1, <1>5 DEF BandShake, ReceiverBecomes
  <1>6. CASE AnswerManifest
    <2>1. \A c \in Conns : pipe'[c] = "none"  BY <1>6 DEF AnswerManifest
    <2> QED  BY <1>6, <2>1 DEF AnswerManifest
  <1>7. CASE PipeEnds
    <2>1. UNCHANGED <<rpc, answer, committed, taken>> /\ rpc = "data"  BY <1>7 DEF PipeEnds
    <2>2. \A c : Dealt(c)' = Dealt(c)  BY <2>1 DEF Dealt, Kept, Ahead
    <2>3. stored \subseteq stored'  BY <1>7 DEF PipeEnds
    <2>4. \A c \in Conns : pipe'[c] = "ok" => Dealt(c) \subseteq stored'
      <3>1. DOMAIN pipe = Conns  BY DEF PairInv, TypeInv, TypeOK
      <3> QED  BY <1>7, <2>3, <3>1 DEF PipeEnds
    <2> QED  BY <2>1, <2>2, <2>3, <2>4
  <1>8. CASE JoinPipes  BY <1>1, <1>8 DEF JoinPipes, ReceiverBecomes
  <1>9. CASE Flush
    <2>1. /\ rpc = "flush" /\ rpc' = "ack" /\ committed' = committed \cup {Session}
          /\ UNCHANGED <<answer, stored, pipe, taken>>
      BY <1>9 DEF Flush
    <2>2. Session \in Senders
      BY <2>1, SessionFacts DEF PairInv, TypeInv, CountInv
    <2>3. \A c \in Flow(Session) : Dealt(c) \subseteq stored
      BY <2>1, <2>2, FlowsComplete, ConnFacts
    <2>4. Items(Session) \subseteq stored  BY <2>2, <2>3, OfferCovered
    <2>5. \A c : Dealt(c)' = Dealt(c)  BY <2>1 DEF Dealt, Kept, Ahead
    <2> QED  BY <2>1, <2>4, <2>5
  <1>10. CASE Ack  BY <1>1, <1>10 DEF Ack
  <1>11. CASE ReceiverFails  BY <1>1, <1>11 DEF ReceiverFails, ReceiverBecomes
  <1>12. CASE ReceiverStops  BY <1>1, <1>12 DEF ReceiverStops, ReceiverBecomes
  <1>13. CASE UNCHANGED vars  BY <1>1, <1>13 DEF vars, recvVars
  <1> QED
    BY <1>2, <1>3, <1>4, <1>5, <1>6, <1>7, <1>8, <1>9, <1>10, <1>11, <1>12, <1>13
       DEF Next, ReceiverStep

LEMMA CommitInvariant == Spec => [](PairInv /\ CommitInv /\ StoreInv)
  <1>1. Init => CommitInv /\ StoreInv
    BY DEF Init, CommitInv, StoreInv
  <1>2. Init => PairInv
    BY TypeInit DEF Init, PairInv, ArrivalInv, BandInv, Taken, Waiting
  <1>3. /\ PairInv /\ CommitInv /\ StoreInv /\ [Next]_vars
        => (PairInv /\ CommitInv /\ StoreInv)'
    BY TypeStep, ArrivalStep, BandStep, CommitStep, StoreStep DEF PairInv
  <1> QED  BY <1>1, <1>2, <1>3, PTL DEF Spec

(* A sender that reports success has its whole offer in the destination,   *)
(* for any offer, any held files and any number of flows: the bitmap's     *)
(* skips and the deal over the flows leave nothing out, and no failed      *)
(* pipeline is followed by an acknowledgement.                             *)
THEOREM SuccessIsStored == Spec => []SuccessMeansStored
  <1>1. PairInv /\ CommitInv /\ StoreInv => SuccessMeansStored
    BY DEF CommitInv, StoreInv, SuccessMeansStored
  <1> QED  BY CommitInvariant, <1>1, PTL

(* Every step of a run is a step of Transfer: one commit at most, and      *)
(* success only for the sender committed (accept_one, read_ack).           *)
THEOREM PromiseKept == Spec => TransferKept
  <1>1. Init => Promise!Init
    BY DEF Init, Promise!Init, Outcome
  <1>2. ASSUME PairInv, CommitInv, [Next]_vars  PROVE [Promise!Next]_(Promise!vars)
    <2> USE DEF Promise!vars
    <2>1. ASSUME NEW s \in Senders, SenderStep(s) \/ SenderStops(s)
          PROVE  Promise!Next \/ UNCHANGED Promise!vars
      <3>1. UNCHANGED committed  BY <2>1, SenderLeaves DEF recvVars
      <3>2. DOMAIN spc = Senders  BY <1>2 DEF PairInv, TypeInv, TypeOK
      <3>3. ASSUME UNCHANGED spc \/ (\E w \in {"hello", "manifest", "bitmap", "band", "data", "ack"} :
                                        Becomes(s, w) /\ ~SenderOver(s))
            PROVE  UNCHANGED Outcome
        BY <3>2, <3>3 DEF Outcome, Becomes, SenderOver
      <3>4. ASSUME NEW w \in {"failed", "gone"}, Becomes(s, w), ~SenderOver(s)
            PROVE  Promise!Fail(s)
        BY <3>1, <3>2, <3>4 DEF Promise!Fail, Outcome, Becomes, SenderOver
      <3>5. CASE ReadAck(s)
        <4>1. s \in committed /\ Becomes(s, "ok") /\ ~SenderOver(s)
          BY <1>2, <3>5 DEF ReadAck, AckRead, Exits, CommitInv, SenderOver
        <4>2. Promise!Succeed(s)
          BY <3>1, <3>2, <4>1 DEF Promise!Succeed, Outcome, Becomes, SenderOver
        <4> QED  BY <4>2 DEF Promise!Next
      <3>6. CASE Connect(s)
        BY <3>1, <3>3, <3>6 DEF Connect, SenderOver
      <3>7. CASE SayHello(s)
        BY <3>1, <3>3, <3>7 DEF SayHello, SenderOver
      <3>8. CASE SendManifest(s)
        BY <3>1, <3>3, <3>8 DEF SendManifest, SenderOver
      <3>9. CASE ReadBitmap(s)
        BY <3>1, <3>3, <3>9 DEF ReadBitmap, SenderOver
      <3>10. CASE LaneEnds(s)
        BY <3>1, <3>3, <3>10 DEF LaneEnds
      <3>11. CASE JoinLanes(s)
        BY <3>1, <3>3, <3>4, <3>11 DEF JoinLanes, SenderOver, Exits, Promise!Next
      <3>12. CASE SenderFails(s)
        BY <3>4, <3>12 DEF SenderFails, SenderOver, Exits, Promise!Next
      <3>13. CASE SenderStops(s)
        BY <3>4, <3>13 DEF SenderStops, Exits, Promise!Next
      <3> QED
        BY <2>1, <3>5, <3>6, <3>7, <3>8, <3>9, <3>10, <3>11, <3>12, <3>13 DEF SenderStep
    <2>2. ASSUME UNCHANGED <<spc, committed>>  PROVE UNCHANGED Promise!vars
      BY <2>2 DEF Outcome
    <2>3. CASE Flush
      <3>1. Session \in Senders
        BY <1>2, <2>3, SessionFacts DEF Flush, PairInv, TypeInv, CountInv
      <3>2. Promise!Commit(Session)
        BY <1>2, <2>3 DEF Flush, CommitInv, Promise!Commit, Outcome, senderVars
      <3> QED  BY <3>1, <3>2 DEF Promise!Next
    <2>4. CASE (ReceiverStep \/ ReceiverStops) /\ ~Flush
      BY <2>2, <2>4 DEF ReceiverStep, ReceiverStops, Accept, Shake, BandShake, AnswerManifest,
                        PipeEnds, JoinPipes, Ack, ReceiverFails, ReceiverBecomes, senderVars
    <2>5. CASE UNCHANGED vars  BY <2>2, <2>5 DEF vars, senderVars, recvVars
    <2> QED  BY <1>2, <2>1, <2>3, <2>4, <2>5 DEF Next
  <1> QED  BY <1>1, <1>2, CommitInvariant, PTL DEF Spec, TransferKept, Promise!Spec
=============================================================================
