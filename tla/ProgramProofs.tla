---------------------------- MODULE ProgramProofs ----------------------------
(***************************************************************************)
(* The two commands around a session, for any number of senders and ports, *)
(* whoever discovers and whoever is told.  What they do to the session is  *)
(* what Session lets its parties do, so what was proved of a session holds *)
(* of it inside the commands; and what discovery says of the receiver is   *)
(* where its listener is.                                                  *)
(***************************************************************************)
EXTENDS Program, SessionProofs

(* A command that has not come to its session has not touched it.          *)
BeforeInv ==
    /\ recv \in {"off", "bound"} => rpc = "accept"
    /\ \A s \in Senders : send[s] \in {"off", "probe", "listen"} => spc[s] = "start"

SendType == send \in [Senders -> {"off", "probe", "listen", "session", "join", "exited"}]

RunInv == TypeInv /\ SendType /\ BeforeInv

LEMMA RunInit == ProgramInit => RunInv
  <1> SUFFICES ASSUME ProgramInit  PROVE RunInv  OBVIOUS
  <1>1. Init  BY DEF ProgramInit
  <1>2. TypeInv  BY <1>1, TypeInit
  <1>3. SendType  BY DEF ProgramInit, SendType
  <1>4. BeforeInv  BY <1>1 DEF ProgramInit, Init, BeforeInv
  <1> QED  BY <1>2, <1>3, <1>4 DEF RunInv

(* What a command does to the session is a step of the session.            *)
LEMMA SendIsSession ==
    ASSUME RunInv, NEW s \in Senders, Start(s) \/ TfSendStep(s) \/ SendStops(s)
    PROVE  SenderStep(s) \/ SenderStops(s) \/ UNCHANGED vars
  <1>1. CASE NotFound(s)
    <2>1. spc[s] = "start"  BY <1>1 DEF NotFound, RunInv, BeforeInv
    <2>2. Exits(s, "failed")  BY <1>1 DEF NotFound, GivesUp
    <2> QED  BY <2>1, <2>2 DEF SenderStops, SenderOver
  <1>2. CASE Transmit(s)
    <2>1. CASE SenderStep(s)  BY <2>1
    <2>2. CASE spc[s] = "start" /\ Exits(s, "failed")
      BY <2>2 DEF SenderStops, SenderOver
    <2> QED  BY <1>2, <2>1, <2>2 DEF Transmit
  <1>3. CASE SendStops(s)  BY <1>3 DEF SendStops
  <1>4. CASE Start(s)  BY <1>4 DEF Start
  <1>5. CASE Probe(s) \/ Hear(s) \/ TimesOut(s)  BY <1>5 DEF Probe, Hear, TimesOut
  <1>6. CASE FinishSend(s) \/ ExitSend(s)  BY <1>6 DEF FinishSend, ExitSend
  <1> QED  BY <1>1, <1>2, <1>3, <1>4, <1>5, <1>6 DEF TfSendStep

RecvCommand == Bind \/ TfRecvStep \/ Serve \/ Respond \/ RenderEnds \/ ReceiveStops

LEMMA RecvIsSession ==
    ASSUME RunInv, RecvCommand
    PROVE  ReceiverStep \/ ReceiverStops \/ UNCHANGED vars
  <1>1. CASE Bind
    <2>1. CASE ReceiverBecomes("err")
      <3>1. rpc = "accept"  BY <1>1 DEF Bind, RunInv, BeforeInv
      <3> QED  BY <2>1, <3>1 DEF ReceiverStops, Listening
    <2> QED  BY <1>1, <2>1 DEF Bind
  <1>2. CASE TfRecvStep
    BY <1>2 DEF TfRecvStep, Spawn, Receive, FinishReceive, ExitReceive
  <1>3. CASE Serve \/ Respond \/ RenderEnds  BY <1>3 DEF Serve, Respond, RenderEnds
  <1>4. CASE ReceiveStops  BY <1>4 DEF ReceiveStops
  <1> QED  BY <1>1, <1>2, <1>3, <1>4 DEF RecvCommand

LEMMA NextIsSession == RunInv /\ [ProgramNext]_programVars => [Next]_vars
  <1> SUFFICES ASSUME RunInv, [ProgramNext]_programVars  PROVE [Next]_vars  OBVIOUS
  <1>1. CASE RecvCommand  BY <1>1, RecvIsSession DEF Next
  <1>2. ASSUME NEW s \in Senders, Start(s) \/ TfSendStep(s) \/ SendStops(s)  PROVE [Next]_vars
    BY <1>2, SendIsSession DEF Next
  <1>3. CASE UNCHANGED programVars  BY <1>3 DEF programVars
  <1> QED  BY <1>1, <1>2, <1>3 DEF ProgramNext, RecvCommand

(* A step of one sender leaves the others where they are, and the          *)
(* receiver's steps leave them all.                                        *)
LEMMA OthersStay ==
    ASSUME TypeInv, NEW s \in Senders, SenderStep(s) \/ SenderStops(s),
           NEW t \in Senders, t # s
    PROVE  spc'[t] = spc[t]
  <1>1. spc' = spc \/ \E w : Becomes(s, w)
    BY DEF SenderStep, SenderStops, Connect, SayHello, SendManifest, ReadBitmap, LaneEnds,
           JoinLanes, ReadAck, SenderFails, Exits
  <1>2. DOMAIN spc = Senders  BY DEF TypeInv, TypeOK
  <1> QED  BY <1>1, <1>2 DEF Becomes

LEMMA ReceiverLeaves == ASSUME ReceiverStep \/ ReceiverStops  PROVE UNCHANGED senderVars
  BY DEF ReceiverStep, ReceiverStops, Accept, Shake, BandShake, AnswerManifest, PipeEnds,
         JoinPipes, Flush, Ack, ReceiverFails, ReceiverBecomes

(* Where the commands go.                                                  *)
LEMMA SendGoes ==
    ASSUME RunInv, NEW s \in Senders, Start(s) \/ TfSendStep(s) \/ SendStops(s)
    PROVE  /\ SendType' /\ recv' = recv
           /\ \A t \in Senders : t # s => send'[t] = send[t]
           /\ send'[s] \in {"off", "probe", "listen"} => send[s] \in {"off", "probe", "listen"} /\ UNCHANGED vars
  <1> USE DEF SendType, Goes
  <1>1. send \in [Senders -> {"off", "probe", "listen", "session", "join", "exited"}]
    BY DEF RunInv
  <1>2. CASE Start(s)  BY <1>1, <1>2 DEF Start
  <1>3. CASE Probe(s)  BY <1>1, <1>3 DEF Probe
  <1>4. CASE Hear(s)
    <2>1. send[s] = "listen" /\ recv' = recv /\ UNCHANGED vars
          /\ (Goes(s, "session") \/ Goes(s, "probe"))
      BY <1>4 DEF Hear
    <2> QED  BY <1>1, <2>1
  <1>5. CASE TimesOut(s)  BY <1>1, <1>5 DEF TimesOut
  <1>6. CASE NotFound(s)  BY <1>1, <1>6 DEF NotFound, GivesUp
  <1>7. CASE Transmit(s)  BY <1>1, <1>7 DEF Transmit, cmdVars
  <1>8. CASE FinishSend(s) \/ ExitSend(s)  BY <1>1, <1>8 DEF FinishSend, ExitSend
  <1>9. CASE SendStops(s)  BY <1>1, <1>9 DEF SendStops
  <1> QED  BY <1>2, <1>3, <1>4, <1>5, <1>6, <1>7, <1>8, <1>9 DEF TfSendStep

LEMMA RecvGoes ==
    ASSUME RecvCommand
    PROVE  /\ UNCHANGED send
           /\ recv' \in {"off", "bound"} => recv \in {"off", "bound"} /\ UNCHANGED vars
  BY DEF RecvCommand, Bind, TfRecvStep, Spawn, Receive, FinishReceive, ExitReceive, Serve,
         Respond, RenderEnds, ReceiveStops, cmdVars

LEMMA RunStep == RunInv /\ [ProgramNext]_programVars => RunInv'
  <1> SUFFICES ASSUME RunInv, [ProgramNext]_programVars  PROVE RunInv'  OBVIOUS
  <1>1. TypeInv'  BY NextIsSession, TypeStep DEF RunInv
  <1>2. ASSUME RecvCommand  PROVE SendType' /\ BeforeInv'
    <2>1. UNCHANGED senderVars
      <3>1. CASE ReceiverStep \/ ReceiverStops  BY <3>1, ReceiverLeaves
      <3>2. CASE UNCHANGED vars  BY <3>2 DEF vars
      <3> QED  BY <1>2, <3>1, <3>2, RecvIsSession
    <2>2. UNCHANGED <<send, spc>>  BY <1>2, <2>1, RecvGoes DEF senderVars
    <2>3. recv' \in {"off", "bound"} => rpc' = "accept"
      BY <1>2, RecvGoes DEF RunInv, BeforeInv, vars, recvVars
    <2> QED  BY <2>2, <2>3 DEF RunInv, BeforeInv, SendType
  <1>3. ASSUME NEW s \in Senders, Start(s) \/ TfSendStep(s) \/ SendStops(s)
        PROVE  SendType' /\ BeforeInv'
    <2>1. SendType' /\ recv' = recv  BY <1>3, SendGoes
    <2>2. UNCHANGED recvVars
      <3>1. CASE SenderStep(s) \/ SenderStops(s)  BY <3>1, SenderLeaves
      <3>2. CASE UNCHANGED vars  BY <3>2 DEF vars
      <3> QED  BY <1>3, <3>1, <3>2, SendIsSession
    <2>3. \A t \in Senders : t # s => spc'[t] = spc[t]
      <3>1. CASE SenderStep(s) \/ SenderStops(s)  BY <3>1, OthersStay DEF RunInv
      <3>2. CASE UNCHANGED vars  BY <3>2 DEF vars, senderVars
      <3> QED  BY <1>3, <3>1, <3>2, SendIsSession
    <2>4. ASSUME NEW t \in Senders, send'[t] \in {"off", "probe", "listen"}
          PROVE  spc'[t] = "start"
      <3>1. CASE t = s
        <4>1. send[s] \in {"off", "probe", "listen"} /\ UNCHANGED vars
          BY <1>3, <2>4, <3>1, SendGoes
        <4> QED  BY <3>1, <4>1 DEF RunInv, BeforeInv, vars, senderVars
      <3>2. CASE t # s
        <4>1. send'[t] = send[t]  BY <1>3, <3>2, SendGoes
        <4> QED  BY <2>3, <2>4, <3>2, <4>1 DEF RunInv, BeforeInv
      <3> QED  BY <3>1, <3>2
    <2>5. recv' \in {"off", "bound"} => rpc' = "accept"
      BY <2>1, <2>2 DEF RunInv, BeforeInv, recvVars
    <2> QED  BY <2>1, <2>4, <2>5 DEF BeforeInv
  <1>4. ASSUME UNCHANGED programVars  PROVE SendType' /\ BeforeInv'
    BY <1>4 DEF RunInv, SendType, BeforeInv, programVars, vars, cmdVars, senderVars, recvVars
  <1> QED  BY <1>1, <1>2, <1>3, <1>4 DEF RunInv, ProgramNext, RecvCommand

LEMMA RunInvariant == ProgramSpec => []RunInv
  BY RunInit, RunStep, PTL DEF ProgramSpec

-----------------------------------------------------------------------------
(* What discovery says of the receiver: the responder, every reply and     *)
(* every address a sender heard name the one port the listener is bound    *)
(* to, and nobody names one before there is a listener.                    *)
Named(d) == d.host = "receiver" => port # AnyPort /\ d.port = port

DiscoveryInv ==
    /\ recv = "off" => responder = "none"
    /\ recv = "bound" => port # AnyPort
    /\ responder \in {"spawned", "serving"} => port # AnyPort /\ advertised = port
    /\ replies \in [Senders -> SUBSET [host : {"receiver"}, port : {port}]]
    /\ \A s \in Senders : replies[s] # {} => port # AnyPort
    /\ DOMAIN peer = Senders
    /\ \A s \in Senders \ Told : Named(peer[s])
    /\ recv = "off" => port = AnyPort

LEMMA DiscoveryInit == ProgramInit => DiscoveryInv
  BY DEF ProgramInit, DiscoveryInv, Named, Nobody

(* The listener is bound to a port that is there, before anybody was told. *)
LEMMA BindNames == DiscoveryInv /\ Bind => DiscoveryInv'
  <1> SUFFICES ASSUME DiscoveryInv, Bind  PROVE DiscoveryInv'  OBVIOUS
  <1>1. /\ recv = "off" /\ port = AnyPort /\ responder = "none" /\ recv' \in {"bound", "exited"}
        /\ UNCHANGED <<responder, advertised, replies, peer>>
    BY DEF Bind, DiscoveryInv
  <1>2. recv' = "bound" => port' # AnyPort
    BY ProgramAssumption DEF Bind
  <1>3. \A s \in Senders : replies[s] = {}
    BY <1>1 DEF DiscoveryInv
  <1>4. replies' \in [Senders -> SUBSET [host : {"receiver"}, port : {port'}]]
    BY <1>1, <1>3 DEF DiscoveryInv
  <1>5. \A s \in Senders \ Told : Named(peer[s])'
    BY <1>1 DEF DiscoveryInv, Named
  <1> QED  BY <1>1, <1>2, <1>3, <1>4, <1>5 DEF DiscoveryInv

(* The responder answers with the port it was given.                       *)
LEMMA RespondNames == DiscoveryInv /\ Respond => DiscoveryInv'
  <1> SUFFICES ASSUME DiscoveryInv, Respond  PROVE DiscoveryInv'  OBVIOUS
  <1>1. PICK s \in probes \cap OnLink :
          replies' = [replies EXCEPT ![s] = @ \cup {[host |-> "receiver", port |-> advertised]}]
    BY DEF Respond
  <1>2. port # AnyPort /\ advertised = port
    BY DEF Respond, DiscoveryInv
  <1>3. UNCHANGED <<recv, port, responder, advertised, peer>>  BY DEF Respond
  <1>4. s \in Senders  BY <1>1, ProgramAssumption
  <1>5. replies' \in [Senders -> SUBSET [host : {"receiver"}, port : {port}]]
    BY <1>1, <1>2, <1>4 DEF DiscoveryInv
  <1> QED  BY <1>2, <1>3, <1>5 DEF DiscoveryInv, Named

(* A sender that hears a reply takes its port.                             *)
LEMMA HearNames ==
    ASSUME DiscoveryInv, NEW s \in Senders, Hear(s)  PROVE DiscoveryInv'
  <1>1. UNCHANGED <<recv, port, responder, advertised>>  BY DEF Hear
  <1>2. CASE UNCHANGED <<replies, peer>>  BY <1>1, <1>2 DEF DiscoveryInv, Named
  <1>3. ASSUME NEW d \in replies[s] \cup [host : {"other"}, port : Ports],
               peer' = [peer EXCEPT ![s] = d], replies' = [replies EXCEPT ![s] = {}]
        PROVE  DiscoveryInv'
    <2>1. Named(d)
      BY <1>3 DEF DiscoveryInv, Named
    <2>2. \A t \in Senders \ Told : Named(peer'[t])
      BY <1>3, <2>1 DEF DiscoveryInv
    <2>3. replies' \in [Senders -> SUBSET [host : {"receiver"}, port : {port}]]
      BY <1>3 DEF DiscoveryInv
    <2>4. \A t \in Senders : replies'[t] # {} => port # AnyPort
      BY <1>3 DEF DiscoveryInv
    <2>5. DOMAIN peer' = Senders  BY <1>3 DEF DiscoveryInv
    <2> QED  BY <1>1, <2>2, <2>3, <2>4, <2>5 DEF DiscoveryInv, Named
  <1> QED  BY <1>2, <1>3 DEF Hear

(* An address given with --peer is nobody's reply.                         *)
LEMMA StartNames ==
    ASSUME DiscoveryInv, NEW s \in Senders, Start(s)  PROVE DiscoveryInv'
  <1>1. UNCHANGED <<recv, port, responder, advertised, replies>>  BY DEF Start
  <1>2. \/ UNCHANGED peer
        \/ s \in Told /\ \E p \in Ports : peer' = [peer EXCEPT ![s] = [host |-> "receiver", port |-> p]]
    BY DEF Start
  <1>3. DOMAIN peer' = Senders /\ \A t \in Senders \ Told : peer'[t] = peer[t]
    BY <1>2 DEF DiscoveryInv
  <1> QED  BY <1>1, <1>3 DEF DiscoveryInv, Named

LEMMA DiscoveryStep == DiscoveryInv /\ [ProgramNext]_programVars => DiscoveryInv'
  <1> SUFFICES ASSUME DiscoveryInv, [ProgramNext]_programVars  PROVE DiscoveryInv'  OBVIOUS
  <1>1. ASSUME UNCHANGED <<port, advertised, replies, peer>>,
               recv' = "off" => recv = "off" /\ UNCHANGED responder,
               recv' = "bound" => recv = "bound",
               \/ responder' = responder
               \/ responder' = "stopped"
               \/ responder \in {"spawned", "serving"}
        PROVE  DiscoveryInv'
    BY <1>1 DEF DiscoveryInv, Named
  <1>2. CASE Bind  BY <1>2, BindNames
  <1>3. CASE Spawn
    BY <1>3 DEF Spawn, Bound, DiscoveryInv, Named
  <1>4. CASE Receive  BY <1>1, <1>4 DEF Receive, cmdVars
  <1>5. CASE FinishReceive \/ ExitReceive \/ RenderEnds
    BY <1>1, <1>5 DEF FinishReceive, ExitReceive, RenderEnds
  <1>6. CASE Serve  BY <1>1, <1>6 DEF Serve, DiscoveryInv
  <1>7. CASE Respond  BY <1>7, RespondNames
  <1>8. CASE ReceiveStops  BY <1>1, <1>8 DEF ReceiveStops
  <1>9. ASSUME NEW s \in Senders, Start(s) \/ TfSendStep(s) \/ SendStops(s)  PROVE DiscoveryInv'
    <2>1. CASE Start(s)  BY <2>1, StartNames
    <2>2. CASE Hear(s)  BY <2>2, HearNames
    <2>3. CASE Transmit(s)  BY <1>1, <2>3 DEF Transmit, cmdVars
    <2>4. CASE Probe(s) \/ TimesOut(s) \/ NotFound(s) \/ FinishSend(s) \/ ExitSend(s) \/ SendStops(s)
      BY <1>1, <2>4 DEF Probe, TimesOut, NotFound, FinishSend, ExitSend, SendStops
    <2> QED  BY <1>9, <2>1, <2>2, <2>3, <2>4 DEF TfSendStep
  <1>10. CASE UNCHANGED programVars  BY <1>1, <1>10 DEF programVars, cmdVars
  <1> QED
    BY <1>2, <1>3, <1>4, <1>5, <1>6, <1>7, <1>8, <1>9, <1>10 DEF ProgramNext, TfRecvStep

(* A sender that discovery sent to this receiver was given the port its    *)
(* listener is bound to, for any ports, senders and tries and with every   *)
(* datagram late, lost or repeated (Receiver::bind, serve_discovery,       *)
(* find_peer).                                                             *)
THEOREM RepliesNameListener == ProgramSpec => []ReplyNamesListener
  <1>1. DiscoveryInv => ReplyNamesListener  BY DEF DiscoveryInv, Named, ReplyNamesListener
  <1> QED  BY DiscoveryInit, DiscoveryStep, <1>1, PTL DEF ProgramSpec

(* The commands add no way around the phrase: over all the connections a   *)
(* `tf recv` accepts, told or found, at most one wrong one is compared     *)
(* (receive, transmit).                                                    *)
THEOREM GuessedOncePerCommand == ProgramSpec => []OneGuess
  <1>1. Init => GuessInv /\ ArrivalInv /\ BandInv
    BY DEF Init, GuessInv, ArrivalInv, BandInv, Taken, Waiting
  <1>2. ProgramInit => PairInv /\ GuessInv
    BY <1>1, TypeInit DEF ProgramInit, PairInv
  <1>3. RunInv /\ PairInv /\ GuessInv /\ [ProgramNext]_programVars => (PairInv /\ GuessInv)'
    <2> SUFFICES ASSUME RunInv, PairInv, GuessInv, [ProgramNext]_programVars
                 PROVE  (PairInv /\ GuessInv)'
      OBVIOUS
    <2>1. [Next]_vars  BY NextIsSession
    <2> QED  BY <2>1, TypeStep, ArrivalStep, BandStep, GuessStep DEF PairInv
  <1> QED  BY <1>2, <1>3, RunInvariant, GuessIsOne, PTL DEF ProgramSpec

(* Whatever the two commands do, their session is a run of Session: its    *)
(* steps are the only ones that touch it, so what holds of every step of   *)
(* a session holds inside the commands (receive, transmit).                *)
THEOREM CommandsRunSession == ProgramSpec => Init /\ [][Next]_vars
  <1>1. ProgramInit => Init  BY DEF ProgramInit
  <1> QED  BY <1>1, NextIsSession, RunInvariant, PTL DEF ProgramSpec
=============================================================================
