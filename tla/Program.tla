------------------------------ MODULE Program ------------------------------
(***************************************************************************)
(* `tf recv` and `tf send` from their start to their exit, around one      *)
(* Session: the receiver binds, answers discovery from a thread of its own *)
(* and accepts; a sender finds it by broadcast or is told where it is.     *)
(* Each command draws its progress from a render thread it joins before it *)
(* exits.                                                                  *)
(*                                                                         *)
(* Once sent, a probe may be answered and a reply heard never, late or     *)
(* more than once, so that datagrams are lost, delayed, reordered and      *)
(* repeated; one that is no reply, or another receiver's, may come at any  *)
(* time.  What the two commands say to each other over TCP is Session's.   *)
(*                                                                         *)
(* A definition marked "Variation" is not part of the system: it is the    *)
(* definition after it with a plausible mistake, kept to show that a       *)
(* property depends on the code being as it is.                            *)
(***************************************************************************)
EXTENDS Session

CONSTANTS
    Told,       \* the senders that are given --peer; the others discover
    OnLink,     \* the senders whose address is on the bridge's subnet
    Asked,      \* --port; AnyPort when it is 0
    Ports,      \* the ports the kernel may give
    AnyPort,
    Tries,      \* 3
    TfRecv      \* names the receiver's render thread

ASSUME ProgramAssumption ==
    /\ Told \subseteq Senders /\ OnLink \subseteq Senders
    /\ AnyPort \notin Ports /\ Asked \in Ports \cup {AnyPort}
    /\ Tries \in Nat /\ TfRecv \notin Senders

VARIABLES
    recv,       \* where `tf recv` is
    port,       \* what its listener is bound to, AnyPort before
    responder,  \* the discovery thread
    advertised, \* the port the responder was given
    send,       \* where each `tf send` is
    tries,      \* probes it has sent
    probes,     \* senders that have broadcast
    replies,    \* the receiver's replies to each sender
    peer,       \* the address each sender connects to
    drawing     \* render threads that run; a sender's, or the receiver's

cmdVars     == <<recv, port, responder, advertised, send, tries, probes, replies, peer, drawing>>
programVars == <<vars, cmdVars>>

Nobody == [host |-> "nobody", port |-> AnyPort]

Goes(s, where) == send' = [send EXCEPT ![s] = where]

ProgramInit ==
    /\ Init
    /\ recv = "off" /\ port = AnyPort /\ responder = "none" /\ advertised = AnyPort
    /\ send = [s \in Senders |-> "off"] /\ tries = [s \in Senders |-> 0]
    /\ probes = {} /\ replies = [s \in Senders |-> {}]
    /\ peer = [s \in Senders |-> Nobody] /\ drawing = {}

-----------------------------------------------------------------------------
(* tf recv.                                                                *)

\* find_bridge and generate_phrase, then the listener: 0 is any free port.
Bind ==
    /\ recv = "off"
    /\ \/ /\ port' \in IF Asked = AnyPort THEN Ports ELSE {Asked}
          /\ recv' = "bound"
          /\ UNCHANGED vars
       \/ recv' = "exited" /\ ReceiverBecomes("err") /\ UNCHANGED port
    /\ UNCHANGED <<responder, advertised, send, tries, probes, replies, peer, drawing>>

\* Variation of Bound: the port that was asked for.
AskedFor == Asked

\* receiver.port(): what the kernel gave.
Bound == port

\* The responder's thread and the render thread start; accept_one follows.
Spawn ==
    /\ recv = "bound"
    /\ recv' = "session" /\ responder' = "spawned" /\ advertised' = Bound
    /\ drawing' = drawing \cup {TfRecv}
    /\ UNCHANGED <<vars, port, send, tries, probes, replies, peer>>

\* serve_discovery binds its socket, or fails at that or later, which the
\* receiver outlives.
Serve ==
    /\ \/ responder = "spawned" /\ responder' = "serving"
       \/ responder \in {"spawned", "serving"} /\ responder' = "stopped"
    /\ UNCHANGED <<vars, recv, port, advertised, send, tries, probes, replies, peer, drawing>>

\* A probe from the bridge's subnet is answered with the port.
Respond ==
    /\ responder = "serving"
    /\ \E s \in probes \cap OnLink :
         replies' = [replies EXCEPT ![s] = @ \cup {[host |-> "receiver", port |-> advertised]}]
    /\ UNCHANGED <<vars, recv, port, responder, advertised, send, tries, probes, peer, drawing>>

\* accept_one.
Receive ==
    /\ recv = "session" /\ ReceiverStep
    /\ UNCHANGED cmdVars

\* accept_one has returned, whatever it returned: progress.finish().
FinishReceive ==
    /\ recv = "session" /\ Returned
    /\ recv' = "join"
    /\ UNCHANGED <<vars, port, responder, advertised, send, tries, probes, replies, peer, drawing>>

\* render_loop sees done at its next refresh and draws the last line.
RenderEnds ==
    /\ \/ TfRecv \in drawing /\ recv = "join" /\ drawing' = drawing \ {TfRecv}
       \/ \E s \in Senders : s \in drawing /\ send[s] = "join" /\ drawing' = drawing \ {s}
    /\ UNCHANGED <<vars, recv, port, responder, advertised, send, tries, probes, replies, peer>>

\* render.join() returns and the process ends, its responder with it.
ExitReceive ==
    /\ recv = "join" /\ TfRecv \notin drawing
    /\ recv' = "exited" /\ responder' = "stopped"
    /\ UNCHANGED <<vars, port, advertised, send, tries, probes, replies, peer, drawing>>

\* A socket call fails, which ends the session only, or the process is killed
\* or its machine vanishes.
ReceiveStops ==
    /\ recv \in {"bound", "session"} /\ ReceiverStops
    /\ \/ recv = "session" /\ rpc' = "err" /\ UNCHANGED <<recv, responder>>
       \/ recv' = "exited" /\ responder' = "stopped"
    /\ UNCHANGED <<port, advertised, send, tries, probes, replies, peer, drawing>>

-----------------------------------------------------------------------------
(* tf send.                                                                *)

\* After find_bridge and the prompt for the phrase.
Start(s) ==
    /\ send[s] = "off"
    /\ \/ /\ s \in Told /\ Goes(s, "session")
          /\ peer' \in {[peer EXCEPT ![s] = [host |-> "receiver", port |-> p]] : p \in Ports}
          /\ drawing' = drawing \cup {s}
       \/ s \notin Told /\ Goes(s, "probe") /\ UNCHANGED <<peer, drawing>>
    /\ UNCHANGED <<vars, recv, port, responder, advertised, tries, probes, replies>>

\* The command ends before its session: no bridge, no phrase, a socket error
\* or nobody found.
GivesUp(s) == Exits(s, "failed") /\ Goes(s, "exited")

\* One of the broadcasts of find_peer.
Probe(s) ==
    /\ send[s] = "probe" /\ tries[s] < Tries
    /\ tries' = [tries EXCEPT ![s] = @ + 1]
    /\ probes' = probes \cup {s}
    /\ Goes(s, "listen")
    /\ UNCHANGED <<vars, recv, port, responder, advertised, replies, peer, drawing>>

\* Variation of Again: a datagram that is no reply does not use up the try.
AgainFree(s) == tries' = [tries EXCEPT ![s] = @ - 1]

\* The next of the tries, whatever came of this one.
Again(s) == UNCHANGED tries

\* recv_from returns the first datagram there is: a reply, or something else.
\* The socket is closed with find_peer.
Hear(s) ==
    /\ send[s] = "listen"
    /\ \/ \E d \in replies[s] \cup [host : {"other"}, port : Ports] :
            /\ peer' = [peer EXCEPT ![s] = d]
            /\ drawing' = drawing \cup {s}
            /\ Goes(s, "session") /\ tries' = [tries EXCEPT ![s] = 0]
            /\ probes' = probes \ {s} /\ replies' = [replies EXCEPT ![s] = {}]
       \/ Goes(s, "probe") /\ Again(s) /\ UNCHANGED <<probes, replies, peer, drawing>>
    /\ UNCHANGED <<vars, recv, port, responder, advertised>>

\* The second is over.
TimesOut(s) ==
    /\ send[s] = "listen"
    /\ Goes(s, "probe")
    /\ UNCHANGED <<vars, recv, port, responder, advertised, tries, probes, replies, peer, drawing>>

\* Nobody answered any of the tries.
NotFound(s) ==
    /\ send[s] = "probe" /\ tries[s] = Tries
    /\ GivesUp(s)
    /\ UNCHANGED <<recv, port, responder, advertised, tries, probes, replies, peer, drawing>>

\* Its address is the receiver's listener.
Reaches(s) == port # AnyPort /\ peer[s] = [host |-> "receiver", port |-> port]

\* send_to_diag, with a connect that is refused where nobody listens; another
\* receiver refuses the phrase.
Transmit(s) ==
    /\ send[s] = "session"
    /\ \/ Reaches(s) /\ SenderStep(s)
       \/ ~Reaches(s) /\ spc[s] = "start" /\ Exits(s, "failed")
    /\ UNCHANGED cmdVars

\* send_to_diag has returned, whatever it returned.
FinishSend(s) ==
    /\ send[s] = "session" /\ spc[s] \in {"ok", "failed"}
    /\ Goes(s, "join")
    /\ UNCHANGED <<vars, recv, port, responder, advertised, tries, probes, replies, peer, drawing>>

ExitSend(s) ==
    /\ send[s] = "join" /\ s \notin drawing
    /\ Goes(s, "exited")
    /\ UNCHANGED <<vars, recv, port, responder, advertised, tries, probes, replies, peer, drawing>>

\* It is killed, vanishes, or fails before its session.
SendStops(s) ==
    /\ send[s] \notin {"off", "join", "exited"}
    /\ SenderStops(s) /\ Goes(s, "exited")
    /\ UNCHANGED <<recv, port, responder, advertised, tries, probes, replies, peer, drawing>>

-----------------------------------------------------------------------------
TfRecvStep ==
    \/ Spawn \/ Receive \/ FinishReceive \/ ExitReceive
TfSendStep(s) ==
    \/ Probe(s) \/ Hear(s) \/ TimesOut(s) \/ NotFound(s)
    \/ Transmit(s) \/ FinishSend(s) \/ ExitSend(s)

ProgramNext ==
    \/ Bind \/ TfRecvStep \/ Serve \/ Respond \/ RenderEnds \/ ReceiveStops
    \/ \E s \in Senders : Start(s) \/ TfSendStep(s) \/ SendStops(s)

\* Every thread that can run does, and armed timeouts fire. Nobody has to start
\* a command, and no datagram has to arrive.
ProgramFairness ==
    /\ WF_programVars(TfRecvStep) /\ WF_programVars(RenderEnds)
    /\ \A s \in Senders : WF_programVars(TfSendStep(s))

ProgramSpec == ProgramInit /\ [][ProgramNext]_programVars /\ ProgramFairness

-----------------------------------------------------------------------------
(* A sender that discovery sent to this receiver was given the port its    *)
(* listener is bound to, whatever was asked for and however early or late  *)
(* the responder came up (Receiver::bind, port and serve_discovery in      *)
(* receive).                                                               *)
ReplyNamesListener ==
    \A s \in Senders \ Told : peer[s].host = "receiver" => port # AnyPort /\ peer[s].port = port

(* Every `tf send` ends, found or not, refused or not, with its render     *)
(* thread joined, and so does every v3 `tf recv` that has accepted a       *)
(* connection (find_peer's tries, the timeouts of both ends, and           *)
(* progress.finish() on every path before the join).                       *)
CommandsReturn ==
    /\ \A s \in Senders : (send[s] # "off") ~> (send[s] = "exited")
    /\ (taken # <<>>) ~> (recv = "exited")
=============================================================================
