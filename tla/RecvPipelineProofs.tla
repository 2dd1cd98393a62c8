------------------------- MODULE RecvPipelineProofs -------------------------
(***************************************************************************)
(* What holds of RecvPipeline for every set of names, streams and trees,   *)
(* every queue depth and chunk size, with or without verification and      *)
(* durability.                                                             *)
(***************************************************************************)
EXTENDS RecvPipeline, SharedFacts

(* The static facts every proof below starts from. *)
LEMMA StreamFacts ==
    ASSUME OfferType
    PROVE  /\ stream \in Seq(Entry) /\ Len(stream) \in Nat
           /\ \A i \in Entries : stream[i] \in Entry
           /\ before \in [Names -> Node]
           /\ \A n \in Names : before[n].of = 0
  <1>1. stream \in Seq(Entry)  BY PipelineAssumption DEF OfferType
  <1>2. Len(stream) \in Nat /\ \A i \in Entries : stream[i] \in Entry
    BY <1>1 DEF Entries
  <1>3. before \in [Names -> {Absent, Dir, Link(0), File(0)}]
    BY PipelineAssumption DEF OfferType
  <1>4. \A v \in {Absent, Dir, Link(0), File(0)} : v \in Node /\ v.of = 0
    BY DEF Node, Absent, Dir, Link, File
  <1>5. before \in [Names -> Node] /\ \A n \in Names : before[n].of = 0
    BY <1>3, <1>4
  <1> QED  BY <1>1, <1>2, <1>5

(* A buffer's worth of payload is a sequence of units. *)
LEMMA PayloadIsSeq ==
    ASSUME NEW n \in Nat, NEW v \in Nat
    PROVE  [k \in 1 .. n |-> v] \in Seq(Nat)
  OBVIOUS

(* Writing through a descriptor leaves contents that are a sequence of units. *)
LEMMA WriteAtIsSeq ==
    ASSUME NEW c \in Seq(Nat), NEW d \in Seq(Nat), NEW o \in Nat
    PROVE  WriteAt(c, o, d) \in Seq(Nat)
  <1> DEFINE top == MaxOf(Len(c), o + Len(d))
             val(k) == IF k > o /\ k <= o + Len(d) THEN d[k - o]
                       ELSE IF k <= Len(c) THEN c[k] ELSE 0
  <1>1. top \in Nat  BY DEF MaxOf
  <1>2. \A k \in 1 .. top : val(k) \in Nat  OBVIOUS
  <1>3. [k \in 1 .. top |-> val(k)] \in Seq(Nat)  BY <1>1, <1>2
  <1> QED  BY <1>3 DEF WriteAt

(* Dropping unfinished files keeps the tree and the scratch files typed. *)
LEMMA DropType ==
    ASSUME OfferType, FileType, NEW I, DropInFlight(I), UNCHANGED stream
    PROVE  FileType'
  <1>1. /\ Absent \in Node /\ Absent.of = 0
        /\ 0 \in Inodes
    BY StreamFacts DEF Node, Absent, Inodes
  <1>2. dest' \in [Names -> Node] /\ \A n \in Names : dest'[n].of \in Inodes
    BY <1>1 DEF FileType, DropInFlight
  <1> QED  BY <1>2 DEF FileType, DropInFlight, Entries, Inodes

(* A send puts one message at the end of one channel that has room for it. *)
LEMMA PushType ==
    ASSUME OfferType, ChannelType, NEW m \in Message, Push(m), UNCHANGED <<stream, pool>>
    PROVE  ChannelType'
  <1>1. Message' = Message  BY DEF Message, Entries
  <1>2. \A q \in Seq(Message) : Append(q, m) \in Seq(Message) /\ Len(Append(q, m)) = Len(q) + 1
    OBVIOUS
  <1>3. Depth \in Nat  BY PipelineAssumption
  <1>4. CASE Verify  BY <1>1, <1>2, <1>3, <1>4 DEF Push, ChannelType
  <1>5. CASE ~Verify  BY <1>1, <1>2, <1>3, <1>5 DEF Push, ChannelType
  <1> QED  BY <1>4, <1>5

(* A group of variables a step leaves alone keeps its type. *)
LEMMA Frames ==
    ASSUME TypeOK, UNCHANGED <<stream, before>>
    PROVE  /\ OfferType' /\ Entries' = Entries /\ Inodes' = Inodes /\ Message' = Message
           /\ UNCHANGED netVars => NetType'
           /\ UNCHANGED hashVars => HashType'
           /\ UNCHANGED writerVars => WriterType'
           /\ UNCHANGED chanVars => ChannelType'
           /\ UNCHANGED fileVars => FileType'
           /\ UNCHANGED <<dirVars, endVars, fault>> => EndType'
  <1>1. OfferType' /\ Entries' = Entries /\ Inodes' = Inodes /\ Message' = Message
    BY DEF TypeOK, OfferType, Entries, Inodes, Message
  <1>2. UNCHANGED netVars => NetType'  BY DEF TypeOK, NetType, netVars
  <1>3. UNCHANGED hashVars => HashType'  BY <1>1 DEF TypeOK, HashType, hashVars
  <1>4. UNCHANGED writerVars => WriterType'  BY DEF TypeOK, WriterType, writerVars
  <1>5. UNCHANGED chanVars => ChannelType'  BY <1>1 DEF TypeOK, ChannelType, chanVars
  <1>6. UNCHANGED fileVars => FileType'  BY <1>1 DEF TypeOK, FileType, fileVars
  <1>7. UNCHANGED <<dirVars, endVars, fault>> => EndType'
    BY DEF TypeOK, EndType, dirVars, endVars
  <1> QED  BY <1>1, <1>2, <1>3, <1>4, <1>5, <1>6, <1>7

(* Registering a directory of the destination keeps the registry typed. *)
LEMMA RegisterType ==
    ASSUME reg \subseteq Dirs, NEW d \in Dirs, Register(d)
    PROVE  reg' \subseteq Dirs
  BY DEF Register

(* The directory an entry lives in is one of the destination's. *)
LEMMA HereIsDir ==
    ASSUME OfferType, NEW i \in Entries
    PROVE  /\ stream[i].name \in Names /\ Parent[stream[i].name] \in Dirs
           /\ stream[i].size \in Nat /\ stream[i].long \in BOOLEAN
           /\ stream[i].kind \in {"Dir", "Symlink", "File"}
  BY StreamFacts, PipelineAssumption DEF Entry

(* What a step of the walk to an entry's directory does. *)
LEMMA WalkFacts ==
    ASSUME TypeOK, WalkDirs
    PROVE  /\ item \in Entries /\ Me.name \in Names /\ Here \in Dirs /\ net = "walk"
           /\ UNCHANGED <<stream, before, item, left, buf, scratch, ino, disk, synced, reg>>
           /\ UNCHANGED <<hashVars, writerVars, chanVars, endVars>>
           /\ \/ /\ \/ Me.kind = "Dir" /\ net' = "mkdir"
                    \/ Me.kind = "Symlink" /\ net' = "target"
                    \/ Me.kind = "File" /\ net' = "create"
                 /\ Cached \/ (Here # Root => dest[Here] = Dir)
                 /\ UNCHANGED <<received, dest, changed, fault>>
              \/ /\ net' = "walk" /\ UNCHANGED <<received, fault>>
                 /\ \E p \in Names :
                      /\ p \in Above[Me.name] /\ dest[p] = Absent
                      /\ Parent[p] # Root => dest[Parent[p]] = Dir
                      /\ dest' = [dest EXCEPT ![p] = Dir]
                      /\ changed' = changed \cup {Parent[p]}
              \/ net' = "join" /\ received' = "fs" /\ fault' = TRUE /\ UNCHANGED <<dest, changed>>
  <1>1. item \in Entries /\ net = "walk"  BY DEF WalkDirs, TypeOK, NetType, Entries
  <1>2. /\ Me.name \in Names /\ Here \in Dirs /\ Me.kind \in {"Dir", "Symlink", "File"}
    BY <1>1, HereIsDir DEF Me, Here, TypeOK
  <1>3. /\ UNCHANGED <<stream, before, item, left, buf, scratch, ino, disk, synced, reg>>
        /\ UNCHANGED <<hashVars, writerVars, chanVars, endVars>>
    BY DEF WalkDirs
  <1> QED  BY <1>1, <1>2, <1>3 DEF WalkDirs, AfterHeader, NetReturns

LEMMA TypeInit == Init => TypeOK
  <1> SUFFICES ASSUME Init PROVE TypeOK  OBVIOUS
  <1>1. OfferType  BY DEF Init, OfferType
  <1>2. Len(stream) \in Nat  BY <1>1, StreamFacts
  <1>3. 0 \in Inodes  BY <1>2 DEF Inodes
  <1>4. NetType /\ WriterType
    BY <1>2 DEF Init, NetType, WriterType
  <1>8. EndType  BY DEF Init, EndType
  <1>5. HashType  BY DEF Init, HashType
  <1>6. ChannelType  BY PipelineAssumption DEF Init, ChannelType
  <1>7. FileType  BY <1>1, <1>3, StreamFacts DEF Init, FileType
  <1> QED  BY <1>1, <1>4, <1>5, <1>6, <1>7, <1>8 DEF TypeOK

(* The nodes the session puts in the tree. *)
LEMMA NodeFacts ==
    ASSUME OfferType
    PROVE  /\ Absent \in Node /\ Absent.of \in Inodes
           /\ Dir \in Node /\ Dir.of \in Inodes
           /\ \A i \in Inodes : /\ Link(i) \in Node /\ Link(i).of \in Inodes
                                /\ File(i) \in Node /\ File(i).of \in Inodes
           /\ Entries \subseteq Inodes
  BY StreamFacts DEF Node, Absent, Dir, Link, File, Inodes, Entries

LEMMA RootIsDir == Root \in Dirs
  BY DEF Dirs

LEMMA TypeNet ==
    ASSUME TypeOK, NetStep
    PROVE  TypeOK'
  <1>0. /\ OfferType /\ NetType /\ HashType /\ WriterType /\ ChannelType /\ FileType /\ EndType
        /\ Len(stream) \in Nat
    BY StreamFacts DEF TypeOK
  <1>1. ASSUME OpenDest PROVE TypeOK'
    <2>1. NetType'  BY <1>0, <1>1 DEF OpenDest, NetType, NetReturns
    <2>2. EndType'
      BY <1>0, <1>1, RegisterType, RootIsDir DEF OpenDest, EndType, endVars
    <2> QED  BY <1>0, <1>1, <2>1, <2>2, Frames DEF OpenDest, TypeOK
  <1>2. ASSUME NextEntry PROVE TypeOK'
    <2>1. item + 1 \in Entries  BY <1>0, <1>2 DEF NextEntry, NetType, Entries
    <2> DEFINE e == stream[item + 1]
    <2>2. e.size \in Nat /\ e.name \in Names /\ e.kind \in {"Dir", "Symlink", "File"}
      BY <1>0, <2>1, HereIsDir
    <2>3. NetType'  BY <1>0, <1>2, <2>1, <2>2 DEF NextEntry, NetType, Entries
    <2> QED  BY <1>0, <1>2, <2>3, Frames DEF NextEntry, TypeOK
  <1>w. ASSUME WalkDirs PROVE TypeOK'
    <2>1. /\ item \in Entries /\ net = "walk" /\ UNCHANGED <<stream, before, item, left, buf>>
          /\ UNCHANGED <<scratch, ino, disk, synced, reg, hashVars, writerVars, chanVars, endVars>>
          /\ flushed' = flushed
      BY <1>w, WalkFacts DEF WalkDirs
    <2>2. NetType'
      <3>1. net' \in {"mkdir", "target", "create", "walk", "join"} /\ received' \in {received, "fs"}
        BY <1>w, WalkFacts
      <3>2. item > 0  BY <2>1 DEF Entries
      <3> QED  BY <1>0, <2>1, <3>1, <3>2 DEF NetType
    <2>3. \/ UNCHANGED <<dest, changed>>
          \/ \E p \in Names : /\ dest' = [dest EXCEPT ![p] = Dir]
                               /\ changed' = changed \cup {Parent[p]}
      BY <1>w, WalkFacts
    <2>4. FileType'
      <3>1. dest' \in [Names -> Node] /\ \A n \in Names : dest'[n].of \in Inodes
        BY <1>0, <2>3, NodeFacts DEF FileType
      <3> QED  BY <1>0, <2>1, <3>1, Frames DEF FileType
    <2>5. EndType'
      <3>1. changed' \subseteq Dirs  BY <1>0, <2>3, PipelineAssumption DEF EndType
      <3>2. fault' \in BOOLEAN  BY <1>0, <1>w, WalkFacts DEF EndType
      <3> QED  BY <1>0, <2>1, <3>1, <3>2 DEF EndType, endVars
    <2> QED  BY <1>0, <2>1, <2>2, <2>4, <2>5, Frames DEF TypeOK
  <1>3. ASSUME EndOfStream PROVE TypeOK'
    <2>1. NetType'  BY <1>0, <1>3 DEF EndOfStream, NetType, NetReturns
    <2> QED  BY <1>0, <1>3, <2>1, Frames DEF EndOfStream, TypeOK
  <1>4. ASSUME SocketFails PROVE TypeOK'
    <2>1. NetType'  BY <1>0, <1>4 DEF SocketFails, NetType, NetReturns
    <2>2. EndType'  BY <1>0, <1>4 DEF SocketFails, EndType, dirVars, endVars
    <2> QED  BY <1>0, <1>4, <2>1, <2>2, Frames DEF SocketFails, TypeOK
  <1>5. ASSUME MakeDir PROVE TypeOK'
    <2>1. item \in Entries /\ Me.name \in Names /\ Here \in Dirs
      BY <1>0, <1>5, HereIsDir DEF MakeDir, NetType, Entries, Me, Here
    <2>2. NetType'  BY <1>0, <1>5 DEF MakeDir, NetType, NetReturns
    <2>3. FileType'  BY <1>0, <1>5, <2>1, NodeFacts, Frames DEF MakeDir, FileType
    <2>4. EndType'
      BY <1>0, <1>5, <2>1, RegisterType DEF MakeDir, EndType, endVars
    <2> QED  BY <1>0, <1>5, <2>2, <2>3, <2>4, Frames DEF MakeDir, TypeOK
  <1>6. ASSUME ReadTarget PROVE TypeOK'
    <2>1. NetType'  BY <1>0, <1>6 DEF ReadTarget, NetType, NetReturns
    <2>2. EndType'  BY <1>0, <1>6 DEF ReadTarget, EndType, dirVars, endVars
    <2> QED  BY <1>0, <1>6, <2>1, <2>2, Frames DEF ReadTarget, TypeOK
  <1>7. ASSUME UnlinkForSymlink PROVE TypeOK'
    <2>1. NetType'  BY <1>0, <1>7 DEF UnlinkForSymlink, NetType
    <2>2. FileType'  BY <1>0, <1>7, NodeFacts, Frames DEF UnlinkForSymlink, FileType
    <2> QED  BY <1>0, <1>7, <2>1, <2>2, Frames DEF UnlinkForSymlink, TypeOK
  <1>8. ASSUME MakeSymlink PROVE TypeOK'
    <2>1. item \in Entries /\ Me.name \in Names /\ Here \in Dirs
      BY <1>0, <1>8, HereIsDir DEF MakeSymlink, NetType, Entries, Me, Here
    <2>2. NetType'  BY <1>0, <1>8 DEF MakeSymlink, NetType, NetReturns
    <2>3. FileType'  BY <1>0, <1>8, <2>1, NodeFacts, Frames DEF MakeSymlink, FileType
    <2>4. EndType'
      BY <1>0, <1>8, <2>1, RegisterType DEF MakeSymlink, EndType, endVars
    <2> QED  BY <1>0, <1>8, <2>2, <2>3, <2>4, Frames DEF MakeSymlink, TypeOK
  <1>9. ASSUME CreateScratch PROVE TypeOK'
    <2>1. item \in Entries  BY <1>0, <1>9 DEF CreateScratch, NetType, Entries
    <2>2. NetType'  BY <1>0, <1>9 DEF CreateScratch, NetType
    <2>3. FileType'  BY <1>0, <1>9, <2>1, NodeFacts, Frames DEF CreateScratch, FileType
    <2> QED  BY <1>0, <1>9, <2>2, <2>3, Frames DEF CreateScratch, TypeOK
  <1>10. ASSUME CreateInPlace PROVE TypeOK'
    <2>1. item \in Entries /\ Me.name \in Names /\ Here \in Dirs
      <3>1. item \in Entries  BY <1>0, <1>10 DEF CreateInPlace, NetType, Entries
      <3> QED  BY <1>0, <3>1, HereIsDir DEF Me, Here
    <2>2. NetType'  BY <1>0, <1>10 DEF CreateInPlace, NetType, NetReturns
    <2>3. dest[Me.name].of \in Inodes /\ item \in Inodes
      BY <1>0, <2>1, NodeFacts DEF FileType
    <2>4. FileType'
      <3>1. CASE net' = "begin"
        <4>1. PICK fresh \in BOOLEAN, node \in Inodes :
                /\ ino' = [ino EXCEPT ![item] = node]
                /\ disk' = [disk EXCEPT ![node] = <<>>]
                /\ synced' = synced \ {node}
                /\ dest' = [dest EXCEPT ![Me.name] = File(node)]
          BY <1>10, <2>3, <3>1 DEF CreateInPlace, NetReturns
        <4>2. ino' \in [Entries -> Inodes]  BY <1>0, <4>1 DEF FileType
        <4>4. disk' \in [Entries -> Seq(Nat)]
          <5>1. disk \in [Entries -> Seq(Nat)] /\ <<>> \in Seq(Nat)  BY <1>0 DEF FileType
          <5> QED  BY <4>1, <5>1
        <4>3. dest' \in [Names -> Node] /\ \A n \in Names : dest'[n].of \in Inodes
          BY <1>0, <2>1, <4>1, NodeFacts DEF FileType
        <4> QED  BY <1>0, <1>10, <4>1, <4>2, <4>3, <4>4, Frames DEF CreateInPlace, FileType
      <3>2. CASE net' # "begin"
        <4>1. /\ UNCHANGED <<stream, before, scratch, ino, disk, synced>>
              /\ dest' = dest \/ dest' = [dest EXCEPT ![Me.name] = Absent]
          BY <1>10, <3>2 DEF CreateInPlace
        <4>2. dest' \in [Names -> Node] /\ \A n \in Names : dest'[n].of \in Inodes
          BY <1>0, <2>1, <4>1, NodeFacts DEF FileType
        <4> QED  BY <1>0, <4>1, <4>2, Frames DEF FileType
      <3> QED  BY <3>1, <3>2
    <2>5. EndType'
      BY <1>0, <1>10, <2>1 DEF CreateInPlace, EndType, endVars
    <2> QED  BY <1>0, <1>10, <2>2, <2>4, <2>5, Frames DEF CreateInPlace, TypeOK
  <1>11. ASSUME CreateFails PROVE TypeOK'
    <2>1. NetType'  BY <1>0, <1>11 DEF CreateFails, NetType, NetReturns
    <2>2. EndType'  BY <1>0, <1>11 DEF CreateFails, EndType, dirVars, endVars
    <2> QED  BY <1>0, <1>11, <2>1, <2>2, Frames DEF CreateFails, TypeOK
  <1>12. ASSUME SendBegin PROVE TypeOK'
    <2>1. item \in Entries  BY <1>0, <1>12 DEF SendBegin, NetType, Entries
    <2>2. Msg("Begin", item, <<>>) \in Message  BY <2>1 DEF Msg, Message
    <2>3. NetType'  BY <1>0, <1>12 DEF SendBegin, NetType, AfterPayload
    <2>4. ChannelType'  BY <1>0, <1>12, <2>2, PushType DEF SendBegin
    <2> QED  BY <1>0, <1>12, <2>3, <2>4, Frames DEF SendBegin, TypeOK
  <1>13. ASSUME SendFails PROVE TypeOK'
    <2>1. NetType'  BY <1>0, <1>13 DEF SendFails, NetType, NetReturns
    <2>2. FileType'  BY <1>0, <1>13, DropType DEF SendFails
    <2> QED  BY <1>0, <1>13, <2>1, <2>2, Frames DEF SendFails, TypeOK
  <1>14. ASSUME TakeBuffer PROVE TypeOK'
    <2>1. NetType'  BY <1>0, <1>14 DEF TakeBuffer, NetType, NetReturns
    <2>2. ChannelType'
      BY <1>0, <1>14, PipelineAssumption, Frames DEF TakeBuffer, ChannelType
    <2> QED  BY <1>0, <1>14, <2>1, <2>2, Frames DEF TakeBuffer, TypeOK
  <1>15. ASSUME ReadPayload PROVE TypeOK'
    <2>1. PICK n \in 1 .. MinOf(left, Chunk), ok \in BOOLEAN :
            /\ buf' = [k \in 1 .. n |-> IF ok THEN item ELSE 0]
            /\ left' = left - n
            /\ fault' = (fault \/ ~ok)
      BY <1>15 DEF ReadPayload
    <2>2. n \in Nat /\ left - n \in Nat
      BY <1>0, <2>1, PipelineAssumption DEF NetType, MinOf
    <2>3. buf' \in Seq(Nat)
      <3> DEFINE v == IF ok THEN item ELSE 0
      <3>1. v \in Nat  BY <1>0 DEF NetType
      <3>2. buf' = [k \in 1 .. n |-> v]  BY <2>1
      <3> QED  BY <2>2, <3>1, <3>2, PayloadIsSeq
    <2>4. NetType'  BY <1>0, <1>15, <2>1, <2>2, <2>3 DEF ReadPayload, NetType
    <2>5. EndType'  BY <1>0, <1>15, <2>1 DEF ReadPayload, EndType, dirVars, endVars
    <2> QED  BY <1>0, <1>15, <2>4, <2>5, Frames DEF ReadPayload, TypeOK
  <1>16. ASSUME SendData PROVE TypeOK'
    <2>1. item \in Entries  BY <1>0, <1>16 DEF SendData, NetType, Entries
    <2>2. Msg("Data", item, buf) \in Message  BY <1>0, <2>1 DEF Msg, Message, NetType
    <2>3. NetType'  BY <1>0, <1>16 DEF SendData, NetType, AfterPayload
    <2>4. ChannelType'  BY <1>0, <1>16, <2>2, PushType DEF SendData
    <2> QED  BY <1>0, <1>16, <2>3, <2>4, Frames DEF SendData, TypeOK
  <1>17. ASSUME SendFinish PROVE TypeOK'
    <2>1. item \in Entries  BY <1>0, <1>17 DEF SendFinish, NetType, Entries
    <2>2. Msg("Finish", item, <<>>) \in Message  BY <2>1 DEF Msg, Message
    <2>3. NetType'  BY <1>0, <1>17 DEF SendFinish, NetType
    <2>4. ChannelType'  BY <1>0, <1>17, <2>2, PushType DEF SendFinish
    <2> QED  BY <1>0, <1>17, <2>3, <2>4, Frames DEF SendFinish, TypeOK
  <1>18. ASSUME AwaitReply PROVE TypeOK'
    <2>1. NetType'  BY <1>0, <1>18 DEF AwaitReply, NetType, NetReturns
    <2> QED  BY <1>0, <1>18, <2>1, Frames DEF AwaitReply, TypeOK
  <1>19. ASSUME CheckDigest PROVE TypeOK'
    <2>1. NetType'  BY <1>0, <1>19 DEF CheckDigest, NetType, NetReturns
    <2>2. HashType'  BY <1>0, <1>19, Frames DEF CheckDigest, HashType
    <2> QED  BY <1>0, <1>19, <2>1, <2>2, Frames DEF CheckDigest, TypeOK
  <1>20. ASSUME SendEndFile PROVE TypeOK'
    <2>1. item \in Entries  BY <1>0, <1>20 DEF SendEndFile, NetType, Entries
    <2>2. Msg("EndFile", item, <<>>) \in Message  BY <2>1 DEF Msg, Message
    <2>3. NetType'  BY <1>0, <1>20 DEF SendEndFile, NetType
    <2>4. ChannelType'  BY <1>0, <1>20, <2>2, PushType DEF SendEndFile
    <2> QED  BY <1>0, <1>20, <2>3, <2>4, Frames DEF SendEndFile, TypeOK
  <1>21. ASSUME Join PROVE TypeOK'
    <2>1. NetType'  BY <1>0, <1>21 DEF Join, NetType
    <2>2. EndType'  BY <1>0, <1>21 DEF Join, SessionError, EndType, NetType, dirVars
    <2> QED  BY <1>0, <1>21, <2>1, <2>2, Frames DEF Join, TypeOK
  <1>22. ASSUME FlushDirectories PROVE TypeOK'
    <2>1. NetType'  BY <1>0, <1>22 DEF FlushDirectories, NetType
    <2>2. EndType'  BY <1>0, <1>22 DEF FlushDirectories, EndType
    <2> QED  BY <1>0, <1>22, <2>1, <2>2, Frames DEF FlushDirectories, TypeOK
  <1>23. ASSUME Acknowledge PROVE TypeOK'
    <2>1. NetType'  BY <1>0, <1>23 DEF Acknowledge, NetType
    <2>2. EndType'  BY <1>0, <1>23 DEF Acknowledge, EndType, dirVars
    <2> QED  BY <1>0, <1>23, <2>1, <2>2, Frames DEF Acknowledge, TypeOK
  <1> QED
    BY <1>1, <1>2, <1>w, <1>3, <1>4, <1>5, <1>6, <1>7, <1>8, <1>9, <1>10, <1>11, <1>12, <1>13,
       <1>14, <1>15, <1>16, <1>17, <1>18, <1>19, <1>20, <1>21, <1>22, <1>23
    DEF NetStep

(* One-element and empty sequences, whatever their elements. *)
LEMMA ShortSeqs ==
    ASSUME NEW S
    PROVE  /\ <<>> \in Seq(S) /\ Len(<<>>) = 0
           /\ \A e \in S : <<e>> \in Seq(S) /\ Len(<<e>>) = 1
  OBVIOUS

(* Taking a message leaves a shorter channel. *)
LEMMA HeadTail ==
    ASSUME NEW q \in Seq(Message), q # <<>>
    PROVE  Head(q) \in Message /\ Tail(q) \in Seq(Message) /\ Len(Tail(q)) = Len(q) - 1
  OBVIOUS

LEMMA TypeHash ==
    ASSUME TypeOK, HashStep
    PROVE  TypeOK'
  <1>0. /\ OfferType /\ NetType /\ HashType /\ WriterType /\ ChannelType /\ FileType /\ EndType
    BY DEF TypeOK
  <1>1. ASSUME HashTake PROVE TypeOK'
    <2>1. Head(q1) \in Message /\ Tail(q1) \in Seq(Message) /\ Len(Tail(q1)) <= Depth
      BY <1>0, <1>1, HeadTail, PipelineAssumption DEF HashTake, ChannelType
    <2>2. sum \o Head(q1).data \in Seq(Nat)
      <3>1. Head(q1).data \in Seq(Nat)  BY <2>1 DEF Message
      <3> QED  BY <1>0, <3>1 DEF HashType
    <2>3. ChannelType'
      BY <1>0, <1>1, <2>1, Frames DEF HashTake, ChannelType
    <2>4. HashType'
      <3>1. /\ hand' = hand \/ hand' = <<Head(q1)>>
            /\ sum' = sum \/ sum' = sum \o Head(q1).data \/ sum' = <<>>
            /\ reply' = reply \/ reply' = <<sum>>
        BY <1>1 DEF HashTake, SumAfterFinish
      <3>2. hand' \in Seq(Message) /\ Len(hand') <= 1
        <4>1. CASE hand' = hand  BY <1>0, <4>1 DEF HashType
        <4>2. CASE hand' = <<Head(q1)>>  BY <2>1, <4>2, ShortSeqs
        <4> QED  BY <3>1, <4>1, <4>2
      <3>3. sum' \in Seq(Nat)
        <4>1. sum \in Seq(Nat) /\ <<>> \in Seq(Nat)  BY <1>0, ShortSeqs DEF HashType
        <4> QED  BY <2>2, <3>1, <4>1
      <3>4. reply' \in Seq(Seq(Nat))
        <4>1. sum \in Seq(Nat) /\ reply \in Seq(Seq(Nat))  BY <1>0 DEF HashType
        <4>2. <<sum>> \in Seq(Seq(Nat))  BY <4>1, ShortSeqs
        <4> QED  BY <3>1, <4>1, <4>2
      <3> QED  BY <1>0, <1>1, <3>2, <3>3, <3>4, Frames DEF HashTake, HashType
    <2> QED  BY <1>0, <1>1, <2>3, <2>4, Frames DEF HashTake, TypeOK
  <1>2. ASSUME HashForward PROVE TypeOK'
    <2>1. hand[1] \in Message  BY <1>0, <1>2 DEF HashForward, HashType
    <2>2. Append(q2, hand[1]) \in Seq(Message) /\ Len(Append(q2, hand[1])) = Len(q2) + 1
      BY <1>0, <2>1 DEF ChannelType
    <2>3. ChannelType'
      BY <1>0, <1>2, <2>2, PipelineAssumption, Frames DEF HashForward, ChannelType
    <2>4. HashType'  BY <1>0, <1>2, Frames DEF HashForward, HashType
    <2> QED  BY <1>0, <1>2, <2>3, <2>4, Frames DEF HashForward, TypeOK
  <1>3. ASSUME HashStops PROVE TypeOK'
    <2>1. ChannelType'
      BY <1>0, <1>3, PipelineAssumption, Frames DEF HashStops, ChannelType
    <2>2. HashType'  BY <1>0, <1>3, Frames DEF HashStops, HashType
    <2>3. FileType'  BY <1>0, <1>3, DropType DEF HashStops
    <2> QED  BY <1>0, <1>3, <2>1, <2>2, <2>3, Frames DEF HashStops, TypeOK
  <1>4. ASSUME HashEnds PROVE TypeOK'
    <2>1. HashType'  BY <1>0, <1>4, Frames DEF HashEnds, HashType
    <2> QED  BY <1>0, <1>4, <2>1, Frames DEF HashEnds, TypeOK
  <1> QED  BY <1>1, <1>2, <1>3, <1>4 DEF HashStep

(* What every failure of the writer does to the types. *)
LEMMA TypeWriterFails ==
    ASSUME TypeOK, WriterFails, pool' \in 0 .. Depth
    PROVE  TypeOK'
  <1>1. OfferType /\ WriterType /\ ChannelType /\ FileType /\ EndType  BY DEF TypeOK
  <1>2. WriterType'  BY <1>1, StreamFacts DEF WriterFails, WriterType
  <1>3. ChannelType'
    BY <1>1, PipelineAssumption, Frames DEF WriterFails, ChannelType
  <1>4. FileType'  BY <1>1, DropType DEF WriterFails
  <1>5. EndType'  BY <1>1 DEF WriterFails, EndType, dirVars, endVars
  <1> QED  BY <1>2, <1>3, <1>4, <1>5, Frames DEF WriterFails, TypeOK

LEMMA TypeWriter ==
    ASSUME TypeOK, WriterStep
    PROVE  TypeOK'
  <1>0. /\ OfferType /\ NetType /\ HashType /\ WriterType /\ ChannelType /\ FileType /\ EndType
        /\ Depth \in Nat /\ Len(stream) \in Nat
    BY PipelineAssumption, StreamFacts DEF TypeOK
  <1>a. ASSUME q2 # <<>>
        PROVE  /\ Head(q2) \in Message /\ Tail(q2) \in Seq(Message)
               /\ Len(Tail(q2)) <= Depth
    BY <1>0, <1>a, HeadTail DEF ChannelType
  <1>1. ASSUME WriteBegin PROVE TypeOK'
    <2>1. WriterType'
      BY <1>0, <1>1, <1>a DEF WriteBegin, WriterType, Message, Entries
    <2>2. ChannelType'  BY <1>0, <1>1, <1>a, Frames DEF WriteBegin, ChannelType
    <2>3. FileType'  BY <1>0, <1>1, DropType DEF WriteBegin
    <2> QED  BY <1>0, <1>1, <2>1, <2>2, <2>3, Frames DEF WriteBegin, TypeOK
  <1>2. ASSUME WriteData PROVE TypeOK'
    <2>1. Head(q2).data \in Seq(Nat)  BY <1>2, <1>a DEF WriteData, Message
    <2>2. WriterType'  BY <1>0, <1>2, <2>1 DEF WriteData, WriterType
    <2>3. ChannelType'
      BY <1>0, <1>2, <1>a, Frames DEF WriteData, Recycled, ChannelType
    <2>4. FileType'
      <3>1. \A i \in Entries : WriteAt(disk[i], off, Head(q2).data) \in Seq(Nat)
        BY <1>0, <2>1, WriteAtIsSeq DEF FileType, WriterType
      <3>2. disk' \in [Entries -> Seq(Nat)]
        <4>1. disk \in [Entries -> Seq(Nat)]  BY <1>0 DEF FileType
        <4>2. CASE disk' = disk  BY <4>1, <4>2
        <4>3. CASE disk' = [disk EXCEPT ![ino[cur]] = WriteAt(@, off, Head(q2).data)]
          BY <3>1, <4>1, <4>3
        <4> QED  BY <1>2, <4>2, <4>3 DEF WriteData
      <3>3. synced' \subseteq Inodes  BY <1>0, <1>2 DEF WriteData, FileType
      <3> QED  BY <1>0, <1>2, <3>2, <3>3, Frames DEF WriteData, FileType
    <2> QED  BY <1>0, <1>2, <2>2, <2>3, <2>4, Frames DEF WriteData, TypeOK
  <1>3. ASSUME WriteDataFails PROVE TypeOK'
    BY <1>0, <1>3, TypeWriterFails DEF WriteDataFails, Recycled, ChannelType
  <1>4. ASSUME WriteEndFile PROVE TypeOK'
    <2>1. WriterType'  BY <1>0, <1>4 DEF WriteEndFile, AfterStamp, WriterType
    <2>2. ChannelType'  BY <1>0, <1>4, <1>a, Frames DEF WriteEndFile, ChannelType
    <2> QED  BY <1>0, <1>4, <2>1, <2>2, Frames DEF WriteEndFile, TypeOK
  <1>5. ASSUME SyncFile PROVE TypeOK'
    <2>1. WriterType'  BY <1>0, <1>5 DEF SyncFile, WriterType
    <2>2. ino[cur] \in Inodes
      BY <1>0, <1>5 DEF SyncFile, WriterType, FileType, Entries
    <2>3. FileType'  BY <1>0, <1>5, <2>2, Frames DEF SyncFile, FileType
    <2> QED  BY <1>0, <1>5, <2>1, <2>3, Frames DEF SyncFile, TypeOK
  <1>6. ASSUME RenameFile PROVE TypeOK'
    <2>1. cur \in Entries  BY <1>0, <1>6 DEF RenameFile, WriterType, Entries
    <2>2. /\ stream[cur].name \in Names /\ Parent[stream[cur].name] \in Dirs
          /\ ino[cur] \in Inodes
      BY <1>0, <2>1, HereIsDir DEF FileType
    <2>3. WriterType'  BY <1>0, <1>6 DEF RenameFile, WriterType
    <2>4. FileType'  BY <1>0, <1>6, <2>2, NodeFacts, Frames DEF RenameFile, FileType
    <2>5. EndType'  BY <1>0, <1>6, <2>2 DEF RenameFile, EndType, endVars
    <2> QED  BY <1>0, <1>6, <2>3, <2>4, <2>5, Frames DEF RenameFile, TypeOK
  <1>7. ASSUME FinishFails PROVE TypeOK'
    BY <1>0, <1>7, TypeWriterFails DEF FinishFails, ChannelType
  <1>8. ASSUME RegisterFile PROVE TypeOK'
    <2>1. cur \in Entries  BY <1>0, <1>8 DEF RegisterFile, WriterType, Entries
    <2>2. Parent[stream[cur].name] \in Dirs  BY <1>0, <2>1, HereIsDir
    <2>3. WriterType'  BY <1>0, <1>8 DEF RegisterFile, WriterType
    <2>4. EndType'  BY <1>0, <1>8, <2>2, RegisterType DEF RegisterFile, EndType, endVars
    <2> QED  BY <1>0, <1>8, <2>3, <2>4, Frames DEF RegisterFile, TypeOK
  <1>9. ASSUME RegisterFails PROVE TypeOK'
    BY <1>0, <1>9, TypeWriterFails DEF RegisterFails, ChannelType
  <1>10. ASSUME WriterEnds PROVE TypeOK'
    <2>1. WriterType'  BY <1>0, <1>10 DEF WriterEnds, WriterType
    <2>2. FileType'  BY <1>0, <1>10, DropType DEF WriterEnds
    <2> QED  BY <1>0, <1>10, <2>1, <2>2, Frames DEF WriterEnds, TypeOK
  <1> QED
    BY <1>1, <1>2, <1>3, <1>4, <1>5, <1>6, <1>7, <1>8, <1>9, <1>10 DEF WriterStep

(* Every variable keeps its type whatever the threads do (run_pipeline's       *)
(* channels and pool are bounded by queue_depth for every depth).              *)
THEOREM TypeCorrect == Spec => []TypeOK
  <1>1. Init => TypeOK  BY TypeInit
  <1>2. ASSUME TypeOK, [Next]_vars PROVE TypeOK'
    <2>1. CASE UNCHANGED vars  BY <1>2, <2>1, Frames DEF vars, TypeOK
    <2>2. CASE Next
      BY <1>2, <2>1, <2>2, TypeNet, TypeHash, TypeWriter DEF Next, Returned
    <2> QED  BY <1>2, <2>1, <2>2
  <1> QED  BY <1>1, <1>2, PTL DEF Spec

-----------------------------------------------------------------------------
(* No scratch file is left.  The inductive invariant says where the value   *)
(* that removes each scratch file is.                                       *)

ScratchIInv ==
    /\ TypeOK
    /\ StoppedHoldNothing
    /\ \A i \in scratch : i \in Owned /\ ~InPlace(i)

(* What a channel holds after a send and after a recv. *)
LEMMA BeginsAppend ==
    ASSUME NEW q \in Seq(Message), NEW m \in Message
    PROVE  /\ Begins(q) \subseteq Begins(Append(q, m))
           /\ m.kind = "Begin" => m.of \in Begins(Append(q, m))
  <1>1. \A j \in 1 .. Len(q) : Append(q, m)[j] = q[j]  OBVIOUS
  <1>2. Append(q, m)[Len(q) + 1] = m /\ Len(Append(q, m)) = Len(q) + 1  OBVIOUS
  <1>3. Len(q) \in Nat  OBVIOUS
  <1> QED  BY <1>1, <1>2, <1>3 DEF Begins

LEMMA BeginsTail ==
    ASSUME NEW q \in Seq(Message), q # <<>>
    PROVE  Begins(q) \subseteq Begins(Tail(q)) \cup
                               (IF Head(q).kind = "Begin" THEN {Head(q).of} ELSE {})
  <1>1. \A j \in 2 .. Len(q) : j - 1 \in 1 .. Len(Tail(q)) /\ Tail(q)[j - 1] = q[j]
    OBVIOUS
  <1>2. Head(q) = q[1] /\ Len(q) \in Nat  OBVIOUS
  <1>3. SUFFICES ASSUME NEW j \in 1 .. Len(q), q[j].kind = "Begin"
                 PROVE  q[j].of \in Begins(Tail(q)) \/ (j = 1 /\ q[j] = Head(q))
    BY <1>2 DEF Begins
  <1>4. CASE j = 1  BY <1>2, <1>4
  <1>5. CASE j # 1
    <2>1. j - 1 \in 1 .. Len(Tail(q)) /\ Tail(q)[j - 1].kind = "Begin"
          /\ Tail(q)[j - 1].of = q[j].of
      BY <1>1, <1>2, <1>3, <1>5
    <2> QED  BY <2>1 DEF Begins
  <1> QED  BY <1>4, <1>5

LEMMA BeginsEmpty == Begins(<<>>) = {}
  BY DEF Begins

LEMMA BeginsSingle ==
    ASSUME NEW m
    PROVE  Begins(<<m>>) = IF m.kind = "Begin" THEN {m.of} ELSE {}
  <1>1. Len(<<m>>) = 1 /\ <<m>>[1] = m  OBVIOUS
  <1>2. 1 .. Len(<<m>>) = {1}  BY <1>1
  <1> QED  BY <1>1, <1>2 DEF Begins

LEMMA BeginsOne ==
    ASSUME NEW q \in Seq(Message), Len(q) <= 1, q # <<>>
    PROVE  q[1] \in Message /\ Begins(q) = IF q[1].kind = "Begin" THEN {q[1].of} ELSE {}
  <1>1. Len(q) \in Nat \ {0}  BY EmptySeq
  <1>2. Len(q) = 1  BY <1>1
  <1>3. 1 .. Len(q) = {1} /\ q[1] \in Message  BY <1>2
  <1> QED  BY <1>3 DEF Begins

(* A step of the network thread that holds no file before and no file after  *)
(* it, and leaves every stage and every scratch file alone.                  *)
LEMMA ScratchFrame ==
    ASSUME ScratchIInv, TypeOK', net # "begin",
           UNCHANGED <<stream, scratch, hash, hand, q1, q2, cur, writer>>,
           net' \in {"flush", "ack", "done"} => hash = "gone" /\ writer = "gone"
    PROVE  ScratchIInv'
  BY DEF ScratchIInv, StoppedHoldNothing, Owned, NetOwns, WriterOwns, InPlace

(* A send of a message that is no Begin moves no file. *)
LEMMA ScratchPush ==
    ASSUME ScratchIInv, TypeOK', NEW m \in Message, Push(m),
           UNCHANGED <<stream, scratch, hash, hand, cur, writer>>,
           net' \notin {"flush", "ack", "done"},
           net = "begin" => m.kind = "Begin" /\ m.of = item
    PROVE  ScratchIInv'
  <1>1. /\ Begins(q1) \subseteq Begins(q1') /\ Begins(q2) \subseteq Begins(q2')
        /\ m.kind = "Begin" => m.of \in Begins(q1') \cup Begins(q2')
    <2>1. q1 \in Seq(Message) /\ q2 \in Seq(Message)
      BY DEF ScratchIInv, TypeOK, ChannelType
    <2> QED  BY <2>1, BeginsAppend DEF Push
  <1>2. Owned \subseteq Owned'
    BY <1>1 DEF Owned, NetOwns, WriterOwns
  <1>3. StoppedHoldNothing'
    BY DEF ScratchIInv, StoppedHoldNothing, Push, NextStageGone, TypeOK, HashType, WriterType
  <1> QED  BY <1>2, <1>3 DEF ScratchIInv, InPlace

LEMMA ScratchInit == Init => ScratchIInv
  BY TypeInit DEF Init, ScratchIInv, StoppedHoldNothing

LEMMA ScratchNet ==
    ASSUME ScratchIInv, TypeOK', NetStep
    PROVE  ScratchIInv'
  <1>0. NetType /\ HashType /\ ChannelType  BY DEF ScratchIInv, TypeOK
  <1>1. CASE \/ OpenDest \/ NextEntry \/ WalkDirs \/ EndOfStream \/ SocketFails \/ MakeDir
             \/ ReadTarget \/ UnlinkForSymlink \/ MakeSymlink \/ CreateFails
             \/ TakeBuffer \/ ReadPayload \/ AwaitReply \/ CheckDigest
    <2> DEFINE Aside ==
                 /\ net # "begin" /\ net' \notin {"flush", "ack", "done"}
                 /\ UNCHANGED <<stream, scratch, hash, hand, q1, q2, cur, writer>>
    <2> USE DEF NetReturns, hashVars, writerVars, chanVars, fileVars
    <2>1. OpenDest => Aside  BY DEF OpenDest
    <2>2. NextEntry => Aside  BY DEF NextEntry
    <2>w. WalkDirs => Aside
      <3>1. TypeOK  BY DEF ScratchIInv
      <3> QED  BY <3>1, WalkFacts
    <2>3. EndOfStream => Aside  BY DEF EndOfStream
    <2>4. SocketFails => Aside  BY DEF SocketFails
    <2>5. MakeDir => Aside  BY DEF MakeDir
    <2>6. ReadTarget => Aside  BY DEF ReadTarget
    <2>7. UnlinkForSymlink => Aside  BY DEF UnlinkForSymlink
    <2>8. MakeSymlink => Aside  BY DEF MakeSymlink
    <2>9. CreateFails => Aside  BY DEF CreateFails
    <2>10. TakeBuffer => Aside  BY DEF TakeBuffer
    <2>11. ReadPayload => Aside  BY DEF ReadPayload
    <2>12. AwaitReply => Aside  BY DEF AwaitReply
    <2>13. CheckDigest => Aside  BY DEF CheckDigest
    <2>14. Aside
      BY <1>1, <2>1, <2>2, <2>w, <2>3, <2>4, <2>5, <2>6, <2>7, <2>8, <2>9, <2>10, <2>11, <2>12,
         <2>13
    <2> QED  BY <2>14, ScratchFrame
  <1>2. CASE Join \/ FlushDirectories \/ Acknowledge
    <2>1. /\ net \in {"join", "flush", "ack"}
          /\ net = "join" => hash = "gone" /\ writer = "gone"
          /\ UNCHANGED <<stream, scratch, hash, hand, q1, q2, cur, writer>>
      BY <1>2 DEF Join, ThreadsDone, FlushDirectories, Acknowledge, hashVars, writerVars,
         chanVars, fileVars
    <2> QED  BY <2>1, ScratchFrame DEF ScratchIInv, StoppedHoldNothing
  <1>3. CASE CreateScratch
    <2>1. Owned' = Owned \cup {item}
      BY <1>3 DEF CreateScratch, Owned, NetOwns, WriterOwns, hashVars, writerVars, chanVars
    <2>2. StoppedHoldNothing'
      BY <1>3 DEF ScratchIInv, StoppedHoldNothing, CreateScratch, hashVars, writerVars, chanVars
    <2> QED  BY <1>3, <2>1, <2>2 DEF ScratchIInv, CreateScratch, InPlace, Me
  <1>4. CASE CreateInPlace
    <2>1. Owned \subseteq Owned'
      BY <1>4 DEF CreateInPlace, Owned, NetOwns, WriterOwns, NetReturns, hashVars,
         writerVars, chanVars
    <2>2. StoppedHoldNothing'
      BY <1>4 DEF ScratchIInv, StoppedHoldNothing, CreateInPlace, NetReturns, hashVars,
         writerVars, chanVars
    <2> QED  BY <1>4, <2>1, <2>2 DEF ScratchIInv, CreateInPlace, InPlace
  <1>5. CASE SendBegin \/ SendData \/ SendFinish \/ SendEndFile
    <2>1. item \in Entries
      BY <1>0, <1>5 DEF SendBegin, SendData, SendFinish, SendEndFile, NetType, Entries
    <2>2. PICK m \in Message : Push(m) /\ (net = "begin" => m.kind = "Begin" /\ m.of = item)
      <3>1. /\ Msg("Begin", item, <<>>) \in Message
            /\ Msg("Data", item, buf) \in Message
            /\ Msg("Finish", item, <<>>) \in Message
            /\ Msg("EndFile", item, <<>>) \in Message
        BY <1>0, <2>1 DEF Msg, Message, NetType
      <3> QED  BY <1>5, <3>1 DEF SendBegin, SendData, SendFinish, SendEndFile, Msg
    <2>3. /\ UNCHANGED <<stream, scratch, hash, hand, cur, writer>>
          /\ net' \notin {"flush", "ack", "done"}
      BY <1>5 DEF SendBegin, SendData, SendFinish, SendEndFile, AfterPayload, hashVars,
         writerVars, fileVars
    <2> QED  BY <2>2, <2>3, ScratchPush
  <1>6. CASE SendFails
    <2>1. /\ Owned \ {item} \subseteq Owned' /\ (net # "begin" => Owned \subseteq Owned')
      BY <1>6 DEF SendFails, NetReturns, Owned, NetOwns, WriterOwns, hashVars, writerVars,
         chanVars
    <2>2. scratch' = scratch \ (IF net = "begin" THEN {item} ELSE {})
      BY <1>6 DEF SendFails, DropInFlight
    <2>3. StoppedHoldNothing'
      BY <1>6 DEF ScratchIInv, StoppedHoldNothing, SendFails, NetReturns, hashVars,
         writerVars, chanVars
    <2> QED  BY <1>6, <2>1, <2>2, <2>3 DEF ScratchIInv, SendFails, InPlace
  <1> QED  BY <1>1, <1>2, <1>3, <1>4, <1>5, <1>6 DEF NetStep

LEMMA ScratchHash ==
    ASSUME ScratchIInv, TypeOK', HashStep
    PROVE  ScratchIInv'
  <1>0. HashType /\ ChannelType  BY DEF ScratchIInv, TypeOK
  <1>1. CASE HashTake
    <2>1. Begins(q1) \subseteq Begins(q1') \cup Begins(hand')
      <3>1. Begins(q1) \subseteq Begins(Tail(q1)) \cup
                                 (IF Head(q1).kind = "Begin" THEN {Head(q1).of} ELSE {})
        BY <1>0, <1>1, BeginsTail DEF HashTake, ChannelType
      <3>2. Head(q1).kind = "Begin" => hand' = <<Head(q1)>>  BY <1>1 DEF HashTake
      <3>3. Begins(<<Head(q1)>>) = IF Head(q1).kind = "Begin" THEN {Head(q1).of} ELSE {}
        BY BeginsSingle
      <3> QED  BY <1>1, <3>1, <3>2, <3>3 DEF HashTake
    <2>2. Begins(hand) = {}  BY <1>1, BeginsEmpty DEF HashTake
    <2>3. Owned \subseteq Owned'
      BY <1>1, <2>1, <2>2 DEF HashTake, Owned, NetOwns, WriterOwns, netVars, writerVars
    <2>4. StoppedHoldNothing'
      BY <1>1 DEF ScratchIInv, StoppedHoldNothing, HashTake, netVars, writerVars
    <2> QED  BY <1>1, <2>3, <2>4 DEF ScratchIInv, HashTake, InPlace, fileVars
  <1>2. CASE HashForward
    <2>1. Begins(hand) \cup Begins(q2) \subseteq Begins(q2')
      <3>1. hand[1] \in Message /\ Begins(hand) = IF hand[1].kind = "Begin" THEN {hand[1].of} ELSE {}
        BY <1>0, <1>2, BeginsOne DEF HashForward, HashType
      <3> QED  BY <1>0, <1>2, <3>1, BeginsAppend DEF HashForward, ChannelType
    <2>2. Owned \subseteq Owned'
      BY <1>2, <2>1 DEF HashForward, Owned, NetOwns, WriterOwns, netVars, writerVars
    <2>3. StoppedHoldNothing'
      BY <1>2 DEF ScratchIInv, StoppedHoldNothing, HashForward, netVars, writerVars
    <2> QED  BY <1>2, <2>2, <2>3 DEF ScratchIInv, HashForward, InPlace, fileVars
  <1>3. CASE HashStops
    <2>1. Owned \ (Begins(hand) \cup Begins(q1)) \subseteq Owned'
      BY <1>3 DEF HashStops, Owned, NetOwns, WriterOwns, netVars, writerVars
    <2>2. scratch' = scratch \ (Begins(hand) \cup Begins(q1))
      BY <1>3 DEF HashStops, DropInFlight
    <2>3. StoppedHoldNothing'
      BY <1>3 DEF ScratchIInv, StoppedHoldNothing, HashStops, netVars, writerVars
    <2> QED  BY <1>3, <2>1, <2>2, <2>3 DEF ScratchIInv, HashStops, InPlace
  <1>4. CASE HashEnds
    <2>1. Owned \subseteq Owned'
      BY <1>4 DEF HashEnds, Owned, NetOwns, WriterOwns, netVars, writerVars, chanVars
    <2>2. StoppedHoldNothing'
      BY <1>4 DEF ScratchIInv, StoppedHoldNothing, HashEnds, netVars, writerVars, chanVars
    <2> QED  BY <1>4, <2>1, <2>2 DEF ScratchIInv, HashEnds, InPlace, fileVars
  <1> QED  BY <1>1, <1>2, <1>3, <1>4 DEF HashStep

LEMMA ScratchWriterFails ==
    ASSUME ScratchIInv, TypeOK', WriterFails
    PROVE  ScratchIInv'
  <1> DEFINE dropped == Begins(q2) \cup (IF cur = 0 THEN {} ELSE {cur})
  <1>1. Owned \ dropped \subseteq Owned'
    BY DEF WriterFails, Owned, NetOwns, WriterOwns, netVars, hashVars
  <1>2. scratch' = scratch \ dropped  BY DEF WriterFails, DropInFlight
  <1>3. StoppedHoldNothing'
    BY DEF ScratchIInv, StoppedHoldNothing, WriterFails, netVars, hashVars
  <1> QED  BY <1>1, <1>2, <1>3 DEF ScratchIInv, WriterFails, InPlace

(* A message the writer takes that is no Begin holds no file. *)
LEMMA ScratchTake ==
    ASSUME ScratchIInv, q2 # <<>>, q2' = Tail(q2), UNCHANGED <<net, item, q1, hand>>
    PROVE  /\ Begins(q2) \subseteq Begins(q2') \cup
                                   (IF Head(q2).kind = "Begin" THEN {Head(q2).of} ELSE {})
           /\ Owned \subseteq NetOwns' \cup Begins(q1') \cup Begins(hand') \cup Begins(q2')
                              \cup (IF Head(q2).kind = "Begin" THEN {Head(q2).of} ELSE {})
                              \cup WriterOwns
  <1>1. q2 \in Seq(Message)  BY DEF ScratchIInv, TypeOK, ChannelType
  <1>2. Begins(q2) \subseteq Begins(q2') \cup
                             (IF Head(q2).kind = "Begin" THEN {Head(q2).of} ELSE {})
    BY <1>1, BeginsTail
  <1> QED  BY <1>2 DEF Owned, NetOwns

LEMMA ScratchWriter ==
    ASSUME ScratchIInv, TypeOK', WriterStep
    PROVE  ScratchIInv'
  <1>0. WriterType /\ ChannelType  BY DEF ScratchIInv, TypeOK
  <1> USE DEF netVars, hashVars
  <1>1. CASE WriteBegin
    <2>1. Owned \ (IF cur = 0 THEN {} ELSE {cur}) \subseteq Owned'
      <3>1. Head(q2).of \in Entries /\ Head(q2).of # 0
        <4>1. Head(q2) \in Message  BY <1>0, <1>1, HeadTail DEF WriteBegin, ChannelType
        <4> QED  BY <4>1 DEF Message, Entries
      <3>2. WriterOwns' = {Head(q2).of}
        BY <1>1, <3>1 DEF WriteBegin, WriterOwns
      <3> QED  BY <1>1, <3>2, ScratchTake DEF WriteBegin, Owned, WriterOwns
    <2>2. scratch' = scratch \ (IF cur = 0 THEN {} ELSE {cur})
      BY <1>1 DEF WriteBegin, DropInFlight
    <2>3. StoppedHoldNothing'
      BY <1>1 DEF ScratchIInv, StoppedHoldNothing, WriteBegin
    <2> QED  BY <1>1, <2>1, <2>2, <2>3 DEF ScratchIInv, WriteBegin, InPlace
  <1>2. CASE WriteData
    <2>1. Owned \subseteq Owned'
      BY <1>2, ScratchTake DEF WriteData, Owned, WriterOwns
    <2>2. StoppedHoldNothing'  BY <1>2 DEF ScratchIInv, StoppedHoldNothing, WriteData
    <2> QED  BY <1>2, <2>1, <2>2 DEF ScratchIInv, WriteData, InPlace
  <1>3. CASE WriteEndFile
    <2>1. WriterOwns' = WriterOwns
      BY <1>3 DEF WriteEndFile, WriterOwns, AfterStamp
    <2>2. Owned \subseteq Owned'
      BY <1>3, <2>1, ScratchTake DEF WriteEndFile, Owned
    <2>3. StoppedHoldNothing'
      BY <1>3 DEF ScratchIInv, StoppedHoldNothing, WriteEndFile, AfterStamp
    <2> QED  BY <1>3, <2>2, <2>3 DEF ScratchIInv, WriteEndFile, InPlace, fileVars
  <1>4. CASE SyncFile
    <2>1. Owned \subseteq Owned'
      BY <1>4 DEF SyncFile, Owned, NetOwns, WriterOwns, chanVars
    <2>2. StoppedHoldNothing'
      BY <1>4 DEF ScratchIInv, StoppedHoldNothing, SyncFile, chanVars
    <2> QED  BY <1>4, <2>1, <2>2 DEF ScratchIInv, SyncFile, InPlace
  <1>5. CASE RenameFile
    <2>1. Owned \ {cur} \subseteq Owned'
      BY <1>5 DEF RenameFile, Owned, NetOwns, WriterOwns, chanVars
    <2>2. scratch' = scratch \ {cur}
      BY <1>5 DEF RenameFile, ScratchIInv
    <2>3. StoppedHoldNothing'
      BY <1>5 DEF ScratchIInv, StoppedHoldNothing, RenameFile, chanVars
    <2> QED  BY <1>5, <2>1, <2>2, <2>3 DEF ScratchIInv, RenameFile, InPlace
  <1>6. CASE RegisterFile
    <2>1. Owned \subseteq Owned'
      BY <1>6 DEF RegisterFile, Owned, NetOwns, WriterOwns, chanVars
    <2>2. StoppedHoldNothing'
      BY <1>6 DEF ScratchIInv, StoppedHoldNothing, RegisterFile, chanVars
    <2> QED  BY <1>6, <2>1, <2>2 DEF ScratchIInv, RegisterFile, InPlace, fileVars
  <1>7. CASE WriteDataFails \/ FinishFails \/ RegisterFails
    BY <1>7, ScratchWriterFails DEF WriteDataFails, FinishFails, RegisterFails
  <1>8. CASE WriterEnds
    <2> DEFINE dropped == IF cur = 0 THEN {} ELSE {cur}
    <2>1. Owned \ dropped \subseteq Owned'
      BY <1>8 DEF WriterEnds, Owned, NetOwns, WriterOwns, chanVars
    <2>2. scratch' = scratch \ dropped  BY <1>8 DEF WriterEnds, DropInFlight
    <2>3. StoppedHoldNothing'
      BY <1>8 DEF ScratchIInv, StoppedHoldNothing, WriterEnds, chanVars
    <2> QED  BY <1>8, <2>1, <2>2, <2>3 DEF ScratchIInv, WriterEnds, InPlace
  <1> QED  BY <1>1, <1>2, <1>3, <1>4, <1>5, <1>6, <1>7, <1>8 DEF WriterStep

LEMMA ScratchNext ==
    ASSUME ScratchIInv, TypeOK', [Next]_vars
    PROVE  ScratchIInv'
  <1>1. CASE UNCHANGED vars
    BY <1>1 DEF vars, netVars, hashVars, writerVars, chanVars, fileVars, ScratchIInv,
       StoppedHoldNothing, Owned, NetOwns, WriterOwns, InPlace
  <1>2. CASE Next
    BY <1>1, <1>2, ScratchNet, ScratchHash, ScratchWriter DEF Next, Returned
  <1> QED  BY <1>1, <1>2

(* However the session goes, and whichever thread fails first, no scratch     *)
(* file is left once the threads are joined (Drop for InFlight).              *)
THEOREM NoScratchLeftBehind == Spec => []NoScratchLeft
  <1>1. Init => ScratchIInv  BY ScratchInit
  <1>2. ScratchIInv /\ TypeOK' /\ [Next]_vars => ScratchIInv'  BY ScratchNext
  <1>3. ScratchIInv => NoScratchLeft
    <2> SUFFICES ASSUME ScratchIInv, net \in {"flush", "ack", "done"} PROVE scratch = {}
      BY DEF NoScratchLeft
    <2>1. Owned = {}
      BY BeginsEmpty DEF ScratchIInv, StoppedHoldNothing, Owned, NetOwns, WriterOwns
    <2> QED  BY <2>1 DEF ScratchIInv
  <1> QED  BY <1>1, <1>2, <1>3, TypeCorrect, PTL DEF Spec

-----------------------------------------------------------------------------
(* The writer's error replaces the placeholder.  A stage that is gone while  *)
(* the network thread still feeds it is gone because the writer failed.      *)

PlaceholderIInv ==
    /\ writer # "gone" => written = "none"
    /\ net \in {"finish", "reply", "check"} => Verify
    /\ writer = "gone" /\ written # "err" => IF Verify THEN hash = "gone" ELSE NetClosed
    /\ Verify /\ hash = "gone" /\ written # "err" => NetClosed
    /\ received = "gone" => written = "err"
    /\ outcome # "gone"

LEMMA PlaceholderNext ==
    ASSUME TypeOK, PlaceholderIInv, [Next]_vars
    PROVE  PlaceholderIInv'
  <1>0. NetType /\ HashType  BY DEF TypeOK
  <1> USE DEF PlaceholderIInv, NetClosed, netVars, hashVars, writerVars, endVars
  <1>1. CASE UNCHANGED vars  BY <1>1 DEF vars
  <1>2. CASE Returned  BY <1>2 DEF Returned, vars
  <1>3. CASE NetStep
    <2> USE DEF NetReturns
    <2>1. CASE OpenDest  BY <2>1 DEF OpenDest
    <2>2. CASE NextEntry  BY <2>2 DEF NextEntry
    <2>w. CASE WalkDirs
      <3>1. /\ net' \in {"mkdir", "target", "create", "walk", "join"} /\ net = "walk"
            /\ received' \in {received, "fs"}
            /\ UNCHANGED <<hash, writer, written, outcome>>
        BY <2>w, WalkFacts
      <3> QED  BY <3>1
    <2>3. CASE EndOfStream  BY <2>3 DEF EndOfStream
    <2>4. CASE SocketFails  BY <2>4 DEF SocketFails
    <2>5. CASE MakeDir  BY <2>5 DEF MakeDir
    <2>6. CASE ReadTarget  BY <2>6 DEF ReadTarget
    <2>7. CASE UnlinkForSymlink  BY <2>7 DEF UnlinkForSymlink
    <2>8. CASE MakeSymlink  BY <2>8 DEF MakeSymlink
    <2>9. CASE CreateScratch  BY <2>9 DEF CreateScratch
    <2>10. CASE CreateInPlace  BY <2>10 DEF CreateInPlace
    <2>11. CASE CreateFails  BY <2>11 DEF CreateFails
    <2>12. CASE SendBegin  BY <2>12 DEF SendBegin, AfterPayload
    <2>13. CASE SendFails  BY <2>13 DEF SendFails, NextStageGone
    <2>14. CASE TakeBuffer  BY <2>14 DEF TakeBuffer
    <2>15. CASE ReadPayload  BY <2>15 DEF ReadPayload
    <2>16. CASE SendData  BY <2>16 DEF SendData, AfterPayload
    <2>17. CASE SendFinish  BY <2>17 DEF SendFinish
    <2>18. CASE AwaitReply  BY <2>18 DEF AwaitReply
    <2>19. CASE CheckDigest  BY <2>19 DEF CheckDigest
    <2>20. CASE SendEndFile  BY <2>20 DEF SendEndFile
    <2>21. CASE Join  BY <2>21 DEF Join, SessionError
    <2>22. CASE FlushDirectories  BY <2>22 DEF FlushDirectories
    <2>23. CASE Acknowledge  BY <2>23 DEF Acknowledge
    <2> QED
      BY <1>3, <2>1, <2>2, <2>w, <2>3, <2>4, <2>5, <2>6, <2>7, <2>8, <2>9, <2>10, <2>11, <2>12,
         <2>13, <2>14, <2>15, <2>16, <2>17, <2>18, <2>19, <2>20, <2>21, <2>22, <2>23
      DEF NetStep
  <1>4. CASE HashStep
    <2>1. CASE HashTake \/ HashForward  BY <2>1 DEF HashTake, HashForward
    <2>2. CASE HashStops  BY <2>2, <1>0 DEF HashStops
    <2>3. CASE HashEnds  BY <2>3 DEF HashEnds
    <2> QED  BY <1>4, <2>1, <2>2, <2>3 DEF HashStep
  <1>5. CASE WriterStep
    <2>1. CASE WriteBegin  BY <2>1 DEF WriteBegin
    <2>2. CASE WriteData  BY <2>2 DEF WriteData
    <2>3. CASE WriteEndFile  BY <2>3 DEF WriteEndFile, AfterStamp
    <2>4. CASE SyncFile  BY <2>4 DEF SyncFile
    <2>5. CASE RenameFile  BY <2>5 DEF RenameFile
    <2>6. CASE RegisterFile  BY <2>6 DEF RegisterFile
    <2>7. CASE WriteDataFails \/ FinishFails \/ RegisterFails
      BY <2>7 DEF WriteDataFails, FinishFails, RegisterFails, WriterFails
    <2>8. CASE WriterEnds  BY <2>8 DEF WriterEnds
    <2> QED  BY <1>5, <2>1, <2>2, <2>3, <2>4, <2>5, <2>6, <2>7, <2>8 DEF WriterStep
  <1> QED  BY <1>1, <1>2, <1>3, <1>4, <1>5 DEF Next

(* A session never reports writer_gone(): whenever the network thread met a   *)
(* stage that had stopped, the join finds the writer's own error.             *)
THEOREM PlaceholderIsReplaced == Spec => []PlaceholderReplaced
  <1>1. Init => PlaceholderIInv  BY DEF Init, PlaceholderIInv, NetClosed
  <1>2. TypeOK /\ PlaceholderIInv /\ [Next]_vars => PlaceholderIInv'  BY PlaceholderNext
  <1>3. PlaceholderIInv => PlaceholderReplaced
    BY DEF PlaceholderIInv, PlaceholderReplaced
  <1> QED  BY <1>1, <1>2, <1>3, TypeCorrect, PTL DEF Spec

-----------------------------------------------------------------------------
(* The buffers: with and without the hash stage, none is lost while the    *)
(* flow runs.                                                              *)
LEMMA DataIsCounted == ASSUME NEW q  PROVE DataIn(q) = Count(q, "Data")
  BY DEF Count, OfKind, DataIn

LEMMA NoData == DataIn(<<>>) = 0
  BY CountEmpty, DataIsCounted

LEMMA DataInSeq == ASSUME NEW S, NEW q \in Seq(S)  PROVE DataIn(q) \in Nat
  <1>1. Count(q, "Data") \in Nat  BY CountIsNat
  <1> QED  BY <1>1, DataIsCounted

LEMMA DataIsNat ==
    ASSUME TypeOK
    PROVE  DataIn(q1) \in Nat /\ DataIn(hand) \in Nat /\ DataIn(q2) \in Nat /\ pool \in Nat
  <1>1. q1 \in Seq(Message) /\ hand \in Seq(Message) /\ q2 \in Seq(Message) /\ pool \in Nat
    BY DEF TypeOK, HashType, ChannelType
  <1> QED  BY <1>1, DataInSeq

LEMMA DataIsNatNext ==
    ASSUME TypeOK'
    PROVE  DataIn(q1') \in Nat /\ DataIn(hand') \in Nat /\ DataIn(q2') \in Nat /\ pool' \in Nat
  <1> DEFINE S == Message'
  <1>1. q1' \in Seq(S) /\ hand' \in Seq(S) /\ q2' \in Seq(S) /\ pool' \in Nat
    BY DEF TypeOK, HashType, ChannelType
  <1> HIDE DEF S
  <1> QED  BY <1>1, DataInSeq

LEMMA DataAppended ==
    ASSUME NEW q \in Seq(Message), NEW m \in Message
    PROVE  DataIn(Append(q, m)) = DataIn(q) + (IF m.kind = "Data" THEN 1 ELSE 0)
  <1>1. Count(Append(q, m), "Data") = Count(q, "Data") + (IF m.kind = "Data" THEN 1 ELSE 0)
    BY CountAppend
  <1> QED  BY <1>1, DataIsCounted

LEMMA DataTaken ==
    ASSUME NEW q \in Seq(Message), q # <<>>
    PROVE  DataIn(q) = DataIn(Tail(q)) + (IF Head(q).kind = "Data" THEN 1 ELSE 0)
  <1>1. Count(q, "Data") = Count(Tail(q), "Data") + (IF Head(q).kind = "Data" THEN 1 ELSE 0)
    BY CountTail
  <1> QED  BY <1>1, DataIsCounted

(* A send puts one message into the channels.                              *)
LEMMA DataPushed ==
    ASSUME TypeOK, NEW m \in Message, Push(m)
    PROVE  DataIn(q1') + DataIn(q2') =
             DataIn(q1) + DataIn(q2) + (IF m.kind = "Data" THEN 1 ELSE 0)
  <1>1. q1 \in Seq(Message) /\ q2 \in Seq(Message)  BY DEF TypeOK, ChannelType
  <1>2. DataIn(q1) \in Nat /\ DataIn(q2) \in Nat  BY DataIsNat
  <1>3. CASE Verify
    <2>1. q1' = Append(q1, m) /\ q2' = q2  BY <1>3 DEF Push
    <2> QED  BY <1>1, <1>2, <2>1, DataAppended
  <1>4. CASE ~Verify
    <2>1. q2' = Append(q2, m) /\ q1' = q1  BY <1>4 DEF Push
    <2> QED  BY <1>1, <1>2, <2>1, DataAppended
  <1> QED  BY <1>3, <1>4

(* A step that neither takes a buffer, passes one on nor gives one back.   *)
LEMMA Quiet ==
    ASSUME BuffersConserved, UNCHANGED <<q1, q2, hand, pool, writer>>,
           net \notin {"read", "data"}, net' \notin {"read", "data"},
           NetClosed => NetClosed'
    PROVE  BuffersConserved'
  BY DEF BuffersConserved, NetClosed

(* A step that moves buffers between the pool and the channels, and loses  *)
(* none.                                                                   *)
LEMMA DataMoved ==
    ASSUME TypeOK, TypeOK', BuffersConserved, net' = net, writer' = writer,
           pool' + DataIn(q1') + DataIn(hand') + DataIn(q2') =
             pool + DataIn(q1) + DataIn(hand) + DataIn(q2)
    PROVE  BuffersConserved'
  <1> DEFINE mine == IF net \in {"read", "data"} THEN 1 ELSE 0
  <1>1. mine \in Nat  OBVIOUS
  <1>2. /\ DataIn(q1) \in Nat /\ DataIn(hand) \in Nat /\ DataIn(q2) \in Nat /\ pool \in Nat
        /\ DataIn(q1') \in Nat /\ DataIn(hand') \in Nat /\ DataIn(q2') \in Nat
        /\ pool' \in Nat
    BY DataIsNat, DataIsNatNext
  <1>3. pool' + mine + DataIn(q1') + DataIn(hand') + DataIn(q2') =
          pool + mine + DataIn(q1) + DataIn(hand) + DataIn(q2)
    <2> HIDE DEF mine
    <2> QED  BY <1>1, <1>2
  <1>4. NetClosed' <=> NetClosed  BY DEF NetClosed
  <1>5. BuffersConserved' <=>
          (~NetClosed /\ writer # "gone" =>
             pool' + mine + DataIn(q1') + DataIn(hand') + DataIn(q2') = Depth)
    BY <1>4 DEF BuffersConserved
  <1> QED  BY <1>3, <1>5 DEF BuffersConserved

(* A message that is not data is sent.                                     *)
LEMMA OtherSent ==
    ASSUME TypeOK, TypeOK', BuffersConserved, NEW m \in Message, Push(m), m.kind # "Data",
           UNCHANGED <<hand, pool, writer>>,
           net \in {"begin", "finish", "endfile"}, net' \notin {"read", "data"}
    PROVE  BuffersConserved'
  <1>1. DataIn(q1') + DataIn(q2') = DataIn(q1) + DataIn(q2)  BY DataPushed, DataIsNat
  <1>2. /\ DataIn(q1) \in Nat /\ DataIn(q2) \in Nat /\ pool \in Nat
        /\ DataIn(q1') \in Nat /\ DataIn(q2') \in Nat
        /\ DataIn(hand) \in Nat
    BY DataIsNat, DataIsNatNext
  <1>3. DataIn(hand') = DataIn(hand)  OBVIOUS
  <1> QED  BY <1>1, <1>2, <1>3 DEF BuffersConserved, NetClosed

LEMMA SentMessages ==
    ASSUME TypeOK, net \in {"begin", "data", "finish", "endfile"}
    PROVE  /\ Msg("Begin", item, <<>>) \in Message /\ Msg("Data", item, buf) \in Message
           /\ Msg("Finish", item, <<>>) \in Message /\ Msg("EndFile", item, <<>>) \in Message
  <1>1. item \in Entries /\ buf \in Seq(Nat) /\ <<>> \in Seq(Nat)
    BY DEF TypeOK, NetType, Entries
  <1> QED  BY <1>1 DEF Msg, Message

LEMMA BuffersNet ==
    ASSUME TypeOK, TypeOK', BuffersConserved, NetStep
    PROVE  BuffersConserved'
  <1> USE DEF netVars, hashVars, writerVars, chanVars, NetClosed, NetReturns
  <1>0. /\ DataIn(q1) \in Nat /\ DataIn(hand) \in Nat /\ DataIn(q2) \in Nat /\ pool \in Nat
        /\ DataIn(q1') \in Nat /\ DataIn(hand') \in Nat /\ DataIn(q2') \in Nat /\ pool' \in Nat
    BY DataIsNat, DataIsNatNext
  <1>1. CASE OpenDest \/ EndOfStream
    BY <1>1, Quiet DEF OpenDest, EndOfStream
  <1>2. CASE NextEntry \/ WalkDirs
    <2>1. /\ net \in {"decode", "walk"} /\ net' \in {"walk", "mkdir", "target", "create", "join"}
          /\ UNCHANGED <<q1, q2, hand, pool, writer>>
      BY <1>2, WalkFacts DEF NextEntry
    <2> QED  BY <2>1, Quiet
  <1>3. CASE SocketFails \/ SendFails
    BY <1>3 DEF SocketFails, SendFails, BuffersConserved
  <1>4. CASE MakeDir \/ ReadTarget \/ UnlinkForSymlink \/ MakeSymlink
    BY <1>4, Quiet DEF MakeDir, ReadTarget, UnlinkForSymlink, MakeSymlink
  <1>5. CASE CreateScratch \/ CreateInPlace \/ CreateFails
    BY <1>5, Quiet DEF CreateScratch, CreateInPlace, CreateFails
  <1>6. CASE SendBegin
    <2>1. Msg("Begin", item, <<>>).kind # "Data"  BY DEF Msg
    <2> QED  BY <1>6, <2>1, SentMessages, OtherSent DEF SendBegin, AfterPayload
  <1>7. CASE TakeBuffer
    BY <1>0, <1>7 DEF TakeBuffer, BuffersConserved
  <1>8. CASE ReadPayload
    BY <1>0, <1>8 DEF ReadPayload, BuffersConserved
  <1>9. CASE SendData
    <2>1. Msg("Data", item, buf).kind = "Data"  BY DEF Msg
    <2>2. DataIn(q1') + DataIn(q2') = DataIn(q1) + DataIn(q2) + 1
      <3>1. Msg("Data", item, buf) \in Message /\ Push(Msg("Data", item, buf))
        BY <1>9, SentMessages DEF SendData
      <3> QED  BY <1>0, <2>1, <3>1, DataPushed
    <2>3. /\ net = "data" /\ net' \in {"pool", "finish", "endfile"}
          /\ UNCHANGED <<hand, pool, writer>>
      BY <1>9 DEF SendData, AfterPayload
    <2>4. DataIn(hand') = DataIn(hand)  BY <2>3
    <2> QED  BY <1>0, <2>2, <2>3, <2>4 DEF BuffersConserved
  <1>10. CASE SendFinish
    <2>1. Msg("Finish", item, <<>>).kind # "Data"  BY DEF Msg
    <2> QED  BY <1>10, <2>1, SentMessages, OtherSent DEF SendFinish
  <1>11. CASE AwaitReply \/ CheckDigest
    BY <1>11, Quiet DEF AwaitReply, CheckDigest
  <1>12. CASE SendEndFile
    <2>1. Msg("EndFile", item, <<>>).kind # "Data"  BY DEF Msg
    <2> QED  BY <1>12, <2>1, SentMessages, OtherSent DEF SendEndFile
  <1>13. CASE Join \/ FlushDirectories \/ Acknowledge
    BY <1>13 DEF Join, FlushDirectories, Acknowledge, BuffersConserved
  <1> QED
    BY <1>1, <1>2, <1>3, <1>4, <1>5, <1>6, <1>7, <1>8, <1>9, <1>10, <1>11, <1>12, <1>13
    DEF NetStep

(* The stage passes a buffer on and never keeps one.                       *)
LEMMA BuffersHash ==
    ASSUME TypeOK, TypeOK', BuffersConserved, HashStep
    PROVE  BuffersConserved'
  <1>0. /\ DataIn(q1) \in Nat /\ DataIn(hand) \in Nat /\ DataIn(q2) \in Nat /\ pool \in Nat
        /\ DataIn(q1') \in Nat /\ DataIn(hand') \in Nat /\ DataIn(q2') \in Nat
    BY DataIsNat, DataIsNatNext
  <1>1. /\ q1 \in Seq(Message) /\ q2 \in Seq(Message) /\ hand \in Seq(Message) /\ Len(hand) <= 1
    BY DEF TypeOK, HashType, ChannelType
  <1>2. CASE HashTake
    <2> DEFINE m == Head(q1)
    <2>1. /\ q1 # <<>> /\ hand = <<>> /\ q1' = Tail(q1)
          /\ UNCHANGED <<net, writer, q2, pool>>
          /\ hand' = IF m.kind = "Finish" THEN <<>> ELSE <<m>>
      <3>1. m \in Message  BY <1>1, <1>2 DEF HashTake
      <3>2. m.kind \in {"Begin", "Data", "Finish", "EndFile"}  BY <3>1 DEF Message
      <3> QED  BY <1>2, <3>2 DEF HashTake, netVars, writerVars
    <2>2. DataIn(q1) = DataIn(q1') + (IF m.kind = "Data" THEN 1 ELSE 0)
      BY <1>1, <2>1, DataTaken
    <2>3. DataIn(hand') = (IF m.kind = "Data" THEN 1 ELSE 0) /\ DataIn(hand) = 0
      <3>1. Count(<<m>>, "Data") = IF m.kind = "Data" THEN 1 ELSE 0  BY CountSingle
      <3>2. DataIn(<<m>>) = IF m.kind = "Data" THEN 1 ELSE 0  BY <3>1, DataIsCounted
      <3> QED  BY <2>1, <3>2, NoData
    <2>4. DataIn(q1') + DataIn(hand') = DataIn(q1) + DataIn(hand)  BY <1>0, <2>2, <2>3
    <2>5. pool' + DataIn(q1') + DataIn(hand') + DataIn(q2') =
            pool + DataIn(q1) + DataIn(hand) + DataIn(q2)
      <3>1. DataIn(q2') = DataIn(q2) /\ pool' = pool  BY <2>1
      <3> QED  BY <1>0, <2>2, <2>3, <3>1
    <2> QED  BY <2>1, <2>5, DataMoved
  <1>3. CASE HashForward
    <2>1. /\ hand # <<>> /\ hand' = <<>> /\ q2' = Append(q2, hand[1])
          /\ UNCHANGED <<net, writer, q1, pool>>
      BY <1>3 DEF HashForward, netVars, writerVars
    <2>2. hand[1] \in Message /\ DataIn(hand) = IF hand[1].kind = "Data" THEN 1 ELSE 0
      <3>1. hand[1] \in Message /\ Count(hand, "Data") = IF hand[1].kind = "Data" THEN 1 ELSE 0
        BY <1>1, <2>1, CountShort
      <3> QED  BY <3>1, DataIsCounted
    <2>3. DataIn(q2') = DataIn(q2) + (IF hand[1].kind = "Data" THEN 1 ELSE 0)
      BY <1>1, <2>1, <2>2, DataAppended
    <2>4. DataIn(hand') = 0  BY <2>1, NoData
    <2>5. DataIn(q2') + DataIn(hand') = DataIn(q2) + DataIn(hand)  BY <1>0, <2>2, <2>3, <2>4
    <2>6. pool' + DataIn(q1') + DataIn(hand') + DataIn(q2') =
            pool + DataIn(q1) + DataIn(hand) + DataIn(q2)
      <3>1. DataIn(q1') = DataIn(q1) /\ pool' = pool  BY <2>1
      <3> QED  BY <1>0, <2>5, <2>4, <3>1
    <2> QED  BY <2>1, <2>6, DataMoved
  <1>4. CASE HashStops
    BY <1>4 DEF HashStops, BuffersConserved, writerVars
  <1>5. CASE HashEnds
    BY <1>5 DEF HashEnds, BuffersConserved, NetClosed, netVars, writerVars, chanVars
  <1> QED  BY <1>2, <1>3, <1>4, <1>5 DEF HashStep

(* The writer gives a buffer back whether or not the write succeeded.      *)
LEMMA BuffersWriter ==
    ASSUME TypeOK, TypeOK', BuffersConserved, WriterStep
    PROVE  BuffersConserved'
  <1>0. /\ DataIn(q1) \in Nat /\ DataIn(hand) \in Nat /\ DataIn(q2) \in Nat /\ pool \in Nat
        /\ DataIn(q2') \in Nat /\ q2 \in Seq(Message)
    BY DataIsNat, DataIsNatNext DEF TypeOK, ChannelType
  <1>1. CASE WriteBegin \/ WriteEndFile
    <2>1. /\ q2 # <<>> /\ Head(q2).kind # "Data" /\ q2' = Tail(q2)
          /\ UNCHANGED <<net, hand, q1, pool>> /\ writer # "gone"
      BY <1>1 DEF WriteBegin, WriteEndFile, netVars, hashVars
    <2>2. DataIn(q2') = DataIn(q2)  BY <1>0, <2>1, DataTaken
    <2> QED  BY <1>0, <2>1, <2>2 DEF BuffersConserved, NetClosed
  <1>2. CASE WriteData
    <2>1. /\ q2 # <<>> /\ Head(q2).kind = "Data" /\ q2' = Tail(q2) /\ pool' = pool + 1
          /\ UNCHANGED <<net, hand, q1, writer>>
      BY <1>2 DEF WriteData, Recycled, netVars, hashVars
    <2>2. DataIn(q2) = DataIn(q2') + 1  BY <1>0, <2>1, DataTaken
    <2>3. pool' + DataIn(q1') + DataIn(hand') + DataIn(q2') =
            pool + DataIn(q1) + DataIn(hand) + DataIn(q2)
      <3>1. DataIn(q1') = DataIn(q1) /\ DataIn(hand') = DataIn(hand)  BY <2>1
      <3> QED  BY <1>0, <2>1, <2>2, <3>1
    <2> QED  BY <2>1, <2>3, DataMoved
  <1>3. CASE SyncFile \/ RenameFile \/ RegisterFile
    BY <1>3 DEF SyncFile, RenameFile, RegisterFile, BuffersConserved, NetClosed, netVars,
       hashVars, chanVars
  <1>4. CASE WriteDataFails \/ FinishFails \/ RegisterFails \/ WriterEnds
    BY <1>4 DEF WriteDataFails, FinishFails, RegisterFails, WriterEnds, WriterFails,
       BuffersConserved
  <1> QED  BY <1>1, <1>2, <1>3, <1>4 DEF WriterStep

(* While a flow runs every buffer is in the pool, with the network thread, *)
(* or in a message ("a failure cannot leak a buffer", write_loop), so the  *)
(* network thread waits for one only behind messages the writer will take. *)
THEOREM NoBufferLost == Spec => []BuffersConserved
  <1>1. Init => BuffersConserved
    <2> SUFFICES ASSUME Init  PROVE BuffersConserved  OBVIOUS
    <2>1. Depth \in Nat  BY PipelineAssumption
    <2> QED  BY <2>1, NoData DEF Init, BuffersConserved
  <1>2. TypeOK /\ TypeOK' /\ BuffersConserved /\ [Next]_vars => BuffersConserved'
    <2> SUFFICES ASSUME TypeOK, TypeOK', BuffersConserved, [Next]_vars  PROVE BuffersConserved'
      OBVIOUS
    <2>1. CASE UNCHANGED vars
      BY <2>1 DEF vars, netVars, hashVars, writerVars, chanVars, BuffersConserved, NetClosed
    <2> QED  BY <2>1, BuffersNet, BuffersHash, BuffersWriter DEF Next, Returned
  <1> QED  BY <1>1, <1>2, TypeCorrect, PTL DEF Spec
=============================================================================
