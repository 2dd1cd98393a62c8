--------------------------- MODULE RecvTreeProofs ---------------------------
(***************************************************************************)
(* The destination tree and the files of a receive pipeline, for every     *)
(* tree, every stream, every queue depth and chunk size: which stage holds *)
(* a scratch file, what a name may show, why a session may fail, and what  *)
(* the acknowledgement stands for.                                         *)
(***************************************************************************)
EXTENDS RecvPipelineProofs

-----------------------------------------------------------------------------
(* What a step does to the files.                                          *)

\* The entries whose file some stage still works on.
Held == Owned \cup (IF cur = 0 THEN {} ELSE {cur})

\* The steps that drop a file some stage may hold.
Drops ==
    \/ SendFails \/ HashStops \/ WriteBegin \/ WriterEnds
    \/ WriteDataFails \/ FinishFails \/ RegisterFails

\* A file that cannot be opened in place, after its old copy was unlinked.
LosesInPlace ==
    /\ CreateInPlace /\ dest[Me.name].kind = "file" /\ NetReturns("fs")
    /\ dest' = [dest EXCEPT ![Me.name] = Absent]
    /\ UNCHANGED <<scratch, ino, disk, synced>>

\* Every other step does one of these to the tree and the inodes.
FineStep ==
    \/ UNCHANGED <<dest, scratch, ino, disk>> /\ synced \subseteq synced'
    \/ /\ \E p \in Names : /\ dest[p] = Absent /\ dest' = [dest EXCEPT ![p] = Dir]
                           /\ Parent[p] # Root => \/ net = "mkdir" /\ p = Me.name
                                                  \/ dest[Parent[p]] = Dir
       /\ UNCHANGED <<scratch, ino, disk, synced>>
    \/ UnlinkForSymlink
    \/ MakeSymlink /\ dest[Me.name] = Absent /\ dest' = [dest EXCEPT ![Me.name] = Link(item)]
    \/ CreateScratch
    \/ CreateInPlace /\ net' = "begin"
    \/ LosesInPlace
    \/ WriteData /\ cur # 0
    \/ RenameFile /\ ~InPlace(cur)

TreeStep == FineStep \/ \E I \in SUBSET Held : DropInFlight(I)

(* The name, the parent and the kind of the entry at hand.                 *)
LEMMA MeFacts ==
    ASSUME TypeOK, net \notin {"open", "decode", "join", "flush", "ack", "done"}
    PROVE  /\ item \in Entries /\ Me.name \in Names /\ Here \in Dirs
           /\ Me.kind \in {"Dir", "Symlink", "File"}
  <1>1. item \in Entries /\ OfferType  BY DEF TypeOK, NetType, Entries
  <1> QED  BY <1>1, HereIsDir DEF Me, Here

LEMMA FineStepNext ==
    ASSUME TypeOK, [Next]_vars
    PROVE  FineStep \/ Drops
  <1> USE DEF fileVars
  <1>0. NetType /\ dest \in [Names -> Node] /\ OfferType
    BY DEF TypeOK, FileType
  <1>1. CASE \/ OpenDest \/ NextEntry \/ EndOfStream \/ SocketFails \/ ReadTarget \/ CreateFails
             \/ SendBegin \/ TakeBuffer \/ ReadPayload \/ SendData \/ SendFinish
             \/ AwaitReply \/ CheckDigest \/ SendEndFile \/ Join \/ FlushDirectories
             \/ Acknowledge \/ HashTake \/ HashForward \/ HashEnds \/ WriteEndFile
             \/ SyncFile \/ RegisterFile \/ UNCHANGED vars
    <2>1. UNCHANGED <<dest, scratch, ino, disk>> /\ synced \subseteq synced'
      BY <1>1 DEF OpenDest, NextEntry, EndOfStream, SocketFails, ReadTarget, CreateFails,
         SendBegin, TakeBuffer, ReadPayload, SendData, SendFinish, AwaitReply, CheckDigest,
         SendEndFile, Join, FlushDirectories, Acknowledge, HashTake, HashForward, HashEnds,
         WriteEndFile, SyncFile, RegisterFile, vars
    <2> QED  BY <2>1 DEF FineStep
  <1>2. CASE WalkDirs
    <2>1. UNCHANGED <<scratch, ino, disk, synced>>  BY <1>2, WalkFacts
    <2>2. CASE dest' = dest  BY <2>1, <2>2 DEF FineStep
    <2>3. ASSUME NEW p \in Names, dest[p] = Absent, dest' = [dest EXCEPT ![p] = Dir],
                 Parent[p] # Root => dest[Parent[p]] = Dir
          PROVE  FineStep
      BY <2>1, <2>3 DEF FineStep
    <2> QED  BY <1>2, <2>2, <2>3, WalkFacts
  <1>3. CASE MakeDir
    <2>1. Me.name \in Names  BY <1>3, MeFacts DEF MakeDir
    <2>2. UNCHANGED <<scratch, ino, disk, synced>>  BY <1>3 DEF MakeDir
    <2>3. CASE dest' = dest  BY <2>2, <2>3 DEF FineStep
    <2>4. CASE dest' = [dest EXCEPT ![Me.name] = IF @ = Absent THEN Dir ELSE @]
      <3>1. CASE dest[Me.name] = Absent
        <4>1. dest' = [dest EXCEPT ![Me.name] = Dir] /\ net = "mkdir"
          BY <1>3, <2>4, <3>1 DEF MakeDir
        <4> QED  BY <2>1, <2>2, <3>1, <4>1 DEF FineStep
      <3>2. CASE dest[Me.name] # Absent
        <4>1. dest' = dest  BY <1>0, <2>1, <2>4, <3>2
        <4> QED  BY <2>2, <4>1 DEF FineStep
      <3> QED  BY <3>1, <3>2
    <2> QED  BY <1>3, <2>3, <2>4 DEF MakeDir
  <1>4. CASE UnlinkForSymlink \/ CreateScratch  BY <1>4 DEF FineStep
  <1>5. CASE MakeSymlink
    BY <1>5 DEF MakeSymlink, FineStep
  <1>6. CASE CreateInPlace
    <2>1. CASE net' = "begin"  BY <1>6, <2>1 DEF FineStep
    <2>2. CASE UNCHANGED <<dest, scratch, ino, disk, synced>>  BY <2>2 DEF FineStep
    <2>3. CASE /\ dest[Me.name].kind = "file" /\ dest' = [dest EXCEPT ![Me.name] = Absent]
               /\ NetReturns("fs") /\ UNCHANGED <<ino, disk, synced>>
      <3>1. scratch' = scratch  BY <1>6 DEF CreateInPlace
      <3> QED  BY <1>6, <2>3, <3>1 DEF FineStep, LosesInPlace
    <2>4. scratch' = scratch  BY <1>6 DEF CreateInPlace
    <2> QED  BY <1>6, <2>1, <2>2, <2>3, <2>4 DEF CreateInPlace
  <1>7. CASE WriteData
    <2>1. CASE cur # 0  BY <1>7, <2>1 DEF FineStep
    <2>2. CASE cur = 0  BY <1>7, <2>2 DEF WriteData, FineStep
    <2> QED  BY <2>1, <2>2
  <1>8. CASE RenameFile
    <2>1. CASE ~InPlace(cur)  BY <1>8, <2>1 DEF FineStep
    <2>2. CASE InPlace(cur)  BY <1>8, <2>2 DEF RenameFile, FineStep
    <2> QED  BY <2>1, <2>2
  <1> QED
    BY <1>1, <1>2, <1>3, <1>4, <1>5, <1>6, <1>7, <1>8
    DEF Next, NetStep, HashStep, WriterStep, Returned, Drops

LEMMA TreeStepNext ==
    ASSUME TypeOK, [Next]_vars
    PROVE  TreeStep
  <1>1. CASE SendFails
    <2>1. DropInFlight(IF net = "begin" THEN {item} ELSE {})  BY <1>1 DEF SendFails
    <2>2. (IF net = "begin" THEN {item} ELSE {}) \in SUBSET Held
      BY DEF Held, Owned, NetOwns
    <2> QED  BY <2>1, <2>2 DEF TreeStep
  <1>2. CASE HashStops
    <2>1. DropInFlight(Begins(hand) \cup Begins(q1))  BY <1>2 DEF HashStops
    <2>2. (Begins(hand) \cup Begins(q1)) \in SUBSET Held  BY DEF Held, Owned
    <2> QED  BY <2>1, <2>2 DEF TreeStep
  <1>3. CASE WriteBegin \/ WriterEnds
    <2>1. DropInFlight(IF cur = 0 THEN {} ELSE {cur})  BY <1>3 DEF WriteBegin, WriterEnds
    <2>2. (IF cur = 0 THEN {} ELSE {cur}) \in SUBSET Held  BY DEF Held
    <2> QED  BY <2>1, <2>2 DEF TreeStep
  <1>4. CASE WriteDataFails \/ FinishFails \/ RegisterFails
    <2>1. DropInFlight(Begins(q2) \cup (IF cur = 0 THEN {} ELSE {cur}))
      BY <1>4 DEF WriteDataFails, FinishFails, RegisterFails, WriterFails
    <2>2. (Begins(q2) \cup (IF cur = 0 THEN {} ELSE {cur})) \in SUBSET Held
      BY DEF Held, Owned
    <2> QED  BY <2>1, <2>2 DEF TreeStep
  <1> QED  BY <1>1, <1>2, <1>3, <1>4, FineStepNext DEF Drops, TreeStep

(* Exactly what a channel holds after a send and after a recv.             *)
LEMMA BeginsSent ==
    ASSUME NEW S, NEW q \in Seq(S), NEW m \in S
    PROVE  Begins(Append(q, m)) = Begins(q) \cup (IF m.kind = "Begin" THEN {m.of} ELSE {})
  <1> DEFINE r == Append(q, m)
  <1>1. Len(q) \in Nat /\ Len(r) = Len(q) + 1 /\ r[Len(q) + 1] = m  OBVIOUS
  <1>2. \A j \in 1 .. Len(q) : r[j] = q[j]  OBVIOUS
  <1>3. \A j \in 1 .. Len(r) : j \in 1 .. Len(q) \/ j = Len(q) + 1  BY <1>1
  <1>4. 1 .. Len(q) \subseteq 1 .. Len(r) /\ Len(q) + 1 \in 1 .. Len(r)  BY <1>1
  <1> HIDE DEF r
  <1>5. Begins(r) \subseteq Begins(q) \cup (IF m.kind = "Begin" THEN {m.of} ELSE {})
    BY <1>1, <1>2, <1>3 DEF Begins
  <1>6. Begins(q) \subseteq Begins(r)  BY <1>2, <1>4 DEF Begins
  <1>7. m.kind = "Begin" => m.of \in Begins(r)  BY <1>1, <1>4 DEF Begins
  <1> QED  BY <1>5, <1>6, <1>7 DEF r

LEMMA BeginsTaken ==
    ASSUME NEW S, NEW q \in Seq(S), q # <<>>
    PROVE  Begins(q) = Begins(Tail(q)) \cup
                       (IF Head(q).kind = "Begin" THEN {Head(q).of} ELSE {})
  <1> DEFINE t == Tail(q)
  <1>1. Len(q) \in Nat \ {0} /\ Head(q) = q[1] /\ Len(t) = Len(q) - 1  BY EmptySeq
  <1>2. \A j \in 1 .. Len(t) : t[j] = q[j + 1]  OBVIOUS
  <1>3. \A j \in 1 .. Len(q) : j = 1 \/ (j - 1 \in 1 .. Len(t) /\ (j - 1) + 1 = j)  BY <1>1
  <1>4. 1 \in 1 .. Len(q) /\ \A j \in 1 .. Len(t) : j + 1 \in 1 .. Len(q)  BY <1>1
  <1> HIDE DEF t
  <1>5. Begins(q) \subseteq Begins(t) \cup (IF Head(q).kind = "Begin" THEN {Head(q).of} ELSE {})
    <2> SUFFICES ASSUME NEW j \in 1 .. Len(q), q[j].kind = "Begin"
                 PROVE  q[j].of \in Begins(t) \/ q[j] = Head(q)
      BY DEF Begins
    <2>1. CASE j = 1  BY <1>1, <2>1
    <2>2. CASE j - 1 \in 1 .. Len(t) /\ (j - 1) + 1 = j
      <3>1. t[j - 1] = q[j]  BY <1>2, <2>2
      <3> QED  BY <2>2, <3>1 DEF Begins
    <2> QED  BY <1>3, <2>1, <2>2
  <1>6. Begins(t) \subseteq Begins(q)
    <2> SUFFICES ASSUME NEW j \in 1 .. Len(t), t[j].kind = "Begin" PROVE t[j].of \in Begins(q)
      BY DEF Begins
    <2>1. j + 1 \in 1 .. Len(q) /\ q[j + 1] = t[j]  BY <1>2, <1>4
    <2> QED  BY <2>1 DEF Begins
  <1>7. Head(q).kind = "Begin" => Head(q).of \in Begins(q)  BY <1>1, <1>4 DEF Begins
  <1> QED  BY <1>5, <1>6, <1>7 DEF t

(* A stage comes to hold a file only by creating it: the value moves from  *)
(* thread to thread and is never copied.                                   *)
LEMMA HeldNext ==
    ASSUME TypeOK, [Next]_vars
    PROVE  LET new == IF net = "create" /\ net' = "begin" THEN {item} ELSE {}
           IN  Held' \subseteq Held \cup new /\ Owned' \subseteq Owned \cup new
  <1>0. /\ q1 \in Seq(Message) /\ q2 \in Seq(Message) /\ hand \in Seq(Message)
        /\ Len(hand) <= 1 /\ NetType /\ Begins(<<>>) = {}
    BY BeginsEmpty DEF TypeOK, HashType, ChannelType
  <1> USE DEF Held, Owned, NetOwns, WriterOwns
  <1> USE DEF netVars, hashVars, writerVars, chanVars
  <1>1. CASE \/ OpenDest \/ EndOfStream \/ SocketFails \/ MakeDir \/ ReadTarget
             \/ UnlinkForSymlink \/ MakeSymlink \/ CreateFails \/ SendFails \/ TakeBuffer
             \/ ReadPayload \/ AwaitReply \/ CheckDigest \/ Join \/ FlushDirectories
             \/ Acknowledge
    <2>1. UNCHANGED <<q1, q2, hand, cur, writer>> /\ net' # "begin"
      BY <1>1 DEF OpenDest, EndOfStream, SocketFails, MakeDir, ReadTarget, UnlinkForSymlink,
         MakeSymlink, CreateFails, SendFails, TakeBuffer, ReadPayload, AwaitReply, CheckDigest,
         Join, FlushDirectories, Acknowledge, NetReturns
    <2> QED  BY <2>1
  <1>2. CASE NextEntry \/ WalkDirs
    <2>1. UNCHANGED <<q1, q2, hand, cur, writer>> /\ net' # "begin"
      BY <1>2, WalkFacts DEF NextEntry
    <2> QED  BY <2>1
  <1>3. CASE CreateScratch
    BY <1>3 DEF CreateScratch
  <1>4. CASE CreateInPlace
    BY <1>4 DEF CreateInPlace, NetReturns
  <1>5. CASE SendBegin \/ SendData \/ SendFinish \/ SendEndFile
    <2>1. item \in Entries /\ buf \in Seq(Nat) /\ <<>> \in Seq(Nat)
      BY <1>0, <1>5 DEF SendBegin, SendData, SendFinish, SendEndFile, NetType, Entries
    <2>2. PICK m \in Message : /\ Push(m)
                               /\ m.kind = "Begin" => net = "begin" /\ m.of = item
      <3>1. /\ Msg("Begin", item, <<>>) \in Message
            /\ Msg("Data", item, buf) \in Message
            /\ Msg("Finish", item, <<>>) \in Message
            /\ Msg("EndFile", item, <<>>) \in Message
        BY <2>1 DEF Msg, Message
      <3> QED  BY <1>5, <3>1 DEF SendBegin, SendData, SendFinish, SendEndFile, Msg
    <2>3. UNCHANGED <<hand, cur, writer, item>> /\ net' # "begin"
      BY <1>5 DEF SendBegin, SendData, SendFinish, SendEndFile, AfterPayload
    <2>4. Begins(q1') \cup Begins(q2') \subseteq
            Begins(q1) \cup Begins(q2) \cup (IF net = "begin" THEN {item} ELSE {})
      <3>1. CASE Verify
        <4>1. q1' = Append(q1, m) /\ q2' = q2  BY <2>2, <3>1 DEF Push
        <4> QED  BY <1>0, <2>2, <4>1, BeginsSent
      <3>2. CASE ~Verify
        <4>1. q2' = Append(q2, m) /\ q1' = q1  BY <2>2, <3>2 DEF Push
        <4> QED  BY <1>0, <2>2, <4>1, BeginsSent
      <3> QED  BY <3>1, <3>2
    <2> QED  BY <2>3, <2>4
  <1>6. CASE HashTake
    <2>1. q1' = Tail(q1) /\ q1 # <<>> /\ (hand' = <<>> \/ hand' = <<Head(q1)>>)
          /\ UNCHANGED <<net, item, q2, cur, writer>>
      BY <1>6 DEF HashTake
    <2>2. Begins(q1') \cup Begins(hand') \subseteq Begins(q1)
      BY <1>0, <2>1, BeginsTaken, BeginsSingle
    <2> QED  BY <2>1, <2>2
  <1>7. CASE HashForward
    <2>1. q2' = Append(q2, hand[1]) /\ hand' = <<>> /\ hand # <<>>
          /\ UNCHANGED <<net, item, q1, cur, writer>>
      BY <1>7 DEF HashForward
    <2>2. hand[1] \in Message /\ Begins(hand) = IF hand[1].kind = "Begin" THEN {hand[1].of} ELSE {}
      BY <1>0, <2>1, BeginsOne
    <2>3. Begins(q2') \subseteq Begins(q2) \cup Begins(hand)
      BY <1>0, <2>1, <2>2, BeginsSent
    <2> QED  BY <1>0, <2>1, <2>3
  <1>8. CASE HashStops \/ HashEnds
    <2>1. UNCHANGED <<net, item, q2, cur, writer>>
          /\ (hand' = <<>> \/ hand' = hand) /\ (q1' = <<>> \/ q1' = q1)
      BY <1>8 DEF HashStops, HashEnds
    <2> QED  BY <1>0, <2>1
  <1>9. CASE WriteBegin
    <2>1. q2' = Tail(q2) /\ q2 # <<>> /\ Head(q2).kind = "Begin" /\ cur' = Head(q2).of
          /\ UNCHANGED <<net, item, q1, hand, writer>>
      BY <1>9 DEF WriteBegin
    <2>2. Begins(q2) = Begins(q2') \cup {Head(q2).of}
      BY <1>0, <2>1, BeginsTaken
    <2> QED  BY <2>1, <2>2
  <1>10. CASE WriteData \/ WriteEndFile
    <2>1. /\ q2' = Tail(q2) /\ q2 # <<>> /\ UNCHANGED <<net, item, q1, hand, cur>>
          /\ writer # "register"
      BY <1>10 DEF WriteData, WriteEndFile
    <2>2. Begins(q2') \subseteq Begins(q2)
      BY <1>0, <2>1, BeginsTaken
    <2> QED  BY <2>1, <2>2
  <1>11. CASE WriteDataFails \/ FinishFails \/ RegisterFails
    <2>1. q2' = <<>> /\ cur' = 0 /\ UNCHANGED <<net, item, q1, hand>>
      BY <1>11 DEF WriteDataFails, FinishFails, RegisterFails, WriterFails
    <2> QED  BY <1>0, <2>1
  <1>12. CASE SyncFile \/ RenameFile \/ RegisterFile \/ WriterEnds \/ UNCHANGED vars
    <2>1. /\ cur' \in {cur, 0} /\ UNCHANGED <<net, item, q1, q2, hand>>
          /\ cur' = 0 \/ writer # "register" \/ writer' = "register"
      BY <1>12 DEF SyncFile, RenameFile, RegisterFile, WriterEnds, vars
    <2> QED  BY <2>1
  <1> QED
    BY <1>1, <1>2, <1>3, <1>4, <1>5, <1>6, <1>7, <1>8, <1>9, <1>10, <1>11, <1>12
    DEF Next, NetStep, HashStep, WriterStep, Returned

-----------------------------------------------------------------------------
(* Entries, inodes and names.                                              *)

\* The directory entry i goes to is there, and is a directory.
ParentOk(i) == Parent[stream[i].name] # Root => dest[Parent[stream[i].name]] = Dir

\* Where the network thread is fits the entry it works on.
EntryInv ==
    /\ net = "mkdir" => Me.kind = "Dir"
    /\ net \in {"target", "unlink", "symlink"} => Me.kind = "Symlink"
    /\ net \in {"create", "begin", "pool", "read", "data", "finish", "reply", "check",
                "endfile"} => Me.kind = "File"
    /\ net = "open" => item = 0
    /\ net \in {"walk", "mkdir", "target", "unlink", "symlink", "create", "begin"}
         => left = Me.size
    /\ net \in {"walk", "mkdir", "target", "unlink", "symlink", "create"} => ino[item] = 0
    /\ \A i \in Entries : i > item => ino[i] = 0
    /\ \A i \in Entries : i < item \/ (i = item /\ net # "walk" /\ ~NetClosed) => ParentOk(i)

\* An entry whose descriptor was opened: a file, in a directory, on an inode
\* of its own name; on its own inode unless it was created in place.
InodeInv ==
    \A i \in Entries : ino[i] # 0 =>
        /\ stream[i].kind = "File" /\ ParentOk(i)
        /\ stream[ino[i]].name = stream[i].name
        /\ ino[ino[i]] # 0
        /\ IF InPlace(i) THEN ino[i] \notin scratch ELSE ino[i] = i

\* A file of the session that a name shows is one of that name, and it has
\* left its scratch name.
VisibleInv ==
    \A n \in Names :
        /\ dest[n].kind = "absent" => dest[n] = Absent
        /\ dest[n].kind = "file" /\ dest[n].of # 0 =>
             /\ stream[dest[n].of].name = n
             /\ ino[dest[n].of] # 0
             /\ dest[n].of \notin scratch

\* Only an entry that was opened is held, and only the writer's has contents.
HeldInv ==
    /\ \A i \in Held : ino[i] # 0
    /\ \A i \in Entries : ino[i] = 0 => disk[i] = <<>>
    /\ \A i \in scratch : i # cur => disk[i] = <<>>
    /\ writer = "register" => cur \notin scratch

FilesInv == EntryInv /\ InodeInv /\ VisibleInv /\ HeldInv

LEMMA OfferFrozen == ASSUME [Next]_vars  PROVE stream' = stream /\ before' = before
  <1>1. CASE UNCHANGED vars  BY <1>1 DEF vars
  <1>2. CASE NetStep
    BY <1>2 DEF NetStep, OpenDest, NextEntry, WalkDirs, EndOfStream, SocketFails, MakeDir,
       ReadTarget, UnlinkForSymlink, MakeSymlink, CreateScratch, CreateInPlace, CreateFails,
       SendBegin, SendFails, TakeBuffer, ReadPayload, SendData, SendFinish, AwaitReply,
       CheckDigest, SendEndFile, Join, FlushDirectories, Acknowledge
  <1>3. CASE HashStep
    BY <1>3 DEF HashStep, HashTake, HashForward, HashStops, HashEnds
  <1>4. CASE WriterStep
    BY <1>4 DEF WriterStep, WriteBegin, WriteData, WriteDataFails, WriteEndFile, SyncFile,
       RenameFile, FinishFails, RegisterFile, RegisterFails, WriterEnds, WriterFails
  <1> QED  BY <1>1, <1>2, <1>3, <1>4 DEF Next, Returned

\* The states of the network thread in which a file's bytes are on their way.
Feeding == {"pool", "read", "data", "finish", "reply", "check", "endfile"}

(* Where the network thread can go next.                                   *)
LEMMA NetMoves ==
    ASSUME TypeOK, [Next]_vars
    PROVE  \/ UNCHANGED <<net, item, left>>
           \/ item' = item /\ (NetClosed' \/ net' = "decode")
           \/ NextEntry /\ item' = item + 1 /\ left' = stream[item + 1].size
              /\ item + 1 \in Entries /\ net' = "walk"
           \/ WalkDirs /\ net = "walk" /\ UNCHANGED <<item, left>>
              /\ \/ net' = "mkdir" /\ Me.kind = "Dir"
                 \/ net' = "target" /\ Me.kind = "Symlink"
                 \/ net' = "create" /\ Me.kind = "File"
           \/ net = "target" /\ net' = "unlink" /\ UNCHANGED <<item, left>>
           \/ net = "unlink" /\ net' = "symlink" /\ UNCHANGED <<item, left>>
           \/ net = "create" /\ net' = "begin" /\ UNCHANGED <<item, left>>
           \/ net \in {"begin"} \cup Feeding /\ net' \in Feeding /\ item' = item
  <1> USE DEF NetReturns, NetClosed, netVars
  <1>1. CASE NextEntry
    <2>1. item + 1 \in Entries
      BY <1>1, StreamFacts DEF NextEntry, NetType, Entries, TypeOK
    <2> QED  BY <1>1, <2>1 DEF NextEntry
  <1>9. CASE WalkDirs  BY <1>9, WalkFacts
  <1>2. CASE OpenDest \/ EndOfStream \/ SocketFails \/ MakeDir \/ CreateFails \/ SendFails
    BY <1>2 DEF OpenDest, EndOfStream, SocketFails, MakeDir, CreateFails, SendFails
  <1>3. CASE ReadTarget \/ UnlinkForSymlink \/ MakeSymlink \/ CreateScratch \/ CreateInPlace
    BY <1>3 DEF ReadTarget, UnlinkForSymlink, MakeSymlink, CreateScratch, CreateInPlace
  <1>4. CASE SendBegin \/ TakeBuffer \/ ReadPayload \/ SendData \/ SendFinish \/ AwaitReply
    BY <1>4 DEF SendBegin, TakeBuffer, ReadPayload, SendData, SendFinish, AwaitReply,
       AfterPayload, Feeding
  <1>5. CASE CheckDigest \/ SendEndFile \/ Join \/ FlushDirectories \/ Acknowledge
    BY <1>5 DEF CheckDigest, SendEndFile, Join, FlushDirectories, Acknowledge, Feeding
  <1>6. CASE HashStep
    BY <1>6 DEF HashStep, HashTake, HashForward, HashStops, HashEnds
  <1>7. CASE WriterStep
    BY <1>7 DEF WriterStep, WriteBegin, WriteData, WriteDataFails, WriteEndFile, SyncFile,
       RenameFile, FinishFails, RegisterFile, RegisterFails, WriterEnds, WriterFails
  <1>8. CASE UNCHANGED vars  BY <1>8 DEF vars
  <1> QED
    BY <1>1, <1>2, <1>3, <1>4, <1>5, <1>6, <1>7, <1>8, <1>9 DEF Next, NetStep, Returned

(* The network thread returns to the header after an entry is done with,   *)
(* and not from the walk.                                                  *)
LEMMA DecodeFrom ==
    ASSUME TypeOK, [Next]_vars, net' = "decode"
    PROVE  net # "walk" /\ ~NetClosed
  <1> USE DEF NetReturns, NetClosed
  <1>1. net' = net => net # "walk" /\ ~NetClosed  OBVIOUS
  <1>2. CASE WalkDirs  BY <1>2, WalkFacts
  <1>3. CASE HashStep
    BY <1>1, <1>3 DEF HashStep, HashTake, HashForward, HashStops, HashEnds, netVars
  <1>4. CASE WriterStep
    BY <1>1, <1>4 DEF WriterStep, WriteBegin, WriteData, WriteDataFails, WriteEndFile, SyncFile,
       RenameFile, FinishFails, RegisterFile, RegisterFails, WriterEnds, WriterFails, netVars
  <1>5. CASE UNCHANGED vars  BY <1>1, <1>5 DEF vars, netVars
  <1>6. CASE OpenDest \/ NextEntry \/ EndOfStream \/ SocketFails \/ MakeDir \/ ReadTarget
    BY <1>6 DEF OpenDest, NextEntry, EndOfStream, SocketFails, MakeDir, ReadTarget
  <1>7. CASE UnlinkForSymlink \/ MakeSymlink \/ CreateScratch \/ CreateInPlace \/ CreateFails
    BY <1>7 DEF UnlinkForSymlink, MakeSymlink, CreateScratch, CreateInPlace, CreateFails
  <1>8. CASE SendBegin \/ SendFails \/ TakeBuffer \/ ReadPayload \/ SendData \/ SendFinish
    BY <1>8 DEF SendBegin, SendFails, TakeBuffer, ReadPayload, SendData, SendFinish
  <1>9. CASE \/ AwaitReply \/ CheckDigest \/ SendEndFile \/ Join \/ FlushDirectories
             \/ Acknowledge
    BY <1>9 DEF AwaitReply, CheckDigest, SendEndFile, Join, FlushDirectories, Acknowledge
  <1> QED
    BY <1>2, <1>3, <1>4, <1>5, <1>6, <1>7, <1>8, <1>9 DEF Next, NetStep, Returned

(* Creating a file in place takes a new inode, or the one the name shows.  *)
LEMMA InPlaceFacts ==
    ASSUME TypeOK, VisibleInv, CreateInPlace, net' = "begin"
    PROVE  /\ item \in Entries /\ Me.name \in Names /\ net = "create"
           /\ InPlace(item) /\ Me = stream[item]
           /\ dest[Me.name].kind \in {"absent", "file"}
           /\ scratch' = scratch /\ UNCHANGED <<item, cur, writer>>
           /\ \E node \in Entries :
                /\ node = item \/ (dest[Me.name].kind = "file" /\ node = dest[Me.name].of)
                /\ ino' = [ino EXCEPT ![item] = node]
                /\ disk' = [disk EXCEPT ![node] = <<>>]
                /\ synced' = synced \ {node}
                /\ dest' = [dest EXCEPT ![Me.name] = File(node)]
  <1>1. net = "create" /\ Me.long  BY DEF CreateInPlace
  <1>2. item \in Entries /\ Me.name \in Names  BY <1>1, MeFacts
  <1>3. dest[Me.name] \in Node /\ dest[Me.name].of \in Inodes
    BY <1>2 DEF TypeOK, FileType
  <1>4. PICK fresh \in BOOLEAN, node \in {item, dest[Me.name].of} :
          /\ dest[Me.name].kind \in {"absent", "file"}
          /\ node = IF fresh \/ dest[Me.name].of = 0 THEN item ELSE dest[Me.name].of
          /\ ino' = [ino EXCEPT ![item] = node]
          /\ disk' = [disk EXCEPT ![node] = <<>>]
          /\ synced' = synced \ {node}
          /\ dest' = [dest EXCEPT ![Me.name] = File(node)]
    BY DEF CreateInPlace, NetReturns
  <1>5. /\ node \in Entries
        /\ node = item \/ (dest[Me.name].kind = "file" /\ node = dest[Me.name].of)
    <2>1. dest[Me.name].kind = "absent" => dest[Me.name].of = 0
      BY <1>2 DEF VisibleInv, Absent
    <2> QED  BY <1>2, <1>3, <1>4, <2>1 DEF Inodes, Entries
  <1>6. scratch' = scratch /\ UNCHANGED <<item, cur, writer>>
    BY DEF CreateInPlace, writerVars
  <1>7. InPlace(item) /\ Me = stream[item]  BY <1>1 DEF InPlace, Me
  <1> QED  BY <1>1, <1>2, <1>4, <1>5, <1>6, <1>7

(* No step takes a directory away, whoever made it.                        *)
LEMMA DirStays ==
    ASSUME TypeOK, VisibleInv, TreeStep
    PROVE  \A n \in Names : dest[n] = Dir => dest'[n] = Dir
  <1>0. dest \in [Names -> Node]  BY DEF TypeOK, FileType
  <1>1. CASE \E I \in SUBSET Held : DropInFlight(I)
    BY <1>1 DEF DropInFlight
  <1>2. CASE \E p \in Names : dest[p] = Absent /\ dest' = [dest EXCEPT ![p] = Dir]
    BY <1>0, <1>2
  <1>3. CASE UnlinkForSymlink
    BY <1>0, <1>3 DEF UnlinkForSymlink
  <1>4. CASE dest[Me.name] = Absent /\ dest' = [dest EXCEPT ![Me.name] = Link(item)]
    BY <1>0, <1>4 DEF Absent, Dir
  <1>5. CASE CreateInPlace /\ net' = "begin"
    BY <1>0, <1>5, InPlaceFacts DEF Dir
  <1>6. CASE RenameFile /\ ~InPlace(cur)
    BY <1>0, <1>6 DEF RenameFile
  <1>7. CASE dest' = dest  BY <1>7
  <1>8. CASE LosesInPlace
    BY <1>0, <1>8 DEF LosesInPlace, Dir
  <1> QED
    BY <1>1, <1>2, <1>3, <1>4, <1>5, <1>6, <1>7, <1>8
    DEF TreeStep, FineStep, CreateScratch, WriteData

LEMMA ParentStays ==
    ASSUME TypeOK, VisibleInv, TreeStep, stream' = stream
    PROVE  \A i \in Entries : ParentOk(i) => ParentOk(i)'
  <1>1. \A i \in Entries : Parent[stream[i].name] \in Dirs  BY HereIsDir DEF TypeOK
  <1> QED  BY <1>1, DirStays DEF ParentOk, Dirs

(* A descriptor is opened for the entry at hand, before its Begin is sent. *)
LEMMA InoNext ==
    ASSUME TypeOK, VisibleInv, TreeStep
    PROVE  \/ ino' = ino
           \/ /\ net = "create" /\ net' = "begin" /\ item' = item /\ item \in Entries
              /\ \E node \in Entries : ino' = [ino EXCEPT ![item] = node]
  <1>1. CASE CreateScratch
    <2>1. item \in Entries  BY <1>1, MeFacts DEF CreateScratch
    <2> QED  BY <1>1, <2>1 DEF CreateScratch
  <1>2. CASE CreateInPlace /\ net' = "begin"  BY <1>2, InPlaceFacts
  <1>3. CASE ino' = ino  BY <1>3
  <1> QED
    BY <1>1, <1>2, <1>3
    DEF TreeStep, FineStep, LosesInPlace, DropInFlight, UnlinkForSymlink, MakeSymlink,
       WriteData, RenameFile

LEMMA EntryNext ==
    ASSUME TypeOK, TypeOK', VisibleInv, EntryInv, [Next]_vars
    PROVE  EntryInv'
  <1>1. TreeStep /\ stream' = stream /\ Entries' = Entries
    BY TreeStepNext, OfferFrozen DEF Entries
  <1>2. ino \in [Entries -> Inodes] /\ item \in 0 .. Len(stream) /\ Len(stream) \in Nat
    BY StreamFacts DEF TypeOK, FileType, NetType
  <1>3. (\A i \in Entries : i > item' => ino'[i] = 0)
    <2>1. CASE ino' = ino
      <3>1. item' \in {item, item + 1}  BY NetMoves
      <3> QED  BY <1>2, <2>1, <3>1 DEF EntryInv, Entries
    <2>2. CASE /\ item' = item /\ item \in Entries
               /\ \E node \in Entries : ino' = [ino EXCEPT ![item] = node]
      BY <1>2, <2>2 DEF EntryInv, Entries
    <2> QED  BY <1>1, <2>1, <2>2, InoNext
  <1>4. item' = item => Me' = Me  BY <1>1 DEF Me
  <1> DEFINE Rest == /\ net' = "mkdir" => Me'.kind = "Dir"
                     /\ net' \in {"target", "unlink", "symlink"} => Me'.kind = "Symlink"
                     /\ net' \in {"create", "begin"} \cup Feeding => Me'.kind = "File"
                     /\ net' = "open" => item' = 0
                     /\ net' \in {"walk", "mkdir", "target", "unlink", "symlink", "create",
                                 "begin"} => left' = Me'.size
                     /\ net' \in {"walk", "mkdir", "target", "unlink", "symlink", "create"}
                          => ino'[item'] = 0
            Parents == \A i \in Entries :
                         i < item' \/ (i = item' /\ net' # "walk" /\ ~NetClosed')
                           => ParentOk(i)'
  <1>a. Rest /\ Parents => EntryInv'
    BY <1>1, <1>3 DEF EntryInv, Feeding
  <1>b. \A i \in Entries : ParentOk(i) => ParentOk(i)'  BY <1>1, ParentStays
  <1>c. \A i \in Entries : i < item \/ (i = item /\ net # "walk" /\ ~NetClosed) => ParentOk(i)
    BY DEF EntryInv
  <1>d. \A i \in Entries : i \in Nat  BY DEF Entries
  <1>5. CASE UNCHANGED <<net, item, left>>
    <2>1. net \notin {"open", "decode"} /\ ~NetClosed => item \in Entries
      BY MeFacts DEF NetClosed
    <2>2. ino'[item] = ino[item] \/ net' = "begin"  BY <1>1, InoNext
    <2>3. Parents  BY <1>5, <1>b, <1>c DEF NetClosed
    <2>4. Rest
      BY <1>4, <1>5, <2>2 DEF EntryInv, Feeding
    <2> QED  BY <1>a, <2>3, <2>4
  <1>6. CASE item' = item /\ (NetClosed' \/ net' = "decode")
    <2>1. net' \in {"decode", "join", "flush", "ack", "done"}  BY <1>6 DEF NetClosed
    <2>2. Rest  BY <2>1 DEF Feeding
    <2>3. CASE NetClosed'  BY <1>6, <1>a, <1>b, <1>c, <2>2, <2>3
    <2>4. CASE net' = "decode" /\ net # "walk" /\ ~NetClosed
      BY <1>6, <1>a, <1>b, <1>c, <2>2, <2>4
    <2>5. net' = "decode" => net # "walk" /\ ~NetClosed
      BY DecodeFrom
    <2> QED  BY <1>6, <2>3, <2>4, <2>5
  <1>7. CASE /\ NextEntry /\ item' = item + 1 /\ left' = stream[item + 1].size
             /\ item + 1 \in Entries /\ net' = "walk"
    <2>1. Me' = stream[item + 1]  BY <1>1, <1>7 DEF Me
    <2>2. ino'[item'] = 0
      <3>1. ino' = ino  BY <1>7 DEF NextEntry, fileVars
      <3>2. item' > item
        <4>1. item' = item + 1 /\ item \in Nat  BY <1>2, <1>7
        <4> QED  BY <4>1
      <3> QED  BY <1>7, <3>1, <3>2 DEF EntryInv
    <2>3. Rest  BY <1>7, <2>1, <2>2 DEF Feeding
    <2>4. net # "walk" /\ ~NetClosed  BY <1>7 DEF NextEntry, NetClosed
    <2>5. Parents
      <3> SUFFICES ASSUME NEW i \in Entries, i < item' PROVE ParentOk(i)'
        BY <1>7
      <3>1. i < item \/ i = item  BY <1>2, <1>7, <1>d
      <3> QED  BY <1>b, <1>c, <2>4, <3>1
    <2> QED  BY <1>a, <2>3, <2>5
  <1>9. CASE /\ WalkDirs /\ net = "walk" /\ UNCHANGED <<item, left>>
             /\ \/ net' = "mkdir" /\ Me.kind = "Dir"
                \/ net' = "target" /\ Me.kind = "Symlink"
                \/ net' = "create" /\ Me.kind = "File"
    <2>1. item \in Entries /\ ino' = ino /\ Here \in Dirs  BY <1>9, WalkFacts
    <2>2. Rest  BY <1>4, <1>9, <2>1 DEF EntryInv, Feeding
    <2>3. Cached \/ (Here # Root => dest[Here] = Dir)  BY <1>9, WalkFacts
    <2>4. ParentOk(item)
      <3>1. CASE Cached
        <4>1. /\ item - 1 \in Entries /\ item - 1 < item
              /\ Parent[stream[item - 1].name] = Parent[stream[item].name]
          BY <1>2, <2>1, <3>1 DEF Cached, Here, Me, Entries
        <4> QED  BY <1>c, <4>1 DEF ParentOk
      <3>2. CASE Here # Root => dest[Here] = Dir  BY <3>2 DEF ParentOk, Here, Me
      <3> QED  BY <2>3, <3>1, <3>2
    <2>5. Parents  BY <1>9, <1>b, <1>c, <2>1, <2>4
    <2> QED  BY <1>a, <2>2, <2>5
  <1>8. CASE /\ net \in {"target", "unlink", "create", "begin"} \cup Feeding
             /\ item' = item
             /\ \/ net = "target" /\ net' = "unlink" /\ left' = left
                \/ net = "unlink" /\ net' = "symlink" /\ left' = left
                \/ net = "create" /\ net' = "begin" /\ left' = left
                \/ net \in {"begin"} \cup Feeding /\ net' \in Feeding
    <2>1. net # "walk" /\ ~NetClosed  BY <1>8 DEF NetClosed, Feeding
    <2>2. Parents  BY <1>8, <1>b, <1>c, <2>1
    <2>3. ino'[item] = ino[item] \/ net' = "begin"  BY <1>1, InoNext
    <2>4. Rest  BY <1>4, <1>8, <2>3 DEF EntryInv, Feeding
    <2> QED  BY <1>a, <2>2, <2>4
  <1> QED  BY <1>5, <1>6, <1>7, <1>8, <1>9, NetMoves DEF Feeding

LEMMA HeldTyped == ASSUME TypeOK  PROVE Held \subseteq Entries
  <1>1. \A q \in Seq(Message) : Begins(q) \subseteq Entries
    <2> SUFFICES ASSUME NEW q \in Seq(Message), NEW k \in 1 .. Len(q)
                 PROVE  q[k].of \in Entries
      BY DEF Begins
    <2>1. q[k] \in Message  OBVIOUS
    <2> QED  BY <2>1 DEF Message
  <1>2. /\ q1 \in Seq(Message) /\ q2 \in Seq(Message) /\ hand \in Seq(Message)
        /\ cur \in 0 .. Len(stream) /\ (net = "begin" => item \in Entries)
    BY MeFacts DEF TypeOK, HashType, ChannelType, WriterType
  <1> QED  BY <1>1, <1>2 DEF Held, Owned, NetOwns, WriterOwns, Entries

\* What the four parts of FilesInv are proved from.
FilesHyp == ScratchIInv /\ FilesInv

(* What every step does to what the parts speak about: only the creation   *)
(* of a scratch file adds one, and an inode once opened stays opened.      *)
LEMMA FileFacts ==
    ASSUME FilesHyp, TypeOK', [Next]_vars
    PROVE  /\ TypeOK /\ VisibleInv /\ TreeStep /\ stream' = stream /\ Entries' = Entries
           /\ ino \in [Entries -> Inodes] /\ dest \in [Names -> Node]
           /\ disk \in [Entries -> Seq(Nat)]
           /\ \A i \in Entries : ino[i] # 0 => ino[i] \in Entries /\ ino'[i] = ino[i]
           /\ \A i \in scratch' : i \in scratch \/ (CreateScratch /\ i = item /\ ino[item] = 0)
           /\ Held \subseteq Entries /\ scratch \subseteq Entries
  <1>1. TypeOK /\ VisibleInv /\ EntryInv
    BY DEF FilesHyp, ScratchIInv, FilesInv
  <1>2. TreeStep /\ stream' = stream /\ Entries' = Entries
    BY <1>1, TreeStepNext, OfferFrozen DEF Entries
  <1>3. ino \in [Entries -> Inodes] /\ dest \in [Names -> Node] /\ disk \in [Entries -> Seq(Nat)]
        /\ Held \subseteq Entries /\ scratch \subseteq Entries
    BY <1>1, HeldTyped DEF TypeOK, FileType
  <1>4. \A i \in Entries : ino[i] # 0 => ino[i] \in Entries
    BY <1>3 DEF Inodes, Entries
  <1>5. \A i \in Entries : ino[i] # 0 => ino'[i] = ino[i]
    BY <1>1, <1>2, <1>3, InoNext DEF EntryInv
  <1>6. \A i \in scratch' : i \in scratch \/ (CreateScratch /\ i = item /\ ino[item] = 0)
    BY <1>1, <1>2, InPlaceFacts
    DEF TreeStep, FineStep, LosesInPlace, EntryInv, DropInFlight, UnlinkForSymlink,
        MakeSymlink, CreateScratch, WriteData, RenameFile
  <1> QED  BY <1>1, <1>2, <1>3, <1>4, <1>5, <1>6

LEMMA InodeNext ==
    ASSUME FilesHyp, TypeOK', [Next]_vars
    PROVE  InodeInv'
  <1>0. InodeInv /\ EntryInv /\ VisibleInv /\ \A i \in scratch : ~InPlace(i)
    BY DEF FilesHyp, FilesInv, ScratchIInv
  <1>a. /\ TypeOK /\ TreeStep /\ stream' = stream /\ Entries' = Entries
        /\ ino \in [Entries -> Inodes]
        /\ \A i \in Entries : ino[i] # 0 => ino[i] \in Entries /\ ino'[i] = ino[i]
        /\ \A i \in scratch' : i \in scratch \/ (CreateScratch /\ i = item /\ ino[item] = 0)
    BY FileFacts
  <1> SUFFICES ASSUME NEW i \in Entries, ino'[i] # 0
               PROVE  /\ stream[i].kind = "File" /\ ParentOk(i)'
                      /\ stream[ino'[i]].name = stream[i].name
                      /\ ino'[ino'[i]] # 0
                      /\ IF InPlace(i) THEN ino'[i] \notin scratch' ELSE ino'[i] = i
    BY <1>a DEF InodeInv, InPlace
  <1>1. CASE ino[i] # 0
    <2>1. /\ stream[i].kind = "File" /\ ParentOk(i) /\ stream[ino[i]].name = stream[i].name
          /\ ino[ino[i]] # 0
          /\ IF InPlace(i) THEN ino[i] \notin scratch ELSE ino[i] = i
      BY <1>0, <1>1 DEF InodeInv
    <2>2. ino'[i] = ino[i] /\ ino[i] \in Entries  BY <1>a, <1>1
    <2>3. ino'[ino[i]] = ino[ino[i]]  BY <1>a, <2>1, <2>2
    <2>4. ParentOk(i)'  BY <1>0, <1>a, <2>1, ParentStays
    <2>5. InPlace(i) => ino'[i] \notin scratch'  BY <1>a, <2>1, <2>2
    <2> QED  BY <2>1, <2>2, <2>3, <2>4, <2>5
  <1>2. CASE ino[i] = 0
    <2>1. /\ net = "create" /\ i = item
          /\ stream[i].kind = "File" /\ ParentOk(i)
      BY <1>0, <1>a, <1>2, InoNext DEF EntryInv, Me, NetClosed
    <2>2. ParentOk(i)'  BY <1>0, <1>a, <2>1, ParentStays
    <2>3. CASE CreateScratch
      <3>1. ino'[i] = i /\ ~InPlace(i)
        BY <1>a, <2>1, <2>3 DEF CreateScratch, InPlace, Me
      <3> QED  BY <2>1, <2>2, <3>1
    <2>4. CASE CreateInPlace /\ net' = "begin"
      <3>1. PICK node \in Entries :
              /\ node = i \/ (dest[Me.name].kind = "file" /\ node = dest[Me.name].of)
              /\ ino' = [ino EXCEPT ![i] = node]
        BY <1>0, <1>a, <2>1, <2>4, InPlaceFacts
      <3>2. InPlace(i) /\ Me = stream[i] /\ Me.name \in Names /\ scratch' = scratch
        BY <1>0, <1>a, <2>1, <2>4, InPlaceFacts
      <3>3. ino'[i] = node  BY <1>a, <3>1
      <3>4. CASE node = i  BY <1>0, <2>1, <2>2, <3>2, <3>3, <3>4
      <3>5. CASE node # i
        <4>1. stream[node].name = stream[i].name /\ ino[node] # 0 /\ node \notin scratch
          BY <1>0, <3>1, <3>2, <3>5 DEF VisibleInv, Entries
        <4>2. ino'[node] = ino[node]  BY <1>a, <4>1
        <4> QED  BY <2>1, <2>2, <3>2, <3>3, <4>1, <4>2
      <3> QED  BY <3>4, <3>5
    <2>5. ino' # ino  BY <1>2
    <2> QED
      BY <1>a, <2>3, <2>4, <2>5
      DEF TreeStep, FineStep, LosesInPlace, DropInFlight, UnlinkForSymlink, MakeSymlink,
          WriteData, RenameFile
  <1> QED  BY <1>1, <1>2

(* The writer lets go of a file by dropping it or once it is renamed.      *)
LEMMA CurMoves ==
    ASSUME TypeOK, [Next]_vars
    PROVE  /\ cur' = cur \/ cur = 0 \/ cur \notin scratch' \/ writer = "register" \/ InPlace(cur)
           /\ writer' = "register" =>
                cur' = cur /\ (cur \notin scratch' \/ (writer = "register" /\ cur # 0))
  <1>0. WriterType  BY DEF TypeOK
  <1>1. CASE UNCHANGED vars  BY <1>0, <1>1 DEF vars, writerVars, WriterType
  <1>2. CASE NetStep
    <2>1. cur' = cur /\ writer' = writer
      BY <1>2 DEF NetStep, OpenDest, NextEntry, WalkDirs, EndOfStream, SocketFails, MakeDir,
         ReadTarget, UnlinkForSymlink, MakeSymlink, CreateScratch, CreateInPlace, CreateFails,
         SendBegin, SendFails, TakeBuffer, ReadPayload, SendData, SendFinish, AwaitReply,
         CheckDigest, SendEndFile, Join, FlushDirectories, Acknowledge, writerVars
    <2> QED  BY <1>0, <2>1 DEF WriterType
  <1>3. CASE HashStep
    <2>1. cur' = cur /\ writer' = writer
      BY <1>3 DEF HashStep, HashTake, HashForward, HashStops, HashEnds, writerVars
    <2> QED  BY <1>0, <2>1 DEF WriterType
  <1>4. CASE WriteBegin \/ WriterEnds
    BY <1>4 DEF WriteBegin, WriterEnds, DropInFlight
  <1>5. CASE WriteDataFails \/ FinishFails \/ RegisterFails
    BY <1>5 DEF WriteDataFails, FinishFails, RegisterFails, WriterFails, DropInFlight
  <1>6. CASE WriteData \/ WriteEndFile \/ SyncFile
    BY <1>6 DEF WriteData, WriteEndFile, AfterStamp, SyncFile
  <1>7. CASE RenameFile \/ RegisterFile
    BY <1>7 DEF RenameFile, RegisterFile
  <1> QED  BY <1>1, <1>2, <1>3, <1>4, <1>5, <1>6, <1>7 DEF Next, Returned, WriterStep

LEMMA VisibleNext ==
    ASSUME FilesHyp, TypeOK', InodeInv', [Next]_vars
    PROVE  VisibleInv'
  <1>0. InodeInv /\ EntryInv /\ VisibleInv /\ HeldInv
    BY DEF FilesHyp, FilesInv
  <1>a. /\ TypeOK /\ TreeStep /\ stream' = stream /\ Entries' = Entries
        /\ dest \in [Names -> Node]
        /\ \A i \in Entries : ino[i] # 0 => ino[i] \in Entries /\ ino'[i] = ino[i]
        /\ \A i \in scratch' : i \in scratch \/ (CreateScratch /\ i = item /\ ino[item] = 0)
        /\ Held \subseteq Entries
    BY FileFacts
  <1> DEFINE Fits(v, n) == /\ v.kind = "absent" => v = Absent
                           /\ v.kind = "file" /\ v.of # 0 =>
                                /\ stream[v.of].name = n
                                /\ ino'[v.of] # 0
                                /\ v.of \notin scratch'
  <1> SUFFICES ASSUME NEW n \in Names PROVE Fits(dest'[n], n)
    BY <1>a DEF VisibleInv
  <1>1. Fits(dest[n], n)
    <2>1. dest[n].of \in Inodes  BY <1>a DEF TypeOK, FileType
    <2>2. dest[n].kind = "file" /\ dest[n].of # 0 => dest[n].of \in Entries
      BY <2>1 DEF Inodes, Entries
    <2> QED  BY <1>0, <1>a, <2>2 DEF VisibleInv
  <1>2. Fits(Absent, n) /\ Fits(Dir, n) /\ \A i : Fits(Link(i), n)
    BY DEF Absent, Dir, Link
  <1>3. CASE \E I \in SUBSET Held : DropInFlight(I)
    <2>1. dest'[n] \in {Absent, dest[n]}  BY <1>3 DEF DropInFlight
    <2> QED  BY <1>1, <1>2, <2>1
  <1>4. CASE \E p \in Names : dest[p] = Absent /\ dest' = [dest EXCEPT ![p] = Dir]
    <2>1. dest'[n] \in {Dir, dest[n]}  BY <1>a, <1>4
    <2> QED  BY <1>1, <1>2, <2>1
  <1>5. CASE UnlinkForSymlink
    <2>1. dest'[n] \in {Absent, dest[n]}  BY <1>a, <1>5 DEF UnlinkForSymlink
    <2> QED  BY <1>1, <1>2, <2>1
  <1>6. CASE dest' = [dest EXCEPT ![Me.name] = Link(item)]
    <2>1. dest'[n] \in {Link(item), dest[n]}  BY <1>a, <1>6
    <2> QED  BY <1>1, <1>2, <2>1
  <1>7. CASE CreateInPlace /\ net' = "begin"
    <2>1. PICK node \in Entries : /\ ino' = [ino EXCEPT ![item] = node]
                                  /\ dest' = [dest EXCEPT ![Me.name] = File(node)]
      BY <1>0, <1>a, <1>7, InPlaceFacts
    <2>2. item \in Entries /\ InPlace(item) /\ Me = stream[item]
      BY <1>0, <1>a, <1>7, InPlaceFacts
    <2>3. ino'[item] = node /\ node # 0
      <3>1. ino \in [Entries -> Inodes]  BY FileFacts
      <3> QED  BY <2>1, <2>2, <3>1 DEF Entries
    <2>4. stream[node].name = Me.name /\ ino'[node] # 0 /\ node \notin scratch'
      BY <1>a, <2>2, <2>3 DEF InodeInv, InPlace
    <2>5. CASE n = Me.name
      <3>1. dest'[n] = File(node)  BY <1>a, <2>1, <2>5
      <3> QED  BY <2>4, <2>5, <3>1 DEF File
    <2>6. CASE n # Me.name
      <3>1. dest'[n] = dest[n]  BY <1>a, <2>1, <2>6
      <3> QED  BY <1>1, <3>1
    <2> QED  BY <2>5, <2>6
  <1>8. CASE RenameFile /\ ~InPlace(cur)
    <2>1. cur # 0 /\ cur \in Held /\ cur \in Entries
      BY <1>a, <1>8 DEF RenameFile, TypeOK, WriterType, Held, Entries
    <2>2. ino[cur] # 0 /\ ino[cur] = cur  BY <1>0, <1>8, <2>1 DEF HeldInv, InodeInv
    <2>3. /\ dest' = [dest EXCEPT ![stream[cur].name] = File(cur)]
          /\ scratch' = scratch \ {cur} /\ ino' = ino
      BY <1>8, <2>2 DEF RenameFile
    <2>4. CASE n = stream[cur].name
      <3>1. dest'[n] = File(cur)  BY <1>a, <2>3, <2>4
      <3> QED  BY <2>2, <2>3, <2>4, <3>1 DEF File
    <2>5. CASE n # stream[cur].name
      <3>1. dest'[n] = dest[n]  BY <1>a, <2>3, <2>5
      <3> QED  BY <1>1, <3>1
    <2> QED  BY <2>4, <2>5
  <1>9. CASE dest' = dest  BY <1>1, <1>9
  <1>10. CASE LosesInPlace
    <2>1. dest'[n] \in {Absent, dest[n]}  BY <1>a, <1>10 DEF LosesInPlace
    <2> QED  BY <1>1, <1>2, <2>1
  <1> QED
    BY <1>a, <1>3, <1>4, <1>5, <1>6, <1>7, <1>8, <1>9, <1>10
    DEF TreeStep, FineStep, CreateScratch, WriteData

(* A Begin is made by creating the file.                                   *)
LEMMA Creates ==
    ASSUME [Next]_vars, net = "create", net' = "begin"
    PROVE  CreateScratch \/ CreateInPlace
  BY DEF Next, Returned, vars, netVars, NetStep, HashStep, WriterStep, OpenDest, NextEntry,
     WalkDirs, EndOfStream, SocketFails, MakeDir, ReadTarget, UnlinkForSymlink, MakeSymlink,
     CreateFails, SendBegin, SendFails, TakeBuffer, ReadPayload, SendData, SendFinish,
     AwaitReply, CheckDigest, SendEndFile, Join, FlushDirectories, Acknowledge, HashTake,
     HashForward, HashStops, HashEnds, WriteBegin, WriteData, WriteDataFails, WriteEndFile,
     SyncFile, RenameFile, FinishFails, RegisterFile, RegisterFails, WriterEnds, WriterFails,
     NetReturns

LEMMA HeldInvNext ==
    ASSUME FilesHyp, TypeOK', [Next]_vars
    PROVE  HeldInv'
  <1>0. /\ InodeInv /\ EntryInv /\ VisibleInv /\ HeldInv
        /\ \A i \in scratch : i \in Owned /\ ~InPlace(i)
    BY DEF FilesHyp, FilesInv, ScratchIInv
  <1>a. /\ TypeOK /\ TreeStep /\ stream' = stream /\ Entries' = Entries
        /\ ino \in [Entries -> Inodes] /\ disk \in [Entries -> Seq(Nat)]
        /\ \A i \in Entries : ino[i] # 0 => ino[i] \in Entries /\ ino'[i] = ino[i]
        /\ \A i \in scratch' : i \in scratch \/ (CreateScratch /\ i = item /\ ino[item] = 0)
        /\ Held \subseteq Entries /\ scratch \subseteq Entries
    BY FileFacts
  <1>1. \A i \in Held' : ino'[i] # 0
    <2>1. \A i \in Held : ino'[i] # 0  BY <1>0, <1>a DEF HeldInv
    <2>2. net = "create" /\ net' = "begin" => ino'[item] # 0
      <3> SUFFICES ASSUME net = "create", net' = "begin" PROVE ino'[item] # 0
        OBVIOUS
      <3>1. item \in Entries  BY <1>a, MeFacts
      <3>2. CASE CreateScratch  BY <1>a, <3>1, <3>2 DEF CreateScratch, Entries
      <3>3. CASE CreateInPlace
        <4>1. PICK node \in Entries : ino' = [ino EXCEPT ![item] = node]
          BY <1>0, <1>a, <3>3, InPlaceFacts
        <4> QED  BY <1>a, <3>1, <4>1 DEF Entries
      <3>4. CreateScratch \/ CreateInPlace  BY Creates
      <3> QED  BY <3>2, <3>3, <3>4
    <2>3. Held' \subseteq Held \cup (IF net = "create" /\ net' = "begin" THEN {item} ELSE {})
      BY <1>a, HeldNext
    <2> QED  BY <2>1, <2>2, <2>3
  <1>b. cur # 0 => cur \in Held /\ cur \in Entries /\ ino[cur] # 0 /\ ino[cur] \in Entries
    BY <1>0, <1>a DEF Held, HeldInv
  <1>2. disk' = disk \/ (\E i \in Entries : disk' = [disk EXCEPT ![i] = <<>>])
        \/ (/\ cur # 0 /\ cur' = cur
            /\ \E c \in Seq(Nat) : disk' = [disk EXCEPT ![ino[cur]] = c])
    <2>1. CASE CreateInPlace /\ net' = "begin"  BY <1>0, <1>a, <2>1, InPlaceFacts
    <2>2. CASE WriteData /\ cur # 0
      <3>1. /\ disk' = [disk EXCEPT ![ino[cur]] = WriteAt(@, off, Head(q2).data)]
            /\ cur' = cur
        BY <2>2 DEF WriteData
      <3>2. q2 \in Seq(Message) /\ q2 # <<>> /\ off \in Nat /\ disk[ino[cur]] \in Seq(Nat)
        BY <1>a, <1>b, <2>2 DEF WriteData, TypeOK, ChannelType, WriterType
      <3>3. Head(q2).data \in Seq(Nat)  BY <3>2, HeadTail DEF Message
      <3>4. WriteAt(disk[ino[cur]], off, Head(q2).data) \in Seq(Nat)
        BY <3>2, <3>3, WriteAtIsSeq
      <3>5. disk' = [disk EXCEPT ![ino[cur]] = WriteAt(disk[ino[cur]], off, Head(q2).data)]
        BY <3>1
      <3> QED  BY <2>2, <3>1, <3>4, <3>5
    <2>3. CASE disk' = disk  BY <2>3
    <2> QED
      BY <1>a, <2>1, <2>2, <2>3
      DEF TreeStep, FineStep, LosesInPlace, DropInFlight, UnlinkForSymlink, MakeSymlink,
          CreateScratch, RenameFile
  <1>3. \A i \in Entries : ino'[i] = 0 => disk'[i] = <<>>
    <2> SUFFICES ASSUME NEW i \in Entries, ino'[i] = 0 PROVE disk'[i] = <<>>
      OBVIOUS
    <2>1. ino[i] = 0 /\ disk[i] = <<>>  BY <1>0, <1>a DEF HeldInv
    <2>2. cur # 0 => ino[ino[cur]] # 0  BY <1>0, <1>b DEF InodeInv
    <2>3. cur # 0 => ino[cur] # i  BY <2>1, <2>2
    <2> QED  BY <1>a, <1>2, <2>1, <2>3
  <1>4. \A i \in scratch' : i # cur' => disk'[i] = <<>>
    <2> SUFFICES ASSUME NEW i \in scratch', i # cur' PROVE disk'[i] = <<>>
      OBVIOUS
    <2>1. CASE i \notin scratch
      <3>1. CreateScratch /\ ino[i] = 0 /\ i \in Entries
        BY <1>a, <2>1, MeFacts DEF CreateScratch
      <3>2. disk' = disk  BY <3>1 DEF CreateScratch
      <3> QED  BY <1>0, <3>1, <3>2 DEF HeldInv
    <2>2. CASE i \in scratch
      <3>1. i # cur
        <4> SUFFICES ASSUME i = cur PROVE FALSE  OBVIOUS
        <4>1. i # 0  BY <1>a, <2>2 DEF Entries
        <4>2. writer = "register" \/ InPlace(cur)  BY <1>a, <4>1, CurMoves
        <4> QED  BY <1>0, <2>2, <4>2 DEF HeldInv
      <3>2. disk[i] = <<>> /\ i \in Entries  BY <1>0, <1>a, <2>2, <3>1 DEF HeldInv
      <3>3. cur # 0 => ino[cur] # i
        BY <1>0, <1>b, <2>2, <3>1 DEF InodeInv
      <3> QED  BY <1>a, <1>2, <3>2, <3>3
    <2> QED  BY <2>1, <2>2
  <1>5. writer' = "register" => cur' \notin scratch'
    <2> SUFFICES ASSUME writer' = "register", cur \in scratch' PROVE FALSE
      BY <1>a, CurMoves
    <2>1. writer = "register" /\ cur # 0  BY <1>a, CurMoves
    <2>2. cur \notin scratch  BY <1>0, <2>1 DEF HeldInv
    <2>3. ino[cur] = 0  BY <1>a, <2>2
    <2> QED  BY <1>b, <2>1, <2>3
  <1> QED  BY <1>a, <1>1, <1>3, <1>4, <1>5 DEF HeldInv

LEMMA FilesInit == Init => FilesInv
  <1> SUFFICES ASSUME Init PROVE FilesInv  OBVIOUS
  <1>1. OfferType /\ dest \in [Names -> {Absent, Dir, Link(0), File(0)}]
    BY PipelineAssumption DEF Init, OfferType
  <1>2. Held = {}
    BY BeginsEmpty DEF Init, Held, Owned, NetOwns, WriterOwns
  <1>3. EntryInv /\ InodeInv  BY DEF Init, EntryInv, InodeInv, Feeding, Entries
  <1>4. VisibleInv  BY <1>1 DEF VisibleInv, Absent, Dir, Link, File
  <1>5. HeldInv  BY <1>2 DEF Init, HeldInv
  <1> QED  BY <1>3, <1>4, <1>5 DEF FilesInv

LEMMA FilesNext ==
    ASSUME FilesHyp, ScratchIInv', [Next]_vars
    PROVE  FilesHyp'
  <1>1. TypeOK'  BY DEF ScratchIInv
  <1>2. EntryInv'  BY <1>1, EntryNext DEF FilesHyp, FilesInv, ScratchIInv
  <1>3. InodeInv' /\ HeldInv'  BY <1>1, InodeNext, HeldInvNext
  <1>4. VisibleInv'  BY <1>1, <1>3, VisibleNext
  <1> QED  BY <1>2, <1>3, <1>4 DEF FilesHyp, FilesInv

LEMMA FilesAlways == Spec => [](FilesHyp /\ TypeOK)
  <1>1. Init => FilesHyp  BY ScratchInit, FilesInit DEF FilesHyp
  <1>2. FilesHyp /\ TypeOK' /\ [Next]_vars => FilesHyp'
    <2> SUFFICES ASSUME FilesHyp, TypeOK', [Next]_vars PROVE FilesHyp'  OBVIOUS
    <2>1. ScratchIInv'  BY ScratchNext DEF FilesHyp
    <2> QED  BY <2>1, FilesNext
  <1> QED  BY <1>1, <1>2, TypeCorrect, PTL DEF Spec

LEMMA ParentsNext ==
    ASSUME FilesHyp, TypeOK', ParentsAreDirs, [Next]_vars
    PROVE  ParentsAreDirs'
  <1>0. InodeInv /\ EntryInv /\ VisibleInv /\ HeldInv
    BY DEF FilesHyp, FilesInv
  <1>a. /\ TypeOK /\ TreeStep /\ dest \in [Names -> Node] /\ Held \subseteq Entries
    BY FileFacts
  <1> SUFFICES ASSUME NEW n \in Names, Parent[n] # Root, dest'[n] # Absent
               PROVE  dest'[Parent[n]] = Dir
    BY DEF ParentsAreDirs
  <1>1. Parent[n] \in Names  BY PipelineAssumption DEF Dirs
  <1>2. dest[Parent[n]] = Dir
    <2>1. CASE dest[n] # Absent  BY <2>1 DEF ParentsAreDirs
    <2>2. CASE dest[n] = Absent
      <3>1. CASE n = Me.name /\ net \in {"mkdir", "symlink", "create"}
        <4>1. item \in Entries  BY <1>a, <3>1, MeFacts
        <4>2. ParentOk(item) /\ Me = stream[item]
          BY <1>0, <3>1, <4>1 DEF EntryInv, NetClosed, Me
        <4> QED  BY <3>1, <4>2 DEF ParentOk
      <3>2. CASE RenameFile /\ ~InPlace(cur) /\ n = stream[cur].name
        <4>1. cur \in Held /\ cur \in Entries
          BY <1>a, <3>2 DEF RenameFile, TypeOK, WriterType, Held
        <4>2. ParentOk(cur)  BY <1>0, <4>1 DEF HeldInv, InodeInv
        <4> QED  BY <3>2, <4>2 DEF ParentOk
      <3>3. CASE dest'[n] = dest[n]  BY <2>2, <3>3
      <3>4. CASE \E I \in SUBSET Held : DropInFlight(I)
        BY <2>2, <3>4 DEF DropInFlight
      <3>5. CASE \E p \in Names : /\ dest[p] = Absent /\ dest' = [dest EXCEPT ![p] = Dir]
                                  /\ Parent[p] # Root => \/ net = "mkdir" /\ p = Me.name
                                                         \/ dest[Parent[p]] = Dir
        BY <1>a, <3>1, <3>3, <3>5
      <3>6. CASE UnlinkForSymlink
        BY <1>a, <2>2, <3>6 DEF UnlinkForSymlink
      <3>7. CASE MakeSymlink /\ dest' = [dest EXCEPT ![Me.name] = Link(item)]
        BY <1>a, <3>1, <3>3, <3>7 DEF MakeSymlink
      <3>8. CASE CreateInPlace /\ net' = "begin"
        BY <1>0, <1>a, <3>1, <3>3, <3>8, InPlaceFacts
      <3>9. CASE RenameFile /\ ~InPlace(cur)
        <4>1. dest'[n] = dest[n] \/ n = stream[cur].name  BY <1>a, <3>9 DEF RenameFile
        <4> QED  BY <3>2, <3>3, <3>9, <4>1
      <3>10. CASE LosesInPlace
        BY <1>a, <2>2, <3>10 DEF LosesInPlace
      <3> QED
        BY <1>a, <3>3, <3>4, <3>5, <3>6, <3>7, <3>8, <3>9, <3>10
        DEF TreeStep, FineStep, CreateScratch, WriteData
    <2> QED  BY <2>1, <2>2
  <1> QED  BY <1>0, <1>a, <1>1, <1>2, DirStays

(* No order of the two threads that change the tree leaves a name under       *)
(* anything but a real directory (walk_dirs, ParentCache).                    *)
THEOREM ParentsStayDirs == Spec => []ParentsAreDirs
  <1>1. Init => ParentsAreDirs  BY TreeAssumption DEF Init, ParentsAreDirs
  <1>2. FilesHyp /\ TypeOK' /\ ParentsAreDirs /\ [Next]_vars => ParentsAreDirs'
    BY ParentsNext
  <1> QED  BY <1>1, <1>2, FilesAlways, PTL DEF Spec

-----------------------------------------------------------------------------
(* What the channels carry.  A point of the line of messages between the   *)
(* network thread and the writer is the entry last begun there, whether    *)
(* its payload is still coming ("data"), was announced complete ("fin") or *)
(* is over ("idle"), and the payload so far.  A message moves from a point *)
(* to the next; v says whether the digest is asked for, by a Finish that   *)
(* only the hash stage sees.                                               *)

At == [of : Nat, ph : {"idle", "data", "fin"}, got : Seq(Nat)]

Point(i, ph, got) == [of |-> i, ph |-> ph, got |-> got]
Moved(a, ph) == Point(a.of, ph, a.got)
Opened(i)    == Point(i, "data", <<>>)
Fed(a, d)    == Point(a.of, "data", a.got \o d)

\* The point as a stage that sees no Finish knows it.
Flat(a) == IF a.ph = "fin" THEN Moved(a, "data") ELSE a

\* The payload of entry a.of of stream s is all there, and is the sender's if
\* the session verifies.
Whole(s, a) ==
    /\ Len(a.got) = s[a.of].size
    /\ Verify => a.got = [k \in 1 .. s[a.of].size |-> a.of]

Follows(s, v, a, m, b) ==
    \/ m.kind = "Begin" /\ a.ph = "idle" /\ a.of < m.of /\ b = Opened(m.of)
    \/ m.kind = "Data" /\ a.of = m.of /\ a.ph = "data" /\ b = Fed(a, m.data)
    \/ m.kind = "Finish" /\ a.of = m.of /\ v /\ a.ph = "data" /\ b = Moved(a, "fin")
    \/ /\ m.kind = "EndFile" /\ a.of = m.of /\ a.ph = (IF v THEN "fin" ELSE "data")
       /\ Whole(s, a) /\ b = Moved(a, "idle")

\* Point p[k] is where message k of q starts from.
Path(s, v, q, p) ==
    /\ p \in [1 .. Len(q) + 1 -> At]
    /\ \A k \in 1 .. Len(q) : Follows(s, v, p[k], q[k], p[k + 1])
    /\ \A j, k \in 1 .. Len(q) + 1 : j <= k => p[j].of <= p[k].of

\* The messages of q lead from point a to point b.
Chain(s, v, q, a, b) == \E p : Path(s, v, q, p) /\ p[1] = a /\ p[Len(q) + 1] = b

LEMMA PointFields ==
    \A i, ph, g : Point(i, ph, g).of = i /\ Point(i, ph, g).ph = ph /\ Point(i, ph, g).got = g
  BY DEF Point

LEMMA FedFields ==
    ASSUME NEW a, NEW d
    PROVE  Fed(a, d).of = a.of /\ Fed(a, d).ph = "data" /\ Fed(a, d).got = a.got \o d
  <1> DEFINE g == a.got \o d
  <1>1. Fed(a, d) = Point(a.of, "data", g)  BY DEF Fed
  <1> HIDE DEF g
  <1>2. Fed(a, d).of = a.of /\ Fed(a, d).ph = "data" /\ Fed(a, d).got = g
    BY <1>1, PointFields
  <1> QED  BY <1>2 DEF g

LEMMA PointsTyped ==
    /\ \A i \in Nat : Opened(i) \in At
    /\ \A a \in At : /\ \A d \in Seq(Nat) : Fed(a, d) \in At
                     /\ \A ph \in {"idle", "data", "fin"} : Moved(a, ph) \in At
                     /\ Flat(a) \in At /\ a.of \in Nat /\ a.got \in Seq(Nat)
  <1>1. \A i \in Nat, ph \in {"idle", "data", "fin"}, g \in Seq(Nat) : Point(i, ph, g) \in At
    BY DEF Point, At
  <1>2. \A a \in At : a.of \in Nat /\ a.got \in Seq(Nat) /\ a.ph \in {"idle", "data", "fin"}
    BY DEF At
  <1>3. <<>> \in Seq(Nat) /\ \A g, d \in Seq(Nat) : g \o d \in Seq(Nat)
    OBVIOUS
  <1>4. \A i \in Nat : Opened(i) \in At  BY <1>1, <1>3, Zenon DEF Opened
  <1>5. \A a \in At, d \in Seq(Nat) : Fed(a, d) \in At  BY <1>1, <1>2, <1>3, Zenon DEF Fed
  <1>6. \A a \in At, ph \in {"idle", "data", "fin"} : Moved(a, ph) \in At
    BY <1>1, <1>2, Zenon DEF Moved
  <1>7. \A a \in At : Flat(a) \in At  BY <1>6 DEF Flat
  <1> QED  BY <1>2, <1>4, <1>5, <1>6, <1>7

LEMMA FlatFields ==
    ASSUME NEW a \in At
    PROVE  Flat(a).of = a.of /\ Flat(a).got = a.got /\ (a.ph # "fin" => Flat(a) = a)
  <1>1. CASE a.ph = "fin"
    <2>1. Flat(a) = Point(a.of, "data", a.got)  BY <1>1 DEF Flat, Moved
    <2> QED  BY <1>1, <2>1, PointFields
  <1>2. CASE a.ph # "fin"  BY <1>2 DEF Flat
  <1> QED  BY <1>1, <1>2

LEMMA FollowsOrder ==
    ASSUME NEW s, NEW v, NEW a \in At, NEW m, NEW b \in At, Follows(s, v, a, m, b)
    PROVE  /\ a.of <= b.of
           /\ m.kind = "Begin" => a.of < m.of /\ m.of = b.of
  <1>1. a.of \in Nat /\ b.of \in Nat  BY DEF At
  <1>2. CASE m.kind = "Begin" /\ a.of < m.of /\ b = Opened(m.of)
    <2>1. b.of = m.of  BY <1>2, PointFields DEF Opened
    <2> QED  BY <1>1, <1>2, <2>1
  <1>3. CASE m.kind # "Begin" /\ (b = Fed(a, m.data) \/ \E ph : b = Moved(a, ph))
    <2>1. b.of = a.of  BY <1>3, PointFields, FedFields DEF Moved
    <2> QED  BY <1>1, <1>3, <2>1
  <1> QED  BY <1>2, <1>3 DEF Follows

LEMMA ChainEmpty ==
    ASSUME NEW s, NEW v
    PROVE  /\ \A a \in At : Chain(s, v, <<>>, a, a)
           /\ \A a, b : Chain(s, v, <<>>, a, b) => a = b
  <1>1. Len(<<>>) = 0 /\ 1 .. 0 = {} /\ 1 .. 0 + 1 = {1}  OBVIOUS
  <1>2. ASSUME NEW a \in At PROVE Chain(s, v, <<>>, a, a)
    <2> DEFINE p == [k \in 1 .. 0 + 1 |-> a]
    <2>1. p \in [1 .. 0 + 1 -> At] /\ p[1] = a /\ p[0 + 1] = a  BY <1>1
    <2>2. \A j, k \in 1 .. 0 + 1 : p[j].of <= p[k].of  BY <1>1, <1>2, <2>1 DEF At
    <2> HIDE DEF p
    <2>3. Path(s, v, <<>>, p)  BY <1>1, <2>1, <2>2 DEF Path
    <2> QED  BY <1>1, <2>1, <2>3 DEF Chain
  <1>3. \A a, b : Chain(s, v, <<>>, a, b) => a = b  BY <1>1 DEF Chain
  <1> QED  BY <1>2, <1>3

LEMMA ChainAppend ==
    ASSUME NEW s, NEW v, NEW S, NEW q \in Seq(S), NEW m \in S,
           NEW a, NEW b, NEW c \in At,
           Chain(s, v, q, a, b), Follows(s, v, b, m, c)
    PROVE  Chain(s, v, Append(q, m), a, c)
  <1> DEFINE l == Len(q)
             r == Append(q, m)
  <1>1. PICK p : Path(s, v, q, p) /\ p[1] = a /\ p[l + 1] = b  BY DEF Chain
  <1> DEFINE t == [k \in 1 .. (l + 1) + 1 |-> IF k <= l + 1 THEN p[k] ELSE c]
  <1>2. l \in Nat /\ Len(r) = l + 1 /\ r[l + 1] = m /\ \A k \in 1 .. l : r[k] = q[k]
    OBVIOUS
  <1>3. /\ p \in [1 .. l + 1 -> At] /\ b \in At
        /\ \A k \in 1 .. l : Follows(s, v, p[k], q[k], p[k + 1])
        /\ \A j, k \in 1 .. l + 1 : j <= k => p[j].of <= p[k].of
    BY <1>1, <1>2 DEF Path
  <1> HIDE DEF r, l
  <1>4. t \in [1 .. (l + 1) + 1 -> At]  BY <1>2, <1>3
  <1>5. /\ \A k \in 1 .. l + 1 : t[k] = p[k]
        /\ t[(l + 1) + 1] = c
        /\ t[1] = a /\ t[l + 1] = b
    BY <1>1, <1>2
  <1> HIDE DEF t
  <1>6. ASSUME NEW k \in 1 .. l + 1 PROVE Follows(s, v, t[k], r[k], t[k + 1])
    <2>1. CASE k = l + 1  BY <1>2, <1>5, <2>1
    <2>2. CASE k \in 1 .. l
      <3>1. k \in 1 .. l + 1 /\ k + 1 \in 1 .. l + 1  BY <1>2, <2>2
      <3>2. t[k] = p[k] /\ t[k + 1] = p[k + 1] /\ r[k] = q[k]  BY <1>2, <1>5, <2>2, <3>1
      <3> QED  BY <1>3, <2>2, <3>2
    <2> QED  BY <1>2, <1>6, <2>1, <2>2
  <1>7. ASSUME NEW j \in 1 .. (l + 1) + 1, NEW k \in 1 .. (l + 1) + 1, j <= k
        PROVE  t[j].of <= t[k].of
    <2>1. CASE k \in 1 .. l + 1
      <3>1. j \in 1 .. l + 1  BY <1>2, <1>7, <2>1
      <3> QED  BY <1>3, <1>5, <1>7, <2>1, <3>1
    <2>2. CASE k = (l + 1) + 1 /\ j = (l + 1) + 1
      <3>1. c.of \in Nat  BY DEF At
      <3> QED  BY <1>5, <2>2, <3>1
    <2>3. CASE k = (l + 1) + 1 /\ j \in 1 .. l + 1
      <3>1. l + 1 \in 1 .. l + 1 /\ j <= l + 1  BY <1>2, <2>3
      <3>2. p[j].of <= b.of  BY <1>1, <1>3, <2>3, <3>1 DEF l
      <3>3. b.of <= c.of  BY <1>3, FollowsOrder
      <3>4. p[j].of \in Nat /\ b.of \in Nat /\ c.of \in Nat  BY <1>3, <2>3 DEF At
      <3> QED  BY <1>5, <2>3, <3>2, <3>3, <3>4
    <2> QED  BY <1>2, <2>1, <2>2, <2>3
  <1>8. Path(s, v, r, t)  BY <1>2, <1>4, <1>6, <1>7 DEF Path
  <1> QED  BY <1>2, <1>5, <1>8 DEF Chain, r

LEMMA ChainTake ==
    ASSUME NEW s, NEW v, NEW S, NEW q \in Seq(S), q # <<>>,
           NEW a, NEW b, Chain(s, v, q, a, b)
    PROVE  \E c \in At : Follows(s, v, a, Head(q), c) /\ Chain(s, v, Tail(q), c, b)
  <1> DEFINE l == Len(Tail(q))
             r == Tail(q)
  <1>1. Len(q) = l + 1 /\ l \in Nat /\ Head(q) = q[1] /\ \A k \in 1 .. l : r[k] = q[k + 1]
    <2>1. Len(q) \in Nat \ {0}  BY EmptySeq
    <2> QED  BY <2>1
  <1> HIDE DEF r, l
  <1>2. PICK p : Path(s, v, q, p) /\ p[1] = a /\ p[(l + 1) + 1] = b  BY <1>1 DEF Chain
  <1>3. /\ p \in [1 .. (l + 1) + 1 -> At]
        /\ \A k \in 1 .. l + 1 : Follows(s, v, p[k], q[k], p[k + 1])
        /\ \A j, k \in 1 .. (l + 1) + 1 : j <= k => p[j].of <= p[k].of
    BY <1>1, <1>2 DEF Path
  <1> DEFINE t == [k \in 1 .. l + 1 |-> p[k + 1]]
  <1>4. \A k \in 1 .. l + 1 : k + 1 \in 1 .. (l + 1) + 1 /\ t[k] = p[k + 1]  BY <1>1
  <1>5. t \in [1 .. l + 1 -> At]  BY <1>3, <1>4
  <1>6. t[1] = p[2] /\ t[l + 1] = b /\ p[2] \in At
    <2>1. 1 \in 1 .. l + 1 /\ l + 1 \in 1 .. l + 1 /\ 1 + 1 = 2  BY <1>1
    <2> QED  BY <1>2, <1>3, <1>4, <2>1
  <1> HIDE DEF t
  <1>7. ASSUME NEW k \in 1 .. l PROVE Follows(s, v, t[k], r[k], t[k + 1])
    <2>1. k \in 1 .. l + 1 /\ k + 1 \in 1 .. l + 1  BY <1>1, <1>7
    <2>2. t[k] = p[k + 1] /\ t[k + 1] = p[(k + 1) + 1] /\ r[k] = q[k + 1]
      BY <1>1, <1>4, <2>1
    <2>3. Follows(s, v, p[k + 1], q[k + 1], p[(k + 1) + 1])  BY <1>3, <2>1
    <2> QED  BY <2>2, <2>3
  <1>8. ASSUME NEW j \in 1 .. l + 1, NEW k \in 1 .. l + 1, j <= k PROVE t[j].of <= t[k].of
    <2>1. j + 1 <= k + 1 /\ j + 1 \in 1 .. (l + 1) + 1 /\ k + 1 \in 1 .. (l + 1) + 1
      BY <1>1, <1>8
    <2>2. p[j + 1].of <= p[k + 1].of  BY <1>3, <2>1
    <2> QED  BY <1>4, <2>2
  <1>9. Path(s, v, r, t)  BY <1>5, <1>7, <1>8 DEF Path, l, r
  <1>10. Chain(s, v, r, p[2], b)
    <2>1. t[Len(r) + 1] = b  BY <1>6 DEF l, r
    <2> QED  BY <1>6, <1>9, <2>1 DEF Chain
  <1>11. Follows(s, v, a, Head(q), p[2])
    <2>1. 1 \in 1 .. l + 1 /\ 1 + 1 = 2  BY <1>1
    <2> QED  BY <1>1, <1>2, <1>3, <2>1
  <1> QED  BY <1>6, <1>10, <1>11 DEF r

(* Entries are begun in the order of the stream.                           *)
LEMMA ChainOrder ==
    ASSUME NEW s, NEW v, NEW S, NEW q \in Seq(S), NEW a, NEW b, Chain(s, v, q, a, b)
    PROVE  a.of <= b.of /\ \A i \in Begins(q) : a.of < i /\ i <= b.of
  <1> DEFINE l == Len(q)
  <1>1. l \in Nat /\ l = Len(q)  OBVIOUS
  <1> HIDE DEF l
  <1>2. PICK p : Path(s, v, q, p) /\ p[1] = a /\ p[l + 1] = b  BY <1>1 DEF Chain
  <1>3. /\ p \in [1 .. l + 1 -> At]
        /\ \A k \in 1 .. l : Follows(s, v, p[k], q[k], p[k + 1])
        /\ \A j, k \in 1 .. l + 1 : j <= k => p[j].of <= p[k].of
    BY <1>1, <1>2 DEF Path
  <1>4. 1 \in 1 .. l + 1 /\ l + 1 \in 1 .. l + 1 /\ 1 <= l + 1  BY <1>1
  <1>5. a.of <= b.of  BY <1>2, <1>3, <1>4
  <1>6. ASSUME NEW k \in 1 .. l, q[k].kind = "Begin"
        PROVE  a.of < q[k].of /\ q[k].of <= b.of
    <2>1. k \in 1 .. l + 1 /\ k + 1 \in 1 .. l + 1 /\ 1 <= k /\ k + 1 <= l + 1
      BY <1>1, <1>6
    <2>2. p[k] \in At /\ p[k + 1] \in At /\ a \in At /\ b \in At  BY <1>2, <1>3, <1>4, <2>1
    <2>3. p[k].of < q[k].of /\ q[k].of = p[k + 1].of  BY <1>3, <1>6, <2>2, FollowsOrder
    <2>4. a.of <= p[k].of /\ p[k + 1].of <= b.of  BY <1>2, <1>3, <1>4, <2>1
    <2>5. a.of \in Nat /\ p[k].of \in Nat /\ p[k + 1].of \in Nat /\ b.of \in Nat
      BY <2>2 DEF At
    <2> QED  BY <2>3, <2>4, <2>5
  <1> QED  BY <1>1, <1>5, <1>6 DEF Begins

(* A stage that sees no Finish follows the same line.                      *)
LEMMA FollowsFlat ==
    ASSUME NEW s, NEW a \in At, NEW m, NEW b \in At, Follows(s, TRUE, a, m, b)
    PROVE  IF m.kind = "Finish" THEN Flat(b) = Flat(a)
                                ELSE Follows(s, FALSE, Flat(a), m, Flat(b))
  <1>1. CASE m.kind = "Begin" \/ m.kind = "Data"
    <2>1. a.ph # "fin"  BY <1>1 DEF Follows
    <2>2. b.ph # "fin"
      <3>1. b = Opened(m.of) \/ b = Fed(a, m.data)  BY <1>1 DEF Follows
      <3>2. b.ph = "data"  BY <3>1, PointFields, FedFields DEF Opened
      <3> QED  BY <3>2
    <2>3. Flat(a) = a /\ Flat(b) = b  BY <2>1, <2>2 DEF Flat
    <2>4. Follows(s, FALSE, a, m, b)  BY <1>1 DEF Follows
    <2> QED  BY <1>1, <2>3, <2>4
  <1>2. CASE m.kind = "Finish"
    <2>1. a.ph = "data" /\ b = Moved(a, "fin")  BY <1>2 DEF Follows
    <2>2. b.ph = "fin" /\ b.of = a.of /\ b.got = a.got  BY <2>1, PointFields DEF Moved
    <2>3. Flat(a) = a /\ Flat(b) = Moved(a, "data")  BY <2>1, <2>2 DEF Flat, Moved
    <2>4. a = Moved(a, "data")  BY <2>1 DEF Moved, Point, At
    <2> QED  BY <1>2, <2>3, <2>4
  <1>3. CASE m.kind = "EndFile"
    <2>1. a.ph = "fin" /\ a.of = m.of /\ Whole(s, a) /\ b = Moved(a, "idle")
      BY <1>3 DEF Follows
    <2>2. Flat(a) = Moved(a, "data") /\ Flat(a).of = a.of /\ Flat(a).got = a.got
          /\ Flat(a).ph = "data"
      BY <2>1, PointFields DEF Flat, Moved
    <2>3. b.ph = "idle"  BY <2>1, PointFields DEF Moved
    <2>4. Flat(b) = Moved(Flat(a), "idle")  BY <2>1, <2>2, <2>3 DEF Flat, Moved
    <2>5. Whole(s, Flat(a))  BY <2>1, <2>2 DEF Whole
    <2> QED  BY <1>3, <2>1, <2>2, <2>4, <2>5 DEF Follows
  <1> QED  BY <1>1, <1>2, <1>3 DEF Follows

(* A write at the end of a file is an append.                              *)
LEMMA WriteAtEnd ==
    ASSUME NEW c \in Seq(Nat), NEW d \in Seq(Nat)
    PROVE  WriteAt(c, Len(c), d) = c \o d
  <1>1. Len(c) \in Nat /\ Len(d) \in Nat  OBVIOUS
  <1>2. MaxOf(Len(c), Len(c) + Len(d)) = Len(c) + Len(d)  BY <1>1 DEF MaxOf
  <1> DEFINE both == c \o d
             one == WriteAt(c, Len(c), d)
  <1>3. /\ both \in Seq(Nat) /\ Len(both) = Len(c) + Len(d)
        /\ \A k \in 1 .. Len(c) + Len(d) :
             both[k] = IF k <= Len(c) THEN c[k] ELSE d[k - Len(c)]
    OBVIOUS
  <1>4. /\ one \in Seq(Nat) /\ Len(one) = Len(c) + Len(d)
        /\ \A k \in 1 .. Len(c) + Len(d) :
             one[k] = IF k <= Len(c) THEN c[k] ELSE d[k - Len(c)]
    <2>1. one \in Seq(Nat)  BY <1>1, WriteAtIsSeq
    <2>2. one = [k \in 1 .. Len(c) + Len(d) |->
                   IF k > Len(c) /\ k <= Len(c) + Len(d) THEN d[k - Len(c)]
                   ELSE IF k <= Len(c) THEN c[k] ELSE 0]
      BY <1>2 DEF WriteAt
    <2>3. Len(one) = Len(c) + Len(d)  BY <1>1, <2>1, <2>2
    <2> QED  BY <1>1, <2>1, <2>2, <2>3
  <1> HIDE DEF both, one
  <1>5. both = one
    <2>1. Len(c) + Len(d) \in Nat  BY <1>1
    <2>2. \A k \in 1 .. Len(c) + Len(d) : both[k] = one[k]  BY <1>3, <1>4
    <2> QED  BY <1>3, <1>4, <2>1, <2>2, SeqEqual
  <1> QED  BY <1>5 DEF both, one

\* No other entry of stream s has the name of entry i.
Only(s, i) == \A j \in 1 .. Len(s) : s[j].name = s[i].name => j = i

\* The entry is written to an inode of its own.
Own(i) == InPlace(i) => Only(stream, i)

\* The point the writer is at: it wrote what came so far, and renames only
\* what is whole.
WriterAt(w) ==
    writer # "gone" =>
        /\ cur = 0 => w.ph = "idle"
        /\ cur # 0 =>
             /\ w.of = cur
             /\ Own(cur) /\ writer # "register" => disk[cur] = w.got
             /\ IF writer = "recv" THEN w.ph = "data" /\ off = Len(w.got)
                                   ELSE w.ph = "idle" /\ Whole(stream, w)

\* The point the hash stage is at: it hashed this file's payload, no other's.
HashAt(h) == hash = "run" => sum = IF h.ph = "data" THEN h.got ELSE <<>>

\* The point the network thread is at: it sent what it read of the entry, the
\* digest it compares is that of what it sent, and no file is left half sent
\* when the stream ends.
NetAt(n) ==
    /\ NetClosed /\ received = "ok" => n.ph = "idle"
    /\ ~NetClosed =>
        /\ net \in {"open", "decode"} => n.ph = "idle" /\ n.of <= item
        /\ net \in {"walk", "mkdir", "target", "unlink", "symlink", "create", "begin"} =>
             n.ph = "idle" /\ n.of < item
        /\ net \in Feeding => n.of = item
        /\ net \in {"pool", "read", "data", "finish"} =>
             n.ph = "data" /\ Len(n.got) + Len(buf) + left = Me.size
        /\ net # "data" => buf = <<>>
        /\ net = "finish" => left = 0
        /\ net \in {"reply", "check"} =>
             /\ n.ph = "fin" /\ Len(n.got) = Me.size
             /\ reply # <<>> => reply[1] = n.got
        /\ net = "check" => reply # <<>>
        /\ net = "endfile" => n.ph = (IF Verify THEN "fin" ELSE "data") /\ Whole(stream, n)
        /\ ~fault =>
             /\ \A k \in 1 .. Len(buf) : buf[k] = item
             /\ net \in Feeding => \A k \in 1 .. Len(n.got) : n.got[k] = item

Line(w, x, h, n) ==
    /\ w \in At /\ x \in At /\ h \in At /\ n \in At
    /\ Chain(stream, FALSE, q2, w, x)
    /\ Chain(stream, FALSE, hand, x, Flat(h))
    /\ Chain(stream, Verify, q1, h, n)
    /\ WriterAt(w) /\ HashAt(h) /\ NetAt(n)

ChainInv == \E w, x, h, n : Line(w, x, h, n)

\* The digest is asked for once a file, and read before the next message.
FinishInv ==
    /\ ~Verify => hash = "gone" /\ q1 = <<>> /\ hand = <<>>
    /\ net \in {"finish", "reply", "check"} => Verify
    /\ \A k \in 1 .. Len(q1) : q1[k].kind = "Finish" =>
         k = Len(q1) /\ net = "reply" /\ reply = <<>>
    /\ reply # <<>> => net \in {"reply", "check"} \/ NetClosed

\* Nobody but the stage that holds a file removes its scratch file.
OwnedInScratch == \A i \in Owned : ~InPlace(i) => i \in scratch

\* A file created in place is empty until the writer comes to it, unless
\* another entry writes to the same name.
FreshInv == \A i \in Held : InPlace(i) /\ Only(stream, i) /\ i # cur => disk[i] = <<>>

LineHyp == FilesHyp /\ ChainInv /\ FinishInv /\ OwnedInScratch /\ FreshInv

LEMMA LineTyped ==
    ASSUME FilesHyp
    PROVE  /\ TypeOK /\ StoppedHoldNothing /\ OfferType
           /\ q1 \in Seq(Message) /\ q2 \in Seq(Message) /\ hand \in Seq(Message)
           /\ Len(hand) <= 1
  BY DEF FilesHyp, ScratchIInv, TypeOK, HashType, ChannelType

(* Such an entry's inode is named after it.                                *)
LEMMA OwnInode ==
    ASSUME FilesHyp, NEW i \in Entries, ino[i] # 0, Own(i)
    PROVE  ino[i] = i
  <1>1. TypeOK /\ InodeInv  BY LineTyped DEF FilesHyp, FilesInv
  <1>2. ino[i] \in Entries  BY <1>1 DEF TypeOK, FileType, Inodes, Entries
  <1>3. stream[ino[i]].name = stream[i].name /\ (~InPlace(i) => ino[i] = i)
    BY <1>1 DEF InodeInv
  <1> QED  BY <1>2, <1>3 DEF Own, Only, Entries

(* Two stages never hold the same file: it is one value, and moves.        *)
LEMMA Apart ==
    ASSUME FilesHyp, ChainInv
    PROVE  /\ net = "begin" =>
                item \notin Begins(q1) \cup Begins(hand) \cup Begins(q2) \cup {cur}
           /\ \A i \in Begins(q2) \cup {cur} : i \notin Begins(hand) \cup Begins(q1)
           /\ cur \notin Begins(q2)
           /\ \A i \in Held : cur <= i
  <1>0. /\ q1 \in Seq(Message) /\ q2 \in Seq(Message) /\ hand \in Seq(Message)
        /\ writer = "gone" => cur = 0 /\ q2 = <<>>
        /\ item \in Nat /\ cur \in Nat
    BY LineTyped DEF StoppedHoldNothing, TypeOK, NetType, WriterType
  <1>1. PICK w, x, h, n : Line(w, x, h, n)  BY DEF ChainInv
  <1>2. /\ w.of \in Nat /\ x.of \in Nat /\ h.of \in Nat /\ n.of \in Nat /\ Flat(h).of = h.of
    BY <1>1, PointsTyped, FlatFields DEF Line
  <1>3. w.of <= x.of /\ \A i \in Begins(q2) : w.of < i /\ i <= x.of
    BY <1>0, <1>1, ChainOrder DEF Line
  <1>4. x.of <= h.of /\ \A i \in Begins(hand) : x.of < i /\ i <= h.of
    BY <1>0, <1>1, <1>2, ChainOrder DEF Line
  <1>5. h.of <= n.of /\ \A i \in Begins(q1) : h.of < i /\ i <= n.of
    BY <1>0, <1>1, ChainOrder DEF Line
  <1>6. cur # 0 => cur = w.of  BY <1>0, <1>1 DEF Line, WriterAt
  <1>7. net = "begin" => n.of < item  BY <1>1 DEF Line, NetAt, NetClosed
  <1>8. \A i \in Begins(q1) \cup Begins(hand) \cup Begins(q2) : i \in Nat \ {0}
    <2>1. Begins(q1) \cup Begins(hand) \cup Begins(q2) \subseteq Held  BY DEF Held, Owned
    <2> QED  BY <2>1, HeldTyped, LineTyped DEF Entries
  <1>9. /\ \A i \in Begins(q2) : w.of < i /\ i <= x.of /\ i <= n.of /\ i \in Nat
        /\ \A i \in Begins(hand) : w.of < i /\ x.of < i /\ i <= n.of /\ i \in Nat
        /\ \A i \in Begins(q1) : w.of < i /\ x.of < i /\ i <= n.of /\ i \in Nat
    BY <1>2, <1>3, <1>4, <1>5, <1>8
  <1>10. net = "begin" => item \notin Begins(q1) \cup Begins(hand) \cup Begins(q2) \cup {cur}
    <2> SUFFICES ASSUME net = "begin"
                 PROVE  item \notin Begins(q1) \cup Begins(hand) \cup Begins(q2) \cup {cur}
      OBVIOUS
    <2>1. item > n.of /\ w.of <= n.of  BY <1>2, <1>3, <1>4, <1>5, <1>7, <1>0
    <2>2. cur # item  BY <1>0, <1>2, <1>6, <2>1
    <2> QED  BY <1>0, <1>2, <1>9, <2>1, <2>2
  <1>11. \A i \in Begins(q2) \cup {cur} : i \notin Begins(hand) \cup Begins(q1)
    BY <1>2, <1>6, <1>8, <1>9
  <1>12. cur \notin Begins(q2)  BY <1>2, <1>6, <1>8, <1>9
  <1>13. \A i \in Held : cur <= i
    <2> SUFFICES ASSUME NEW i \in Held, cur # 0, i # cur PROVE cur < i
      BY <1>0, HeldTyped, LineTyped DEF Entries
    <2>1. CASE i \in Begins(q1) \cup Begins(hand) \cup Begins(q2)  BY <1>6, <1>9, <2>1
    <2>2. CASE net = "begin" /\ i = item  BY <1>0, <1>2, <1>3, <1>4, <1>5, <1>6, <1>7, <2>2
    <2> QED  BY <2>1, <2>2 DEF Held, Owned, NetOwns, WriterOwns
  <1> QED  BY <1>10, <1>11, <1>12, <1>13

LEMMA OwnedNext ==
    ASSUME LineHyp, TypeOK', [Next]_vars
    PROVE  OwnedInScratch'
  <1>0. /\ FilesHyp /\ OwnedInScratch /\ TypeOK /\ stream' = stream /\ Entries' = Entries
        /\ TreeStep /\ VisibleInv /\ StoppedHoldNothing
    BY FileFacts, LineTyped DEF LineHyp
  <1> DEFINE new == IF net = "create" /\ net' = "begin" THEN {item} ELSE {}
  <1>1. Owned' \subseteq Owned \cup new  BY <1>0, HeldNext
  <1>2. /\ net = "begin" =>
             item \notin Begins(q1) \cup Begins(hand) \cup Begins(q2) \cup {cur}
        /\ \A i \in Begins(q2) \cup {cur} : i \notin Begins(hand) \cup Begins(q1)
        /\ cur \notin Begins(q2)
    BY Apart DEF LineHyp
  <1> SUFFICES ASSUME NEW i \in Owned', ~InPlace(i) PROVE i \in scratch'
    BY <1>0 DEF OwnedInScratch, InPlace
  <1>3. CASE CreateScratch
    <2>1. scratch' = scratch \cup {item}  BY <1>3 DEF CreateScratch
    <2> QED  BY <1>0, <1>1, <2>1 DEF OwnedInScratch
  <1>4. CASE CreateInPlace
    <2>1. net' = "begin" => InPlace(item)  BY <1>0, <1>4, InPlaceFacts
    <2>2. scratch' = scratch  BY <1>4 DEF CreateInPlace
    <2> QED  BY <1>0, <1>1, <2>1, <2>2 DEF OwnedInScratch
  <1>5. ASSUME new = {}, NEW I, DropInFlight(I), Owned' \cap I = {} PROVE i \in scratch'
    BY <1>0, <1>1, <1>5 DEF OwnedInScratch, DropInFlight
  <1>6. CASE SendFails
    <2>1. /\ DropInFlight(IF net = "begin" THEN {item} ELSE {})
          /\ net' = "join" /\ UNCHANGED <<q1, q2, hand, cur, writer>>
      BY <1>6 DEF SendFails, NetReturns, hashVars, writerVars, chanVars
    <2>2. Owned' \cap (IF net = "begin" THEN {item} ELSE {}) = {}
      BY <1>2, <2>1 DEF Owned, NetOwns, WriterOwns
    <2> QED  BY <1>5, <2>1, <2>2
  <1>7. CASE HashStops
    <2>1. /\ DropInFlight(Begins(hand) \cup Begins(q1)) /\ hand' = <<>> /\ q1' = <<>>
          /\ writer = "gone" /\ UNCHANGED <<net, item, q2, cur, writer>>
      BY <1>7 DEF HashStops, netVars, writerVars
    <2>2. cur = 0 /\ q2 = <<>>  BY <1>0, <2>1 DEF StoppedHoldNothing
    <2>3. Owned' = NetOwns
      BY <2>1, <2>2, BeginsEmpty DEF Owned, NetOwns, WriterOwns
    <2>4. Owned' \cap (Begins(hand) \cup Begins(q1)) = {}
      BY <1>2, <2>3 DEF NetOwns
    <2> QED  BY <1>5, <2>1, <2>4
  <1>8. CASE WriteBegin \/ WriterEnds
    <2> DEFINE I == IF cur = 0 THEN {} ELSE {cur}
    <2>1. DropInFlight(I) /\ UNCHANGED <<net, item, q1, hand>>
      BY <1>8 DEF WriteBegin, WriterEnds, netVars, hashVars, chanVars
    <2>2. WriterOwns' \cup Begins(q2') \subseteq Begins(q2)
      <3>1. CASE WriteBegin
        <4>1. /\ q2' = Tail(q2) /\ q2 # <<>> /\ Head(q2).kind = "Begin" /\ cur' = Head(q2).of
          BY <3>1 DEF WriteBegin
        <4>2. Begins(q2) = Begins(q2') \cup {Head(q2).of}
          BY <1>0, <4>1, BeginsTaken DEF TypeOK, ChannelType
        <4> QED  BY <4>1, <4>2 DEF WriterOwns
      <3>2. CASE WriterEnds
        BY <3>2 DEF WriterEnds, WriterOwns, chanVars
      <3> QED  BY <1>8, <3>1, <3>2
    <2>3. Owned' \cap I = {}
      BY <1>2, <2>1, <2>2 DEF Owned, NetOwns
    <2> QED  BY <1>5, <2>1, <2>3
  <1>9. CASE WriteDataFails \/ FinishFails \/ RegisterFails
    <2> DEFINE I == Begins(q2) \cup (IF cur = 0 THEN {} ELSE {cur})
    <2>1. DropInFlight(I) /\ UNCHANGED <<net, item, q1, hand>> /\ q2' = <<>> /\ cur' = 0
      BY <1>9 DEF WriteDataFails, FinishFails, RegisterFails, WriterFails, netVars, hashVars
    <2>2. Owned' = NetOwns \cup Begins(q1) \cup Begins(hand)
      BY <2>1, BeginsEmpty DEF Owned, NetOwns, WriterOwns
    <2>3. Owned' \cap I = {}  BY <1>2, <2>2 DEF NetOwns
    <2> QED  BY <1>5, <2>1, <2>3
  <1>10. CASE RenameFile /\ ~InPlace(cur)
    <2>1. /\ scratch' = scratch \ {cur} /\ writer' = "register" /\ cur' = cur
          /\ UNCHANGED <<net, item, q1, q2, hand>> /\ cur # 0
      BY <1>0, <1>10 DEF RenameFile, netVars, hashVars, chanVars, TypeOK, WriterType
    <2>2. Owned' = NetOwns \cup Begins(q1) \cup Begins(hand) \cup Begins(q2)
      BY <2>1 DEF Owned, NetOwns, WriterOwns
    <2>3. cur \notin Owned'  BY <1>2, <2>2 DEF NetOwns
    <2> QED  BY <1>0, <1>1, <2>1, <2>3 DEF OwnedInScratch
  <1>11. CASE net' # "begin" /\ scratch' = scratch
    BY <1>0, <1>1, <1>11 DEF OwnedInScratch
  <1>12. CASE UNCHANGED <<net, scratch>>
    BY <1>0, <1>1, <1>12 DEF OwnedInScratch
  <1>13. CASE NetStep
    <2>1. CASE \/ OpenDest \/ EndOfStream \/ SocketFails \/ MakeDir \/ ReadTarget
               \/ UnlinkForSymlink \/ MakeSymlink \/ CreateFails \/ TakeBuffer \/ ReadPayload
               \/ AwaitReply \/ CheckDigest \/ Join \/ FlushDirectories \/ Acknowledge
      <3>1. net' # "begin" /\ scratch' = scratch
        BY <2>1 DEF OpenDest, EndOfStream, SocketFails, MakeDir, ReadTarget, UnlinkForSymlink,
           MakeSymlink, CreateFails, TakeBuffer, ReadPayload, AwaitReply, CheckDigest, Join,
           FlushDirectories, Acknowledge, NetReturns, fileVars
      <3> QED  BY <1>11, <3>1
    <2>2. CASE SendBegin \/ SendData \/ SendFinish \/ SendEndFile
      <3>1. net' # "begin" /\ scratch' = scratch
        BY <2>2 DEF SendBegin, SendData, SendFinish, SendEndFile, AfterPayload, fileVars
      <3> QED  BY <1>11, <3>1
    <2>3. CASE NextEntry \/ WalkDirs
      <3>1. net' # "begin" /\ scratch' = scratch
        BY <1>0, <2>3, WalkFacts DEF NextEntry, fileVars
      <3> QED  BY <1>11, <3>1
    <2> QED  BY <1>3, <1>4, <1>6, <1>13, <2>1, <2>2, <2>3 DEF NetStep
  <1>14. CASE HashTake \/ HashForward \/ HashEnds \/ UNCHANGED vars
    BY <1>12, <1>14 DEF HashTake, HashForward, HashEnds, vars, netVars, fileVars
  <1>15. CASE WriteData \/ WriteEndFile \/ SyncFile \/ RegisterFile
    BY <1>12, <1>15 DEF WriteData, WriteEndFile, SyncFile, RegisterFile, netVars, fileVars
  <1>16. CASE RenameFile /\ InPlace(cur)
    BY <1>12, <1>16 DEF RenameFile, netVars
  <1> QED
    BY <1>7, <1>8, <1>9, <1>10, <1>13, <1>14, <1>15, <1>16
    DEF Next, HashStep, WriterStep, Returned

(* What the writer lets go of, no stage holds any more.                    *)
LEMMA CurLeaves ==
    ASSUME LineHyp, [Next]_vars, cur # 0, cur' # cur
    PROVE  cur \notin Held' /\ WriterStep
  <1>1. /\ q2 \in Seq(Message) /\ NetType
        /\ \A i \in Begins(q2) \cup {cur} : i \notin Begins(hand) \cup Begins(q1)
        /\ cur \notin Begins(q2) /\ (net = "begin" => item # cur)
    BY Apart, LineTyped DEF LineHyp, TypeOK
  <1>2. WriterStep
    BY DEF Next, Returned, vars, NetStep, OpenDest, NextEntry, WalkDirs, EndOfStream,
       SocketFails, MakeDir, ReadTarget, UnlinkForSymlink, MakeSymlink, CreateScratch,
       CreateInPlace, CreateFails, SendBegin, SendFails, TakeBuffer, ReadPayload, SendData,
       SendFinish, AwaitReply, CheckDigest, SendEndFile, Join, FlushDirectories, Acknowledge,
       HashStep, HashTake, HashForward, HashStops, HashEnds, writerVars
  <1>3. UNCHANGED <<net, item, q1, hand>>
    BY <1>2 DEF WriterStep, WriteBegin, WriteData, WriteDataFails, WriteEndFile, SyncFile,
       RenameFile, FinishFails, RegisterFile, RegisterFails, WriterEnds, WriterFails, netVars,
       hashVars, chanVars
  <1>4. \/ cur' = 0 /\ (q2' = q2 \/ q2' = <<>>)
        \/ q2 # <<>> /\ q2' = Tail(q2) /\ Head(q2).kind = "Begin" /\ cur' = Head(q2).of
    BY <1>2 DEF WriterStep, WriteBegin, WriteData, WriteDataFails, WriteEndFile, SyncFile,
       RenameFile, FinishFails, RegisterFile, RegisterFails, WriterEnds, WriterFails, chanVars
  <1>5. Begins(q2') \subseteq Begins(q2)
    BY <1>1, <1>4, BeginsTaken, BeginsEmpty
  <1>6. cur \notin Owned'
    BY <1>1, <1>3, <1>5 DEF Owned, NetOwns, WriterOwns
  <1> QED  BY <1>2, <1>6 DEF Held

LEMMA FreshNext ==
    ASSUME LineHyp, TypeOK', [Next]_vars
    PROVE  FreshInv'
  <1>0. FilesHyp /\ VisibleInv /\ InodeInv /\ HeldInv /\ FreshInv
    BY DEF LineHyp, FilesHyp, FilesInv
  <1>1. /\ TypeOK /\ TreeStep /\ stream' = stream /\ Held \subseteq Entries
        /\ disk \in [Entries -> Seq(Nat)] /\ ino \in [Entries -> Inodes]
    BY <1>0, FileFacts
  <1> SUFFICES ASSUME NEW i \in Held', InPlace(i), Only(stream, i), i # cur'
               PROVE  disk'[i] = <<>>
    BY <1>1 DEF FreshInv, InPlace
  <1>2. i \in Held \/ (net = "create" /\ net' = "begin" /\ i = item)  BY <1>1, HeldNext
  <1>3. ASSUME CreateInPlace, net' = "begin" PROVE disk'[i] = <<>>
    <2>1. PICK node \in Entries :
            /\ node = item \/ (dest[Me.name].kind = "file" /\ node = dest[Me.name].of)
            /\ disk' = [disk EXCEPT ![node] = <<>>]
      BY <1>0, <1>1, <1>3, InPlaceFacts
    <2>2. item \in Entries /\ Me.name \in Names /\ Me = stream[item] /\ cur' = cur
      BY <1>0, <1>1, <1>3, InPlaceFacts
    <2>3. CASE i = item
      <3>1. node = i
        <4>1. node # item => stream[node].name = Me.name
          BY <1>0, <2>1, <2>2 DEF VisibleInv, Entries
        <4> QED  BY <2>1, <2>2, <2>3, <4>1 DEF Only, Entries
      <3> QED  BY <1>1, <2>1, <3>1
    <2>4. CASE i # item
      <3>1. disk[i] = <<>> /\ i \in Entries  BY <1>0, <1>1, <1>2, <2>2, <2>4 DEF FreshInv
      <3> QED  BY <1>1, <2>1, <3>1
    <2> QED  BY <2>3, <2>4
  <1>4. ASSUME i \in Held PROVE disk[i] = <<>> /\ i \in Entries /\ i # cur
    <2>1. i # cur  BY <1>1, <1>4, CurLeaves DEF Entries
    <2> QED  BY <1>0, <1>1, <1>4, <2>1 DEF FreshInv
  <1>5. CASE WriteData /\ cur # 0
    <2>1. net' = net /\ disk' = [disk EXCEPT ![ino[cur]] = WriteAt(@, off, Head(q2).data)]
      BY <1>5 DEF WriteData, netVars
    <2>2. cur \in Entries /\ stream[ino[cur]].name = stream[cur].name
      BY <1>0, <1>1, <1>5 DEF Held, HeldInv, InodeInv
    <2>3. disk[i] = <<>> /\ i \in Entries /\ i # cur  BY <1>2, <1>4, <2>1
    <2>4. ino[cur] # i  BY <2>2, <2>3 DEF Only, Entries
    <2> QED  BY <1>1, <2>1, <2>3, <2>4
  <1>6. CASE CreateScratch
    <2>1. ~InPlace(item) /\ disk' = disk  BY <1>6 DEF CreateScratch, InPlace, Me
    <2> QED  BY <1>2, <1>4, <2>1
  <1>7. CASE disk' = disk /\ ~(net = "create" /\ net' = "begin")
    BY <1>2, <1>4, <1>7
  <1>8. net = "create" /\ net' = "begin" => CreateScratch \/ CreateInPlace
    BY Creates
  <1> QED
    BY <1>1, <1>3, <1>5, <1>6, <1>7, <1>8
    DEF TreeStep, FineStep, LosesInPlace, DropInFlight, UnlinkForSymlink, MakeSymlink, RenameFile

LEMMA FinishNext ==
    ASSUME LineHyp, TypeOK', [Next]_vars
    PROVE  FinishInv'
  <1>0. /\ FinishInv /\ TypeOK /\ q1 \in Seq(Message)
        /\ hash = "gone" => hand = <<>> /\ q1 = <<>>
    BY LineTyped DEF LineHyp, StoppedHoldNothing
  <1> DEFINE Last(q) == \A k \in 1 .. Len(q) : q[k].kind = "Finish" =>
                          k = Len(q) /\ net' = "reply" /\ reply' = <<>>
  <1>1. ASSUME UNCHANGED <<q1, hand, hash, reply>>, net # "reply",
               net' \in {"finish", "reply", "check"} => Verify,
               reply # <<>> => net' \in {"reply", "check"} \/ NetClosed'
        PROVE  FinishInv'
    BY <1>0, <1>1 DEF FinishInv
  <1>2. ASSUME UNCHANGED <<net, q1, hand, hash, reply>> PROVE FinishInv'
    BY <1>0, <1>2 DEF FinishInv, NetClosed
  <1>3. CASE \/ OpenDest \/ EndOfStream \/ SocketFails \/ MakeDir \/ ReadTarget
             \/ UnlinkForSymlink \/ MakeSymlink \/ CreateScratch \/ CreateInPlace
             \/ CreateFails \/ SendFails \/ TakeBuffer \/ ReadPayload \/ Join
             \/ FlushDirectories \/ Acknowledge
    <2>1. /\ UNCHANGED <<q1, hand, hash, reply>> /\ net # "reply"
          /\ net' \notin {"finish", "reply", "check"}
          /\ net \in {"check", "join", "flush", "ack"} => NetClosed'
      BY <1>3 DEF OpenDest, EndOfStream, SocketFails, MakeDir, ReadTarget, UnlinkForSymlink,
         MakeSymlink, CreateScratch, CreateInPlace, CreateFails, SendFails, TakeBuffer,
         ReadPayload, Join, FlushDirectories, Acknowledge, NetReturns, NetClosed, hashVars,
         chanVars
    <2>2. reply # <<>> => NetClosed'
      <3>1. reply # <<>> => net \in {"reply", "check"} \/ NetClosed  BY <1>0 DEF FinishInv
      <3>2. NetClosed => NetClosed' \/ net = "done"  BY <2>1 DEF NetClosed
      <3>3. net # "done"
        BY <1>3 DEF OpenDest, EndOfStream, SocketFails, MakeDir, ReadTarget, UnlinkForSymlink,
           MakeSymlink, CreateScratch, CreateInPlace, CreateFails, SendFails, TakeBuffer,
           ReadPayload, Join, FlushDirectories, Acknowledge
      <3> QED  BY <2>1, <3>1, <3>2, <3>3
    <2> QED  BY <1>1, <2>1, <2>2
  <1>4. CASE NextEntry \/ WalkDirs
    <2>1. /\ UNCHANGED <<q1, hand, hash, reply>> /\ net \in {"decode", "walk"}
          /\ net' \notin {"finish", "reply", "check"}
      BY <1>0, <1>4, WalkFacts DEF NextEntry, hashVars, chanVars
    <2>2. reply = <<>>  BY <1>0, <2>1 DEF FinishInv, NetClosed
    <2> QED  BY <1>1, <2>1, <2>2
  <1>5. CASE SendBegin \/ SendData \/ SendFinish \/ SendEndFile
    <2>1. /\ net \in {"begin", "data", "finish", "endfile"}
          /\ net' \in {"finish", "reply", "check"} => Verify
          /\ UNCHANGED <<hand, hash, reply>>
      BY <1>0, <1>5 DEF SendBegin, SendData, SendFinish, SendEndFile, AfterPayload, FinishInv,
         hashVars
    <2>2. reply = <<>> /\ \A k \in 1 .. Len(q1) : q1[k].kind # "Finish"
      BY <1>0, <2>1 DEF FinishInv, NetClosed
    <2>3. PICK m : Push(m) /\ (m.kind = "Finish" => net' = "reply") /\ m \in Message
      <3>1. item \in Entries /\ buf \in Seq(Nat) /\ <<>> \in Seq(Nat)
        BY <1>0, <2>1 DEF NetType, Entries, TypeOK
      <3>2. /\ Msg("Begin", item, <<>>) \in Message
            /\ Msg("Data", item, buf) \in Message
            /\ Msg("Finish", item, <<>>) \in Message
            /\ Msg("EndFile", item, <<>>) \in Message
        BY <3>1 DEF Msg, Message
      <3> QED  BY <1>5, <3>2 DEF SendBegin, SendData, SendFinish, SendEndFile, Msg
    <2>4. Last(q1')
      <3>1. CASE ~Verify
        <4>1. q1' = <<>>  BY <1>0, <2>3, <3>1 DEF Push, FinishInv
        <4> QED  BY <4>1
      <3>2. CASE Verify
        <4>1. q1' = Append(q1, m)  BY <2>3, <3>2 DEF Push
        <4>2. /\ Len(q1') = Len(q1) + 1 /\ q1'[Len(q1) + 1] = m /\ Len(q1) \in Nat
              /\ \A k \in 1 .. Len(q1) : q1'[k] = q1[k]
          BY <1>0, <2>3, <4>1
        <4> QED  BY <2>1, <2>2, <2>3, <4>2
      <3> QED  BY <3>1, <3>2
    <2>5. ~Verify => q1' = q1  BY <2>3 DEF Push
    <2> QED  BY <1>0, <2>1, <2>2, <2>4, <2>5 DEF FinishInv
  <1>6. CASE AwaitReply
    <2>0. /\ UNCHANGED <<q1, hand, hash, reply>> /\ net = "reply"
          /\ (net' = "check" /\ reply # <<>>) \/ (net' = "join" /\ hash = "gone")
      BY <1>6 DEF AwaitReply, NetReturns, hashVars, chanVars
    <2>1. /\ UNCHANGED <<q1, hand, hash, reply>> /\ Verify
          /\ \/ net' = "check" /\ reply # <<>>
             \/ NetClosed' /\ q1 = <<>> /\ net' \notin {"reply", "check", "finish"}
      <3>1. Verify  BY <1>0, <2>0 DEF FinishInv
      <3>2. net' = "join" => NetClosed'  BY DEF NetClosed
      <3> QED  BY <1>0, <2>0, <3>1, <3>2
    <2>2. \A k \in 1 .. Len(q1) : q1[k].kind # "Finish"
      BY <1>0, <2>1 DEF FinishInv
    <2> QED  BY <1>0, <2>1, <2>2 DEF FinishInv
  <1>7. CASE CheckDigest
    <2>1. UNCHANGED <<q1, hand, hash>> /\ net = "check" /\ reply' = <<>>
          /\ net' \in {"endfile", "join"}
      BY <1>7 DEF CheckDigest, NetReturns, chanVars
    <2> QED  BY <1>0, <2>1 DEF FinishInv
  <1>8. CASE HashTake
    <2> DEFINE m == Head(q1)
    <2>1. /\ net' = net /\ hash' = hash /\ hash = "run" /\ q1 # <<>> /\ q1' = Tail(q1)
          /\ m.kind = "Finish" \/ reply' = reply
      BY <1>8 DEF HashTake, netVars
    <2>2. /\ Len(q1) \in Nat \ {0} /\ Len(q1') = Len(q1) - 1 /\ m = q1[1]
          /\ \A k \in 1 .. Len(q1') : q1'[k] = q1[k + 1] /\ k + 1 \in 1 .. Len(q1)
      <3>1. Len(q1) \in Nat \ {0}  BY <1>0, <2>1, EmptySeq
      <3> QED  BY <1>0, <2>1, <3>1
    <2>3. m.kind = "Finish" => net = "reply" /\ Len(q1') = 0
      BY <1>0, <2>2 DEF FinishInv
    <2>4. Last(q1')
      <3> SUFFICES ASSUME NEW k \in 1 .. Len(q1'), q1'[k].kind = "Finish"
                   PROVE  k = Len(q1') /\ net' = "reply" /\ reply' = <<>>
        OBVIOUS
      <3>1. k + 1 = Len(q1) /\ net = "reply" /\ reply = <<>>
        BY <1>0, <2>2 DEF FinishInv
      <3>2. k \in Nat \ {0} /\ Len(q1') # 0  BY <2>2
      <3>3. m.kind # "Finish"  BY <2>3, <3>2
      <3>4. k = Len(q1')  BY <2>2, <3>1, <3>2
      <3> QED  BY <2>1, <3>1, <3>3, <3>4
    <2>5. reply' # <<>> => net' \in {"reply", "check"} \/ NetClosed'
      BY <1>0, <2>1, <2>3 DEF FinishInv, NetClosed
    <2> QED  BY <1>0, <2>1, <2>4, <2>5 DEF FinishInv
  <1>9. CASE HashForward \/ HashStops \/ HashEnds
    <2>1. /\ net' = net /\ reply' = reply /\ hash = "run"
          /\ q1' = q1 \/ q1' = <<>>
      BY <1>9 DEF HashForward, HashStops, HashEnds, netVars, chanVars
    <2>2. Verify  BY <1>0, <2>1 DEF FinishInv
    <2>3. Last(q1')  BY <1>0, <2>1 DEF FinishInv
    <2> QED  BY <1>0, <2>1, <2>2, <2>3 DEF FinishInv, NetClosed
  <1>10. CASE WriterStep \/ UNCHANGED vars
    <2>1. UNCHANGED <<net, q1, hand, hash, reply>>
      BY <1>10 DEF WriterStep, WriteBegin, WriteData, WriteDataFails, WriteEndFile, SyncFile,
         RenameFile, FinishFails, RegisterFile, RegisterFails, WriterEnds, WriterFails, vars,
         netVars, hashVars, chanVars
    <2> QED  BY <1>2, <2>1
  <1> QED
    BY <1>3, <1>4, <1>5, <1>6, <1>7, <1>8, <1>9, <1>10
    DEF Next, NetStep, HashStep, Returned, vars

(* A step that sends and takes nothing leaves the line where it is.        *)
LEMMA LineKept ==
    ASSUME NEW w, NEW x, NEW h, NEW n, Line(w, x, h, n),
           UNCHANGED <<stream, q1, q2, hand>>, WriterAt(w)', HashAt(h)', NetAt(n)'
    PROVE  ChainInv'
  <1>1. Line(w, x, h, n)'  BY DEF Line
  <1> QED  BY <1>1 DEF ChainInv

(* The network thread may create a file over another; it never touches the *)
(* one the writer is writing under a scratch name.                         *)
LEMMA WriterAtKept ==
    ASSUME LineHyp, TypeOK', NetStep \/ HashStep, NEW w, WriterAt(w)
    PROVE  WriterAt(w)'
  <1>0. /\ [Next]_vars /\ stream' = stream /\ TypeOK /\ TreeStep /\ VisibleInv
        /\ \A i \in scratch : ~InPlace(i)
        /\ disk \in [Entries -> Seq(Nat)] /\ scratch \subseteq Entries
        /\ Held \subseteq Entries /\ EntryInv /\ HeldInv
    BY FileFacts DEF Next, LineHyp, FilesHyp, FilesInv, ScratchIInv
  <1>1. UNCHANGED <<cur, off, writer>>
    <2>1. CASE NetStep
      BY <2>1 DEF NetStep, OpenDest, NextEntry, WalkDirs, EndOfStream, SocketFails, MakeDir,
         ReadTarget, UnlinkForSymlink, MakeSymlink, CreateScratch, CreateInPlace, CreateFails,
         SendBegin, SendFails, TakeBuffer, ReadPayload, SendData, SendFinish, AwaitReply,
         CheckDigest, SendEndFile, Join, FlushDirectories, Acknowledge, writerVars
    <2>2. CASE HashStep
      BY <2>2 DEF HashStep, HashTake, HashForward, HashStops, HashEnds, writerVars
    <2> QED  BY <2>1, <2>2
  <1>2. \A i \in scratch \cup (IF InPlace(cur) /\ Own(cur) /\ cur # 0 THEN {cur} ELSE {}) :
          disk'[i] = disk[i]
    <2>1. disk' = disk \/ (CreateInPlace /\ net' = "begin")
      <3>1. CASE NetStep
        BY <3>1 DEF NetStep, OpenDest, NextEntry, WalkDirs, EndOfStream, SocketFails, MakeDir,
           ReadTarget, UnlinkForSymlink, MakeSymlink, CreateScratch, CreateInPlace, CreateFails,
           SendBegin, SendFails, TakeBuffer, ReadPayload, SendData, SendFinish, AwaitReply,
           CheckDigest, SendEndFile, Join, FlushDirectories, Acknowledge, fileVars, DropInFlight
      <3>2. CASE HashStep
        BY <3>2 DEF HashStep, HashTake, HashForward, HashStops, HashEnds, fileVars, DropInFlight
      <3> QED  BY <3>1, <3>2
    <2>2. CASE CreateInPlace /\ net' = "begin"
      <3>1. PICK node \in Entries :
              /\ node = item \/ (dest[Me.name].kind = "file" /\ node = dest[Me.name].of)
              /\ disk' = [disk EXCEPT ![node] = <<>>]
        BY <1>0, <2>2, InPlaceFacts
      <3>2. /\ InPlace(item) /\ Me.name \in Names /\ Me = stream[item] /\ item \in Entries
            /\ net = "create"
        BY <1>0, <2>2, InPlaceFacts
      <3>3. node \notin scratch
        <4>1. CASE node = item  BY <1>0, <3>2, <4>1
        <4>2. CASE dest[Me.name].kind = "file" /\ node = dest[Me.name].of
          BY <1>0, <3>1, <3>2, <4>2 DEF VisibleInv, Entries
        <4> QED  BY <3>1, <4>1, <4>2
      <3>4. node # item => stream[node].name = Me.name
        BY <1>0, <3>1, <3>2 DEF VisibleInv, Entries
      <3>5. cur # 0 => cur \in Entries /\ cur # item
        BY <1>0, <3>2 DEF Held, HeldInv, EntryInv
      <3>6. cur # 0 /\ InPlace(cur) /\ Own(cur) => node # cur
        BY <3>1, <3>2, <3>4, <3>5 DEF Own, Only, Entries
      <3> QED  BY <1>0, <3>1, <3>3, <3>5, <3>6
    <2> QED  BY <2>1, <2>2
  <1>3. cur # 0 /\ writer # "register" /\ ~InPlace(cur) => cur \in scratch
    BY DEF LineHyp, OwnedInScratch, Owned, WriterOwns
  <1>4. InPlace(cur)' = InPlace(cur) /\ Own(cur)' = Own(cur) /\ Whole(stream, w)' = Whole(stream, w)
    BY <1>0, <1>1 DEF Own, InPlace
  <1> QED  BY <1>0, <1>1, <1>2, <1>3, <1>4 DEF WriterAt

LEMMA NetAtNext ==
    ASSUME LineHyp, TypeOK', NEW n \in At, NetAt(n), stream' = stream,
           \/ OpenDest \/ NextEntry \/ WalkDirs \/ EndOfStream \/ SocketFails \/ MakeDir
           \/ ReadTarget \/ UnlinkForSymlink \/ MakeSymlink \/ CreateScratch \/ CreateInPlace
           \/ CreateFails \/ SendFails \/ TakeBuffer \/ ReadPayload \/ AwaitReply
           \/ CheckDigest \/ Join \/ FlushDirectories \/ Acknowledge
    PROVE  NetAt(n)'
  <1>0. /\ n.of \in Nat /\ n.got \in Seq(Nat) /\ TypeOK /\ item \in Nat /\ left \in Nat
        /\ buf \in Seq(Nat) /\ Len(n.got) \in Nat /\ EntryInv
    BY PointsTyped, LineTyped DEF TypeOK, NetType, LineHyp, FilesHyp, FilesInv
  <1>b. net = "check" => Verify
    <2>1. FinishInv  BY DEF LineHyp
    <2> QED  BY <2>1 DEF FinishInv
  <1> USE DEF netVars
  <1>a. ASSUME NetClosed', received' # "ok" \/ n.ph = "idle" PROVE NetAt(n)'
    BY <1>a DEF NetAt, NetClosed
  <1>c. ASSUME NetReturns("socket") \/ NetReturns("fs") \/ NetReturns("gone")
                 \/ NetReturns("digest")
        PROVE  NetAt(n)'
    BY <1>a, <1>c DEF NetReturns, NetClosed
  <1>1. CASE \/ EndOfStream \/ SocketFails \/ CreateFails \/ SendFails \/ Join
             \/ FlushDirectories \/ Acknowledge
    <2>1. CASE EndOfStream
      BY <1>a, <2>1 DEF EndOfStream, NetReturns, NetAt, NetClosed
    <2>2. CASE SocketFails \/ CreateFails \/ SendFails
      BY <1>c, <2>2 DEF SocketFails, CreateFails, SendFails
    <2>3. CASE Join \/ FlushDirectories \/ Acknowledge
      <3>1. NetClosed /\ NetClosed' /\ received' = received
        BY <2>3 DEF Join, FlushDirectories, Acknowledge, NetClosed
      <3> QED  BY <1>a, <3>1 DEF NetAt
    <2> QED  BY <1>1, <2>1, <2>2, <2>3
  <1>2. CASE OpenDest \/ MakeDir \/ MakeSymlink
    <2>1. CASE net' = "join"
      BY <1>2, <1>c, <2>1 DEF OpenDest, MakeDir, MakeSymlink
    <2>2. CASE net' # "join"
      <3>1. /\ net \in {"open", "mkdir", "symlink"} /\ net' = "decode"
            /\ UNCHANGED <<item, buf, fault>>
        BY <1>2, <2>2 DEF OpenDest, MakeDir, MakeSymlink, NetReturns
      <3> QED  BY <1>0, <3>1 DEF NetAt, NetClosed, Feeding
    <2> QED  BY <2>1, <2>2
  <1>3. CASE NextEntry
    <2>1. /\ net = "decode" /\ net' = "walk" /\ item' = item + 1 /\ UNCHANGED <<buf, fault>>
      BY <1>3 DEF NextEntry
    <2>2. n.ph = "idle" /\ n.of < item' /\ buf' = <<>>
      BY <1>0, <2>1 DEF NetAt, NetClosed
    <2> QED  BY <2>1, <2>2 DEF NetAt, NetClosed, Feeding
  <1>9. CASE WalkDirs
    <2>1. CASE net' = "join"
      <3>1. net' = "join" /\ received' = "fs"  BY <1>0, <1>9, <2>1, WalkFacts
      <3> QED  BY <1>c, <3>1 DEF NetReturns
    <2>2. CASE net' # "join"
      <3>1. /\ net = "walk" /\ net' \in {"walk", "mkdir", "target", "create"}
            /\ UNCHANGED <<item, buf, fault>>
        BY <1>0, <1>9, <2>2, WalkFacts
      <3> QED  BY <3>1 DEF NetAt, NetClosed, Feeding
    <2> QED  BY <2>1, <2>2
  <1>4. CASE ReadTarget \/ UnlinkForSymlink \/ CreateScratch \/ CreateInPlace
    <2>1. CASE net' = "join"
      BY <1>4, <1>c, <2>1 DEF ReadTarget, UnlinkForSymlink, CreateScratch, CreateInPlace
    <2>2. CASE net' # "join"
      <3>1. /\ net \in {"target", "unlink", "create"} /\ net' \in {"unlink", "symlink", "begin"}
            /\ UNCHANGED <<item, buf, fault>>
        BY <1>4, <2>2 DEF ReadTarget, UnlinkForSymlink, CreateScratch, CreateInPlace, NetReturns
      <3> QED  BY <3>1 DEF NetAt, NetClosed, Feeding
    <2> QED  BY <2>1, <2>2
  <1>5. CASE TakeBuffer
    <2>1. CASE net' = "join"
      BY <1>5, <1>c, <2>1 DEF TakeBuffer
    <2>2. CASE net' # "join"
      <3>1. net = "pool" /\ net' = "read" /\ UNCHANGED <<item, left, buf, fault, stream>>
        BY <1>5, <2>2 DEF TakeBuffer, NetReturns
      <3> QED  BY <3>1 DEF NetAt, NetClosed, Feeding, Me
    <2> QED  BY <2>1, <2>2
  <1>6. CASE ReadPayload
    <2>1. PICK m \in 1 .. MinOf(left, Chunk), ok \in BOOLEAN :
            /\ buf' = [k \in 1 .. m |-> IF ok THEN item ELSE 0]
            /\ left' = left - m
            /\ fault' = (fault \/ ~ok)
      BY <1>6 DEF ReadPayload
    <2>2. m \in Nat  BY <1>0, <2>1, PipelineAssumption DEF MinOf
    <2>3. net = "read" /\ net' = "data" /\ item' = item  BY <1>6 DEF ReadPayload
    <2>4. Len(buf') = m  BY <2>1, <2>2
    <2>5. /\ n.of = item /\ n.ph = "data" /\ buf = <<>>
          /\ Len(n.got) + Len(buf) + left = Me.size
      BY <2>3 DEF NetAt, NetClosed, Feeding
    <2>6. Len(n.got) + Len(buf') + left' = Me'.size
      <3>1. Me' = Me /\ Len(buf) = 0  BY <2>3, <2>5 DEF Me
      <3> QED  BY <1>0, <2>1, <2>2, <2>4, <2>5, <3>1
    <2>7. ~fault' => /\ \A k \in 1 .. Len(buf') : buf'[k] = item
                     /\ \A k \in 1 .. Len(n.got) : n.got[k] = item
      <3>1. ~fault' => ~fault /\ ok  BY <2>1
      <3>2. ~fault => \A k \in 1 .. Len(n.got) : n.got[k] = item
        BY <2>3 DEF NetAt, NetClosed, Feeding
      <3>3. ok => \A k \in 1 .. m : buf'[k] = item  BY <2>1
      <3> QED  BY <2>4, <3>1, <3>2, <3>3
    <2> QED  BY <2>3, <2>5, <2>6, <2>7 DEF NetAt, NetClosed, Feeding
  <1>7. CASE AwaitReply
    <2>1. CASE net' = "join"
      BY <1>7, <1>c, <2>1 DEF AwaitReply
    <2>2. CASE net' # "join"
      <3>1. /\ net = "reply" /\ net' = "check" /\ reply # <<>>
            /\ UNCHANGED <<item, left, buf, fault, reply, stream>>
        BY <1>7, <2>2 DEF AwaitReply, NetReturns, hashVars
      <3> QED  BY <3>1 DEF NetAt, NetClosed, Feeding, Me
    <2> QED  BY <2>1, <2>2
  <1>8. CASE CheckDigest
    <2>1. CASE net' = "join"
      BY <1>8, <1>c, <2>1 DEF CheckDigest
    <2>2. CASE net' # "join"
      <3>1. /\ net = "check" /\ net' = "endfile" /\ reply[1] = Payload(item)
            /\ UNCHANGED <<item, left, buf, fault, stream>>
        BY <1>8, <2>2 DEF CheckDigest, NetReturns, DigestMatches
      <3>2. /\ n.of = item /\ n.ph = "fin" /\ Len(n.got) = Me.size /\ reply[1] = n.got
            /\ buf = <<>>
        BY <3>1 DEF NetAt, NetClosed, Feeding
      <3>3. Whole(stream, n)
        BY <3>1, <3>2 DEF Whole, Me, Payload
      <3>4. Verify  BY <1>b, <3>1
      <3> QED
        <4>1. \A k \in 1 .. Len(buf) : buf[k] = item
          <5>1. Len(<<>>) = 0 /\ 1 .. 0 = {}  OBVIOUS
          <5> QED  BY <3>2, <5>1
        <4>2. ~fault => \A k \in 1 .. Len(n.got) : n.got[k] = item
          BY <3>1 DEF NetAt, NetClosed, Feeding
        <4> QED  BY <3>1, <3>2, <3>3, <3>4, <4>1, <4>2 DEF NetAt, NetClosed, Feeding
    <2> QED  BY <2>1, <2>2
  <1> QED  BY <1>1, <1>2, <1>3, <1>4, <1>5, <1>6, <1>7, <1>8, <1>9

LEMMA ChainStill ==
    ASSUME LineHyp, TypeOK',
           \/ OpenDest \/ NextEntry \/ WalkDirs \/ EndOfStream \/ SocketFails \/ MakeDir
           \/ ReadTarget \/ UnlinkForSymlink \/ MakeSymlink \/ CreateScratch \/ CreateInPlace
           \/ CreateFails \/ SendFails \/ TakeBuffer \/ ReadPayload \/ AwaitReply
           \/ CheckDigest \/ Join \/ FlushDirectories \/ Acknowledge
    PROVE  ChainInv'
  <1>1. NetStep /\ [Next]_vars  BY DEF NetStep, Next
  <1>2. stream' = stream  BY <1>1, OfferFrozen
  <1>3. UNCHANGED <<q1, q2, hand, hash, sum>>
    BY DEF OpenDest, NextEntry, WalkDirs, EndOfStream, SocketFails, MakeDir, ReadTarget,
       UnlinkForSymlink, MakeSymlink, CreateScratch, CreateInPlace, CreateFails, SendFails,
       TakeBuffer, ReadPayload, AwaitReply, CheckDigest, Join, FlushDirectories, Acknowledge,
       hashVars, chanVars
  <1>4. PICK w, x, h, n : Line(w, x, h, n)  BY DEF LineHyp, ChainInv
  <1>5. n \in At /\ NetAt(n) /\ HashAt(h) /\ WriterAt(w)  BY <1>4 DEF Line
  <1>6. NetAt(n)'  BY <1>2, <1>5, NetAtNext
  <1>7. WriterAt(w)'  BY <1>1, <1>5, WriterAtKept
  <1>8. HashAt(h)'  BY <1>3, <1>5 DEF HashAt
  <1> QED  BY <1>2, <1>3, <1>4, <1>6, <1>7, <1>8, LineKept

(* What the network thread sends is the next message of the line.          *)
LEMMA Pushes ==
    ASSUME LineHyp, TypeOK', NEW n \in At, NetAt(n), stream' = stream,
           SendBegin \/ SendData \/ SendFinish \/ SendEndFile
    PROVE  \E m \in Message, b \in At :
             /\ Push(m) /\ Follows(stream, Verify, n, m, b) /\ NetAt(b)'
             /\ ~Verify => b.ph # "fin"
             /\ UNCHANGED <<hash, hand, sum>>
  <1>0. /\ n.of \in Nat /\ n.got \in Seq(Nat) /\ TypeOK /\ item \in Nat /\ left \in Nat
        /\ buf \in Seq(Nat) /\ Len(n.got) \in Nat /\ Len(buf) \in Nat /\ EntryInv
        /\ n.ph \in {"idle", "data", "fin"}
    <2>1. TypeOK /\ EntryInv  BY LineTyped DEF LineHyp, FilesHyp, FilesInv
    <2>2. n.of \in Nat /\ n.got \in Seq(Nat) /\ n.ph \in {"idle", "data", "fin"}  BY DEF At
    <2> QED  BY <2>1, <2>2 DEF TypeOK, NetType
  <1>1. /\ net \in {"begin", "data", "finish", "endfile"} /\ item \in Entries
        /\ UNCHANGED <<item, left, hash, hand, sum, fault>> /\ Me' = Me /\ reply' = reply
    <2>1. /\ net \in {"begin", "data", "finish", "endfile"}
          /\ UNCHANGED <<item, left, hash, hand, sum, fault, reply>>
      BY DEF SendBegin, SendData, SendFinish, SendEndFile, hashVars
    <2> QED  BY <1>0, <2>1 DEF NetType, TypeOK, Entries, Me
  <1>2. /\ ~Verify => net # "finish"
        /\ net \in {"finish", "endfile", "begin", "data"} => reply = <<>>
    <2>1. FinishInv  BY DEF LineHyp
    <2> QED  BY <2>1 DEF FinishInv, NetClosed
  <1>3. /\ \A k \in {"Begin", "Finish", "EndFile"} : Msg(k, item, <<>>) \in Message
        /\ Msg("Data", item, buf) \in Message
        /\ \A k, i, d : Msg(k, i, d).kind = k /\ Msg(k, i, d).of = i /\ Msg(k, i, d).data = d
    <2>1. <<>> \in Seq(Nat)  OBVIOUS
    <2> QED  BY <1>0, <1>1, <2>1 DEF Msg, Message
  <1>4. /\ Len(<<>>) = 0 /\ <<>> \in Seq(Nat) /\ 1 .. 0 = {} /\ \A s : \A k \in 1 .. 0 : s[k] = item
    OBVIOUS
  <1>5. net' \in Feeding \cup {"decode"} /\ ~NetClosed'
    BY DEF SendBegin, SendData, SendFinish, SendEndFile, AfterPayload, Feeding, NetClosed
  <1>6. CASE SendBegin
    <2> DEFINE m == Msg("Begin", item, <<>>)
    <2>1. /\ net = "begin" /\ Push(m) /\ net' = AfterPayload(left) /\ buf' = buf
      BY <1>6 DEF SendBegin
    <2>2. n.ph = "idle" /\ n.of < item /\ buf = <<>> /\ left = Me.size
      BY <1>0, <2>1 DEF NetAt, NetClosed, EntryInv
    <2>3. PICK b \in At :
            b = Opened(item) /\ b.of = item /\ b.ph = "data" /\ b.got = <<>>
      BY <1>0, PointsTyped, PointFields DEF Opened
    <2>4. Follows(stream, Verify, n, m, b)
      <3>1. m.kind = "Begin" /\ m.of = item /\ m.data = <<>>  BY DEF Msg
      <3> HIDE DEF m
      <3> QED  BY <2>2, <2>3, <3>1 DEF Follows, Opened
    <2>5. NetAt(b)'
      <3>1. /\ buf' = <<>> /\ Len(b.got) + Len(buf') + left' = Me'.size
            /\ \A k \in 1 .. Len(buf') : buf'[k] = item
            /\ \A k \in 1 .. Len(b.got) : b.got[k] = item
        BY <1>0, <1>1, <1>4, <2>1, <2>2, <2>3
      <3>2. \/ net' = "pool" /\ left > 0
            \/ net' = "finish" /\ left = 0
            \/ net' = "endfile" /\ left = 0 /\ ~Verify
        BY <1>0, <2>1 DEF AfterPayload
      <3>3. net' = "endfile" => Whole(stream, b)' /\ ~Verify
        <4>1. left = 0 => Len(b.got) = stream[b.of].size
          BY <1>1, <1>4, <2>2, <2>3 DEF Me
        <4> QED  BY <3>2, <4>1 DEF Whole
      <3> QED  BY <1>1, <2>3, <3>1, <3>2, <3>3 DEF NetAt, NetClosed, Feeding
    <2> QED  BY <1>1, <1>3, <2>1, <2>3, <2>4, <2>5
  <1>7. CASE SendData
    <2> DEFINE m == Msg("Data", item, buf)
    <2>1. /\ net = "data" /\ Push(m) /\ net' = AfterPayload(left) /\ buf' = <<>>
      BY <1>7 DEF SendData
    <2>2. /\ n.ph = "data" /\ n.of = item /\ Len(n.got) + Len(buf) + left = Me.size
          /\ ~fault => /\ \A k \in 1 .. Len(buf) : buf[k] = item
                       /\ \A k \in 1 .. Len(n.got) : n.got[k] = item
      BY <1>0, <2>1 DEF NetAt, NetClosed, Feeding
    <2>3. PICK b \in At :
            b = Fed(n, buf) /\ b.of = item /\ b.ph = "data" /\ b.got = n.got \o buf
      BY <1>0, <2>2, PointsTyped, FedFields
    <2>4. Follows(stream, Verify, n, m, b)
      <3>1. m.kind = "Data" /\ m.of = item /\ m.data = buf  BY DEF Msg
      <3> HIDE DEF m
      <3> QED  BY <2>2, <2>3, <3>1 DEF Follows, Opened
    <2>5. Len(b.got) = Len(n.got) + Len(buf)  BY <1>0, <2>3
    <2>6. ~fault => \A k \in 1 .. Len(b.got) : b.got[k] = item
      <3> SUFFICES ASSUME ~fault, NEW k \in 1 .. Len(n.got) + Len(buf)
                   PROVE  (n.got \o buf)[k] = item
        BY <2>3, <2>5
      <3>1. CASE k \in 1 .. Len(n.got)
        <4>1. (n.got \o buf)[k] = n.got[k]  BY <1>0, <3>1
        <4> QED  BY <2>2, <3>1, <4>1
      <3>2. CASE k - Len(n.got) \in 1 .. Len(buf)
        <4>1. (n.got \o buf)[k] = buf[k - Len(n.got)]  BY <1>0, <3>2
        <4> QED  BY <2>2, <3>2, <4>1
      <3> QED  BY <1>0, <3>1, <3>2
    <2>7. NetAt(b)'
      <3>1. /\ Len(b.got) + Len(buf') + left' = Me'.size
            /\ \A k \in 1 .. Len(buf') : buf'[k] = item
        BY <1>0, <1>1, <1>4, <2>1, <2>2, <2>5
      <3>2. \/ net' = "pool" /\ left > 0
            \/ net' = "finish" /\ left = 0
            \/ net' = "endfile" /\ left = 0 /\ ~Verify
        BY <1>0, <2>1 DEF AfterPayload
      <3>3. net' = "endfile" => Whole(stream, b)' /\ ~Verify
        <4>1. left = 0 => Len(b.got) = stream[b.of].size
          BY <1>0, <2>2, <2>3, <2>5 DEF Me
        <4> QED  BY <3>2, <4>1 DEF Whole
      <3> QED  BY <1>1, <2>1, <2>3, <2>6, <3>1, <3>2, <3>3 DEF NetAt, NetClosed, Feeding
    <2> QED  BY <1>1, <1>3, <2>1, <2>3, <2>4, <2>7
  <1>8. CASE SendFinish
    <2> DEFINE m == Msg("Finish", item, <<>>)
    <2>1. net = "finish" /\ Push(m) /\ net' = "reply" /\ buf' = buf
      BY <1>8 DEF SendFinish
    <2>2. /\ n.ph = "data" /\ n.of = item /\ Len(n.got) + Len(buf) + left = Me.size
          /\ left = 0 /\ buf = <<>>
          /\ ~fault => \A k \in 1 .. Len(n.got) : n.got[k] = item
      BY <1>0, <2>1 DEF NetAt, NetClosed, Feeding
    <2>3. PICK b \in At :
            b = Moved(n, "fin") /\ b.of = item /\ b.ph = "fin" /\ b.got = n.got
      <3>1. Moved(n, "fin") \in At  BY PointsTyped
      <3>2. Moved(n, "fin") = Point(item, "fin", n.got)  BY <2>2 DEF Moved
      <3> QED  BY <3>1, <3>2, PointFields
    <2>4. Follows(stream, Verify, n, m, b)
      BY <1>2, <1>3, <2>1, <2>2, <2>3 DEF Follows
    <2>5. NetAt(b)'
      <3>1. Len(b.got) = Me'.size  BY <1>0, <1>1, <1>4, <2>2, <2>3
      <3>2. \A k \in 1 .. Len(buf') : buf'[k] = item  BY <1>4, <2>1, <2>2
      <3>3. reply' = <<>>  BY <1>1, <1>2, <2>1
      <3> QED  BY <1>1, <2>1, <2>2, <2>3, <3>1, <3>2, <3>3 DEF NetAt, NetClosed, Feeding
    <2> QED  BY <1>1, <1>2, <1>3, <2>1, <2>3, <2>4, <2>5
  <1>9. CASE SendEndFile
    <2> DEFINE m == Msg("EndFile", item, <<>>)
    <2>1. net = "endfile" /\ Push(m) /\ net' = "decode" /\ buf' = buf
      BY <1>9 DEF SendEndFile
    <2>2. /\ n.ph = (IF Verify THEN "fin" ELSE "data") /\ n.of = item /\ Whole(stream, n)
          /\ buf = <<>>
      BY <1>0, <2>1 DEF NetAt, NetClosed, Feeding
    <2>3. PICK b \in At :
            b = Moved(n, "idle") /\ b.of = item /\ b.ph = "idle" /\ b.got = n.got
      BY <1>0, <2>2, PointsTyped, PointFields DEF Moved
    <2>4. Follows(stream, Verify, n, m, b)
      <3>1. m.kind = "EndFile" /\ m.of = item /\ m.data = <<>>  BY DEF Msg
      <3> HIDE DEF m
      <3> QED  BY <2>2, <2>3, <3>1 DEF Follows, Opened
    <2>5. NetAt(b)'
      <3>1. \A k \in 1 .. Len(buf') : buf'[k] = item'  BY <1>4, <2>1, <2>2
      <3> QED  BY <1>0, <1>1, <2>1, <2>2, <2>3, <3>1 DEF NetAt, NetClosed, Feeding
    <2> QED  BY <1>1, <1>3, <2>1, <2>3, <2>4, <2>5
  <1> QED  BY <1>6, <1>7, <1>8, <1>9

LEMMA ChainPush ==
    ASSUME LineHyp, TypeOK', SendBegin \/ SendData \/ SendFinish \/ SendEndFile
    PROVE  ChainInv'
  <1>1. NetStep /\ [Next]_vars  BY DEF NetStep, Next
  <1>2. stream' = stream  BY <1>1, OfferFrozen
  <1>3. q1 \in Seq(Message) /\ q2 \in Seq(Message)  BY LineTyped DEF LineHyp
  <1>4. PICK w, x, h, n : Line(w, x, h, n)  BY DEF LineHyp, ChainInv
  <1>5. /\ w \in At /\ x \in At /\ h \in At /\ n \in At
        /\ Chain(stream, FALSE, q2, w, x)
        /\ Chain(stream, FALSE, hand, x, Flat(h))
        /\ Chain(stream, Verify, q1, h, n)
        /\ NetAt(n) /\ HashAt(h) /\ WriterAt(w)
    BY <1>4 DEF Line
  <1>6. PICK m \in Message, b \in At :
          /\ Push(m) /\ Follows(stream, Verify, n, m, b) /\ NetAt(b)'
          /\ ~Verify => b.ph # "fin"
          /\ UNCHANGED <<hash, hand, sum>>
    BY <1>2, <1>5, Pushes
  <1>7. WriterAt(w)'  BY <1>1, <1>5, WriterAtKept
  <1>8. CASE Verify
    <2>1. q1' = Append(q1, m) /\ q2' = q2  BY <1>6, <1>8 DEF Push
    <2>2. Chain(stream, Verify, q1', h, b)  BY <1>3, <1>5, <1>6, <2>1, ChainAppend
    <2>3. HashAt(h)'  BY <1>5, <1>6 DEF HashAt
    <2>4. Line(w, x, h, b)'  BY <1>2, <1>5, <1>6, <1>7, <2>1, <2>2, <2>3 DEF Line
    <2> QED  BY <2>4 DEF ChainInv
  <1>9. CASE ~Verify
    <2>1. q2' = Append(q2, m) /\ q1' = q1  BY <1>6, <1>9 DEF Push
    <2>2. hash = "gone" /\ q1 = <<>> /\ hand = <<>>
      <3>1. FinishInv  BY DEF LineHyp
      <3> QED  BY <1>9, <3>1 DEF FinishInv
    <2>3. h = n /\ x = Flat(h)  BY <1>5, <2>2, ChainEmpty
    <2>4. Follows(stream, FALSE, n, m, b)
      <3>1. Verify = FALSE  BY <1>9, PipelineAssumption
      <3> QED  BY <1>6, <3>1
    <2>5. n.ph # "fin"  BY <2>4 DEF Follows
    <2>6. x = n  BY <1>5, <2>3, <2>5, FlatFields
    <2>7. Chain(stream, FALSE, q2', w, b)
      BY <1>3, <1>5, <1>6, <2>1, <2>4, <2>6, ChainAppend
    <2>8. Flat(b) = b  BY <1>6, <1>9, FlatFields
    <2>9. /\ Chain(stream, FALSE, hand', b, Flat(b))
          /\ Chain(stream, Verify, q1', b, b)
      BY <1>6, <2>1, <2>2, <2>8, ChainEmpty
    <2>10. HashAt(b)'  BY <1>6, <2>2 DEF HashAt
    <2>11. Line(w, b, b, b)'  BY <1>2, <1>5, <1>6, <1>7, <2>7, <2>9, <2>10 DEF Line
    <2> QED  BY <2>11 DEF ChainInv
  <1> QED  BY <1>8, <1>9

(* A queue of one message.                                                 *)
LEMMA OneMessage ==
    ASSUME NEW S, NEW q \in Seq(S), q # <<>>, Len(q) <= 1
    PROVE  Head(q) = q[1] /\ q[1] \in S /\ Tail(q) = <<>>
  <1>1. Len(q) \in Nat \ {0}  BY EmptySeq
  <1>2. Len(q) = 1  BY <1>1
  <1>3. Tail(q) \in Seq(S) /\ Len(Tail(q)) = 0  BY <1>1, <1>2
  <1>4. Tail(q) = <<>>
    <2>1. Tail(q) # <<>> => Len(Tail(q)) \in Nat \ {0}  BY <1>3, EmptySeq
    <2> QED  BY <1>3, <2>1
  <1> QED  BY <1>2, <1>4

(* The hash stage moves on by one message, and forwards all but a Finish.  *)
LEMMA ChainHash ==
    ASSUME LineHyp, TypeOK', HashStep
    PROVE  ChainInv'
  <1>1. [Next]_vars  BY DEF Next
  <1>2. stream' = stream  BY <1>1, OfferFrozen
  <1>3. q1 \in Seq(Message) /\ q2 \in Seq(Message) /\ hand \in Seq(Message) /\ Len(hand) <= 1
    BY LineTyped DEF LineHyp
  <1>4. PICK w, x, h, n : Line(w, x, h, n)  BY DEF LineHyp, ChainInv
  <1>5. /\ w \in At /\ x \in At /\ h \in At /\ n \in At
        /\ Chain(stream, FALSE, q2, w, x)
        /\ Chain(stream, FALSE, hand, x, Flat(h))
        /\ Chain(stream, Verify, q1, h, n)
        /\ NetAt(n) /\ HashAt(h) /\ WriterAt(w)
    BY <1>4 DEF Line
  <1>6. WriterAt(w)'  BY <1>5, WriterAtKept
  <1>7. Verify /\ hash = "run" /\ FinishInv
    <2>1. FinishInv  BY DEF LineHyp
    <2> QED  BY <2>1 DEF FinishInv, HashStep, HashTake, HashForward, HashStops, HashEnds
  <1>v. Verify = TRUE  BY <1>7, PipelineAssumption
  <1>8. UNCHANGED <<net, item, left, buf, fault, received>> /\ Me' = Me
    BY <1>2 DEF HashStep, HashTake, HashForward, HashStops, HashEnds, netVars, Me
  <1>9. ASSUME UNCHANGED reply PROVE NetAt(n)'
    BY <1>2, <1>5, <1>8, <1>9 DEF NetAt, NetClosed, Whole
  <1>10. CASE HashTake
    <2> DEFINE m == Head(q1)
    <2>1. /\ q1 # <<>> /\ q1' = Tail(q1) /\ hand = <<>> /\ q2' = q2 /\ hash' = hash
          /\ \/ m.kind \in {"Begin", "EndFile"} /\ hand' = <<m>> /\ UNCHANGED <<sum, reply>>
             \/ m.kind = "Data" /\ hand' = <<m>> /\ sum' = sum \o m.data /\ reply' = reply
             \/ m.kind = "Finish" /\ hand' = hand /\ sum' = <<>> /\ reply' = <<sum>>
      BY <1>10 DEF HashTake, SumAfterFinish
    <2>2. PICK c \in At : Follows(stream, TRUE, h, m, c) /\ Chain(stream, TRUE, Tail(q1), c, n)
      BY <1>3, <1>5, <1>v, <2>1, ChainTake
    <2>3. m \in Message  BY <1>3, <2>1, HeadTail
    <2>4. x = Flat(h) /\ x \in At  BY <1>5, <2>1, ChainEmpty
    <2> HIDE DEF m
    <2>5. CASE m.kind = "Finish"
      <3>1. x = Flat(c)  BY <1>5, <2>2, <2>4, <2>5, FollowsFlat
      <3>2. Chain(stream, FALSE, hand', x, Flat(c))
        <4>1. hand' = <<>>  BY <2>1, <2>5
        <4>2. Chain(stream, FALSE, <<>>, x, x)  BY <2>4, ChainEmpty
        <4> QED  BY <3>1, <4>1, <4>2, Zenon
      <3>3. h.ph = "data" /\ c = Moved(h, "fin")  BY <2>2, <2>5 DEF Follows
      <3>4. c.ph = "fin" /\ c.got = h.got  BY <3>3, PointFields DEF Moved
      <3>5. net = "reply" /\ Tail(q1) = <<>>
        <4>1. Len(q1) \in Nat \ {0} /\ m = q1[1]  BY <1>3, <2>1, EmptySeq DEF m
        <4>2. 1 \in 1 .. Len(q1)  BY <4>1
        <4>3. 1 = Len(q1) /\ net = "reply"  BY <1>7, <2>5, <4>1, <4>2 DEF FinishInv
        <4>4. Len(q1) <= 1
          <5>1. \A i \in Nat : 1 = i => i <= 1  OBVIOUS
          <5> QED  BY <4>1, <4>3, <5>1, Zenon
        <4>5. Tail(q1) = <<>>  BY <1>3, <2>1, <4>4, OneMessage
        <4> QED  BY <4>3, <4>5
      <3>6. c = n
        <4>1. Chain(stream, TRUE, <<>>, c, n)  BY <2>2, <3>5
        <4> QED  BY <4>1, ChainEmpty
      <3>7. reply' # <<>> /\ reply'[1] = n.got
        <4>1. sum = h.got  BY <1>5, <1>7, <3>3 DEF HashAt
        <4>2. reply' = <<sum>> /\ <<sum>> # <<>> /\ <<sum>>[1] = sum  BY <2>1, <2>5
        <4> QED  BY <3>4, <3>6, <4>1, <4>2
      <3>8. NetAt(n)'
        BY <1>2, <1>5, <1>8, <3>5, <3>7 DEF NetAt, NetClosed, Feeding
      <3>9. HashAt(c)'  BY <2>1, <2>5, <3>4 DEF HashAt
      <3>10. Line(w, x, c, n)'
        BY <1>2, <1>5, <1>6, <1>v, <2>1, <2>2, <3>2, <3>8, <3>9 DEF Line
      <3> QED  BY <3>10 DEF ChainInv
    <2>6. CASE m.kind # "Finish"
      <3>1. hand' = <<m>> /\ reply' = reply  BY <2>1, <2>6
      <3>2. Follows(stream, FALSE, x, m, Flat(c))
        BY <1>5, <2>2, <2>4, <2>6, FollowsFlat
      <3>3. Chain(stream, FALSE, hand', x, Flat(c))
        <4>1. Flat(c) \in At /\ Chain(stream, FALSE, <<>>, x, x)
          BY <2>2, <2>4, PointsTyped, ChainEmpty
        <4>2. <<>> \in Seq(Message) /\ Append(<<>>, m) = <<m>>  OBVIOUS
        <4> QED  BY <2>3, <3>1, <3>2, <4>1, <4>2, ChainAppend
      <3>4. HashAt(c)'
        <4>1. sum = IF h.ph = "data" THEN h.got ELSE <<>>  BY <1>5, <1>7 DEF HashAt
        <4>2. CASE m.kind = "Begin"
          <5>1. c = Opened(m.of) /\ h.ph = "idle"  BY <2>2, <4>2 DEF Follows
          <5>2. c.ph = "data" /\ c.got = <<>>  BY <5>1, PointFields DEF Opened
          <5>3. sum' = <<>>  BY <2>1, <4>1, <4>2, <5>1
          <5> QED  BY <5>2, <5>3 DEF HashAt
        <4>3. CASE m.kind = "Data"
          <5>1. c = Fed(h, m.data) /\ h.ph = "data"  BY <2>2, <4>3 DEF Follows
          <5>2. c.ph = "data" /\ c.got = h.got \o m.data  BY <5>1, FedFields
          <5>3. sum' = sum \o m.data /\ sum = h.got  BY <2>1, <4>1, <4>3, <5>1
          <5> QED  BY <5>2, <5>3, Zenon DEF HashAt
        <4>4. CASE m.kind = "EndFile"
          <5>1. c = Moved(h, "idle") /\ h.ph = "fin"  BY <2>2, <4>4 DEF Follows
          <5>2. c.ph = "idle"  BY <5>1, PointFields DEF Moved
          <5>3. sum' = <<>>  BY <2>1, <4>1, <4>4, <5>1
          <5> QED  BY <5>2, <5>3 DEF HashAt
        <4> QED  BY <2>1, <2>6, <4>2, <4>3, <4>4
      <3>5. NetAt(n)'  BY <1>9, <3>1
      <3>6. Line(w, x, c, n)'
        BY <1>2, <1>5, <1>6, <1>v, <2>1, <2>2, <3>3, <3>4, <3>5 DEF Line
      <3> QED  BY <3>6 DEF ChainInv
    <2> QED  BY <2>5, <2>6
  <1>11. CASE HashForward
    <2>1. /\ hand # <<>> /\ hand' = <<>> /\ q2' = Append(q2, hand[1]) /\ q1' = q1
          /\ UNCHANGED <<hash, sum, reply>>
      BY <1>11 DEF HashForward
    <2>2. hand[1] = Head(hand) /\ hand[1] \in Message /\ Tail(hand) = <<>>
      BY <1>3, <2>1, OneMessage
    <2>3. PICK c \in At : /\ Follows(stream, FALSE, x, hand[1], c)
                          /\ Chain(stream, FALSE, <<>>, c, Flat(h))
      BY <1>3, <1>5, <2>1, <2>2, ChainTake
    <2>4. c = Flat(h)  BY <2>3, ChainEmpty
    <2>5. Chain(stream, FALSE, q2', w, c)
      BY <1>3, <1>5, <2>1, <2>2, <2>3, ChainAppend
    <2>6. Chain(stream, FALSE, hand', c, Flat(h))  BY <2>1, <2>3
    <2>7. HashAt(h)'  BY <1>5, <2>1 DEF HashAt
    <2>8. NetAt(n)'  BY <1>9, <2>1
    <2>9. Line(w, c, h, n)'
      BY <1>2, <1>5, <1>6, <2>1, <2>3, <2>5, <2>6, <2>7, <2>8 DEF Line
    <2> QED  BY <2>9 DEF ChainInv
  <1>12. CASE HashStops
    <2>1. /\ writer = "gone" /\ hash' = "gone" /\ hand' = <<>> /\ q1' = <<>> /\ q2' = q2
          /\ UNCHANGED <<reply, writer>>
      BY <1>12 DEF HashStops, writerVars
    <2>2. q2 = <<>>  BY <2>1, LineTyped DEF LineHyp, StoppedHoldNothing
    <2>3. Flat(n) \in At  BY <1>5, PointsTyped
    <2>4. /\ Chain(stream, FALSE, q2', Flat(n), Flat(n))
          /\ Chain(stream, FALSE, hand', Flat(n), Flat(n))
          /\ Chain(stream, Verify, q1', n, n)
      BY <1>5, <2>1, <2>2, <2>3, ChainEmpty
    <2>5. WriterAt(Flat(n))' /\ HashAt(n)'  BY <2>1 DEF WriterAt, HashAt
    <2>6. NetAt(n)'  BY <1>9, <2>1
    <2>7. Line(Flat(n), Flat(n), n, n)'
      BY <1>2, <1>5, <2>3, <2>4, <2>5, <2>6 DEF Line
    <2> QED  BY <2>7 DEF ChainInv
  <1>13. CASE HashEnds
    <2>1. UNCHANGED <<q1, q2, hand, reply>> /\ hash' = "gone"
      BY <1>13 DEF HashEnds, chanVars
    <2>2. HashAt(h)'  BY <2>1 DEF HashAt
    <2>3. NetAt(n)'  BY <1>9, <2>1
    <2> QED  BY <1>2, <1>4, <1>6, <2>1, <2>2, <2>3, LineKept
  <1> QED  BY <1>10, <1>11, <1>12, <1>13 DEF HashStep

(* The writer moves on by one message; what it writes is what came.        *)
LEMMA ChainWriter ==
    ASSUME LineHyp, TypeOK', WriterStep
    PROVE  ChainInv'
  <1>1. [Next]_vars  BY DEF Next
  <1>2. stream' = stream  BY <1>1, OfferFrozen
  <1>3. /\ q2 \in Seq(Message) /\ HeldInv /\ InodeInv
        /\ ino \in [Entries -> Inodes] /\ disk \in [Entries -> Seq(Nat)]
        /\ cur # 0 => cur \in Entries /\ cur \in Held
        /\ writer \in {"recv", "sync", "rename", "register", "gone"}
    <2>1. TypeOK /\ HeldInv /\ InodeInv /\ q2 \in Seq(Message)
      BY LineTyped DEF LineHyp, FilesHyp, FilesInv
    <2> QED  BY <2>1 DEF TypeOK, FileType, WriterType, Entries, Held
  <1>4. PICK w, x, h, n : Line(w, x, h, n)  BY DEF LineHyp, ChainInv
  <1>5. /\ w \in At /\ x \in At /\ h \in At /\ n \in At
        /\ Chain(stream, FALSE, q2, w, x)
        /\ Chain(stream, FALSE, hand, x, Flat(h))
        /\ Chain(stream, Verify, q1, h, n)
        /\ NetAt(n) /\ HashAt(h) /\ WriterAt(w)
    BY <1>4 DEF Line
  <1>6. /\ UNCHANGED <<net, item, left, buf, received, hash, hand, sum, reply, q1>>
        /\ fault => fault'
    BY DEF WriterStep, WriteBegin, WriteData, WriteDataFails, WriteEndFile, SyncFile, RenameFile,
       FinishFails, RegisterFile, RegisterFails, WriterEnds, WriterFails, netVars, hashVars,
       chanVars
  <1>7. HashAt(h)'  BY <1>5, <1>6 DEF HashAt
  <1>8. NetAt(n)'
    <2>1. Me' = Me  BY <1>2, <1>6 DEF Me
    <2> QED  BY <1>2, <1>5, <1>6, <2>1 DEF NetAt, NetClosed, Whole
  <1>9. ASSUME NEW c \in At, NEW d \in At, Chain(stream, FALSE, q2', c, d), d = x, WriterAt(c)'
        PROVE  ChainInv'
    <2>1. Line(c, x, h, n)'  BY <1>2, <1>5, <1>6, <1>7, <1>8, <1>9 DEF Line
    <2> QED  BY <2>1 DEF ChainInv
  <1>10. ASSUME q2 # <<>>, q2' = Tail(q2)
         PROVE  \E c \in At : /\ Follows(stream, FALSE, w, Head(q2), c)
                              /\ Chain(stream, FALSE, q2', c, x)
    BY <1>3, <1>5, <1>10, ChainTake
  <1>11. CASE WriteBegin
    <2> DEFINE m == Head(q2)
    <2>1. /\ writer = "recv" /\ q2 # <<>> /\ m.kind = "Begin" /\ cur' = m.of /\ off' = 0
          /\ q2' = Tail(q2) /\ UNCHANGED <<writer, disk>>
      BY <1>11 DEF WriteBegin, DropInFlight
    <2>2. PICK c \in At : Follows(stream, FALSE, w, m, c) /\ Chain(stream, FALSE, q2', c, x)
      BY <1>10, <2>1
    <2>3. m \in Message /\ m.of \in Entries /\ m.of # 0
      <3>1. m \in Message  BY <1>3, <2>1, HeadTail
      <3> QED  BY <3>1 DEF Message, Entries
    <2>4. c = Opened(m.of)  BY <2>1, <2>2 DEF Follows
    <2>5. c.of = m.of /\ c.ph = "data" /\ c.got = <<>>  BY <2>4, PointFields DEF Opened
    <2>6. Own(m.of) => disk[m.of] = <<>>
      <3>1. m.of \in Begins(q2)  BY <1>3, <2>1, BeginsTaken
      <3>2. m.of # cur  BY <3>1, Apart DEF LineHyp
      <3>3. ~InPlace(m.of) => m.of \in scratch
        BY <3>1 DEF LineHyp, OwnedInScratch, Owned
      <3>4. InPlace(m.of) /\ Own(m.of) => disk[m.of] = <<>>
        BY <3>1, <3>2 DEF LineHyp, FreshInv, Own, Held, Owned
      <3> QED  BY <1>3, <3>2, <3>3, <3>4 DEF HeldInv
    <2> HIDE DEF m
    <2>7. Len(<<>>) = 0  OBVIOUS
    <2>8. WriterAt(c)'
      BY <1>2, <2>1, <2>3, <2>5, <2>6, <2>7 DEF WriterAt, Own, InPlace
    <2> QED  BY <1>5, <1>9, <2>2, <2>8
  <1>12. CASE WriteData
    <2> DEFINE m == Head(q2)
    <2>1. /\ writer = "recv" /\ q2 # <<>> /\ m.kind = "Data" /\ q2' = Tail(q2)
          /\ UNCHANGED <<writer, cur>>
      BY <1>12 DEF WriteData
    <2>2. PICK c \in At : Follows(stream, FALSE, w, m, c) /\ Chain(stream, FALSE, q2', c, x)
      BY <1>10, <2>1
    <2>3. m.data \in Seq(Nat)
      <3>1. m \in Message  BY <1>3, <2>1, HeadTail
      <3> QED  BY <3>1 DEF Message
    <2>4. w.of = m.of /\ w.ph = "data" /\ c = Fed(w, m.data)  BY <2>1, <2>2 DEF Follows
    <2>5. c.of = w.of /\ c.ph = "data" /\ c.got = w.got \o m.data  BY <2>4, FedFields
    <2>6. /\ cur # 0 /\ w.of = cur /\ off = Len(w.got)
          /\ Own(cur) => disk[cur] = w.got
      BY <1>5, <2>1, <2>4 DEF WriterAt
    <2>7. /\ disk' = [disk EXCEPT ![ino[cur]] = WriteAt(@, off, m.data)]
          /\ off' = off + Len(m.data)
      BY <1>12, <2>6 DEF WriteData
    <2>8. w.got \in Seq(Nat)  BY <1>5, PointsTyped
    <2> HIDE DEF m
    <2>9. off' = Len(c.got)  BY <2>3, <2>5, <2>6, <2>7, <2>8
    <2>10. Own(cur) => disk'[cur] = c.got
      <3> SUFFICES ASSUME Own(cur) PROVE disk'[cur] = c.got  OBVIOUS
      <3>1. ino[cur] = cur  BY <1>3, <2>6, OwnInode DEF LineHyp, HeldInv
      <3>2. disk'[cur] = WriteAt(disk[cur], off, m.data)  BY <1>3, <2>6, <2>7, <3>1
      <3>3. WriteAt(disk[cur], off, m.data) = WriteAt(w.got, Len(w.got), m.data)  BY <2>6, Zenon
      <3> QED  BY <2>3, <2>5, <2>8, <3>2, <3>3, WriteAtEnd
    <2>11. WriterAt(c)'
      BY <1>2, <2>1, <2>5, <2>6, <2>9, <2>10 DEF WriterAt, Own, InPlace
    <2> QED  BY <1>5, <1>9, <2>2, <2>11
  <1>13. CASE WriteEndFile
    <2> DEFINE m == Head(q2)
    <2>1. /\ writer = "recv" /\ q2 # <<>> /\ m.kind = "EndFile" /\ q2' = Tail(q2)
          /\ writer' = (IF cur = 0 THEN "recv" ELSE AfterStamp) /\ UNCHANGED <<cur, disk>>
      BY <1>13 DEF WriteEndFile, fileVars
    <2>2. PICK c \in At : Follows(stream, FALSE, w, m, c) /\ Chain(stream, FALSE, q2', c, x)
      BY <1>10, <2>1
    <2>3. w.ph = "data" /\ Whole(stream, w) /\ c = Moved(w, "idle")
      BY <2>1, <2>2 DEF Follows
    <2>4. c.of = w.of /\ c.ph = "idle" /\ c.got = w.got  BY <2>3, PointFields DEF Moved
    <2>5. /\ cur # 0 /\ w.of = cur
          /\ Own(cur) => disk[cur] = w.got
      BY <1>5, <2>1, <2>3 DEF WriterAt
    <2>6. Whole(stream, c)  BY <2>3, <2>4 DEF Whole
    <2>7. writer' \in {"sync", "rename"}  BY <2>1, <2>5 DEF AfterStamp
    <2>8. WriterAt(c)'
      <3>1. Own(cur)' = Own(cur) /\ Whole(stream, c)' = Whole(stream, c)
        BY <1>2, <2>1 DEF Own, InPlace
      <3> QED  BY <2>1, <2>4, <2>5, <2>6, <2>7, <3>1 DEF WriterAt
    <2> QED  BY <1>5, <1>9, <2>2, <2>8
  <1>14. CASE SyncFile \/ RenameFile \/ RegisterFile
    <2>1. /\ q2' = q2 /\ disk' = disk /\ writer \in {"sync", "rename", "register"}
          /\ \/ writer' \in {"rename", "register"} /\ cur' = cur
                /\ (writer = "register" => writer' = "register")
             \/ writer' = "recv" /\ cur' = 0
      BY <1>14 DEF SyncFile, RenameFile, RegisterFile, chanVars, fileVars
    <2>2. WriterAt(w)'
      <3>1. w.ph = "idle"  BY <1>5, <2>1 DEF WriterAt
      <3>2. CASE writer' = "recv" /\ cur' = 0  BY <3>1, <3>2 DEF WriterAt
      <3>3. CASE writer' \in {"rename", "register"} /\ cur' = cur
                 /\ (writer = "register" => writer' = "register")
        <4>1. Own(cur)' = Own(cur) /\ Whole(stream, w)' = Whole(stream, w)
          BY <1>2, <3>3 DEF Own, InPlace
        <4> QED  BY <1>5, <2>1, <3>1, <3>3, <4>1 DEF WriterAt
      <3> QED  BY <2>1, <3>2, <3>3
    <2> QED  BY <1>5, <1>9, <2>1, <2>2
  <1>15. CASE WriteDataFails \/ FinishFails \/ RegisterFails \/ WriterEnds
    <2>1. writer' = "gone" /\ q2' = <<>>
      BY <1>15 DEF WriteDataFails, FinishFails, RegisterFails, WriterFails, WriterEnds, chanVars
    <2>2. WriterAt(x)'  BY <2>1 DEF WriterAt
    <2>3. Chain(stream, FALSE, q2', x, x)  BY <1>5, <2>1, ChainEmpty
    <2> QED  BY <1>5, <1>9, <2>2, <2>3
  <1> QED  BY <1>11, <1>12, <1>13, <1>14, <1>15 DEF WriterStep

LEMMA LineInit == Init => ChainInv /\ FinishInv /\ OwnedInScratch /\ FreshInv
  <1> SUFFICES ASSUME Init PROVE ChainInv /\ FinishInv /\ OwnedInScratch /\ FreshInv  OBVIOUS
  <1>1. PICK a \in At : a = Point(0, "idle", <<>>) /\ a.of = 0 /\ a.ph = "idle" /\ a.got = <<>>
    <2>1. Point(0, "idle", <<>>) \in At  BY DEF Point, At
    <2> QED  BY <2>1, PointFields
  <1>2. /\ q1 = <<>> /\ q2 = <<>> /\ hand = <<>> /\ cur = 0 /\ item = 0 /\ net = "open"
        /\ buf = <<>> /\ sum = <<>> /\ reply = <<>> /\ hash = (IF Verify THEN "run" ELSE "gone")
    BY DEF Init
  <1>3. Flat(a) = a  BY <1>1, FlatFields
  <1>4. WriterAt(a) /\ HashAt(a)  BY <1>1, <1>2 DEF WriterAt, HashAt
  <1>5. NetAt(a)
    <2>1. Len(<<>>) = 0 /\ 1 .. 0 = {}  OBVIOUS
    <2> QED  BY <1>1, <1>2, <2>1 DEF NetAt, Feeding
  <1>6. Line(a, a, a, a)  BY <1>1, <1>2, <1>3, <1>4, <1>5, ChainEmpty DEF Line
  <1>7. FinishInv  BY <1>2 DEF FinishInv
  <1>8. OwnedInScratch
    BY <1>2, BeginsEmpty DEF OwnedInScratch, Owned, NetOwns, WriterOwns
  <1>9. FreshInv
    BY <1>2, BeginsEmpty DEF FreshInv, Held, Owned, NetOwns, WriterOwns
  <1> QED  BY <1>6, <1>7, <1>8, <1>9 DEF ChainInv

LEMMA ChainNext ==
    ASSUME LineHyp, TypeOK', [Next]_vars
    PROVE  ChainInv'
  <1>1. CASE UNCHANGED vars
    <2>1. ChainInv  BY DEF LineHyp
    <2>2. PICK w, x, h, n : Line(w, x, h, n)  BY <2>1 DEF ChainInv
    <2>3. WriterAt(w)'
      BY <1>1, <2>2
      DEF Line, WriterAt, Whole, Own, InPlace, vars, netVars, hashVars, writerVars, chanVars,
         fileVars
    <2>4. HashAt(h)'  BY <1>1, <2>2 DEF Line, HashAt, vars, hashVars
    <2>5. NetAt(n)'
      BY <1>1, <2>2 DEF Line, NetAt, NetClosed, Me, Whole, vars, netVars, hashVars
    <2> QED  BY <1>1, <2>2, <2>3, <2>4, <2>5, LineKept DEF vars, chanVars, hashVars
  <1>2. CASE NetStep
    BY <1>2, ChainStill, ChainPush DEF NetStep
  <1> QED  BY <1>1, <1>2, ChainHash, ChainWriter DEF Next, Returned

LEMMA LineAlways == Spec => [](LineHyp /\ TypeOK)
  <1>1. Init => LineHyp  BY ScratchInit, FilesInit, LineInit DEF LineHyp, FilesHyp
  <1>2. LineHyp /\ FilesHyp' /\ TypeOK' /\ [Next]_vars => LineHyp'
    BY ChainNext, FinishNext, OwnedNext, FreshNext DEF LineHyp
  <1> QED  BY <1>1, <1>2, FilesAlways, PTL DEF Spec

(* A scratch file exists exactly while some stage holds the InFlight that  *)
(* will remove it: "exactly one party unlinks, because exactly one party   *)
(* holds the value" (InFlight).                                            *)
THEOREM ScratchIsOwned == Spec => []ScratchHasOwner
  <1>1. LineHyp => ScratchHasOwner
    <2> SUFFICES ASSUME LineHyp PROVE ScratchHasOwner  OBVIOUS
    <2>1. scratch \subseteq {i \in Owned : ~InPlace(i)}
      BY DEF LineHyp, FilesHyp, ScratchIInv
    <2>2. {i \in Owned : ~InPlace(i)} \subseteq scratch  BY DEF LineHyp, OwnedInScratch
    <2> QED  BY <2>1, <2>2 DEF ScratchHasOwner
  <1> QED  BY <1>1, LineAlways, PTL

-----------------------------------------------------------------------------
(* What a name shows.                                                      *)

(* No step changes the contents of a file that a renamed name shows, or    *)
(* makes them less durable.                                                *)
LEMMA ShownKept ==
    ASSUME LineHyp, TypeOK', [Next]_vars,
           NEW n \in Names, OnlyRenamed(n), NEW i \in Entries, dest[n] = File(i)
    PROVE  disk'[i] = disk[i] /\ (i \in synced => i \in synced')
  <1>0. /\ FilesHyp /\ VisibleInv /\ InodeInv /\ HeldInv
        /\ \A j \in Owned : ~InPlace(j) => j \in scratch
    BY DEF LineHyp, FilesHyp, FilesInv, OwnedInScratch
  <1>1. /\ TypeOK /\ TreeStep /\ ino \in [Entries -> Inodes] /\ disk \in [Entries -> Seq(Nat)]
    BY <1>0, FileFacts
  <1>2. stream[i].name = n /\ i \notin scratch
    BY <1>0 DEF VisibleInv, File, Entries
  <1>3. CASE WriteData /\ cur # 0
    <2>1. writer = "recv" /\ cur \in Entries /\ cur \in Held /\ cur \in Owned
      BY <1>1, <1>3 DEF WriteData, TypeOK, WriterType, Entries, Held, Owned, WriterOwns
    <2>2. /\ stream[ino[cur]].name = stream[cur].name
          /\ ~InPlace(cur) => ino[cur] = cur
      BY <1>0, <2>1 DEF HeldInv, InodeInv
    <2>3. ino[cur] # i
      <3>1. CASE InPlace(cur)  BY <1>2, <2>1, <2>2, <3>1 DEF OnlyRenamed
      <3>2. CASE ~InPlace(cur)  BY <1>0, <1>2, <2>1, <2>2, <3>2
      <3> QED  BY <3>1, <3>2
    <2>4. /\ disk' = [disk EXCEPT ![ino[cur]] = WriteAt(@, off, Head(q2).data)]
          /\ synced' = synced \ {ino[cur]}
      BY <1>3 DEF WriteData
    <2> QED  BY <1>1, <2>3, <2>4
  <1>4. CASE CreateInPlace /\ net' = "begin"
    <2>1. item \in Entries /\ InPlace(item) /\ Me = stream[item] /\ Me.name \in Names
      BY <1>0, <1>1, <1>4, InPlaceFacts
    <2>2. PICK node \in Entries :
            /\ node = item \/ (dest[Me.name].kind = "file" /\ node = dest[Me.name].of)
            /\ disk' = [disk EXCEPT ![node] = <<>>]
            /\ synced' = synced \ {node}
      BY <1>0, <1>1, <1>4, InPlaceFacts
    <2>3. Me.name # n  BY <2>1 DEF OnlyRenamed
    <2>4. node # i
      <3>1. CASE node = item  BY <1>2, <2>1, <2>3, <3>1
      <3>2. CASE dest[Me.name].kind = "file" /\ node = dest[Me.name].of
        <4>1. stream[node].name = Me.name  BY <1>0, <2>1, <2>2, <3>2 DEF VisibleInv, Entries
        <4> QED  BY <1>2, <2>3, <4>1
      <3> QED  BY <2>2, <3>1, <3>2
    <2> QED  BY <1>1, <2>2, <2>4
  <1>5. CASE disk' = disk /\ synced \subseteq synced'  BY <1>5
  <1> QED
    BY <1>1, <1>3, <1>4, <1>5
    DEF TreeStep, FineStep, LosesInPlace, DropInFlight, UnlinkForSymlink, MakeSymlink,
       CreateScratch, RenameFile

(* A renamed name changes only by the rename of a whole file, or by a      *)
(* directory made where there was nothing.                                 *)
LEMMA ShownNext ==
    ASSUME LineHyp, TypeOK', [Next]_vars, NEW n \in Names, OnlyRenamed(n)
    PROVE  \/ dest'[n] = dest[n]
           \/ dest[n] = Absent /\ dest'[n] = Dir
           \/ /\ writer = "rename" /\ ~InPlace(cur) /\ cur \in Entries
              /\ stream[cur].kind = "File" /\ stream[cur].name = n
              /\ dest'[n] = File(cur) /\ disk' = disk /\ synced' = synced
              /\ Len(disk[cur]) = stream[cur].size
              /\ Verify => disk[cur] = Payload(cur)
  <1>0. FilesHyp /\ VisibleInv /\ InodeInv /\ HeldInv /\ EntryInv
    BY DEF LineHyp, FilesHyp, FilesInv
  <1>1. TypeOK /\ TreeStep /\ dest \in [Names -> Node]
    BY <1>0, FileFacts
  <1>2. \A i \in Entries : stream[i].name = n => stream[i].kind # "Symlink" /\ ~InPlace(i)
    BY DEF OnlyRenamed
  <1>3. CASE \E I \in SUBSET Held : DropInFlight(I)
    <2>1. Held \subseteq Entries  BY <1>1, HeldTyped
    <2>2. dest'[n] = dest[n]  BY <1>2, <1>3, <2>1 DEF DropInFlight
    <2> QED  BY <2>2
  <1>4. CASE \E p \in Names : dest[p] = Absent /\ dest' = [dest EXCEPT ![p] = Dir]
    BY <1>1, <1>4
  <1>5. CASE UnlinkForSymlink \/ MakeSymlink
    <2>1. net \in {"unlink", "symlink"}  BY <1>5 DEF UnlinkForSymlink, MakeSymlink
    <2>2. item \in Entries /\ Me = stream[item] /\ Me.kind = "Symlink"
      BY <1>0, <1>1, <2>1, MeFacts DEF EntryInv, Me
    <2>3. Me.name # n  BY <1>2, <2>2
    <2>4. dest'[n] = dest[n]
      BY <1>1, <1>5, <2>3 DEF UnlinkForSymlink, MakeSymlink
    <2> QED  BY <2>4
  <1>6. CASE CreateInPlace /\ net' = "begin"
    <2>1. /\ item \in Entries /\ InPlace(item) /\ Me = stream[item]
          /\ \E node : dest' = [dest EXCEPT ![Me.name] = File(node)]
      BY <1>0, <1>1, <1>6, InPlaceFacts
    <2>2. Me.name # n  BY <1>2, <2>1
    <2> QED  BY <1>1, <2>1, <2>2
  <1>7. CASE RenameFile /\ ~InPlace(cur)
    <2>1. writer = "rename" /\ cur # 0 /\ cur \in Entries /\ cur \in Held
      BY <1>1, <1>7 DEF RenameFile, TypeOK, WriterType, Entries, Held
    <2>2. ino[cur] = cur /\ stream[cur].kind = "File"
      BY <1>0, <1>7, <2>1 DEF HeldInv, InodeInv
    <2>3. /\ dest' = [dest EXCEPT ![stream[cur].name] = File(cur)]
          /\ disk' = disk /\ synced' = synced
      BY <1>7, <2>2 DEF RenameFile
    <2>4. CASE stream[cur].name # n  BY <1>1, <2>3, <2>4
    <2>5. CASE stream[cur].name = n
      <3>1. dest'[n] = File(cur)  BY <1>1, <2>3, <2>5
      <3>2. PICK w, x, h, m : Line(w, x, h, m)  BY DEF LineHyp, ChainInv
      <3>3. w.of = cur /\ disk[cur] = w.got /\ Whole(stream, w)
        BY <1>7, <2>1, <3>2 DEF Line, WriterAt, Own
      <3>4. /\ Len(disk[cur]) = stream[cur].size
            /\ Verify => disk[cur] = Payload(cur)
        BY <3>3 DEF Whole, Payload
      <3> QED  BY <1>7, <2>1, <2>2, <2>3, <2>5, <3>1, <3>4
    <2> QED  BY <2>4, <2>5
  <1>8. CASE dest' = dest  BY <1>8
  <1>9. CASE LosesInPlace
    <2>1. net = "create" /\ Me.long  BY <1>9 DEF LosesInPlace, CreateInPlace
    <2>2. item \in Entries /\ InPlace(item) /\ Me = stream[item]
      BY <1>1, <2>1, MeFacts DEF InPlace, Me
    <2>3. Me.name # n  BY <1>2, <2>2
    <2> QED  BY <1>1, <1>9, <2>3 DEF LosesInPlace
  <1> QED
    BY <1>1, <1>3, <1>4, <1>5, <1>6, <1>7, <1>8, <1>9
    DEF TreeStep, FineStep, CreateScratch, WriteData

LEMMA PreviousNext ==
    ASSUME LineHyp, TypeOK', PreviousOrComplete, [Next]_vars
    PROVE  PreviousOrComplete'
  <1>1. stream' = stream /\ before' = before /\ Entries' = Entries
    BY OfferFrozen DEF Entries
  <1> DEFINE Complete(i, n, d, c) ==
               /\ stream[i].kind = "File" /\ stream[i].name = n /\ d[n] = File(i)
               /\ Len(c[i]) = stream[i].size
               /\ Verify => c[i] = Payload(i)
  <1>2. \A n \in Names : OnlyRenamed(n)' = OnlyRenamed(n)
    BY <1>1 DEF OnlyRenamed, InPlace
  <1>3. \A i \in Entries : Payload(i)' = Payload(i)  BY <1>1 DEF Payload
  <1> SUFFICES ASSUME NEW n \in Names, OnlyRenamed(n)
               PROVE  \/ dest'[n] = before[n]
                      \/ before[n] = Absent /\ dest'[n] = Dir
                      \/ \E i \in Entries : Complete(i, n, dest', disk')
    BY <1>1, <1>2, <1>3 DEF PreviousOrComplete
  <1>4. \/ dest[n] = before[n]
        \/ before[n] = Absent /\ dest[n] = Dir
        \/ \E i \in Entries : Complete(i, n, dest, disk)
    BY DEF PreviousOrComplete
  <1>5. Absent # Dir /\ \A i : File(i) # Absent  BY DEF Absent, Dir, File
  <1>6. CASE dest'[n] = dest[n]
    <2>1. CASE \E i \in Entries : Complete(i, n, dest, disk)
      <3>1. PICK i \in Entries : Complete(i, n, dest, disk)  BY <2>1
      <3>2. disk'[i] = disk[i]  BY <3>1, ShownKept
      <3> QED  BY <1>6, <3>1, <3>2
    <2> QED  BY <1>4, <1>6, <2>1
  <1>7. CASE dest[n] = Absent /\ dest'[n] = Dir
    BY <1>4, <1>5, <1>7
  <1>8. CASE /\ cur \in Entries /\ stream[cur].kind = "File" /\ stream[cur].name = n
             /\ dest'[n] = File(cur) /\ disk' = disk
             /\ Len(disk[cur]) = stream[cur].size
             /\ Verify => disk[cur] = Payload(cur)
    BY <1>8
  <1> QED  BY <1>6, <1>7, <1>8, ShownNext

(* At every moment a name that is only ever renamed to holds what it held  *)
(* before the session or the whole payload of a file entry: "only a        *)
(* complete file is renamed over the real name" (pump_file).               *)
THEOREM NamesShowWholeFiles == Spec => []PreviousOrComplete
  <1>1. Init => PreviousOrComplete  BY DEF Init, PreviousOrComplete
  <1>2. LineHyp /\ TypeOK' /\ PreviousOrComplete /\ [Next]_vars => PreviousOrComplete'
    BY PreviousNext
  <1> QED  BY <1>1, <1>2, LineAlways, PTL DEF Spec

\* Between the flush of a file and its rename nothing dirties it again.
FlushedInv == Durable /\ writer = "rename" /\ ~InPlace(cur) => cur \in synced

LEMMA FlushedNext ==
    ASSUME LineHyp, TypeOK', FlushedInv, [Next]_vars
    PROVE  FlushedInv'
  <1>0. /\ FilesHyp /\ VisibleInv /\ InodeInv /\ HeldInv
        /\ \A j \in Owned : ~InPlace(j) => j \in scratch
        /\ \A j \in scratch : ~InPlace(j)
    BY DEF LineHyp, FilesHyp, FilesInv, OwnedInScratch, ScratchIInv
  <1>1. TypeOK /\ stream' = stream /\ TreeStep
    BY <1>0, FileFacts
  <1> SUFFICES ASSUME Durable, writer' = "rename", ~InPlace(cur') PROVE cur' \in synced'
    BY <1>1 DEF FlushedInv, InPlace
  <1>2. CASE SyncFile
    <2>1. cur' = cur /\ cur # 0 /\ cur \in Entries /\ cur \in Held
          /\ synced' = synced \cup {ino[cur]}
      BY <1>1, <1>2 DEF SyncFile, TypeOK, WriterType, Held, Entries
    <2>2. ino[cur] = cur  BY <1>0, <2>1 DEF HeldInv, InodeInv
    <2> QED  BY <2>1, <2>2
  <1>3. ASSUME cur' = cur, writer = "rename", synced \subseteq synced' PROVE cur' \in synced'
    BY <1>3 DEF FlushedInv
  <1>4. CASE CreateInPlace /\ net' = "begin"
    <2>1. cur' = cur /\ writer' = writer /\ cur \in scratch /\ cur # 0
      BY <1>0, <1>1, <1>4 DEF CreateInPlace, writerVars, Owned, WriterOwns, TypeOK, WriterType
    <2>2. item \in Entries /\ InPlace(item) /\ Me.name \in Names
      BY <1>0, <1>1, <1>4, InPlaceFacts
    <2>3. PICK node \in Entries :
            /\ node = item \/ (dest[Me.name].kind = "file" /\ node = dest[Me.name].of)
            /\ synced' = synced \ {node}
      BY <1>0, <1>1, <1>4, InPlaceFacts
    <2>4. node \notin scratch
      BY <1>0, <2>2, <2>3 DEF VisibleInv, Entries
    <2> QED  BY <2>1, <2>3, <2>4 DEF FlushedInv
  <1>5. CASE NetStep /\ ~(CreateInPlace /\ net' = "begin")
    <2>1. cur' = cur /\ writer' = writer /\ synced' = synced
      BY <1>5 DEF NetStep, OpenDest, NextEntry, WalkDirs, EndOfStream, SocketFails, MakeDir,
         ReadTarget, UnlinkForSymlink, MakeSymlink, CreateScratch, CreateInPlace, CreateFails,
         SendBegin, SendFails, TakeBuffer, ReadPayload, SendData, SendFinish, AwaitReply,
         CheckDigest, SendEndFile, Join, FlushDirectories, Acknowledge, writerVars, fileVars,
         DropInFlight
    <2> QED  BY <1>3, <2>1
  <1>6. CASE HashStep \/ UNCHANGED vars
    <2>1. cur' = cur /\ writer' = writer /\ synced' = synced
      BY <1>6 DEF HashStep, HashTake, HashForward, HashStops, HashEnds, vars, writerVars,
         fileVars, DropInFlight
    <2> QED  BY <1>3, <2>1
  <1>7. CASE WriterStep /\ ~SyncFile
    BY <1>7 DEF WriterStep, WriteBegin, WriteData, WriteDataFails, WriteEndFile, AfterStamp,
       RenameFile, FinishFails, RegisterFile, RegisterFails, WriterEnds, WriterFails
  <1> QED  BY <1>2, <1>4, <1>5, <1>6, <1>7 DEF Next, Returned

(* With --durable a name never shows a renamed file whose contents are not *)
(* on permanent storage, whatever the network thread creates meanwhile:    *)
(* full_fsync comes before rename_at (InFlight::finish).                   *)
THEOREM VisibleStaysSynced == Spec => []VisibleIsSynced
  <1>1. Init => FlushedInv /\ VisibleIsSynced
    <2> SUFFICES ASSUME Init PROVE FlushedInv /\ VisibleIsSynced  OBVIOUS
    <2>1. OfferType /\ dest = before  BY DEF Init, OfferType
    <2>2. \A n \in Names : dest[n].of = 0  BY <2>1, StreamFacts
    <2> QED  BY <2>2 DEF Init, FlushedInv, VisibleIsSynced
  <1>2. LineHyp /\ TypeOK' /\ FlushedInv /\ [Next]_vars => FlushedInv'
    BY FlushedNext
  <1>3. LineHyp /\ TypeOK /\ TypeOK' /\ FlushedInv /\ VisibleIsSynced /\ [Next]_vars
          => VisibleIsSynced'
    <2> SUFFICES ASSUME LineHyp, TypeOK, TypeOK', FlushedInv, VisibleIsSynced, [Next]_vars,
                        Durable, NEW n \in Names, OnlyRenamed(n)',
                        dest'[n].kind = "file", dest'[n].of # 0
                 PROVE  dest'[n].of \in synced'
      BY DEF VisibleIsSynced
    <2>1. stream' = stream  BY OfferFrozen
    <2>2. OnlyRenamed(n)  BY <2>1 DEF OnlyRenamed, InPlace, Entries
    <2>3. CASE dest'[n] = dest[n]
      <3>1. dest[n].of \in synced  BY <2>2, <2>3 DEF VisibleIsSynced
      <3>2. dest[n].of \in Entries /\ dest[n] = File(dest[n].of)
        <4>1. dest[n] \in Node /\ dest[n].of \in Inodes  BY DEF TypeOK, FileType
        <4> QED  BY <2>3, <4>1 DEF Node, File, Inodes, Entries
      <3> QED  BY <2>2, <2>3, <3>1, <3>2, ShownKept
    <2>4. CASE dest'[n] = Dir  BY <2>4 DEF Dir
    <2>5. CASE /\ writer = "rename" /\ ~InPlace(cur)
               /\ dest'[n] = File(cur) /\ synced' = synced
      BY <2>5 DEF FlushedInv, File
    <2> QED  BY <2>2, <2>3, <2>4, <2>5, ShownNext
  <1> QED  BY <1>1, <1>2, <1>3, LineAlways, PTL DEF Spec

-----------------------------------------------------------------------------
(* Why a session fails.                                                    *)

\* Every error a stage returned, or the session did, was reported to it.
CauseInv ==
    /\ written = "err" => fault
    /\ received \in {"socket", "fs", "digest"} => fault
    /\ outcome \in {"socket", "fs", "digest", "writer", "flush"} => fault

(* The digest compared is that of the payload sent: it differs only when   *)
(* the payload did.                                                        *)
LEMMA MismatchIsReal ==
    ASSUME LineHyp, CheckDigest, ~DigestMatches(reply[1])
    PROVE  fault
  <1>1. PICK w, x, h, n : Line(w, x, h, n)  BY DEF LineHyp, ChainInv
  <1>2. n \in At /\ NetAt(n) /\ net = "check"  BY <1>1 DEF Line, CheckDigest
  <1>3. /\ Len(n.got) = Me.size /\ reply # <<>> /\ reply[1] = n.got
        /\ ~fault => \A k \in 1 .. Len(n.got) : n.got[k] = item
    BY <1>2 DEF NetAt, NetClosed, Feeding
  <1>4. n.got \in Seq(Nat)  BY <1>2, PointsTyped
  <1>5. item \in Entries /\ OfferType  BY <1>2, MeFacts, LineTyped DEF LineHyp, TypeOK
  <1>6. stream[item].size \in Nat /\ item \in Nat  BY <1>5, HereIsDir DEF Entries
  <1>7. SUFFICES ASSUME ~fault PROVE reply[1] = Payload(item)
    BY DEF DigestMatches
  <1> DEFINE g == n.got
             p == Payload(item)
  <1>8. p \in Seq(Nat) /\ p = [k \in 1 .. stream[item].size |-> item]
    BY <1>6, PayloadIsSeq DEF Payload
  <1>9. Len(p) = stream[item].size /\ \A k \in 1 .. Len(p) : p[k] = item  BY <1>6, <1>8
  <1>10. Len(g) = Len(p) /\ \A k \in 1 .. Len(g) : g[k] = item
    BY <1>3, <1>7, <1>9 DEF Me
  <1> HIDE DEF g, p
  <1>11. g = p
    <2>1. \A k \in 1 .. Len(g) : g[k] = p[k]  BY <1>9, <1>10
    <2>2. g \in Seq(Nat)  BY <1>4 DEF g
    <2> QED  BY <1>8, <1>10, <2>1, <2>2, SeqEqual
  <1> QED  BY <1>3, <1>11 DEF g, p

LEMMA CauseNext ==
    ASSUME LineHyp, CauseInv, [Next]_vars
    PROVE  CauseInv'
  <1>1. CASE /\ fault => fault'
             /\ written' = written \/ written' = "ok" \/ fault'
             /\ received' = received \/ received' \in {"ok", "gone"} \/ fault'
             /\ outcome' = outcome \/ fault' \/ outcome' = SessionError
    <2>1. written' = "err" => fault'  BY <1>1 DEF CauseInv
    <2>2. received' \in {"socket", "fs", "digest"} => fault'  BY <1>1 DEF CauseInv
    <2>3. SessionError \in {"socket", "fs", "digest", "writer", "flush"} => fault
      <3>1. CASE written = "err"  BY <3>1 DEF CauseInv
      <3>2. CASE written # "err"
        <4>1. SessionError = received  BY <3>2 DEF SessionError
        <4>2. received \in {"none", "ok", "socket", "digest", "fs", "gone"}
          BY LineTyped DEF LineHyp, TypeOK, NetType
        <4> QED  BY <4>1, <4>2 DEF CauseInv
      <3> QED  BY <3>1, <3>2
    <2>4. outcome' \in {"socket", "fs", "digest", "writer", "flush"} => fault'
      BY <1>1, <2>3 DEF CauseInv
    <2> QED  BY <2>1, <2>2, <2>4 DEF CauseInv
  <1>2. CASE CheckDigest
    <2>1. fault' = fault /\ written' = written /\ outcome' = outcome
          /\ (received' = received \/ ~DigestMatches(reply[1]))
      BY <1>2 DEF CheckDigest, writerVars, endVars
    <2>2. received' = received \/ fault  BY <1>2, <2>1, MismatchIsReal
    <2> QED  BY <2>1, <2>2 DEF CauseInv
  <1>3. CASE \/ OpenDest \/ NextEntry \/ WalkDirs \/ EndOfStream \/ SocketFails \/ MakeDir
             \/ ReadTarget \/ UnlinkForSymlink \/ MakeSymlink \/ CreateScratch \/ CreateInPlace
             \/ CreateFails
    BY <1>1, <1>3 DEF OpenDest, NextEntry, WalkDirs, EndOfStream, SocketFails, MakeDir, ReadTarget,
       UnlinkForSymlink, MakeSymlink, CreateScratch, CreateInPlace, CreateFails, NetReturns,
       writerVars, endVars
  <1>4. CASE \/ SendBegin \/ SendFails \/ TakeBuffer \/ ReadPayload \/ SendData \/ SendFinish
             \/ AwaitReply \/ SendEndFile \/ Join \/ FlushDirectories \/ Acknowledge
    BY <1>1, <1>4 DEF SendBegin, SendFails, TakeBuffer, ReadPayload, SendData, SendFinish,
       AwaitReply, SendEndFile, Join, FlushDirectories, Acknowledge, NetReturns, writerVars,
       endVars
  <1>5. CASE HashStep
    BY <1>1, <1>5 DEF HashStep, HashTake, HashForward, HashStops, HashEnds, netVars, writerVars,
       endVars
  <1>6. CASE WriterStep
    BY <1>1, <1>6 DEF WriterStep, WriteBegin, WriteData, WriteDataFails, WriteEndFile, SyncFile,
       RenameFile, FinishFails, RegisterFile, RegisterFails, WriterEnds, WriterFails, netVars,
       endVars
  <1>7. CASE UNCHANGED vars
    BY <1>1, <1>7 DEF vars, netVars, writerVars, endVars
  <1> QED  BY <1>2, <1>3, <1>4, <1>5, <1>6, <1>7 DEF Next, NetStep, Returned

(* A session fails only when an I/O error or a corrupted payload was       *)
(* reported to it: no stage takes a digest of another file for this one's, *)
(* or stops by itself (SessionError in receive_entries).                   *)
THEOREM FailuresHaveCause == Spec => []FailureHasCause
  <1>1. Init => CauseInv  BY DEF Init, CauseInv
  <1>2. LineHyp /\ CauseInv /\ [Next]_vars => CauseInv'  BY CauseNext
  <1>3. TypeOK /\ PlaceholderReplaced /\ CauseInv => FailureHasCause
    BY DEF TypeOK, EndType, PlaceholderReplaced, CauseInv, FailureHasCause
  <1> QED  BY <1>1, <1>2, <1>3, LineAlways, PlaceholderIsReplaced, PTL DEF Spec

-----------------------------------------------------------------------------
(* What the acknowledgement stands for.                                    *)

\* No stage has returned an error.
NoFailure == received \in {"none", "ok"} /\ written # "err"

\* The session acknowledges only what the threads it joined had finished.
EndInv ==
    /\ NetClosed <=> received # "none"
    /\ received = "ok" => item = Len(stream)
    /\ net \in {"flush", "ack"} \/ acked => NoFailure /\ received = "ok"
    /\ net = "ack" \/ acked => flushed = reg
    /\ acked => net = "done"

LEMMA EndNext ==
    ASSUME TypeOK, StoppedHoldNothing, EndInv, [Next]_vars
    PROVE  EndInv'
  <1>0. stream' = stream /\ NetType /\ EndType  BY OfferFrozen DEF TypeOK
  <1> USE DEF EndInv, NoFailure, NetClosed
  <1>1. CASE \/ OpenDest \/ NextEntry \/ WalkDirs \/ EndOfStream \/ SocketFails \/ MakeDir
             \/ ReadTarget \/ UnlinkForSymlink \/ MakeSymlink \/ CreateScratch \/ CreateInPlace
             \/ CreateFails \/ SendBegin \/ SendFails \/ TakeBuffer \/ ReadPayload \/ SendData
             \/ SendFinish \/ AwaitReply \/ CheckDigest \/ SendEndFile
    <2>1. /\ net \notin {"join", "flush", "ack", "done"} /\ acked' = acked
          /\ \/ net' \notin {"join", "flush", "ack", "done"} /\ received' = received
             \/ net' = "join" /\ received' \notin {"none", "ok"}
             \/ net' = "join" /\ received' = "ok" /\ item' = Len(stream)
      <3>1. CASE WalkDirs  BY <1>0, <3>1, WalkFacts DEF TypeOK, endVars
      <3> QED
        BY <1>1, <3>1 DEF OpenDest, NextEntry, EndOfStream, SocketFails, MakeDir, ReadTarget,
           UnlinkForSymlink, MakeSymlink, CreateScratch, CreateInPlace, CreateFails, SendBegin,
           SendFails, TakeBuffer, ReadPayload, SendData, SendFinish, AwaitReply, CheckDigest,
           SendEndFile, NetReturns, AfterPayload, endVars
    <2> QED  BY <1>0, <2>1
  <1>2. CASE Join
    BY <1>0, <1>2 DEF Join, SessionError, NetType, writerVars
  <1>3. CASE FlushDirectories \/ Acknowledge
    BY <1>0, <1>3 DEF FlushDirectories, Acknowledge, writerVars, dirVars
  <1>4. CASE HashStep \/ UNCHANGED vars
    BY <1>0, <1>4 DEF HashStep, HashTake, HashForward, HashStops, HashEnds, vars, netVars,
       writerVars, dirVars, endVars
  <1>5. CASE WriterStep
    <2>1. UNCHANGED <<net, item, received, flushed, acked>>
      BY <1>5 DEF WriterStep, WriteBegin, WriteData, WriteDataFails, WriteEndFile, SyncFile,
         RenameFile, FinishFails, RegisterFile, RegisterFails, WriterEnds, WriterFails, netVars,
         dirVars, endVars
    <2>2. writer # "gone"
      BY <1>5 DEF WriterStep, WriteBegin, WriteData, WriteDataFails, WriteEndFile, SyncFile,
         RenameFile, FinishFails, RegisterFile, RegisterFails, WriterEnds
    <2>3. net \notin {"flush", "ack", "done"}  BY <2>2 DEF StoppedHoldNothing
    <2> QED  BY <1>0, <2>1, <2>3
  <1> QED  BY <1>1, <1>2, <1>3, <1>4, <1>5 DEF Next, Returned, NetStep

\* What the rest of this module is proved from.
AckHyp == LineHyp /\ PlaceholderIInv /\ EndInv

LEMMA AckAlways == Spec => [](AckHyp /\ TypeOK)
  <1>1. Init => PlaceholderIInv /\ EndInv
    BY DEF Init, PlaceholderIInv, EndInv, NoFailure, NetClosed
  <1>2. LineHyp /\ TypeOK /\ PlaceholderIInv /\ EndInv /\ [Next]_vars
          => PlaceholderIInv' /\ EndInv'
    <2>1. LineHyp => StoppedHoldNothing  BY LineTyped DEF LineHyp
    <2> QED  BY <2>1, PlaceholderNext, EndNext
  <1> QED  BY <1>1, <1>2, LineAlways, PTL DEF Spec, AckHyp

(* The writer meets the next Begin, or the end of the line, only once the  *)
(* file before it is done.                                                 *)
LEMMA LineIsOver ==
    ASSUME AckHyp, NoFailure', WriteBegin \/ WriterEnds
    PROVE  cur = 0
  <1>0. /\ LineHyp /\ TypeOK /\ StoppedHoldNothing /\ FinishInv /\ PlaceholderIInv /\ EndInv
        /\ q2 \in Seq(Message)
    BY LineTyped DEF AckHyp, LineHyp
  <1>1. PICK w, x, h, n : Line(w, x, h, n)  BY <1>0 DEF LineHyp, ChainInv
  <1>2. /\ w \in At /\ x \in At /\ h \in At /\ n \in At
        /\ Chain(stream, FALSE, q2, w, x)
        /\ Chain(stream, FALSE, hand, x, Flat(h))
        /\ Chain(stream, Verify, q1, h, n)
        /\ WriterAt(w) /\ NetAt(n)
    BY <1>1 DEF Line
  <1>3. writer = "recv"  BY DEF WriteBegin, WriterEnds
  <1>4. w.ph = "idle"
    <2>1. CASE WriteBegin
      <3>1. q2 # <<>> /\ Head(q2).kind = "Begin"  BY <2>1 DEF WriteBegin
      <3>2. PICK c \in At : Follows(stream, FALSE, w, Head(q2), c)
        BY <1>0, <1>2, <3>1, ChainTake
      <3> QED  BY <3>1, <3>2 DEF Follows
    <2>2. CASE WriterEnds
      <3>1. q2 = <<>> /\ (IF Verify THEN hash = "gone" ELSE NetClosed) /\ received' = received
        BY <2>2 DEF WriterEnds, netVars
      <3>2. hash = "gone" /\ hand = <<>> /\ q1 = <<>> /\ NetClosed
        <4>1. written # "err"  BY <1>0, <1>3 DEF PlaceholderIInv
        <4>2. hash = "gone"  BY <1>0, <3>1 DEF FinishInv
        <4>3. NetClosed  BY <1>0, <3>1, <4>1, <4>2 DEF PlaceholderIInv
        <4> QED  BY <1>0, <4>2, <4>3 DEF StoppedHoldNothing
      <3>3. received = "ok"
        BY <1>0, <3>1, <3>2 DEF EndInv, NoFailure
      <3>4. n.ph = "idle"  BY <1>2, <3>2, <3>3 DEF NetAt
      <3>5. w = x
        <4>1. Chain(stream, FALSE, <<>>, w, x)  BY <1>2, <3>1
        <4> QED  BY <4>1, ChainEmpty
      <3>6. x = Flat(h)
        <4>1. Chain(stream, FALSE, <<>>, x, Flat(h))  BY <1>2, <3>2
        <4> QED  BY <4>1, ChainEmpty
      <3>7. h = n
        <4>1. Chain(stream, Verify, <<>>, h, n)  BY <1>2, <3>2
        <4> QED  BY <4>1, ChainEmpty
      <3>8. Flat(n) = n  BY <1>2, <3>4, FlatFields
      <3> QED  BY <3>4, <3>5, <3>6, <3>7, <3>8
    <2> QED  BY <2>1, <2>2
  <1> QED  BY <1>2, <1>3, <1>4 DEF WriterAt

(* While nothing fails no file is dropped.                                 *)
LEMMA NothingDropped ==
    ASSUME AckHyp, TypeOK', [Next]_vars, NoFailure'
    PROVE  /\ NoFailure /\ FineStep
           /\ ~(SendFails \/ HashStops \/ WriteDataFails \/ FinishFails \/ RegisterFails)
           /\ WriteBegin \/ WriterEnds => cur = 0
  <1>0. /\ LineHyp /\ TypeOK /\ FinishInv /\ PlaceholderIInv /\ EndInv
        /\ dest \in [Names -> Node]
    BY LineTyped DEF AckHyp, LineHyp, TypeOK, FileType
  <1>1. NoFailure
    <2>1. CASE UNCHANGED <<received, written>>  BY <2>1 DEF NoFailure
    <2>2. CASE NetStep /\ ~UNCHANGED received
      <3>1. written' = written /\ (NetReturns(received') /\ ~NetClosed)
        BY <2>2 DEF NetStep, OpenDest, NextEntry, WalkDirs, EndOfStream, SocketFails, MakeDir,
           ReadTarget, UnlinkForSymlink, MakeSymlink, CreateScratch, CreateInPlace, CreateFails,
           SendBegin, SendFails, TakeBuffer, ReadPayload, SendData, SendFinish, AwaitReply,
           CheckDigest, SendEndFile, Join, FlushDirectories, Acknowledge, writerVars, NetReturns,
           NetClosed
      <3> QED  BY <1>0, <3>1 DEF NoFailure, EndInv
    <2>3. CASE NetStep /\ UNCHANGED received
      <3>1. written' = written
        BY <2>3 DEF NetStep, OpenDest, NextEntry, WalkDirs, EndOfStream, SocketFails, MakeDir,
           ReadTarget, UnlinkForSymlink, MakeSymlink, CreateScratch, CreateInPlace, CreateFails,
           SendBegin, SendFails, TakeBuffer, ReadPayload, SendData, SendFinish, AwaitReply,
           CheckDigest, SendEndFile, Join, FlushDirectories, Acknowledge, writerVars
      <3> QED  BY <2>1, <2>3, <3>1
    <2>4. CASE HashStep \/ UNCHANGED vars
      <3>1. UNCHANGED <<received, written>>
        BY <2>4 DEF HashStep, HashTake, HashForward, HashStops, HashEnds, vars, netVars,
           writerVars
      <3> QED  BY <2>1, <3>1
    <2>5. CASE WriterStep
      <3>1. received' = received /\ writer # "gone"
        BY <2>5 DEF WriterStep, WriteBegin, WriteData, WriteDataFails, WriteEndFile, SyncFile,
           RenameFile, FinishFails, RegisterFile, RegisterFails, WriterEnds, WriterFails, netVars
      <3> QED  BY <1>0, <3>1 DEF NoFailure, PlaceholderIInv
    <2> QED  BY <2>2, <2>3, <2>4, <2>5 DEF Next, Returned
  <1>2. ~SendFails  BY DEF SendFails, NetReturns, NoFailure
  <1>3. ~HashStops
    BY <1>0, <1>1 DEF HashStops, PlaceholderIInv, FinishInv, NoFailure
  <1>4. ~(WriteDataFails \/ FinishFails \/ RegisterFails)
    BY DEF WriteDataFails, FinishFails, RegisterFails, WriterFails, NoFailure
  <1>5. WriteBegin \/ WriterEnds => cur = 0  BY LineIsOver
  <1>6. FineStep
    <2>1. WriteBegin \/ WriterEnds => DropInFlight({})
      BY <1>5 DEF WriteBegin, WriterEnds
    <2>2. DropInFlight({}) => UNCHANGED <<dest, scratch, ino, disk>> /\ synced' = synced
      BY <1>0 DEF DropInFlight
    <2> QED  BY <1>0, <1>2, <1>3, <1>4, <2>1, <2>2, FineStepNext DEF Drops, FineStep
  <1> QED  BY <1>1, <1>2, <1>3, <1>4, <1>5, <1>6

(* While nothing fails a file is held until it is in place.                *)
LEMMA HeldStays ==
    ASSUME AckHyp, TypeOK', [Next]_vars, NoFailure', NEW i \in Held, i \notin Held'
    PROVE  i = cur /\ cur # 0 /\ (RegisterFile \/ (RenameFile /\ InPlace(cur)))
  <1>0. /\ q1 \in Seq(Message) /\ q2 \in Seq(Message) /\ hand \in Seq(Message)
        /\ Len(hand) <= 1 /\ NetType /\ Begins(<<>>) = {} /\ LineHyp /\ TypeOK
        /\ Held \subseteq Entries
    BY LineTyped, BeginsEmpty, HeldTyped DEF AckHyp, LineHyp, TypeOK
  <1>1. /\ ~(SendFails \/ HashStops \/ WriteDataFails \/ FinishFails \/ RegisterFails)
        /\ WriteBegin \/ WriterEnds => cur = 0
    BY NothingDropped
  <1> DEFINE All == NetOwns \cup Begins(q1) \cup Begins(hand) \cup Begins(q2)
  <1>2. Held = All \cup (IF cur = 0 THEN {} ELSE {cur})
    BY DEF Held, Owned, WriterOwns
  <1>3. Held' = All' \cup (IF cur' = 0 THEN {} ELSE {cur'})
    BY DEF Held, Owned, WriterOwns
  <1>4. i \in Held /\ i \notin Held' /\ i # 0  BY <1>0 DEF Entries
  <1> HIDE DEF All
  <1>5. ASSUME All \subseteq All' \cup (IF cur' = 0 THEN {} ELSE {cur'})
        PROVE  i = cur /\ cur # 0 /\ cur' # cur
    BY <1>2, <1>3, <1>4, <1>5
  <1>6. ASSUME UNCHANGED <<q1, q2, hand>>, net # "begin" \/ (net' = net /\ item' = item)
        PROVE  All \subseteq All'
    BY <1>6 DEF All, NetOwns
  <1>7. CASE \/ OpenDest \/ NextEntry \/ WalkDirs \/ EndOfStream \/ SocketFails \/ MakeDir
             \/ ReadTarget \/ UnlinkForSymlink \/ MakeSymlink \/ CreateScratch \/ CreateInPlace
             \/ CreateFails \/ TakeBuffer \/ ReadPayload \/ AwaitReply \/ CheckDigest \/ Join
             \/ FlushDirectories \/ Acknowledge \/ UNCHANGED vars
    <2>1. /\ UNCHANGED <<q1, q2, hand, cur>>
          /\ net # "begin" \/ (net' = net /\ item' = item)
      BY <1>7 DEF OpenDest, NextEntry, WalkDirs, EndOfStream, SocketFails, MakeDir, ReadTarget,
         UnlinkForSymlink, MakeSymlink, CreateScratch, CreateInPlace, CreateFails, TakeBuffer,
         ReadPayload, AwaitReply, CheckDigest, Join, FlushDirectories, Acknowledge, vars,
         netVars, hashVars, writerVars, chanVars
    <2> QED  BY <1>5, <1>6, <2>1
  <1>8. CASE SendBegin \/ SendData \/ SendFinish \/ SendEndFile
    <2>1. item \in Entries /\ buf \in Seq(Nat) /\ <<>> \in Seq(Nat)
      BY <1>0, <1>8 DEF SendBegin, SendData, SendFinish, SendEndFile, NetType, Entries
    <2>2. PICK m \in Message : Push(m) /\ (net = "begin" => m.kind = "Begin" /\ m.of = item)
      <3>1. /\ Msg("Begin", item, <<>>) \in Message
            /\ Msg("Data", item, buf) \in Message
            /\ Msg("Finish", item, <<>>) \in Message
            /\ Msg("EndFile", item, <<>>) \in Message
        BY <2>1 DEF Msg, Message
      <3> QED  BY <1>8, <3>1 DEF SendBegin, SendData, SendFinish, SendEndFile, Msg
    <2>3. UNCHANGED <<hand, cur>>
      BY <1>8 DEF SendBegin, SendData, SendFinish, SendEndFile, hashVars, writerVars
    <2>4. Begins(q1) \cup Begins(q2) \cup NetOwns \subseteq Begins(q1') \cup Begins(q2')
      <3>1. CASE Verify
        <4>1. q1' = Append(q1, m) /\ q2' = q2  BY <2>2, <3>1 DEF Push
        <4> QED  BY <1>0, <2>2, <4>1, BeginsSent DEF NetOwns
      <3>2. CASE ~Verify
        <4>1. q2' = Append(q2, m) /\ q1' = q1  BY <2>2, <3>2 DEF Push
        <4> QED  BY <1>0, <2>2, <4>1, BeginsSent DEF NetOwns
      <3> QED  BY <3>1, <3>2
    <2> QED  BY <1>5, <2>3, <2>4 DEF All
  <1>9. CASE HashTake
    <2>1. /\ q1' = Tail(q1) /\ q1 # <<>> /\ hand = <<>>
          /\ Head(q1).kind = "Begin" => hand' = <<Head(q1)>>
          /\ UNCHANGED <<net, item, q2, cur>>
      BY <1>9 DEF HashTake, netVars, writerVars
    <2>2. Begins(q1) \subseteq Begins(q1') \cup Begins(hand')
      BY <1>0, <2>1, BeginsTaken, BeginsSingle
    <2> QED  BY <1>0, <1>5, <2>1, <2>2 DEF All, NetOwns
  <1>10. CASE HashForward
    <2>1. q2' = Append(q2, hand[1]) /\ hand # <<>> /\ UNCHANGED <<net, item, q1, cur>>
      BY <1>10 DEF HashForward, netVars, writerVars
    <2>2. hand[1] \in Message /\ Begins(hand) = IF hand[1].kind = "Begin" THEN {hand[1].of} ELSE {}
      BY <1>0, <2>1, BeginsOne
    <2>3. Begins(q2') = Begins(q2) \cup Begins(hand)
      BY <1>0, <2>1, <2>2, BeginsSent
    <2> QED  BY <1>5, <2>1, <2>3 DEF All, NetOwns
  <1>11. CASE HashEnds
    BY <1>5, <1>6, <1>11 DEF HashEnds, netVars, writerVars, chanVars
  <1>12. CASE WriteBegin
    <2>1. q2' = Tail(q2) /\ q2 # <<>> /\ Head(q2).kind = "Begin" /\ cur' = Head(q2).of
          /\ UNCHANGED <<net, item, q1, hand>> /\ cur = 0
      BY <1>1, <1>12 DEF WriteBegin, netVars, hashVars
    <2>2. Begins(q2) = Begins(q2') \cup {cur'}
      BY <1>0, <2>1, BeginsTaken
    <2>3. cur' # 0
      <3>1. cur' \in Begins(q2)  BY <2>2
      <3>2. Begins(q2) \subseteq Held  BY DEF Held, Owned
      <3> QED  BY <1>0, <3>1, <3>2 DEF Entries
    <2>4. All \subseteq All' \cup {cur'}  BY <2>1, <2>2 DEF All, NetOwns
    <2> QED  BY <1>5, <2>1, <2>3, <2>4
  <1>13. CASE WriteData \/ WriteEndFile
    <2>1. /\ q2' = Tail(q2) /\ q2 # <<>> /\ Head(q2).kind # "Begin"
          /\ UNCHANGED <<net, item, q1, hand, cur>>
      BY <1>13 DEF WriteData, WriteEndFile, netVars, hashVars
    <2>2. Begins(q2) = Begins(q2')  BY <1>0, <2>1, BeginsTaken
    <2> QED  BY <1>5, <2>1, <2>2 DEF All, NetOwns
  <1>14. CASE SyncFile \/ RenameFile \/ RegisterFile \/ WriterEnds
    <2>1. UNCHANGED <<q1, q2, hand, net, item>>
      BY <1>14 DEF SyncFile, RenameFile, RegisterFile, WriterEnds, netVars, hashVars, chanVars
    <2>2. i = cur /\ cur # 0 /\ cur' # cur  BY <1>5, <1>6, <2>1
    <2> QED  BY <1>1, <1>14, <2>2 DEF SyncFile, RenameFile
  <1> QED
    BY <1>1, <1>7, <1>8, <1>9, <1>10, <1>11, <1>12, <1>13, <1>14
    DEF Next, NetStep, HashStep, WriterStep, Returned

-----------------------------------------------------------------------------
(* What is on permanent storage.                                           *)

\* The inode a name shows is named by the entry that made it.
ShownInv ==
    \A n \in Names : dest[n].kind = "file" /\ dest[n].of # 0 => ino[dest[n].of] = dest[n].of

\* The inode v is flushed, or some stage holds a file on it that is still to
\* be flushed.
Settled(v) ==
    \/ v \in synced
    \/ \E k \in Held : ino[k] = v /\ (k = cur => writer \notin {"rename", "register"})

SyncedInv == Durable /\ NoFailure => \A i \in Entries : ino[i] # 0 => Settled(ino[i])

\* The files written in place are in the destination root.
LongInRoot == \A i \in Entries : InPlace(i) => Parent[stream[i].name] = Root

\* The directory the writer is about to register.
Registering == IF writer = "register" THEN {Parent[stream[cur].name]} ELSE {}

\* The network thread is through with entry i.
Passed(i) == i < item \/ (i = item /\ net \in {"decode", "join", "flush", "ack", "done"})

\* The directories that the entries still to come register, as the parents of
\* directories they list.
ToCome == {Parent[stream[j].name] : j \in {k \in Entries : stream[k].kind = "Dir" /\ ~Passed(k)}}

\* A directory above an entry is the entry's own business only in the root: one
\* deeper down is listed in the stream itself.
ParentsListed ==
    \A i \in Entries : \A p \in Above[stream[i].name] :
        Parent[p] = Root \/ \E j \in Entries : stream[j].kind = "Dir" /\ stream[j].name = p

\* A directory that received an entry is registered, or is about to be. A file
\* created in place counts on its directory being the root, and a directory made
\* on the way to another on being listed.
RegisterInv ==
    Durable /\ NoFailure /\ LongInRoot /\ ParentsListed =>
        /\ net # "open" => Root \in reg
        /\ \A j \in Entries : stream[j].kind = "Dir" /\ Passed(j) => Parent[stream[j].name] \in reg
        /\ changed \subseteq reg \cup Registering \cup ToCome

LEMMA ShownIsOwn ==
    ASSUME FilesHyp, TypeOK', ShownInv, [Next]_vars
    PROVE  ShownInv'
  <1>0. InodeInv /\ EntryInv /\ VisibleInv /\ HeldInv
    BY DEF FilesHyp, FilesInv
  <1>a. /\ TypeOK /\ TreeStep /\ stream' = stream /\ Entries' = Entries
        /\ dest \in [Names -> Node] /\ ino \in [Entries -> Inodes]
        /\ \A i \in Entries : ino[i] # 0 => ino[i] \in Entries /\ ino'[i] = ino[i]
        /\ Held \subseteq Entries
    BY FileFacts
  <1> DEFINE Fits(v) == v.kind = "file" /\ v.of # 0 => ino'[v.of] = v.of
  <1> SUFFICES ASSUME NEW n \in Names PROVE Fits(dest'[n])
    BY DEF ShownInv
  <1>1. Fits(dest[n])
    <2>1. dest[n].of \in Inodes  BY <1>a DEF TypeOK, FileType
    <2>2. dest[n].kind = "file" /\ dest[n].of # 0 => dest[n].of \in Entries
      BY <2>1 DEF Inodes, Entries
    <2> QED  BY <1>a, <2>2 DEF ShownInv
  <1>2. Fits(Absent) /\ Fits(Dir) /\ \A i : Fits(Link(i))
    BY DEF Absent, Dir, Link
  <1>3. CASE dest'[n] \in {Absent, Dir, Link(item), dest[n]}  BY <1>1, <1>2, <1>3
  <1>4. CASE CreateInPlace /\ net' = "begin"
    <2>1. PICK node \in Entries :
            /\ node = item \/ (dest[Me.name].kind = "file" /\ node = dest[Me.name].of)
            /\ ino' = [ino EXCEPT ![item] = node]
            /\ dest' = [dest EXCEPT ![Me.name] = File(node)]
      BY <1>0, <1>a, <1>4, InPlaceFacts
    <2>2. item \in Entries /\ Me.name \in Names
      BY <1>0, <1>a, <1>4, InPlaceFacts
    <2>3. ino'[node] = node
      <3>1. CASE node = item  BY <1>a, <2>1, <2>2, <3>1
      <3>2. CASE node # item
        <4>1. ino[node] = node  BY <2>1, <2>2, <3>2 DEF ShownInv, Entries
        <4> QED  BY <1>a, <2>1, <3>2, <4>1
      <3> QED  BY <3>1, <3>2
    <2>4. dest'[n] \in {File(node), dest[n]}  BY <1>a, <2>1
    <2> QED  BY <1>1, <2>3, <2>4 DEF File
  <1>5. CASE RenameFile /\ ~InPlace(cur)
    <2>1. cur # 0 /\ cur \in Held /\ cur \in Entries
      BY <1>a, <1>5 DEF RenameFile, TypeOK, WriterType, Held, Entries
    <2>2. ino[cur] # 0 /\ ino[cur] = cur  BY <1>0, <1>5, <2>1 DEF HeldInv, InodeInv
    <2>3. dest' = [dest EXCEPT ![stream[cur].name] = File(cur)] /\ ino' = ino
      BY <1>5, <2>2 DEF RenameFile
    <2>4. dest'[n] \in {File(cur), dest[n]}  BY <1>a, <2>3
    <2> QED  BY <1>1, <2>2, <2>3, <2>4 DEF File
  <1>6. CASE \E I \in SUBSET Held : DropInFlight(I)  BY <1>3, <1>6 DEF DropInFlight
  <1>7. CASE \E p \in Names : dest[p] = Absent /\ dest' = [dest EXCEPT ![p] = Dir]
    BY <1>a, <1>3, <1>7
  <1>8. CASE UnlinkForSymlink  BY <1>a, <1>3, <1>8 DEF UnlinkForSymlink
  <1>9. CASE dest' = [dest EXCEPT ![Me.name] = Link(item)]  BY <1>a, <1>3, <1>9
  <1>10. CASE dest' = dest  BY <1>3, <1>10
  <1>11. CASE LosesInPlace  BY <1>a, <1>3, <1>11 DEF LosesInPlace
  <1> QED
    BY <1>a, <1>4, <1>5, <1>6, <1>7, <1>8, <1>9, <1>10, <1>11
    DEF TreeStep, FineStep, CreateScratch, WriteData

(* How the writer comes to a rename, and to the registration after it.     *)
LEMMA ComesToRename ==
    ASSUME [Next]_vars, writer' \in {"rename", "register"}
    PROVE  /\ cur' = cur
           /\ Durable => SyncFile \/ writer \in {"rename", "register"}
           /\ writer' = "register" => writer = "register" \/ (RenameFile /\ ~InPlace(cur))
  <1>1. CASE NetStep \/ HashStep \/ UNCHANGED vars
    <2>1. cur' = cur /\ writer' = writer
      BY <1>1 DEF NetStep, OpenDest, NextEntry, WalkDirs, EndOfStream, SocketFails, MakeDir,
         ReadTarget, UnlinkForSymlink, MakeSymlink, CreateScratch, CreateInPlace, CreateFails,
         SendBegin, SendFails, TakeBuffer, ReadPayload, SendData, SendFinish, AwaitReply,
         CheckDigest, SendEndFile, Join, FlushDirectories, Acknowledge, HashStep, HashTake,
         HashForward, HashStops, HashEnds, vars, writerVars
    <2> QED  BY <2>1
  <1>2. CASE WriterStep
    BY <1>2 DEF WriterStep, WriteBegin, WriteData, WriteDataFails, WriteEndFile, AfterStamp,
       SyncFile, RenameFile, FinishFails, RegisterFile, RegisterFails, WriterEnds, WriterFails
  <1> QED  BY <1>1, <1>2 DEF Next, Returned

(* A flushed inode is dirtied only by a stage that holds a file on it.     *)
LEMMA Dirtied ==
    ASSUME FilesHyp, TypeOK', FineStep, [Next]_vars, NEW v \in synced, v \notin synced'
    PROVE  \E k \in Held' : ino'[k] = v /\ (k = cur' => writer' \notin {"rename", "register"})
  <1>0. InodeInv /\ EntryInv /\ VisibleInv /\ HeldInv
    BY DEF FilesHyp, FilesInv
  <1>1. /\ TypeOK /\ ino \in [Entries -> Inodes] /\ Held \subseteq Entries
    BY FileFacts
  <1>2. CASE CreateInPlace /\ net' = "begin"
    <2>1. PICK node \in Entries : /\ ino' = [ino EXCEPT ![item] = node]
                                  /\ synced' = synced \ {node}
      BY <1>0, <1>1, <1>2, InPlaceFacts
    <2>2. item \in Entries /\ net = "create" /\ UNCHANGED <<item, cur>>
      BY <1>0, <1>1, <1>2, InPlaceFacts
    <2>3. item \in Held'  BY <1>2, <2>2 DEF Held, Owned, NetOwns
    <2>4. ino'[item] = v  BY <1>1, <2>1, <2>2
    <2>5. item # cur'
      <3>1. ino[item] = 0 /\ item # 0  BY <1>0, <2>2 DEF EntryInv, Entries
      <3>2. cur # 0 => ino[cur] # 0  BY <1>0 DEF Held, HeldInv
      <3> QED  BY <2>2, <3>1, <3>2
    <2> QED  BY <2>3, <2>4, <2>5
  <1>3. CASE WriteData /\ cur # 0
    <2>1. /\ synced' = synced \ {ino[cur]} /\ writer = "recv"
          /\ UNCHANGED <<ino, cur, writer>>
      BY <1>3 DEF WriteData
    <2>2. cur' \in Held'  BY <1>3, <2>1 DEF Held
    <2> QED  BY <2>1, <2>2
  <1>4. CASE synced \subseteq synced'  BY <1>4
  <1> QED
    BY <1>2, <1>3, <1>4
    DEF FineStep, LosesInPlace, UnlinkForSymlink, MakeSymlink, CreateScratch, RenameFile

LEMMA SyncedNext ==
    ASSUME AckHyp, TypeOK', SyncedInv, [Next]_vars
    PROVE  SyncedInv'
  <1>0. FilesHyp /\ InodeInv /\ EntryInv /\ VisibleInv /\ HeldInv
    BY DEF AckHyp, LineHyp, FilesHyp, FilesInv
  <1>1. /\ TypeOK /\ TreeStep /\ ino \in [Entries -> Inodes] /\ Held \subseteq Entries
        /\ Entries' = Entries
        /\ \A i \in Entries : ino[i] # 0 => ino[i] \in Entries /\ ino'[i] = ino[i]
    BY <1>0, FileFacts
  <1> DEFINE Still(v) == \E k \in Held' : /\ ino'[k] = v
                                          /\ k = cur' => writer' \notin {"rename", "register"}
  <1> SUFFICES ASSUME Durable, NoFailure', NEW i \in Entries, ino'[i] # 0
               PROVE  ino'[i] \in synced' \/ Still(ino'[i])
    BY <1>1 DEF SyncedInv, Settled
  <1>2. NoFailure /\ FineStep  BY NothingDropped
  <1>3. CASE ino[i] = 0
    <2>1. i = item /\ net = "create" /\ net' = "begin" /\ item' = item
      BY <1>0, <1>1, <1>3, InoNext
    <2>2. i \in Held'  BY <2>1 DEF Held, Owned, NetOwns
    <2>3. cur' = cur
      BY <2>1, Creates DEF CreateScratch, CreateInPlace, writerVars
    <2>4. i # cur'
      <3>1. cur # 0 => ino[cur] # 0  BY <1>0 DEF Held, HeldInv
      <3> QED  BY <1>3, <2>3, <3>1 DEF Entries
    <2> QED  BY <2>2, <2>4
  <1>4. CASE ino[i] # 0
    <2>1. ino'[i] = ino[i] /\ Settled(ino[i])  BY <1>1, <1>2, <1>4 DEF SyncedInv
    <2>2. CASE ino[i] \in synced  BY <1>0, <1>2, <2>1, <2>2, Dirtied
    <2>3. CASE \E k \in Held : ino[k] = ino[i] /\ (k = cur => writer \notin {"rename", "register"})
      <3>1. PICK k \in Held : /\ ino[k] = ino[i]
                              /\ k = cur => writer \notin {"rename", "register"}
        BY <2>3
      <3>2. k \in Held'
        <4> SUFFICES ASSUME k \notin Held' PROVE FALSE  OBVIOUS
        <4>1. k = cur /\ (RegisterFile \/ RenameFile)  BY HeldStays
        <4> QED  BY <3>1, <4>1 DEF RegisterFile, RenameFile
      <3>3. ino'[k] = ino[i]  BY <1>1, <1>4, <3>1
      <3>4. CASE k = cur' /\ writer' \in {"rename", "register"}
        <4>1. cur' = cur /\ SyncFile  BY <3>1, <3>4, ComesToRename
        <4>2. ino[i] \in synced'  BY <3>1, <3>4, <4>1 DEF SyncFile
        <4> QED  BY <2>1, <4>2
      <3> QED  BY <2>1, <3>2, <3>3, <3>4
    <2> QED  BY <2>1, <2>2, <2>3 DEF Settled
  <1> QED  BY <1>3, <1>4

(* How the network thread gets through an entry.                           *)
LEMMA PassedNext ==
    ASSUME AckHyp, TypeOK', [Next]_vars, NoFailure', NEW i \in Entries, Passed(i)'
    PROVE  \/ Passed(i)
           \/ /\ i = item /\ item' = item
              /\ MakeDir \/ (MakeSymlink /\ dest' = [dest EXCEPT ![Me.name] = Link(item)])
                 \/ net = "endfile"
  <1>0. TypeOK /\ EntryInv /\ item \in Nat /\ i \in Nat \ {0} /\ Len(stream) \in Nat
    <2>1. TypeOK /\ EntryInv  BY LineTyped DEF AckHyp, LineHyp, FilesHyp, FilesInv
    <2> QED  BY <2>1, StreamFacts DEF TypeOK, NetType, Entries
  <1>1. NoFailure  BY NothingDropped
  <1>2. CASE UNCHANGED <<net, item>>  BY <1>2 DEF Passed
  <1>3. CASE NextEntry
    <2>1. net = "decode" /\ item' = item + 1 /\ net' = "walk"  BY <1>3 DEF NextEntry
    <2> QED  BY <1>0, <2>1 DEF Passed
  <1>11. CASE WalkDirs
    <2>1. item' = item /\ net' \in {"walk", "mkdir", "target", "create"}
      BY <1>0, <1>11, WalkFacts DEF NoFailure
    <2> QED  BY <2>1 DEF Passed
  <1>4. CASE OpenDest
    BY <1>0, <1>4 DEF OpenDest, Passed, EntryInv
  <1>5. CASE EndOfStream \/ Join \/ FlushDirectories \/ Acknowledge
    <2>1. item' = item /\ net \in {"decode", "join", "flush", "ack"}
      BY <1>5 DEF EndOfStream, Join, FlushDirectories, Acknowledge
    <2> QED  BY <2>1 DEF Passed
  <1>6. CASE SocketFails \/ CreateFails \/ SendFails
    BY <1>6 DEF SocketFails, CreateFails, SendFails, NetReturns, NoFailure
  <1>7. CASE MakeDir \/ MakeSymlink
    <2>1. item' = item  BY <1>7 DEF MakeDir, MakeSymlink
    <2>2. MakeSymlink => dest' = [dest EXCEPT ![Me.name] = Link(item)]
      BY DEF MakeSymlink, NetReturns, NoFailure
    <2> QED  BY <1>0, <1>7, <2>1, <2>2 DEF Passed
  <1>8. CASE SendEndFile
    BY <1>0, <1>8 DEF SendEndFile, Passed
  <1>9. CASE \/ ReadTarget \/ UnlinkForSymlink \/ CreateScratch \/ CreateInPlace \/ SendBegin
             \/ TakeBuffer \/ ReadPayload \/ SendData \/ SendFinish \/ AwaitReply \/ CheckDigest
    <2>1. item' = item /\ net' \notin {"decode", "join", "flush", "ack", "done"}
      BY <1>9 DEF ReadTarget, UnlinkForSymlink, CreateScratch, CreateInPlace, SendBegin,
         TakeBuffer, ReadPayload, SendData, SendFinish, AwaitReply, CheckDigest, NetReturns,
         AfterPayload, NoFailure
    <2> QED  BY <2>1 DEF Passed
  <1>10. CASE HashStep \/ WriterStep \/ UNCHANGED vars
    <2>1. UNCHANGED <<net, item>>
      BY <1>10 DEF HashStep, HashTake, HashForward, HashStops, HashEnds, WriterStep, WriteBegin,
         WriteData, WriteDataFails, WriteEndFile, SyncFile, RenameFile, FinishFails,
         RegisterFile, RegisterFails, WriterEnds, WriterFails, vars, netVars
    <2> QED  BY <1>2, <2>1
  <1> QED
    BY <1>3, <1>4, <1>5, <1>6, <1>7, <1>8, <1>9, <1>10, <1>11 DEF Next, NetStep, Returned

LEMMA RegisterNext ==
    ASSUME AckHyp, TypeOK', RegisterInv, [Next]_vars
    PROVE  RegisterInv'
  <1>0. FilesHyp /\ EntryInv /\ HeldInv /\ TypeOK /\ stream' = stream /\ Entries' = Entries
    BY FileFacts DEF AckHyp, LineHyp, FilesHyp, FilesInv
  <1> SUFFICES ASSUME Durable, NoFailure', LongInRoot', ParentsListed'
               PROVE  /\ net' # "open" => Root \in reg'
                      /\ \A j \in Entries : stream[j].kind = "Dir" /\ Passed(j)'
                                             => Parent[stream[j].name] \in reg'
                      /\ changed' \subseteq reg' \cup Registering' \cup ToCome'
    BY <1>0 DEF RegisterInv
  <1>1. /\ NoFailure
        /\ ~(SendFails \/ HashStops \/ WriteDataFails \/ FinishFails \/ RegisterFails)
        /\ WriteBegin \/ WriterEnds => cur = 0
    BY NothingDropped
  <1>2. LongInRoot /\ ParentsListed
    <2>1. LongInRoot  BY <1>0 DEF LongInRoot, InPlace
    <2>2. ParentsListed  BY <1>0 DEF ParentsListed
    <2> QED  BY <2>1, <2>2
  <1>3. /\ net # "open" => Root \in reg
        /\ \A j \in Entries : stream[j].kind = "Dir" /\ Passed(j) => Parent[stream[j].name] \in reg
        /\ changed \subseteq reg \cup Registering \cup ToCome
    BY <1>1, <1>2 DEF RegisterInv
  <1>4. ASSUME reg \subseteq reg', net' # "open" => Root \in reg',
               MakeDir => Here \in reg',
               changed' \subseteq reg' \cup Registering' \cup ToCome
        PROVE  /\ net' # "open" => Root \in reg'
               /\ \A j \in Entries : stream[j].kind = "Dir" /\ Passed(j)'
                                      => Parent[stream[j].name] \in reg'
               /\ changed' \subseteq reg' \cup Registering' \cup ToCome'
    <2>1. ASSUME NEW j \in Entries, stream[j].kind = "Dir", Passed(j)'
          PROVE  Parent[stream[j].name] \in reg'
      <3>1. CASE Passed(j)  BY <1>3, <1>4, <2>1, <3>1
      <3>2. CASE j = item /\ MakeDir  BY <1>4, <3>2 DEF Here, Me
      <3>3. CASE j = item /\ (MakeSymlink \/ net = "endfile")
        <4>1. Me.kind # "Dir"  BY <1>0, <3>3 DEF MakeSymlink, EntryInv
        <4> QED  BY <2>1, <3>3, <4>1 DEF Me
      <3> QED  BY <2>1, <3>1, <3>2, <3>3, PassedNext
    <2>2. ToCome \subseteq reg' \cup ToCome'
      <3> SUFFICES ASSUME NEW j \in Entries, stream[j].kind = "Dir"
                   PROVE  Parent[stream[j].name] \in reg' \cup ToCome'
        BY DEF ToCome
      <3>1. CASE Passed(j)'  BY <2>1, <3>1
      <3>2. CASE ~Passed(j)'  BY <1>0, <3>2 DEF ToCome
      <3> QED  BY <3>1, <3>2
    <2> QED  BY <1>4, <2>1, <2>2
  <1>5. UNCHANGED <<writer, cur>> => Registering' = Registering
    BY <1>0 DEF Registering
  <1>6. CASE OpenDest
    <2>1. UNCHANGED <<changed, writer, cur>> /\ reg' = reg \cup {Root} /\ ~MakeDir
      BY <1>6 DEF OpenDest, MakeDir, Register, NetReturns, NoFailure, writerVars
    <2> QED  BY <1>3, <1>4, <1>5, <2>1
  <1>7. CASE WalkDirs
    <2>1. UNCHANGED <<reg, writer, cur>> /\ net = "walk" /\ item \in Entries /\ ~MakeDir
      BY <1>0, <1>7, WalkFacts DEF writerVars, MakeDir
    <2>2. changed' = changed \/ \E p \in Above[Me.name] : changed' = changed \cup {Parent[p]}
      BY <1>0, <1>7, WalkFacts
    <2>3. ASSUME NEW p \in Above[Me.name] PROVE Parent[p] \in reg \cup ToCome
      <3>1. CASE Parent[p] = Root  BY <1>3, <2>1, <3>1
      <3>2. CASE \E j \in Entries : stream[j].kind = "Dir" /\ stream[j].name = p
        BY <1>3, <3>2 DEF ToCome
      <3> QED  BY <1>2, <2>1, <2>3, <3>1, <3>2 DEF ParentsListed, Me
    <2> QED  BY <1>3, <1>4, <1>5, <2>1, <2>2, <2>3
  <1>8. CASE MakeDir \/ MakeSymlink
    <2>1. /\ UNCHANGED <<writer, cur>> /\ net # "open"
          /\ changed' \in {changed, changed \cup {Here}}
          /\ reg' = reg \cup {Here}
      BY <1>8 DEF MakeDir, MakeSymlink, Register, NetReturns, NoFailure, writerVars
    <2> QED  BY <1>3, <1>4, <1>5, <2>1
  <1>9. CASE CreateInPlace
    <2>1. /\ UNCHANGED <<reg, writer, cur>> /\ net = "create" /\ Me.long
          /\ changed' \in {changed, changed \cup {Here}}
      BY <1>9 DEF CreateInPlace, writerVars
    <2>2. Here = Root
      BY <1>0, <1>2, <2>1, MeFacts DEF LongInRoot, InPlace, Me, Here
    <2>3. ~MakeDir  BY <2>1 DEF MakeDir
    <2> QED  BY <1>3, <1>4, <1>5, <2>1, <2>2, <2>3
  <1>10. CASE RenameFile
    <2>1. cur # 0 /\ cur \in Held /\ cur \in Entries /\ writer = "rename"
      BY <1>0, <1>10 DEF RenameFile, TypeOK, WriterType, Held, Entries
    <2>2. net # "open"
      <3> SUFFICES ASSUME net = "open" PROVE FALSE  OBVIOUS
      <3>1. item = 0 /\ cur > 0 /\ ino[cur] # 0  BY <1>0, <2>1 DEF EntryInv, HeldInv, Entries
      <3> QED  BY <1>0, <2>1, <3>1 DEF EntryInv
    <2>3. /\ UNCHANGED <<reg, net>>
          /\ \/ /\ changed' = changed \cup {Parent[stream[cur].name]}
                /\ writer' = "register" /\ cur' = cur
             \/ changed' = changed /\ writer' = "recv"
      BY <1>10 DEF RenameFile, netVars
    <2>4. Registering = {} /\ (writer' = "register" /\ cur' = cur =>
                                 Registering' = {Parent[stream[cur].name]})
      BY <1>0, <2>1 DEF Registering
    <2>5. ~MakeDir  BY <1>10 DEF RenameFile, MakeDir, netVars, writerVars
    <2> QED  BY <1>3, <1>4, <2>2, <2>3, <2>4, <2>5
  <1>11. CASE RegisterFile
    <2>1. /\ UNCHANGED <<changed, net>> /\ writer = "register"
          /\ reg' = reg \cup {Parent[stream[cur].name]}
      BY <1>11 DEF RegisterFile, Register, netVars
    <2>2. Registering = {Parent[stream[cur].name]}  BY <2>1 DEF Registering
    <2>3. ~MakeDir  BY <1>11 DEF RegisterFile, MakeDir, netVars, writerVars
    <2> QED  BY <1>3, <1>4, <2>1, <2>2, <2>3
  <1>12. CASE \/ NextEntry \/ EndOfStream \/ SocketFails \/ ReadTarget \/ UnlinkForSymlink
              \/ CreateScratch \/ CreateFails \/ SendBegin \/ TakeBuffer \/ ReadPayload
              \/ SendData \/ SendFinish \/ AwaitReply \/ CheckDigest \/ SendEndFile \/ Join
              \/ FlushDirectories \/ Acknowledge
    <2>1. UNCHANGED <<changed, reg, writer, cur>> /\ net # "open" /\ net # "mkdir"
      BY <1>12 DEF NextEntry, EndOfStream, SocketFails, ReadTarget, UnlinkForSymlink,
         CreateScratch, CreateFails, SendBegin, TakeBuffer, ReadPayload, SendData, SendFinish,
         AwaitReply, CheckDigest, SendEndFile, Join, FlushDirectories, Acknowledge, writerVars,
         dirVars
    <2>2. ~MakeDir  BY <2>1 DEF MakeDir
    <2> QED  BY <1>3, <1>4, <1>5, <2>1, <2>2
  <1>13. CASE HashStep \/ UNCHANGED vars
    <2>1. UNCHANGED <<changed, reg, writer, cur, net>>
      BY <1>13 DEF HashStep, HashTake, HashForward, HashStops, HashEnds, vars, netVars,
         writerVars, dirVars
    <2>2. ~MakeDir
      BY <2>1 DEF MakeDir, Register, NetReturns
    <2> QED  BY <1>3, <1>4, <1>5, <2>1, <2>2
  <1>14. CASE WriteBegin \/ WriteData \/ WriteEndFile \/ SyncFile \/ WriterEnds
    <2>1. UNCHANGED <<changed, reg, net>> /\ writer # "register"
      BY <1>14 DEF WriteBegin, WriteData, WriteEndFile, SyncFile, WriterEnds, netVars, dirVars
    <2>2. writer # "register" => Registering = {}  BY DEF Registering
    <2>3. ~MakeDir  BY <2>1 DEF MakeDir, Register, NetReturns
    <2> QED  BY <1>3, <1>4, <2>1, <2>2, <2>3
  <1> QED
    BY <1>1, <1>6, <1>7, <1>8, <1>9, <1>10, <1>11, <1>12, <1>13, <1>14
    DEF Next, NetStep, WriterStep, Returned

(* No stage holds a file when the session acknowledges.                    *)
LEMMA NothingHeld ==
    ASSUME AckHyp, acked
    PROVE  Held = {} /\ net = "done" /\ NoFailure /\ received = "ok" /\ flushed = reg
           /\ writer = "gone"
  <1>1. /\ net = "done" /\ NoFailure /\ received = "ok" /\ flushed = reg
    BY DEF AckHyp, EndInv
  <1>2. cur = 0 /\ q1 = <<>> /\ q2 = <<>> /\ hand = <<>> /\ writer = "gone"
    BY <1>1, LineTyped DEF AckHyp, LineHyp, StoppedHoldNothing
  <1> QED  BY <1>1, <1>2, BeginsEmpty DEF Held, Owned, NetOwns, WriterOwns

(* With --durable the ACK byte exists only once each file of the session   *)
(* is flushed and so is every directory that received an entry:            *)
(* flush_directories comes after the joins.  At any depth of the tree, and *)
(* with the two exceptions the code makes: nobody registers what           *)
(* create_file_at adds to a directory other than the root, and nobody what *)
(* walk_dirs adds on its way to a parent unless the directory it makes has *)
(* an entry in the stream, as every one tf send walks has.                 *)
THEOREM AckIsDurable == Spec => [](LongInRoot /\ ParentsListed => AckMeansDurable)
  <1>1. Init => ShownInv /\ SyncedInv /\ RegisterInv
    <2> SUFFICES ASSUME Init PROVE ShownInv /\ SyncedInv /\ RegisterInv  OBVIOUS
    <2>1. OfferType /\ dest = before  BY DEF Init, OfferType
    <2>2. \A n \in Names : dest[n].of = 0  BY <2>1, StreamFacts
    <2>3. \A j \in Entries : ~Passed(j)  BY DEF Init, Passed, Entries
    <2> QED  BY <2>2, <2>3 DEF Init, ShownInv, SyncedInv, RegisterInv
  <1>2. AckHyp /\ TypeOK' /\ ShownInv /\ SyncedInv /\ RegisterInv /\ [Next]_vars
          => ShownInv' /\ SyncedInv' /\ RegisterInv'
    <2>1. AckHyp => FilesHyp  BY DEF AckHyp, LineHyp
    <2> QED  BY <2>1, ShownIsOwn, SyncedNext, RegisterNext
  <1>3. AckHyp /\ ShownInv /\ SyncedInv /\ RegisterInv
          => (LongInRoot /\ ParentsListed => AckMeansDurable)
    <2> SUFFICES ASSUME AckHyp, ShownInv, SyncedInv, RegisterInv, LongInRoot, ParentsListed,
                        acked, Durable
                 PROVE  /\ changed \subseteq flushed
                        /\ \A n \in Names : dest[n].kind = "file" /\ dest[n].of # 0
                                              => dest[n].of \in synced
      BY DEF AckMeansDurable
    <2>1. Held = {} /\ net = "done" /\ NoFailure /\ flushed = reg /\ writer = "gone"
      BY NothingHeld
    <2>2. changed \subseteq flushed
      <3>1. item = Len(stream)  BY NothingHeld DEF AckHyp, EndInv
      <3>2. \A j \in Entries : Passed(j)
        <4>1. Len(stream) \in Nat
          BY StreamFacts, LineTyped DEF AckHyp, LineHyp, TypeOK
        <4> QED  BY <2>1, <3>1, <4>1 DEF Passed, Entries
      <3>3. ToCome = {}  BY <3>2 DEF ToCome
      <3> QED  BY <2>1, <3>3 DEF RegisterInv, Registering
    <2>3. ASSUME NEW n \in Names, dest[n].kind = "file", dest[n].of # 0
          PROVE  dest[n].of \in synced
      <3>1. dest[n].of \in Entries
        BY <2>3, LineTyped DEF AckHyp, LineHyp, TypeOK, FileType, Inodes, Entries
      <3>2. ino[dest[n].of] = dest[n].of  BY <2>3 DEF ShownInv
      <3> QED  BY <2>1, <2>3, <3>1, <3>2 DEF SyncedInv, Settled
    <2> QED  BY <2>2, <2>3
  <1> QED  BY <1>1, <1>2, <1>3, AckAlways, PTL DEF Spec

-----------------------------------------------------------------------------
(* What is in the tree.                                                    *)

\* A name that is only ever renamed to never shows a file later in the stream
\* than one some stage still holds: the writer takes them in order.
OrderInv == \A n \in Names : OnlyRenamed(n) => \A i \in Held : dest[n].of <= i

\* An entry whose bytes are on their way was opened; in place there is nothing
\* to register.
OpenedInv ==
    /\ net \in {"begin"} \cup Feeding => ino[item] # 0
    /\ writer = "register" => ~InPlace(cur)

LEMMA OrderNext ==
    ASSUME LineHyp, TypeOK', PreviousOrComplete, OrderInv, [Next]_vars
    PROVE  OrderInv'
  <1>0. /\ FilesHyp /\ VisibleInv /\ EntryInv /\ TypeOK /\ stream' = stream
        /\ Held \subseteq Entries /\ Entries' = Entries /\ item \in Nat /\ cur \in Nat
    BY FileFacts DEF LineHyp, FilesHyp, FilesInv, TypeOK, NetType, WriterType
  <1> SUFFICES ASSUME NEW n \in Names, OnlyRenamed(n), NEW i \in Held'
               PROVE  dest'[n].of <= i
    BY <1>0 DEF OrderInv, OnlyRenamed, InPlace
  <1>1. i \in Held \/ (net = "create" /\ net' = "begin" /\ i = item)
    BY <1>0, HeldNext
  <1>2. i \in Nat
    <2>1. \A j \in Entries : j \in Nat  BY DEF Entries
    <2> QED  BY <1>0, <1>1, <2>1
  <1>3. dest[n].of <= i
    <2>1. CASE i \in Held  BY <2>1 DEF OrderInv
    <2>2. CASE i = item
      <3>1. dest[n].of \in Nat /\ (dest[n].of # 0 => dest[n].of \in Entries)
        BY <1>0 DEF TypeOK, FileType, Inodes, Entries
      <3>2. dest[n].of # 0 => dest[n].kind = "file"
        <4>1. dest[n] = before[n] \/ dest[n] = Dir \/ \E j \in Entries : dest[n] = File(j)
          BY DEF PreviousOrComplete
        <4>2. before[n].of = 0  BY <1>0, StreamFacts DEF TypeOK
        <4>3. Dir.of = 0 /\ \A j : File(j).kind = "file"  BY DEF Dir, File
        <4> QED  BY <4>1, <4>2, <4>3
      <3>3. dest[n].of # 0 => ino[dest[n].of] # 0  BY <1>0, <3>2 DEF VisibleInv
      <3>4. ~(dest[n].of > item)  BY <1>0, <3>1, <3>3 DEF EntryInv
      <3> QED  BY <1>0, <2>2, <3>1, <3>4
    <2> QED  BY <1>1, <2>1, <2>2
  <1>4. CASE dest'[n] = dest[n]  BY <1>3, <1>4
  <1>5. CASE dest'[n] = Dir  BY <1>2, <1>5 DEF Dir
  <1>6. CASE dest'[n] = File(cur) /\ i \in Held
    <2>1. cur <= i  BY <1>6, Apart DEF LineHyp
    <2> QED  BY <1>6, <2>1 DEF File
  <1>7. CASE /\ dest'[n] = File(cur) /\ dest'[n] # dest[n]
             /\ i = item /\ net = "create" /\ net' = "begin"
    <2>1. CreateScratch \/ CreateInPlace  BY <1>7, Creates
    <2>2. CreateInPlace  BY <1>7, <2>1 DEF CreateScratch
    <2>3. /\ item \in Entries /\ InPlace(item) /\ Me = stream[item]
          /\ \E node : dest' = [dest EXCEPT ![Me.name] = File(node)]
      BY <1>0, <1>7, <2>2, InPlaceFacts
    <2>4. Me.name # n  BY <2>3 DEF OnlyRenamed
    <2>5. dest \in [Names -> Node]  BY <1>0 DEF TypeOK, FileType
    <2> QED  BY <1>7, <2>3, <2>4, <2>5
  <1> QED  BY <1>1, <1>4, <1>5, <1>6, <1>7, ShownNext

LEMMA OpenedNext ==
    ASSUME FilesHyp, HeldInv', TypeOK', OpenedInv, [Next]_vars
    PROVE  OpenedInv'
  <1>0. /\ TypeOK /\ VisibleInv /\ stream' = stream /\ ino \in [Entries -> Inodes]
        /\ \A i \in Entries : ino[i] # 0 => ino[i] \in Entries /\ ino'[i] = ino[i]
    BY FileFacts
  <1>1. ASSUME net' \in {"begin"} \cup Feeding PROVE ino'[item'] # 0
    <2>1. \/ UNCHANGED <<net, item>>
          \/ net = "create" /\ net' = "begin" /\ item' = item
          \/ net \in {"begin"} \cup Feeding /\ item' = item
      BY <1>0, <1>1, NetMoves DEF NetClosed, Feeding
    <2>2. CASE net' = "begin"
      <3>1. item' \in Held'  BY <2>2 DEF Held, Owned, NetOwns
      <3> QED  BY <3>1 DEF HeldInv
    <2>3. CASE net \in {"begin"} \cup Feeding /\ item' = item
      <3>1. ino[item] # 0 /\ item \in Entries
        BY <1>0, <2>3, MeFacts DEF OpenedInv, Feeding
      <3> QED  BY <1>0, <2>3, <3>1
    <2> QED  BY <1>1, <2>1, <2>2, <2>3
  <1>2. ASSUME writer' = "register" PROVE ~InPlace(cur)'
    <2>1. cur' = cur /\ ~InPlace(cur)  BY <1>2, ComesToRename DEF OpenedInv
    <2> QED  BY <1>0, <2>1 DEF InPlace
  <1> QED  BY <1>1, <1>2 DEF OpenedInv

\* No other entry has the name of one that is written in place.
LongNamesOnce == \A i \in Entries : Own(i)

\* Names the stream uses for one thing only.
Tidy == NoKindClash /\ LongNamesOnce

Complete(i) == Len(disk[i]) = stream[i].size /\ (Verify => disk[i] = Payload(i))

\* The writer renamed entry i.
Renamed(i) == i \notin Held \/ (i = cur /\ writer = "register")

DirFits(i) == stream[i].kind = "Dir" =>
    /\ dest[stream[i].name] \in {Absent, Dir}
    /\ Passed(i) => dest[stream[i].name] = Dir

\* A symlink is there until a later entry of its name comes up.
LinkFits(i) == stream[i].kind = "Symlink" /\ Passed(i) =>
    \/ \E k \in Entries : k > i /\ k <= item /\ stream[k].name = stream[i].name
    \/ dest[stream[i].name] = Link(i)

\* A file written in place is there from its creation, and whole once nobody
\* holds it; a renamed one is there, or a later one of its name.
FileFits(i) ==
    /\ stream[i].kind = "File" /\ Passed(i) => ino[i] # 0
    /\ InPlace(i) /\ ino[i] # 0 =>
         dest[stream[i].name] = File(i) /\ (i \notin Held => Complete(i))
    /\ ~InPlace(i) /\ ino[i] # 0 /\ Renamed(i) =>
         dest[stream[i].name].kind = "file" /\ dest[stream[i].name].of >= i

TreeInv == Tidy /\ NoFailure => \A i \in Entries : DirFits(i) /\ LinkFits(i) /\ FileFits(i)

\* What it is proved from.
TreeHyp == AckHyp /\ PreviousOrComplete /\ OrderInv /\ OpenedInv

LEMMA TreeFacts ==
    ASSUME TreeHyp
    PROVE  /\ LineHyp /\ FilesHyp /\ TypeOK /\ EntryInv /\ InodeInv /\ VisibleInv /\ HeldInv
           /\ Held \subseteq Entries /\ item \in Nat /\ cur \in Nat
           /\ dest \in [Names -> Node] /\ ino \in [Entries -> Inodes]
           /\ disk \in [Entries -> Seq(Nat)]
           /\ \A i \in Entries : stream[i].name \in Names /\ i \in Nat \ {0}
           /\ cur # 0 => cur \in Held /\ cur \in Entries /\ ino[cur] # 0
  <1>1. LineHyp /\ FilesHyp /\ TypeOK /\ EntryInv /\ InodeInv /\ VisibleInv /\ HeldInv
    BY LineTyped DEF TreeHyp, AckHyp, LineHyp, FilesHyp, FilesInv
  <1>2. /\ Held \subseteq Entries /\ item \in Nat /\ cur \in Nat
        /\ dest \in [Names -> Node] /\ ino \in [Entries -> Inodes]
        /\ disk \in [Entries -> Seq(Nat)] /\ OfferType
    BY <1>1, HeldTyped DEF TypeOK, NetType, WriterType, FileType
  <1>3. \A i \in Entries : stream[i].name \in Names /\ i \in Nat \ {0}
    <2>1. \A i \in Entries : i \in Nat \ {0}  BY DEF Entries
    <2> QED  BY <1>2, <2>1, HereIsDir
  <1>4. cur # 0 => cur \in Held /\ cur \in Entries /\ ino[cur] # 0
    BY <1>1, <1>2 DEF Held, HeldInv
  <1> QED  BY <1>1, <1>2, <1>3, <1>4

(* What a step that fails nothing does to a name, and for which entry.     *)
LEMMA NameMoves ==
    ASSUME TreeHyp, TypeOK', [Next]_vars, NoFailure', NEW n \in Names
    PROVE  \/ dest'[n] = dest[n]
           \/ dest[n] = Absent /\ dest'[n] = Dir
           \/ \E j \in Entries :
                /\ stream[j].name = n /\ j = item /\ item' = item
                /\ \/ stream[j].kind = "Symlink" /\ net \in {"unlink", "symlink"}
                   \/ CreateInPlace /\ net = "create" /\ stream[j].kind = "File" /\ InPlace(j)
           \/ /\ RenameFile /\ ~InPlace(cur) /\ cur \in Entries /\ stream[cur].kind = "File"
              /\ stream[cur].name = n /\ dest'[n] = File(cur)
  <1>0. /\ FilesHyp /\ TypeOK /\ EntryInv /\ InodeInv /\ VisibleInv /\ dest \in [Names -> Node]
        /\ cur # 0 => cur \in Entries /\ ino[cur] # 0
    BY TreeFacts
  <1>1. FineStep  BY NothingDropped DEF TreeHyp
  <1>2. CASE \E p \in Names : dest[p] = Absent /\ dest' = [dest EXCEPT ![p] = Dir]
    BY <1>0, <1>2
  <1>3. CASE UnlinkForSymlink \/ MakeSymlink
    <2>1. /\ net \in {"unlink", "symlink"} /\ item' = item
          /\ dest' = dest \/ \E v : dest' = [dest EXCEPT ![Me.name] = v]
      BY <1>3 DEF UnlinkForSymlink, MakeSymlink
    <2>2. item \in Entries /\ Me = stream[item] /\ Me.kind = "Symlink"
      BY <1>0, <2>1, MeFacts DEF EntryInv, Me
    <2>3. n # Me.name => dest'[n] = dest[n]  BY <1>0, <2>1
    <2> QED  BY <2>1, <2>2, <2>3
  <1>4. CASE CreateInPlace /\ net' = "begin"
    <2>1. /\ item \in Entries /\ InPlace(item) /\ Me = stream[item] /\ net = "create"
          /\ item' = item
          /\ \E node : dest' = [dest EXCEPT ![Me.name] = File(node)]
      BY <1>0, <1>4, InPlaceFacts
    <2>2. Me.kind = "File"  BY <1>0, <2>1 DEF EntryInv
    <2>3. n # Me.name => dest'[n] = dest[n]  BY <1>0, <2>1
    <2> QED  BY <1>4, <2>1, <2>2, <2>3
  <1>5. CASE RenameFile /\ ~InPlace(cur)
    <2>1. cur # 0  BY <1>0, <1>5 DEF RenameFile, TypeOK, WriterType
    <2>2. cur \in Entries /\ ino[cur] = cur /\ stream[cur].kind = "File"
      BY <1>0, <1>5, <2>1 DEF InodeInv
    <2>3. dest' = [dest EXCEPT ![stream[cur].name] = File(cur)]
      BY <1>5, <2>2 DEF RenameFile
    <2> QED  BY <1>0, <1>5, <2>2, <2>3
  <1>6. CASE dest' = dest  BY <1>6
  <1>7. ~LosesInPlace  BY DEF LosesInPlace, NetReturns, NoFailure
  <1> QED
    BY <1>1, <1>2, <1>3, <1>4, <1>5, <1>6, <1>7 DEF FineStep, CreateScratch, WriteData

LEMMA TidyFacts ==
    ASSUME TreeHyp, Tidy
    PROVE  /\ \A i, j \in Entries : stream[i].name = stream[j].name =>
                /\ stream[i].kind = stream[j].kind
                /\ InPlace(i) => i = j
           /\ \A i \in Entries :
                stream[i].kind = "File" /\ ~InPlace(i) => OnlyRenamed(stream[i].name)
  <1>1. \A i, j \in Entries : stream[i].name = stream[j].name => stream[i].kind = stream[j].kind
    BY DEF Tidy, NoKindClash
  <1>2. \A i, j \in Entries : stream[i].name = stream[j].name /\ InPlace(i) => i = j
    BY DEF Tidy, LongNamesOnce, Own, Only, Entries
  <1>3. ASSUME NEW i \in Entries, stream[i].kind = "File", ~InPlace(i)
        PROVE  OnlyRenamed(stream[i].name)
    BY <1>1, <1>2, <1>3 DEF OnlyRenamed
  <1> QED  BY <1>1, <1>2, <1>3

LEMMA DirNext ==
    ASSUME TreeHyp, TypeOK', [Next]_vars, NoFailure', Tidy, NEW i \in Entries, DirFits(i)
    PROVE  DirFits(i)'
  <1>0. /\ stream' = stream /\ dest \in [Names -> Node] /\ TypeOK /\ EntryInv
        /\ stream[i].name \in Names
    BY OfferFrozen, TreeFacts
  <1> DEFINE n == stream[i].name
  <1> SUFFICES ASSUME stream[i].kind = "Dir"
               PROVE  dest'[n] \in {Absent, Dir} /\ (Passed(i)' => dest'[n] = Dir)
    BY <1>0 DEF DirFits
  <1>1. dest[n] \in {Absent, Dir} /\ (Passed(i) => dest[n] = Dir)  BY DEF DirFits
  <1>2. \/ dest'[n] = dest[n]
        \/ dest[n] = Absent /\ dest'[n] = Dir
    <2>1. \A j \in Entries : stream[j].name = n => stream[j].kind = "Dir"
      BY TidyFacts
    <2> QED  BY <1>0, <2>1, NameMoves
  <1>3. Absent # Dir  BY DEF Absent, Dir
  <1>4. ASSUME Passed(i)', ~Passed(i) PROVE dest'[n] = Dir
    <2>1. i = item /\ (MakeDir \/ MakeSymlink \/ net = "endfile")
      BY <1>4, PassedNext DEF TreeHyp
    <2>2. MakeDir
      BY <1>0, <2>1 DEF EntryInv, MakeSymlink, Me
    <2>3. dest' = [dest EXCEPT ![n] = IF @ = Absent THEN Dir ELSE @]
      BY <2>1, <2>2 DEF MakeDir, Me, NetReturns, NoFailure
    <2> QED  BY <1>0, <1>1, <2>3
  <1> QED  BY <1>1, <1>2, <1>3, <1>4

LEMMA LinkNext ==
    ASSUME TreeHyp, TypeOK', [Next]_vars, NoFailure', Tidy, NEW i \in Entries, LinkFits(i)
    PROVE  LinkFits(i)'
  <1>0. /\ stream' = stream /\ Entries' = Entries /\ dest \in [Names -> Node] /\ TypeOK /\ EntryInv
        /\ stream[i].name \in Names /\ item \in Nat /\ \A k \in Entries : k \in Nat
    BY OfferFrozen, TreeFacts DEF Entries
  <1> DEFINE n == stream[i].name
             Over(m) == \E k \in Entries : k > i /\ k <= m /\ stream[k].name = n
  <1> SUFFICES ASSUME stream[i].kind = "Symlink", Passed(i)', ~Over(item')
               PROVE  dest'[n] = Link(i)
    BY <1>0 DEF LinkFits
  <1>1. item' \in Nat /\ item' >= item
    BY <1>0, NetMoves
  <1>2. ~Over(item)  BY <1>0, <1>1
  <1>3. \A j \in Entries : stream[j].name = n => stream[j].kind = "Symlink"
    BY TidyFacts
  <1>4. CASE Passed(i)
    <2>1. dest[n] = Link(i)  BY <1>2, <1>4 DEF LinkFits
    <2>2. Link(i) # Absent  BY DEF Link, Absent
    <2>3. ~\E j \in Entries : stream[j].name = n /\ j = item /\ net \in {"unlink", "symlink"}
      <3> SUFFICES ASSUME item \in Entries, stream[item].name = n, net \in {"unlink", "symlink"}
                   PROVE  FALSE
        OBVIOUS
      <3>1. i < item  BY <1>4 DEF Passed
      <3> QED  BY <1>0, <1>2, <3>1
    <2> QED  BY <1>0, <1>3, <2>1, <2>2, <2>3, NameMoves
  <1>5. CASE ~Passed(i)
    <2>1. /\ i = item
          /\ \/ MakeDir \/ net = "endfile"
             \/ MakeSymlink /\ dest' = [dest EXCEPT ![Me.name] = Link(item)]
      BY <1>5, PassedNext DEF TreeHyp
    <2>2. dest' = [dest EXCEPT ![n] = Link(i)]
      BY <1>0, <2>1 DEF EntryInv, MakeDir, Me
    <2> QED  BY <1>0, <2>2
  <1> QED  BY <1>4, <1>5

(* A file that nobody holds, and whose name no other entry writes to in    *)
(* place, keeps its contents.                                              *)
LEMMA Untouched ==
    ASSUME TreeHyp, TypeOK', [Next]_vars, NoFailure', Tidy,
           NEW i \in Entries, ino[i] # 0, InPlace(i), i \notin Held
    PROVE  disk'[i] = disk[i]
  <1>0. /\ FilesHyp /\ TypeOK /\ EntryInv /\ InodeInv /\ VisibleInv /\ HeldInv
        /\ disk \in [Entries -> Seq(Nat)] /\ ino \in [Entries -> Inodes]
        /\ cur # 0 => cur \in Held /\ cur \in Entries /\ ino[cur] # 0
    BY TreeFacts
  <1>1. FineStep  BY NothingDropped DEF TreeHyp
  <1>2. \A j \in Entries : stream[j].name = stream[i].name => j = i  BY TidyFacts
  <1>3. CASE CreateInPlace /\ net' = "begin"
    <2>1. /\ item \in Entries /\ Me = stream[item] /\ net = "create" /\ Me.name \in Names
          /\ \E node \in Entries :
               /\ node = item \/ (dest[Me.name].kind = "file" /\ node = dest[Me.name].of)
               /\ disk' = [disk EXCEPT ![node] = <<>>]
      BY <1>0, <1>3, InPlaceFacts
    <2>2. PICK node \in Entries :
            /\ node = item \/ (dest[Me.name].kind = "file" /\ node = dest[Me.name].of)
            /\ disk' = [disk EXCEPT ![node] = <<>>]
      BY <2>1
    <2>3. stream[node].name = stream[item].name
      BY <1>0, <2>1, <2>2 DEF VisibleInv, Entries
    <2>4. ino[item] = 0  BY <1>0, <2>1 DEF EntryInv
    <2>5. node # i  BY <1>2, <2>1, <2>3, <2>4
    <2> QED  BY <1>0, <2>2, <2>5
  <1>4. CASE WriteData /\ cur # 0
    <2>1. disk' = [disk EXCEPT ![ino[cur]] = WriteAt(@, off, Head(q2).data)]
      BY <1>4 DEF WriteData
    <2>2. stream[ino[cur]].name = stream[cur].name  BY <1>0, <1>4 DEF InodeInv
    <2>3. ino[cur] # i  BY <1>0, <1>2, <1>4, <2>2
    <2> QED  BY <1>0, <2>1, <2>3
  <1>5. CASE disk' = disk  BY <1>5
  <1> QED
    BY <1>1, <1>3, <1>4, <1>5 DEF FineStep, LosesInPlace, UnlinkForSymlink, MakeSymlink,
       CreateScratch, RenameFile

LEMMA PlaceNext ==
    ASSUME TreeHyp, TypeOK', [Next]_vars, NoFailure', Tidy, NEW i \in Entries, FileFits(i),
           InPlace(i), ino'[i] # 0
    PROVE  dest'[stream[i].name] = File(i) /\ (i \notin Held' => Complete(i)')
  <1>0. /\ LineHyp /\ FilesHyp /\ TypeOK /\ EntryInv /\ VisibleInv /\ stream' = stream
        /\ dest \in [Names -> Node] /\ ino \in [Entries -> Inodes]
        /\ stream[i].name \in Names
    BY OfferFrozen, TreeFacts
  <1>1. \A j \in Entries : stream[j].name = stream[i].name => j = i  BY TidyFacts
  <1>2. Payload(i)' = Payload(i)  BY <1>0 DEF Payload
  <1> DEFINE n == stream[i].name
  <1>3. CASE ino[i] = 0
    <2>1. i = item /\ net = "create" /\ net' = "begin" /\ item' = item
      BY <1>0, <1>3, InoNext, FileFacts
    <2>2. CreateInPlace
      BY <2>1, Creates DEF CreateScratch, InPlace, Me
    <2>3. /\ Me = stream[item]
          /\ \E node \in Entries :
               /\ node = item \/ (dest[Me.name].kind = "file" /\ node = dest[Me.name].of)
               /\ dest' = [dest EXCEPT ![Me.name] = File(node)]
      BY <1>0, <2>1, <2>2, InPlaceFacts
    <2>4. PICK node \in Entries :
            /\ node = i \/ (dest[n].kind = "file" /\ node = dest[n].of)
            /\ dest' = [dest EXCEPT ![n] = File(node)]
      BY <2>1, <2>3
    <2>5. node = i  BY <1>0, <1>1, <2>4 DEF VisibleInv, Entries
    <2>6. i \in Held'  BY <2>1 DEF Held, Owned, NetOwns
    <2> QED  BY <1>0, <2>4, <2>5, <2>6
  <1>4. CASE ino[i] # 0
    <2>1. dest[n] = File(i) /\ (i \notin Held => Complete(i))  BY <1>4 DEF FileFits
    <2>2. dest'[n] = File(i)
      <3>1. File(i) # Absent  BY DEF File, Absent
      <3>2. stream[i].kind = "File"  BY <1>0, <1>4 DEF FilesHyp, FilesInv, InodeInv
      <3>3. net = "create" => ino[item] = 0  BY <1>0 DEF EntryInv
      <3> QED  BY <1>0, <1>1, <1>4, <2>1, <3>1, <3>2, <3>3, NameMoves
    <2>3. ASSUME i \notin Held' PROVE Complete(i)'
      <3>1. CASE i \notin Held
        <4>1. disk'[i] = disk[i]  BY <1>4, <3>1, Untouched
        <4> QED  BY <1>0, <1>2, <2>1, <3>1, <4>1 DEF Complete
      <3>2. CASE i \in Held
        <4>1. i = cur /\ cur # 0 /\ RenameFile
          <5>1. writer = "register" => ~InPlace(cur)  BY DEF TreeHyp, OpenedInv
          <5> QED  BY <2>3, <3>2, <5>1, HeldStays DEF TreeHyp, RegisterFile
        <4>2. PICK w, x, h, m : Line(w, x, h, m)  BY <1>0 DEF LineHyp, ChainInv
        <4>3. writer = "rename" /\ disk' = disk  BY <4>1 DEF RenameFile
        <4>4. Own(i)  BY DEF Tidy, LongNamesOnce
        <4>5. w.of = i /\ disk[i] = w.got /\ Whole(stream, w)
          BY <4>1, <4>2, <4>3, <4>4 DEF Line, WriterAt
        <4>6. Len(disk[i]) = stream[i].size /\ (Verify => disk[i] = Payload(i))
          BY <4>5 DEF Whole, Payload
        <4> QED  BY <1>0, <1>2, <4>3, <4>6 DEF Complete
      <3> QED  BY <3>1, <3>2
    <2> QED  BY <2>2, <2>3
  <1> QED  BY <1>3, <1>4

LEMMA RenamedNext ==
    ASSUME TreeHyp, TypeOK', [Next]_vars, NoFailure', Tidy, NEW i \in Entries, FileFits(i),
           ~InPlace(i), ino'[i] # 0, Renamed(i)'
    PROVE  dest'[stream[i].name].kind = "file" /\ dest'[stream[i].name].of >= i
  <1>0. /\ FilesHyp /\ TypeOK /\ InodeInv /\ VisibleInv
        /\ dest \in [Names -> Node] /\ ino \in [Entries -> Inodes]
        /\ stream[i].name \in Names /\ i \in Nat \ {0} /\ cur \in Nat
        /\ cur # 0 => cur \in Held /\ ino[cur] # 0
    BY TreeFacts
  <1> DEFINE n == stream[i].name
  <1>1. ino[i] # 0
    <2> SUFFICES ASSUME ino[i] = 0 PROVE FALSE  OBVIOUS
    <2>1. i = item /\ net = "create" /\ net' = "begin" /\ item' = item
      BY <1>0, InoNext, FileFacts
    <2>2. i \in Held'  BY <2>1 DEF Held, Owned, NetOwns
    <2>3. cur' = cur  BY <2>1, Creates DEF CreateScratch, CreateInPlace, writerVars
    <2>4. i # cur'  BY <1>0, <2>3
    <2> QED  BY <2>2, <2>4 DEF Renamed
  <1>2. stream[i].kind = "File" /\ ino[i] = i  BY <1>0, <1>1 DEF InodeInv
  <1>3. CASE Renamed(i)
    <2>1. dest[n].kind = "file" /\ dest[n].of >= i  BY <1>1, <1>3 DEF FileFits
    <2>2. \/ dest'[n] = dest[n]
          \/ RenameFile /\ cur \in Entries /\ dest'[n] = File(cur)
      <3>1. \A j \in Entries : stream[j].name = n => stream[j].kind = "File" /\ ~InPlace(j)
        BY <1>2, TidyFacts
      <3>2. dest[n] # Absent  BY <2>1 DEF Absent
      <3> QED  BY <1>0, <3>1, <3>2, NameMoves
    <2>3. CASE RenameFile /\ cur \in Entries /\ dest'[n] = File(cur)
      <3>1. cur # 0  BY <1>0, <2>3 DEF RenameFile, TypeOK, WriterType
      <3>2. OnlyRenamed(n)  BY <1>2, TidyFacts
      <3>3. dest[n].of <= cur  BY <1>0, <3>1, <3>2 DEF TreeHyp, OrderInv
      <3>4. dest[n].of \in Nat
        <4>1. dest[n] \in Node  BY <1>0
        <4> QED  BY <4>1 DEF Node
      <3>5. cur >= i  BY <1>0, <2>1, <3>3, <3>4
      <3> QED  BY <2>3, <3>5 DEF File
    <2> QED  BY <2>1, <2>2, <2>3
  <1>4. CASE ~Renamed(i)
    <2>1. i \in Held /\ ~(i = cur /\ writer = "register")  BY <1>4 DEF Renamed
    <2>2. i \in Held'
      <3> SUFFICES ASSUME i \notin Held' PROVE FALSE  OBVIOUS
      <3>1. i = cur /\ (RegisterFile \/ InPlace(cur))  BY <2>1, HeldStays DEF TreeHyp
      <3> QED  BY <2>1, <3>1 DEF RegisterFile
    <2>3. i = cur' /\ writer' = "register"  BY <2>2 DEF Renamed
    <2>4. i = cur /\ RenameFile  BY <2>1, <2>3, ComesToRename
    <2>5. dest' = [dest EXCEPT ![n] = File(i)]  BY <1>2, <2>4 DEF RenameFile
    <2>6. dest'[n] = File(i)  BY <1>0, <2>5
    <2> QED  BY <1>0, <2>6 DEF File
  <1> QED  BY <1>3, <1>4

LEMMA TreeNext ==
    ASSUME TreeHyp, TypeOK', TreeInv, [Next]_vars
    PROVE  TreeInv'
  <1>0. /\ stream' = stream /\ before' = before /\ Entries' = Entries
        /\ \A i \in Entries : InPlace(i)' = InPlace(i) /\ Own(i)' = Own(i)
    BY OfferFrozen DEF Entries, InPlace, Own
  <1>1. Tidy' => Tidy  BY <1>0 DEF Tidy, NoKindClash, LongNamesOnce
  <1> SUFFICES ASSUME Tidy, NoFailure', NEW i \in Entries
               PROVE  DirFits(i)' /\ LinkFits(i)' /\ FileFits(i)'
    BY <1>0, <1>1 DEF TreeInv
  <1>2. NoFailure  BY NothingDropped DEF TreeHyp
  <1>3. DirFits(i) /\ LinkFits(i) /\ FileFits(i)  BY <1>2 DEF TreeInv
  <1>4. DirFits(i)' /\ LinkFits(i)'  BY <1>3, DirNext, LinkNext
  <1>5. ASSUME stream[i].kind = "File", Passed(i)' PROVE ino'[i] # 0
    <2>1. TypeOK /\ EntryInv /\ FilesHyp  BY TreeFacts
    <2>2. ino[i] # 0
      <3>1. Passed(i) => ino[i] # 0  BY <1>3, <1>5 DEF FileFits
      <3>2. CASE ~Passed(i)
        <4>1. i = item /\ (MakeDir \/ MakeSymlink \/ net = "endfile")
          BY <1>5, <3>2, PassedNext DEF TreeHyp
        <4>2. net = "endfile"
          BY <1>5, <2>1, <4>1 DEF EntryInv, MakeDir, MakeSymlink, Me
        <4> QED  BY <4>1, <4>2 DEF TreeHyp, OpenedInv, Feeding
      <3> QED  BY <3>1, <3>2
    <2> QED  BY <2>1, <2>2, FileFacts
  <1>6. FileFits(i)'
    BY <1>0, <1>3, <1>5, PlaceNext, RenamedNext DEF FileFits
  <1> QED  BY <1>4, <1>6

LEMMA TreeAlways == Spec => [](TreeHyp /\ TreeInv)
  <1>1. Init => PreviousOrComplete /\ OrderInv /\ OpenedInv /\ TreeInv
    <2> SUFFICES ASSUME Init
                 PROVE  PreviousOrComplete /\ OrderInv /\ OpenedInv /\ TreeInv
      OBVIOUS
    <2>1. OfferType /\ dest = before /\ item = 0 /\ net = "open" /\ writer = "recv"
          /\ ino = [i \in Entries |-> 0]
      BY DEF Init, OfferType
    <2>2. Held = {}
      BY BeginsEmpty DEF Init, Held, Owned, NetOwns, WriterOwns
    <2>3. PreviousOrComplete /\ OrderInv /\ OpenedInv
      BY <2>1, <2>2 DEF Init, PreviousOrComplete, OrderInv, OpenedInv, Feeding
    <2>4. ASSUME Tidy, NEW i \in Entries PROVE DirFits(i) /\ LinkFits(i) /\ FileFits(i)
      <3>1. ~Passed(i)  BY <2>1 DEF Passed, Entries
      <3>2. DirFits(i)  BY <2>1, <2>4, <3>1 DEF DirFits, Tidy, NoKindClash
      <3>3. LinkFits(i) /\ FileFits(i)  BY <2>1, <3>1 DEF LinkFits, FileFits
      <3> QED  BY <3>2, <3>3
    <2> QED  BY <2>3, <2>4 DEF TreeInv
  <1>2. AckHyp /\ TypeOK' /\ PreviousOrComplete /\ OrderInv /\ OpenedInv
          /\ [Next]_vars
          => PreviousOrComplete' /\ OrderInv'
    <2>1. AckHyp => LineHyp  BY DEF AckHyp
    <2> QED  BY <2>1, PreviousNext, OrderNext
  <1>3. AckHyp /\ AckHyp' /\ TypeOK' /\ OpenedInv /\ [Next]_vars => OpenedInv'
    <2>1. AckHyp => FilesHyp /\ HeldInv  BY DEF AckHyp, LineHyp, FilesHyp, FilesInv
    <2>2. AckHyp' => HeldInv'  BY DEF AckHyp, LineHyp, FilesHyp, FilesInv
    <2> QED  BY <2>1, <2>2, OpenedNext
  <1>4. TreeHyp /\ TypeOK' /\ TreeInv /\ [Next]_vars => TreeInv'
    BY TreeNext
  <1> QED  BY <1>1, <1>2, <1>3, <1>4, AckAlways, PTL DEF Spec, TreeHyp

LEMMA WrittenAtAck ==
    ASSUME TreeHyp, TreeInv, LongNamesOnce, acked, NoKindClash, NEW i \in Entries, LastOfName(i)
    PROVE  Written(i)
  <1>0. /\ TypeOK /\ InodeInv /\ dest \in [Names -> Node] /\ OfferType
        /\ stream[i].name \in Names /\ i \in Nat \ {0} /\ Len(stream) \in Nat
    BY TreeFacts, StreamFacts DEF TypeOK
  <1>1. /\ Held = {} /\ net = "done" /\ NoFailure /\ item = Len(stream) /\ Tidy
    BY NothingHeld DEF TreeHyp, AckHyp, EndInv, Tidy
  <1>2. Passed(i)  BY <1>0, <1>1 DEF Passed, Entries
  <1>3. DirFits(i) /\ LinkFits(i) /\ FileFits(i)  BY <1>1 DEF TreeInv
  <1>4. \A k \in Entries : stream[k].name = stream[i].name => k \in Nat /\ ~(k > i)
    BY <1>0 DEF LastOfName, Entries
  <1>5. CASE stream[i].kind = "Dir"  BY <1>2, <1>3, <1>5 DEF DirFits, Written
  <1>6. CASE stream[i].kind = "Symlink"
    BY <1>2, <1>3, <1>4, <1>6 DEF LinkFits, Written
  <1>7. CASE stream[i].kind = "File"
    <2> DEFINE n == stream[i].name
    <2>1. ino[i] # 0  BY <1>2, <1>3, <1>7 DEF FileFits
    <2>2. dest[n] = File(i) /\ Complete(i)
      <3>1. CASE InPlace(i)  BY <1>1, <1>3, <2>1, <3>1 DEF FileFits
      <3>2. CASE ~InPlace(i)
        <4>1. dest[n].kind = "file" /\ dest[n].of >= i
          BY <1>1, <1>3, <2>1, <3>2 DEF FileFits, Renamed
        <4>2. OnlyRenamed(n)  BY <1>1, <1>7, <3>2, TidyFacts
        <4>3. dest[n] # before[n] /\ dest[n] # Dir
          <5>1. before[n].of = 0  BY <1>0, StreamFacts
          <5> QED  BY <1>0, <4>1, <5>1 DEF Dir
        <4>4. PICK j \in Entries :
                /\ stream[j].name = n /\ dest[n] = File(j)
                /\ Len(disk[j]) = stream[j].size
                /\ Verify => disk[j] = Payload(j)
          BY <1>0, <4>2, <4>3 DEF TreeHyp, PreviousOrComplete
        <4>5. j = i
          <5>1. j >= i  BY <4>1, <4>4 DEF File
          <5> QED  BY <1>0, <1>4, <4>4, <5>1
        <4> QED  BY <4>4, <4>5 DEF Complete
      <3> QED  BY <3>1, <3>2
    <2> QED  BY <1>7, <2>2 DEF Written, Complete, File
  <1> QED  BY <1>0, <1>5, <1>6, <1>7, HereIsDir

(* When no name that is written in place is used twice, the ACK byte       *)
(* exists only once every entry is in the tree, the last one of a name     *)
(* with its whole payload: "only now is every byte committed"              *)
(* (receive_entries).  A renamed name needs no such condition, for the     *)
(* writer takes the files in the order of the stream.                      *)
THEOREM AckIsWritten == Spec => [](LongNamesOnce => AckMeansWritten)
  <1>1. TreeHyp /\ TreeInv => (LongNamesOnce => AckMeansWritten)
    BY WrittenAtAck DEF AckMeansWritten
  <1> QED  BY <1>1, TreeAlways, PTL
=============================================================================
