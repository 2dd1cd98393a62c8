---------------------------- MODULE RecvPipeline ----------------------------
(***************************************************************************)
(* The receiving end of one flow: Receiver::receive_entries with its       *)
(* run_pipeline, read_entries, pump_file, hash_loop and write_loop.        *)
(*                                                                         *)
(* Three threads work on one entry stream.  The network thread decodes     *)
(* entries, makes directories and symlinks itself, and hands a file's      *)
(* bytes down two bounded channels: to the hash stage (when the session    *)
(* verifies), and from there to the writer.  The writer owns a file from   *)
(* its Begin to its EndFile and is the only thread that renames one into   *)
(* place.  Buffers come from a pool the writer refills.                    *)
(*                                                                         *)
(* An entry is named by its index in the stream, and so is its payload: a  *)
(* unit of entry i's payload is the number i, and 0 is a unit that differs *)
(* from what the sender hashed.  An inode is named by the entry that       *)
(* created it; 0 is the inode a name had before the session.               *)
(*                                                                         *)
(* A definition marked "Variation" is not part of the system: it is the    *)
(* definition after it with a plausible mistake, kept to show that a       *)
(* property depends on the code being as it is.                            *)
(***************************************************************************)
EXTENDS Integers, Sequences, FiniteSets

CONSTANTS
    Names,      \* names of destination entries
    Root,       \* the destination root, a directory that is always there
    Parent,     \* the directory each name lives in: Root, or a name in Root
    Streams,    \* the entry lists a sender may offer on this flow
    Trees,      \* the trees the destination may hold at the start
    Depth,      \* queue_depth(): capacity of each channel, buffers in the pool
    Chunk,      \* capacity of one buffer, in payload units
    Verify,     \* the handshake did not carry FLAG_NO_VERIFY
    Durable     \* tf recv --durable

Dirs    == Names \cup {Root}
Absent  == [kind |-> "absent", of |-> 0]
Dir     == [kind |-> "dir",    of |-> 0]
Link(i) == [kind |-> "link",   of |-> i]
File(i) == [kind |-> "file",   of |-> i]

Entry == [kind : {"Dir", "Symlink", "File"}, name : Names, size : Nat, long : BOOLEAN]
Node  == [kind : {"absent", "dir", "link", "file"}, of : Nat]

\* queue_depth() is clamped to 1..64 and CHUNK is positive; every name is in the
\* root after finitely many parents; a tree found at the start holds no entry of
\* this session.
ASSUME PipelineAssumption ==
    /\ Root \notin Names
    /\ Parent \in [Names -> Dirs]
    /\ \A S \in SUBSET Names : S # {} => \E n \in S : Parent[n] \notin S
    /\ Streams \subseteq Seq(Entry)
    /\ Trees \subseteq [Names -> {Absent, Dir, Link(0), File(0)}]
    /\ Depth \in Nat \ {0}
    /\ Chunk \in Nat \ {0}
    /\ Verify \in BOOLEAN
    /\ Durable \in BOOLEAN

\* A name found at the start is in a directory.
ASSUME TreeAssumption ==
    \A t \in Trees, n \in Names : Parent[n] # Root /\ t[n] # Absent => t[Parent[n]] = Dir

VARIABLES
    stream,     \* the entries this sender offers
    before,     \* the destination tree found at the start
    net,        \* where the network thread is
    item,       \* the entry it works on; 0 before the first
    left,       \* payload units it has still to read
    buf,        \* the payload in the buffer it holds
    received,   \* what read_entries returned
    hash,       \* is the hash stage running
    hand,       \* the message it holds between recv and send
    sum,        \* the payload units it hashed since the last reset
    reply,      \* the digest channel of the pending Finish
    writer,     \* where the writer thread is
    cur,        \* the writer's InFlight, by entry; 0 is None
    off,        \* that file's write offset
    written,    \* what write_loop returned
    q1, q2,     \* net -> hash and (hash or net) -> writer channels
    pool,       \* buffers waiting in the pool
    scratch,    \* entries whose scratch file exists
    dest,       \* what each destination name holds
    ino,        \* inode each entry's descriptor is open on
    disk,       \* contents of each inode
    synced,     \* inodes whose contents and mtime are on permanent storage
    changed,    \* directories that received an entry (history)
    reg,        \* directories in the DirRegistry
    flushed,    \* directories flush_all has fsynced
    outcome,    \* what the session returned
    acked,      \* the ACK byte is on the wire
    fault       \* an I/O error has been reported to the session (history)

netVars    == <<net, item, left, buf, received>>
hashVars   == <<hash, hand, sum, reply>>
writerVars == <<writer, cur, off, written>>
chanVars   == <<q1, q2, pool>>
fileVars   == <<scratch, dest, ino, disk, synced>>
dirVars    == <<changed, reg, flushed>>
endVars    == <<outcome, acked>>
vars == <<stream, before, netVars, hashVars, writerVars, chanVars, fileVars,
          dirVars, endVars, fault>>

Entries  == 1 .. Len(stream)
Me       == stream[item]
Here     == Parent[Me.name]

\* The components of a name's path between the root and the name itself.
Above[n \in Names] == IF Parent[n] = Root THEN {} ELSE {Parent[n]} \cup Above[Parent[n]]

InPlace(i)      == stream[i].long
Payload(i)      == [k \in 1 .. stream[i].size |-> i]
MinOf(a, b)     == IF a <= b THEN a ELSE b
MaxOf(a, b)     == IF a >= b THEN a ELSE b

Msg(kind, i, data) == [kind |-> kind, of |-> i, data |-> data]

\* The InFlight values waiting in a channel.
Begins(q) == {q[k].of : k \in {j \in 1 .. Len(q) : q[j].kind = "Begin"}}

\* write_all of d through a descriptor at offset o: a hole reads as 0.
WriteAt(c, o, d) ==
    [k \in 1 .. MaxOf(Len(c), o + Len(d)) |->
        IF k > o /\ k <= o + Len(d) THEN d[k - o]
        ELSE IF k <= Len(c) THEN c[k] ELSE 0]

Init ==
    /\ stream \in Streams
    /\ before \in Trees
    /\ net = "open" /\ item = 0 /\ left = 0 /\ buf = <<>> /\ received = "none"
    /\ hash = IF Verify THEN "run" ELSE "gone"
    /\ hand = <<>> /\ sum = <<>> /\ reply = <<>>
    /\ writer = "recv" /\ cur = 0 /\ off = 0 /\ written = "none"
    /\ q1 = <<>> /\ q2 = <<>> /\ pool = Depth
    /\ scratch = {} /\ dest = before
    /\ ino = [i \in Entries |-> 0]
    /\ disk = [i \in Entries |-> <<>>]
    /\ synced = {}
    /\ changed = {}
    /\ reg = {}
    /\ flushed = {}
    /\ outcome = "none" /\ acked = FALSE /\ fault = FALSE

-----------------------------------------------------------------------------
(* What the threads share.                                                 *)

\* Variation of DropInFlight: no Drop, so nobody unlinks.
DropWithoutUnlink(I) == UNCHANGED fileVars

\* Drop for InFlight: every entry in I is dropped unfinished, so its name is
\* unlinked. A scratch name goes from scratch; a file written in place has its
\* real name removed, whatever is there now (unlinkat refuses a directory).
DropInFlight(I) ==
    /\ scratch' = scratch \ I
    /\ dest' = [n \in Names |->
                  IF /\ \E i \in I : InPlace(i) /\ stream[i].name = n
                     /\ dest[n] # Dir
                  THEN Absent ELSE dest[n]]
    /\ UNCHANGED <<ino, disk, synced>>

\* Variation of Register: the parent is not recorded.
RegisterNothing(d) == UNCHANGED reg

\* register_parent: a no-op unless the session is durable.
Register(d) == reg' = IF Durable THEN reg \cup {d} ELSE reg

\* read_entries returns why and entry_tx is dropped.
NetReturns(why) == net' = "join" /\ received' = why

NetClosed == net \in {"join", "flush", "ack", "done"}

\* Variation of NextStageGone: a stage that stopped keeps its receiver open.
NextStageKeepsReceiver == FALSE

\* The stage the network thread feeds has dropped its receiver.
NextStageGone == IF Verify THEN hash = "gone" ELSE writer = "gone"

\* Variation of Push: an unbounded channel.
PushUnbounded(m) ==
    /\ ~NextStageGone
    /\ IF Verify THEN q1' = Append(q1, m) /\ UNCHANGED q2
                 ELSE q2' = Append(q2, m) /\ UNCHANGED q1

\* tx.send(m) succeeds: the channel has room and its receiver is there.
Push(m) ==
    /\ ~NextStageGone
    /\ IF Verify
       THEN Len(q1) < Depth /\ q1' = Append(q1, m) /\ UNCHANGED q2
       ELSE Len(q2) < Depth /\ q2' = Append(q2, m) /\ UNCHANGED q1

\* Where the network thread goes when the payload has left units to come.
AfterPayload(rest) == IF rest > 0 THEN "pool" ELSE IF Verify THEN "finish" ELSE "endfile"

-----------------------------------------------------------------------------
(* The network thread.                                                     *)

\* read_entries opens the destination and owes its root a flush.
OpenDest ==
    /\ net = "open"
    /\ \/ net' = "decode" /\ Register(Root) /\ UNCHANGED <<received, fault>>
       \/ NetReturns("fs") /\ fault' = TRUE /\ UNCHANGED reg
    /\ UNCHANGED <<stream, before, item, left, buf, hashVars, writerVars, chanVars,
                   fileVars, changed, flushed, endVars>>

AfterHeader(kind) ==
    CASE kind = "Dir" -> "mkdir" [] kind = "Symlink" -> "target" [] kind = "File" -> "create"

\* Entry::decode gives the next header.
NextEntry ==
    /\ net = "decode" /\ item < Len(stream)
    /\ net' = "walk"
    /\ item' = item + 1
    /\ left' = stream[item + 1].size
    /\ UNCHANGED <<stream, before, buf, received, hashVars, writerVars, chanVars,
                   fileVars, dirVars, endVars, fault>>

\* ParentCache: the entry before lived in the same directory, and its descriptor
\* is still open.
Cached == item > 1 /\ Parent[stream[item - 1].name] = Here

\* walk_dirs from the root, at any depth. A missing component is made in the one
\* before, which nobody registers for it; one that is not a directory (a symlink
\* above all) or cannot be opened stops the session, and what was made stays.
WalkDirs ==
    /\ net = "walk"
    /\ \/ /\ Cached \/ (Here # Root => dest[Here] = Dir)
          /\ net' = AfterHeader(Me.kind)
          /\ UNCHANGED <<received, dest, changed, fault>>
       \/ /\ ~Cached
          /\ \E p \in Names :
               /\ p \in Above[Me.name] /\ dest[p] = Absent
               /\ Parent[p] # Root => dest[Parent[p]] = Dir
               /\ dest' = [dest EXCEPT ![p] = Dir]
               /\ changed' = changed \cup {Parent[p]}
          /\ UNCHANGED <<net, received, fault>>
       \/ /\ ~Cached
          /\ NetReturns("fs") /\ fault' = TRUE
          /\ UNCHANGED <<dest, changed>>
    /\ UNCHANGED <<stream, before, item, left, buf, hashVars, writerVars, chanVars,
                   scratch, ino, disk, synced, reg, flushed, endVars>>

\* Entry::decode meets the terminator.
EndOfStream ==
    /\ net = "decode" /\ item = Len(stream)
    /\ NetReturns("ok")
    /\ UNCHANGED <<stream, before, item, left, buf, hashVars, writerVars, chanVars,
                   fileVars, dirVars, endVars, fault>>

\* Variation of SocketFails: end of file in a payload is taken for its end.
EofEndsPayload ==
    /\ net \in {"decode", "target", "read", "check"}
    /\ IF net = "read" THEN net' = "endfile" /\ UNCHANGED <<received, fault>>
                       ELSE NetReturns("socket") /\ fault' = TRUE
    /\ UNCHANGED <<stream, before, item, left, buf, hashVars, writerVars, chanVars,
                   fileVars, dirVars, endVars>>

\* The peer hangs up, resets, or stays silent for IDLE_TIMEOUT wherever the
\* network thread reads the socket.
SocketFails ==
    /\ net \in {"decode", "target", "read", "check"}
    /\ NetReturns("socket")
    /\ fault' = TRUE
    /\ UNCHANGED <<stream, before, item, left, buf, hashVars, writerVars, chanVars,
                   fileVars, dirVars, endVars>>

\* A directory entry: an existing name of any kind is accepted (EEXIST). The
\* session fails when mkdir does, or when the parent cannot be registered.
MakeDir ==
    /\ net = "mkdir"
    /\ \/ /\ dest' = [dest EXCEPT ![Me.name] = IF @ = Absent THEN Dir ELSE @]
          /\ changed' = IF dest[Me.name] = Absent THEN changed \cup {Here} ELSE changed
          /\ \/ net' = "decode" /\ Register(Here) /\ UNCHANGED <<received, fault>>
             \/ Durable /\ NetReturns("fs") /\ fault' = TRUE /\ UNCHANGED reg
       \/ /\ NetReturns("fs") /\ fault' = TRUE
          /\ UNCHANGED <<dest, changed, reg>>
    /\ UNCHANGED <<stream, before, item, left, buf, hashVars, writerVars, chanVars,
                   scratch, ino, disk, synced, flushed, endVars>>

\* A symlink entry: its target is read and verified before anything is touched.
ReadTarget ==
    /\ net = "target"
    /\ \/ net' = "unlink" /\ UNCHANGED <<received, fault>>
       \/ Verify /\ NetReturns("digest") /\ fault' = TRUE
    /\ UNCHANGED <<stream, before, item, left, buf, hashVars, writerVars, chanVars,
                   fileVars, dirVars, endVars>>

\* Variation of UnlinkForSymlink: directories are removed too.
UnlinkAnything ==
    /\ net = "unlink"
    /\ dest' = [dest EXCEPT ![Me.name] = Absent]
    /\ net' = "symlink"
    /\ UNCHANGED <<stream, before, item, left, buf, received, hashVars, writerVars,
                   chanVars, scratch, ino, disk, synced, dirVars, endVars, fault>>

\* unlink_at before symlink_at; its result is ignored.
UnlinkForSymlink ==
    /\ net = "unlink"
    /\ dest' = [dest EXCEPT ![Me.name] = IF @ = Dir THEN @ ELSE Absent]
    /\ net' = "symlink"
    /\ UNCHANGED <<stream, before, item, left, buf, received, hashVars, writerVars,
                   chanVars, scratch, ino, disk, synced, dirVars, endVars, fault>>

\* symlink_at fails with EEXIST on whatever the unlink left, or the writer
\* renamed there meanwhile.
MakeSymlink ==
    /\ net = "symlink"
    /\ \/ /\ dest[Me.name] = Absent
          /\ dest' = [dest EXCEPT ![Me.name] = Link(item)]
          /\ changed' = changed \cup {Here}
          /\ \/ net' = "decode" /\ Register(Here) /\ UNCHANGED <<received, fault>>
             \/ Durable /\ NetReturns("fs") /\ fault' = TRUE /\ UNCHANGED reg
       \/ /\ NetReturns("fs") /\ fault' = TRUE
          /\ UNCHANGED <<dest, changed, reg>>
    /\ UNCHANGED <<stream, before, item, left, buf, hashVars, writerVars, chanVars,
                   scratch, ino, disk, synced, flushed, endVars>>

\* create_temp_file_at: a new inode under a scratch name.
CreateScratch ==
    /\ net = "create" /\ ~Me.long
    /\ scratch' = scratch \cup {item}
    /\ ino' = [ino EXCEPT ![item] = item]
    /\ net' = "begin"
    /\ UNCHANGED <<stream, before, item, left, buf, received, hashVars, writerVars,
                   chanVars, dest, disk, synced, dirVars, endVars, fault>>

\* create_file_at when the scratch name is too long: O_TRUNC on whatever file
\* has the real name (one of this session's, or the previous copy, taken as a
\* new inode); ELOOP on a symlink, EISDIR on a directory. A read-only file is
\* unlinked and made anew; when that fails too the old one is gone.
CreateInPlace ==
    /\ net = "create" /\ Me.long
    /\ \/ /\ dest[Me.name].kind \in {"absent", "file"}
          /\ \E fresh \in BOOLEAN :
               LET node == IF fresh \/ dest[Me.name].of = 0 THEN item ELSE dest[Me.name].of
               IN /\ ino' = [ino EXCEPT ![item] = node]
                  /\ disk' = [disk EXCEPT ![node] = <<>>]
                  /\ synced' = synced \ {node}
                  /\ dest' = [dest EXCEPT ![Me.name] = File(node)]
                  /\ changed' = IF fresh \/ dest[Me.name] = Absent
                                THEN changed \cup {Here} ELSE changed
          /\ net' = "begin"
          /\ UNCHANGED <<received, fault>>
       \/ /\ dest[Me.name].kind = "file"
          /\ dest' = [dest EXCEPT ![Me.name] = Absent]
          /\ NetReturns("fs") /\ fault' = TRUE
          /\ UNCHANGED <<ino, disk, synced, changed>>
       \/ /\ dest[Me.name].kind \in {"dir", "link"}
          /\ NetReturns("fs") /\ fault' = TRUE
          /\ UNCHANGED <<dest, ino, disk, synced, changed>>
    /\ UNCHANGED <<stream, before, item, left, buf, hashVars, writerVars, chanVars,
                   scratch, reg, flushed, endVars>>

\* The file cannot be created (no space, no permission, too many descriptors).
CreateFails ==
    /\ net = "create"
    /\ NetReturns("fs")
    /\ fault' = TRUE
    /\ UNCHANGED <<stream, before, item, left, buf, hashVars, writerVars, chanVars,
                   fileVars, dirVars, endVars>>

SendBegin ==
    /\ net = "begin"
    /\ Push(Msg("Begin", item, <<>>))
    /\ net' = AfterPayload(left)
    /\ UNCHANGED <<stream, before, item, left, buf, received, hashVars, writerVars,
                   pool, fileVars, dirVars, endVars, fault>>

\* A send meets a dead stage. The message comes back in the SendError and is
\* dropped: for a Begin that unlinks the file.
SendFails ==
    /\ net \in {"begin", "data", "finish", "endfile"} /\ NextStageGone
    /\ NetReturns("gone")
    /\ DropInFlight(IF net = "begin" THEN {item} ELSE {})
    /\ buf' = <<>>
    /\ UNCHANGED <<stream, before, item, left, hashVars, writerVars, chanVars,
                   dirVars, endVars, fault>>

\* pooled_recv: blocks while the pool is empty and the writer is there to
\* refill it.
TakeBuffer ==
    /\ net = "pool"
    /\ \/ pool > 0 /\ pool' = pool - 1 /\ net' = "read" /\ UNCHANGED received
       \/ pool = 0 /\ writer = "gone" /\ NetReturns("gone") /\ UNCHANGED pool
    /\ UNCHANGED <<stream, before, item, left, buf, hashVars, writerVars, q1, q2,
                   fileVars, dirVars, endVars, fault>>

\* One read of at most a buffer, and never past the announced size. ok says
\* whether the units are the ones the sender hashed.
ReadPayload ==
    /\ net = "read"
    /\ \E n \in 1 .. MinOf(left, Chunk), ok \in BOOLEAN :
         /\ buf' = [k \in 1 .. n |-> IF ok THEN item ELSE 0]
         /\ left' = left - n
         /\ fault' = (fault \/ ~ok)
    /\ net' = "data"
    /\ UNCHANGED <<stream, before, item, received, hashVars, writerVars, chanVars,
                   fileVars, dirVars, endVars>>

SendData ==
    /\ net = "data"
    /\ Push(Msg("Data", item, buf))
    /\ net' = AfterPayload(left)
    /\ buf' = <<>>
    /\ UNCHANGED <<stream, before, item, left, received, hashVars, writerVars,
                   pool, fileVars, dirVars, endVars, fault>>

SendFinish ==
    /\ net = "finish"
    /\ Push(Msg("Finish", item, <<>>))
    /\ net' = "reply"
    /\ UNCHANGED <<stream, before, item, left, buf, received, hashVars, writerVars,
                   pool, fileVars, dirVars, endVars, fault>>

\* reply_rx.recv(): the digest, or an error once the hash stage has dropped
\* the reply channel.
AwaitReply ==
    /\ net = "reply"
    /\ \/ reply # <<>> /\ net' = "check" /\ UNCHANGED received
       \/ reply = <<>> /\ hash = "gone" /\ NetReturns("gone")
    /\ UNCHANGED <<stream, before, item, left, buf, hashVars, writerVars, chanVars,
                   fileVars, dirVars, endVars, fault>>

\* Variation of DigestMatches: the digest is read and not compared.
DigestIgnored(d) == TRUE

DigestMatches(d) == d = Payload(item)

\* check_digest: the sender's digest is the next thing on the socket.
CheckDigest ==
    /\ net = "check"
    /\ IF DigestMatches(reply[1])
       THEN net' = "endfile" /\ UNCHANGED received
       ELSE NetReturns("digest")
    /\ reply' = <<>>
    /\ UNCHANGED <<stream, before, item, left, buf, hash, hand, sum, writerVars,
                   chanVars, fileVars, dirVars, endVars, fault>>

SendEndFile ==
    /\ net = "endfile"
    /\ Push(Msg("EndFile", item, <<>>))
    /\ net' = "decode"
    /\ UNCHANGED <<stream, before, item, left, buf, received, hashVars, writerVars,
                   pool, fileVars, dirVars, endVars, fault>>

-----------------------------------------------------------------------------
(* The hash stage.                                                         *)

\* Variation of SumAfterFinish: no hasher.reset().
SumNotReset == sum

\* finalize, then hasher.reset().
SumAfterFinish == <<>>

HashTake ==
    /\ hash = "run" /\ hand = <<>> /\ q1 # <<>>
    /\ LET m == Head(q1) IN
         \/ /\ m.kind \in {"Begin", "EndFile"}
            /\ hand' = <<m>> /\ UNCHANGED <<sum, reply>>
         \/ /\ m.kind = "Data"
            /\ sum' = sum \o m.data /\ hand' = <<m>> /\ UNCHANGED reply
         \/ /\ m.kind = "Finish"
            /\ reply' = <<sum>> /\ sum' = SumAfterFinish /\ UNCHANGED hand
    /\ q1' = Tail(q1)
    /\ UNCHANGED <<stream, before, netVars, hash, writerVars, q2, pool, fileVars,
                   dirVars, endVars, fault>>

HashForward ==
    /\ hash = "run" /\ hand # <<>> /\ writer # "gone" /\ Len(q2) < Depth
    /\ q2' = Append(q2, hand[1])
    /\ hand' = <<>>
    /\ UNCHANGED <<stream, before, netVars, hash, sum, reply, writerVars, q1, pool,
                   fileVars, dirVars, endVars, fault>>

\* The writer is gone: the message in hand and everything queued behind it are
\* dropped with the stage.
HashStops ==
    /\ hash = "run" /\ hand # <<>> /\ writer = "gone"
    /\ hash' = "gone"
    /\ DropInFlight(Begins(hand) \cup Begins(q1))
    /\ hand' = <<>> /\ q1' = <<>>
    /\ UNCHANGED <<stream, before, netVars, sum, reply, writerVars, q2, pool,
                   dirVars, endVars, fault>>

\* The network thread dropped its sender and the queue has drained.
HashEnds ==
    /\ hash = "run" /\ hand = <<>> /\ q1 = <<>> /\ NetClosed
    /\ hash' = "gone"
    /\ UNCHANGED <<stream, before, netVars, hand, sum, reply, writerVars, chanVars,
                   fileVars, dirVars, endVars, fault>>

-----------------------------------------------------------------------------
(* The writer.                                                             *)

\* The writer returns an error: its InFlight and its receiver are dropped, and
\* with the receiver everything queued.
WriterFails ==
    /\ writer' = "gone" /\ written' = "err" /\ cur' = 0
    /\ DropInFlight(Begins(q2) \cup (IF cur = 0 THEN {} ELSE {cur}))
    /\ q2' = <<>>
    /\ fault' = TRUE
    /\ UNCHANGED <<stream, before, netVars, hashVars, off, q1, dirVars, endVars>>

\* current = Some(open): an InFlight already there would be dropped.
WriteBegin ==
    /\ writer = "recv" /\ q2 # <<>> /\ Head(q2).kind = "Begin"
    /\ cur' = Head(q2).of
    /\ off' = 0
    /\ DropInFlight(IF cur = 0 THEN {} ELSE {cur})
    /\ q2' = Tail(q2)
    /\ UNCHANGED <<stream, before, netVars, hashVars, writer, written, q1, pool,
                   dirVars, endVars, fault>>

\* Variation of Recycled: the buffer is dropped instead.
BufferKept == pool

\* pool.send(buf), into a channel of Depth slots.
Recycled == pool + 1

\* write_all, then the buffer goes back to the pool (a bounded channel too).
\* Data that follows no Begin is only recycled.
WriteData ==
    /\ writer = "recv" /\ q2 # <<>> /\ Head(q2).kind = "Data" /\ pool < Depth
    /\ pool' = Recycled
    /\ IF cur = 0 THEN UNCHANGED <<off, disk, synced>>
       ELSE /\ disk' = [disk EXCEPT ![ino[cur]] = WriteAt(@, off, Head(q2).data)]
            /\ off' = off + Len(Head(q2).data)
            /\ synced' = synced \ {ino[cur]}
    /\ q2' = Tail(q2)
    /\ UNCHANGED <<stream, before, netVars, hashVars, writer, cur, written, q1,
                   scratch, dest, ino, dirVars, endVars, fault>>

\* The write fails: the buffer is recycled first.
WriteDataFails ==
    /\ writer = "recv" /\ q2 # <<>> /\ Head(q2).kind = "Data" /\ cur # 0 /\ pool < Depth
    /\ pool' = Recycled
    /\ WriterFails

\* Variation of AfterStamp: the rename does not wait for the flush.
RenameAtOnce == "rename"

\* Only a durable session flushes the file before the rename.
AfterStamp == IF Durable THEN "sync" ELSE "rename"

\* EndFile: mode and mtime are stamped (failures ignored).
WriteEndFile ==
    /\ writer = "recv" /\ q2 # <<>> /\ Head(q2).kind = "EndFile"
    /\ writer' = IF cur = 0 THEN "recv" ELSE AfterStamp
    /\ q2' = Tail(q2)
    /\ UNCHANGED <<stream, before, netVars, hashVars, cur, off, written, q1, pool,
                   fileVars, dirVars, endVars, fault>>

\* full_fsync of the file.
SyncFile ==
    /\ writer = "sync"
    /\ synced' = synced \cup {ino[cur]}
    /\ writer' = "rename"
    /\ UNCHANGED <<stream, before, netVars, hashVars, cur, off, written, chanVars,
                   scratch, dest, ino, disk, dirVars, endVars, fault>>

\* rename_at over the real name. In place there is nothing to rename and no
\* directory to register. renameat refuses to replace a directory.
RenameFile ==
    /\ writer = "rename"
    /\ \/ /\ ~InPlace(cur) /\ dest[stream[cur].name] # Dir
          /\ dest' = [dest EXCEPT ![stream[cur].name] = File(ino[cur])]
          /\ scratch' = scratch \ {cur}
          /\ changed' = changed \cup {Parent[stream[cur].name]}
          /\ writer' = "register"
          /\ UNCHANGED cur
       \/ /\ InPlace(cur)
          /\ writer' = "recv" /\ cur' = 0
          /\ UNCHANGED <<dest, scratch, changed>>
    /\ UNCHANGED <<stream, before, netVars, hashVars, off, written, chanVars, ino,
                   disk, synced, reg, flushed, endVars, fault>>

\* The flush or the rename fails.
FinishFails ==
    /\ \/ writer = "sync"
       \/ writer = "rename" /\ ~InPlace(cur)
    /\ WriterFails
    /\ UNCHANGED pool

\* register_parent, then finished = true.
RegisterFile ==
    /\ writer = "register"
    /\ Register(Parent[stream[cur].name])
    /\ writer' = "recv" /\ cur' = 0
    /\ UNCHANGED <<stream, before, netVars, hashVars, off, written, chanVars,
                   fileVars, changed, flushed, endVars, fault>>

\* fstat of the directory fails: the file is in place, the session fails.
RegisterFails ==
    /\ writer = "register" /\ Durable
    /\ WriterFails
    /\ UNCHANGED pool

\* The channel is closed and drained: a file still in flight is unlinked.
WriterEnds ==
    /\ writer = "recv" /\ q2 = <<>>
    /\ IF Verify THEN hash = "gone" ELSE NetClosed
    /\ writer' = "gone" /\ written' = "ok" /\ cur' = 0
    /\ DropInFlight(IF cur = 0 THEN {} ELSE {cur})
    /\ UNCHANGED <<stream, before, netVars, hashVars, off, chanVars, dirVars,
                   endVars, fault>>

-----------------------------------------------------------------------------
(* The end of the session: joins, directory flush, acknowledgement.        *)

\* Variation of SessionError: the read loop's own error first.
ReadErrorFirst == IF received # "ok" THEN received ELSE IF written = "err" THEN "writer" ELSE "ok"

\* A writer error explains any send failure the read loop saw, so it wins.
SessionError == IF written = "err" THEN "writer" ELSE received

\* Variation of ThreadsDone: the network thread does not join.
NobodyJoined == TRUE

\* hasher.join() and writer.join().
ThreadsDone == hash = "gone" /\ writer = "gone"

Join ==
    /\ net = "join" /\ ThreadsDone
    /\ outcome' = SessionError
    /\ net' = IF outcome' = "ok" THEN "flush" ELSE "done"
    /\ UNCHANGED <<stream, before, item, left, buf, received, hashVars, writerVars,
                   chanVars, fileVars, dirVars, acked, fault>>

\* flush_directories: every registered directory, or as far as it got.
FlushDirectories ==
    /\ net = "flush"
    /\ \/ flushed' = reg /\ net' = "ack" /\ UNCHANGED <<outcome, fault>>
       \/ /\ Durable
          /\ \E done \in SUBSET reg : done # reg /\ flushed' = done
          /\ net' = "done" /\ outcome' = "flush" /\ fault' = TRUE
    /\ UNCHANGED <<stream, before, item, left, buf, received, hashVars, writerVars,
                   chanVars, fileVars, changed, reg, acked>>

Acknowledge ==
    /\ net = "ack"
    /\ \/ acked' = TRUE /\ UNCHANGED <<outcome, fault>>
       \/ outcome' = "socket" /\ fault' = TRUE /\ UNCHANGED acked
    /\ net' = "done"
    /\ UNCHANGED <<stream, before, item, left, buf, received, hashVars, writerVars,
                   chanVars, fileVars, dirVars>>

-----------------------------------------------------------------------------
NetStep ==
    \/ OpenDest \/ NextEntry \/ WalkDirs \/ EndOfStream \/ SocketFails \/ MakeDir
    \/ ReadTarget \/ UnlinkForSymlink \/ MakeSymlink \/ CreateScratch \/ CreateInPlace
    \/ CreateFails \/ SendBegin \/ SendFails \/ TakeBuffer \/ ReadPayload \/ SendData
    \/ SendFinish \/ AwaitReply \/ CheckDigest \/ SendEndFile \/ Join \/ FlushDirectories
    \/ Acknowledge
HashStep == HashTake \/ HashForward \/ HashStops \/ HashEnds
WriterStep ==
    \/ WriteBegin \/ WriteData \/ WriteDataFails \/ WriteEndFile \/ SyncFile
    \/ RenameFile \/ FinishFails \/ RegisterFile \/ RegisterFails \/ WriterEnds

\* The session has returned: the process exits.
Returned == net = "done" /\ UNCHANGED vars

Next == NetStep \/ HashStep \/ WriterStep \/ Returned

Spec == Init /\ [][Next]_vars

\* Each thread is scheduled by the operating system, and a read of a silent
\* socket ends in IDLE_TIMEOUT.
Fairness == WF_vars(NetStep) /\ WF_vars(HashStep) /\ WF_vars(WriterStep)
FairSpec == Spec /\ Fairness
-----------------------------------------------------------------------------
(* Properties.                                                             *)

Message == [kind : {"Begin", "Data", "Finish", "EndFile"}, of : Entries, data : Seq(Nat)]
Inodes  == 0 .. Len(stream)

OfferType == stream \in Streams /\ before \in Trees

NetType ==
    /\ net \in {"open", "decode", "walk", "mkdir", "target", "unlink", "symlink", "create", "begin",
                "pool", "read", "data", "finish", "reply", "check", "endfile", "join",
                "flush", "ack", "done"}
    /\ item \in 0 .. Len(stream)
    /\ net \notin {"open", "decode", "join", "flush", "ack", "done"} => item > 0
    /\ left \in Nat
    /\ net \in {"pool", "read"} => left > 0
    /\ buf \in Seq(Nat)
    /\ received \in {"none", "ok", "socket", "digest", "fs", "gone"}

HashType ==
    /\ hash \in {"run", "gone"}
    /\ hand \in Seq(Message) /\ Len(hand) <= 1
    /\ sum \in Seq(Nat)
    /\ reply \in Seq(Seq(Nat))

WriterType ==
    /\ writer \in {"recv", "sync", "rename", "register", "gone"}
    /\ cur \in 0 .. Len(stream)
    /\ writer \in {"sync", "rename", "register"} => cur > 0
    /\ off \in Nat
    /\ written \in {"none", "ok", "err"}

ChannelType ==
    /\ q1 \in Seq(Message) /\ Len(q1) <= Depth
    /\ q2 \in Seq(Message) /\ Len(q2) <= Depth
    /\ pool \in 0 .. Depth

FileType ==
    /\ scratch \subseteq Entries
    /\ dest \in [Names -> Node] /\ \A n \in Names : dest[n].of \in Inodes
    /\ ino \in [Entries -> Inodes]
    /\ disk \in [Entries -> Seq(Nat)]
    /\ synced \subseteq Inodes

EndType ==
    /\ changed \subseteq Dirs /\ reg \subseteq Dirs /\ flushed \subseteq Dirs
    /\ outcome \in {"none", "ok", "socket", "digest", "fs", "gone", "writer", "flush"}
    /\ acked \in BOOLEAN /\ fault \in BOOLEAN

\* Every variable keeps its type; in particular no channel and no pool ever
\* holds more than its sync_channel was made for (run_pipeline).
TypeOK == OfferType /\ NetType /\ HashType /\ WriterType /\ ChannelType /\ FileType /\ EndType

\* The places an unfinished InFlight can be: with the network thread before its
\* send, in a channel, in the hash stage's hand, or with the writer.
NetOwns    == IF net = "begin" THEN {item} ELSE {}
WriterOwns == IF cur # 0 /\ writer # "register" THEN {cur} ELSE {}
Owned == NetOwns \cup Begins(q1) \cup Begins(hand) \cup Begins(q2) \cup WriterOwns

\* A scratch file exists exactly while some stage holds the InFlight that will
\* remove it ("exactly one party unlinks, because exactly one party holds the
\* value", InFlight).
ScratchHasOwner == scratch = {i \in Owned : ~InPlace(i)}

\* A stage that has returned holds nothing, and the session is past its joins
\* only once both have.
StoppedHoldNothing ==
    /\ writer = "gone" => cur = 0 /\ q2 = <<>>
    /\ hash = "gone" => hand = <<>> /\ q1 = <<>>
    /\ net \in {"flush", "ack", "done"} => hash = "gone" /\ writer = "gone"

\* Once the threads are joined no scratch file is left, however the session
\* went: every path out of a stage drops the InFlight it holds or had queued.
NoScratchLeft == net \in {"flush", "ack", "done"} => scratch = {}

\* Names no entry writes in place and no symlink entry replaces.
OnlyRenamed(n) == \A i \in Entries : stream[i].name = n => stream[i].kind # "Symlink" /\ ~InPlace(i)

\* At every moment such a name holds what it held before the session, or the
\* whole payload of a file entry, verified if the session verifies: "only a
\* complete file is renamed over the real name" (pump_file).
PreviousOrComplete ==
    \A n \in Names : OnlyRenamed(n) =>
        \/ dest[n] = before[n]
        \/ before[n] = Absent /\ dest[n] = Dir
        \/ \E i \in Entries :
             /\ stream[i].kind = "File" /\ stream[i].name = n /\ dest[n] = File(i)
             /\ Len(disk[i]) = stream[i].size
             /\ Verify => disk[i] = Payload(i)

\* Every name under a directory of the destination is still reached through a
\* real directory: no entry, and no order of the two threads that change the
\* tree, turns a parent into a symlink once something was put under it
\* (walk_dirs, ParentCache).
ParentsAreDirs == \A n \in Names : Parent[n] # Root /\ dest[n] # Absent => dest[Parent[n]] = Dir

\* While the flow runs every buffer is in the pool, with the network thread or
\* in a Data message: "a failure cannot leak a buffer" (write_loop), and the
\* pool bounds memory.
DataIn(q) == Cardinality({k \in 1 .. Len(q) : q[k].kind = "Data"})
BuffersConserved ==
    ~NetClosed /\ writer # "gone" =>
        pool + (IF net \in {"read", "data"} THEN 1 ELSE 0)
             + DataIn(q1) + DataIn(hand) + DataIn(q2) = Depth

\* writer_gone() is a placeholder "the writer's own error replaces on join": it
\* is never what a session reports.
PlaceholderReplaced == outcome # "gone"

\* A session fails only when an I/O error or a corrupted payload was reported to
\* it: the stages never make one up (a digest left over from the previous file,
\* a stage that stopped by itself).
FailureHasCause == outcome \notin {"none", "ok"} => fault

\* No two entries of different kinds share a name, and a directory entry does
\* not meet a file or a symlink.
NoKindClash ==
    /\ \A i, j \in Entries : stream[i].name = stream[j].name => stream[i].kind = stream[j].kind
    /\ \A i \in Entries : stream[i].kind = "Dir" => before[stream[i].name] \in {Absent, Dir}

\* What entry i's name holds once it is written.
Written(i) ==
    LET e == stream[i] IN
    CASE e.kind = "Dir" -> dest[e.name] = Dir
      [] e.kind = "Symlink" -> dest[e.name] = Link(i)
      [] e.kind = "File" ->
           /\ dest[e.name].kind = "file" /\ dest[e.name].of \in Entries
           /\ IF Verify THEN disk[dest[e.name].of] = Payload(i)
                        ELSE Len(disk[dest[e.name].of]) = e.size
LastOfName(i) == \A j \in Entries : stream[j].name = stream[i].name => j <= i

\* The ACK byte exists only once every entry is in the tree, the last one of a
\* name with its whole payload, though the threads ran apart: "only now is every
\* byte committed" (receive_entries).
AckMeansWritten == acked /\ NoKindClash => \A i \in Entries : LastOfName(i) => Written(i)

\* The same without the restriction: "Sent by the receiver once every entry is
\* written" (ACK, wire.rs).
AckMeansEveryEntry == acked => \A i \in Entries : LastOfName(i) => Written(i)

\* With --durable the ACK byte exists only once each file of the session is
\* flushed and so is every directory that received an entry (flush_directories).
AckMeansDurable ==
    acked /\ Durable =>
        /\ changed \subseteq flushed
        /\ \A n \in Names : dest[n].kind = "file" /\ dest[n].of # 0 => dest[n].of \in synced

\* With --durable a name never shows a renamed file whose contents are not on
\* permanent storage: a power cut leaves the old copy or a whole new one.
VisibleIsSynced ==
    Durable => \A n \in Names : OnlyRenamed(n) /\ dest[n].kind = "file" /\ dest[n].of # 0
                                => dest[n].of \in synced

\* The session always returns: no stage waits for ever on a channel another
\* still holds, whichever stage fails first.
Terminates == <>(net = "done")
=============================================================================
