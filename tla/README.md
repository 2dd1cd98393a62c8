# thunderflash: a verification development

`tf send` pushes files and trees over one cable to `tf recv`.  The two ends
agree on what already exists at the destination, split what is left over one
or more TCP flows, hash every payload on both sides, and end with one
acknowledgement byte, which is the only thing that means success.  This
directory holds TLA+ modules of that system, the TLC configurations that check
them, and proofs of what holds for every value of the constants.

Paths are relative to the repository: `src/recv.rs` and so on.

## 1. Inventory

| Part | State it keeps | Operations | Modelled in |
|---|---|---|---|
| Sender session (`send.rs`: `send_to_diag_streamed`, `send_multi`, `keep_unskipped`, `read_ack`) | the offer, connections, the answer | connect, handshake, manifest, read the bitmap, pair the band, deal, join the lanes, read the ACK | `Session`, `Exchange` (all but `walk`) |
| Sender lane (`send.rs`: `send_lane_inner`, `read_items`, `stream_file`, `hash_items`) | two bounded channels, a buffer pool, a running hash, the socket | read, chunk, hash, write, recycle, terminate | `SendLane`, `LaneSpec`, `Framing` |
| Receiver session (`recv.rs`: `accept_one`, `verify_handshake`, `answer_manifest`, `file_held`, `accept_multi`, `flush_directories`) | the listener and its backlog, accepted flows, the answer, the disk earlier runs left | accept, check, answer, pair, join the pipelines, flush, acknowledge | `Session`, `Resume`, `Exchange` |
| Receive pipeline (`recv.rs`: `run_pipeline`, `read_entries`, `pump_file`, `hash_loop`, `write_loop`, `InFlight`, `DirRegistry`) | two bounded channels, a buffer pool, scratch files, the destination tree, the registry of directories | decode, make directories and links, create, write, verify, rename, flush | `RecvPipeline` |
| Wire format (`wire.rs`; `Staged` in `recv.rs`) | the staging buffer | encode and decode the handshake, entries, bitmap and terminator; `sanitize` | `Exchange`, `Framing` |
| Filesystem primitives (`sys.rs`) | the disk | `mkdir_at`, `walk_dirs`, `create_temp_file_at`, `rename_at`, `unlink_at`, `stat_file_in_dir`, `full_fsync`, ... | their effects, in `RecvPipeline` (names, inodes) and `Resume` (modes, times, what a power cut keeps) |
| Discovery (`iface.rs`: `find_peer`, `serve_discovery`) | the tries left | probe, answer, hear | `Program` |
| Command line (`main.rs`: `receive`, `transmit`) and the render thread (`progress.rs`) | the listener's port, the threads | bind, spawn, run the session, finish, join | `Program` |
| Counters, phrase, sleep assertion | counters, a word list | | not modelled: nothing of the transfer reads them back, or they are pure text and I/O |

**How they interact.**  A sender session owns its connections and runs one lane
per flow; a receiver session owns the listener and runs one pipeline per flow,
all over one destination.  Within a lane or a pipeline, three threads talk
only through bounded channels and the pool.  The two sessions talk only
through the connections: handshake, manifest, bitmap, data, ACK.

**What is hard.**  Three threads in a ring of bounded channels, each of which
may fail at any step (deadlock, leaked buffers, an error that hides another
error).  Two threads that change one directory tree.  Scratch files whose
owner changes as a message moves.  A rename, an `fsync` and an ACK whose order
decides what a power cut leaves.  A run that decides from size and mtime alone
what an earlier run left.  Reads that stage bytes of the next field or phase.
Several senders at one listener.  Flows that
end in any order.  Machines that vanish without closing anything.  The full
list, each at its line with the properties aimed at it, is `hazards` in
`PROJECT.json`.

**What makes each part correct.**

- *Pipeline*: a name holds what it held or a complete file; no scratch file
  outlives its session; the ACK means written and, with `--durable`, flushed;
  buffers are conserved; the session reports a real cause; it always ends.
- *Lane*: the wire is always a prefix of the frames, the terminator comes only
  after all of them, a source that changed never ends in success, and the
  three threads always end.
- *Repeat runs*: a file that is skipped is the file offered; an interrupted run
  never costs a copy an earlier one put there; a durable ACK covers what it sent.
- *Exchange*: no byte is lost, repeated or read as another field; both ends mean
  the same files by the bitmap; neither waits for the other; a path that is
  received lies where its components say.
- *Commands*: discovery names the port the receiver listens on; every command
  ends with its threads.
- *Session*: the flows received together belong together; success means the
  whole offer is stored; at most one offer is committed in a run; the phrase is
  guessed at most once; nobody waits for ever.

## 2. Modules and how they correspond to the code

`map` in `PROJECT.json` gives the lines of every definition.  Definitions
marked "Variation" are plausible mistakes, kept beside the definition they
vary: with the mistake in place a run finds the property violated.

**`RecvPipeline`**: `net`, `hash` and `writer` are the program counters of
`read_entries`/`pump_file`, `hash_loop` and `write_loop`; `q1` and `q2` the two
`sync_channel`s, `pool` the buffer pool.  One action is one blocking operation
of the code with everything up to the next.  A unit of payload is the index of
the entry it belongs to, 0 a unit that differs from what the sender hashed, so
a digest comparison is a comparison of sequences (BLAKE3 is taken to be
injective).  An inode is named by the entry that created it.  The peer is
external: it may send any entry list of `Streams`, corrupt a payload, or stop
at any byte.  `scratch`, `dest`, `disk`, `synced`, `reg` and `flushed` are what
the filesystem calls change.  `changed`, `before` and `fault` are history.
Trees have any depth: `WalkDirs` is one component of `walk_dirs`, made or found,
or the end of the walk, so an open that fails leaves what the walk has made, and
the writer runs between two components.  `Cached` is a `ParentCache` hit, which
walks nothing.  `CreateInPlace` also has the open that fails after the old copy
was unlinked (`sys.rs:244-249`).

**`Framing`, `LaneSpec`, `SendLane`**: `Framing` says which tokens a list of
items puts on the wire.  `LaneSpec` is the promise of a flow to its session.
`SendLane` has the reader, the hash stage and the socket loop with their
channels, and implements `LaneSpec`.  A file that cannot be opened, shrank or
was repointed after the walk is a choice at each point where the code looks.

**`Transfer`, `Session`**: `Session` is one run of the receiver and every
sender that reaches it.  `spc` and `rpc` are where each sender and the receiver
are; `backlog` is the kernel's queue of connections not yet accepted, `taken`
those accepted, in order.  A lane or a pipeline is one step that may end well
or not at any time: well only when it keeps the promise of `SendLane` or
`RecvPipeline` (the terminator is on the wire; all it was dealt is stored).
`SenderStops` and `ReceiverStops` kill a process, which closes its
connections, or make its machine vanish, which closes nothing.  `Transfer` is
what one run promises its senders, and `Session` implements it.

**`Resume`**: several runs of the receiver, one after the other, over one disk.
`tree` is what each name shows, `maybe` the set of nodes a power cut may leave
under it: an operation on a name adds to the set, `FlushDirectory` (an `fsync`
of the directory) reduces it to what is there, and an inode that was not
flushed may also come back with contents `Lost`.  Contents are a number, so
"the same file" is the same number; the mtime is what `set_mtime_fd` stamped,
or `Now` when it failed or has not run, which is no mtime offered (at the
resolution of a second the two could meet for a file changed as it is sent).
`Start` is a receiver that takes a sender and answers its manifest: `FileHeld`
reads the tree as it is then, and `held` is what the sender skips.  Entries are
dealt over `flows`; in each flow the network thread (`MakeDir`, `MakeSymlink`, `CreateScratch`,
`CreateInPlace`) runs ahead of the writer (`FinishFile`, and the separate
steps of a file written in place, whose every state is visible).  `FlowFails`,
`Killed` and `PowerCut` come between any two steps.  `before`, `plain`,
`exposed`, `unstamped`, `settled` and `repeat` are history.

**`Exchange`**: one flow as bytes over a socket that holds at most `Room` of
them.  A byte carries the field and item it was written for, so a receiver that
lost its place is seen to read one field as another.  `Encode` and `Write` are
the sender's `encode` and `write_all`; `Read` is one iteration of a
`read_exact` loop, with any count the socket may return, through `Staged`
(`Bypasses`, refill, drain) for everything but the handshake; each `Got...`
action is what the receiver does once a field is complete.  `rpc` is the field
it reads, `need` what is missing of it.  A byte of the bitmap is the set of its
bits that are 1, so `EncodeBitmap` and `DecodeBitmap` keep the bit order and the
padding of the code; the acknowledgement is the byte with all bits set.

**`Program`**: extends `Session` with the two commands around it.  `recv` and
`send` are where each command is; `advertised` is the port the discovery thread
was given, `port` the one the listener is bound to; `probes` and `replies` are
datagrams, which once sent stay and so may arrive never, late or more than
once; `drawing` is the set of render threads that run.  Session's steps are
taken inside `Receive` and `Transmit`.

The `MC` modules give the constants small values.  `RecvPipelineProofs`
(threads, channels, buffers), `RecvTreeProofs` (files and names of the same
module), `SendLaneProofs`, `SessionProofs`, `ProgramProofs`, `ResumeProofs` and
`ExchangeProofs` hold the theorems; `SharedFacts` has the lemmas several of them
need: how many messages of a kind a channel holds, and that a recursive function
exists and unfolds as it is written.

## 3. What is checked

| Run | Instance | What it shows |
|---|---|---|
| `PipelineVerified` | verifying, not durable, channels of depth 2, buffers of 1 unit; three levels of names, with an empty and a used destination; files of 0 to 3 units, directories, links, one name offered three times, entries that meet another kind of node, in-place names | types, scratch ownership, no scratch left, a name is old or complete, parents stay real directories, buffers conserved, the writer's error replaces the placeholder, failures have a cause, ACK means written, termination |
| `PipelineDurable` | not verifying, durable, channels of depth 1, buffers of 2 units; three levels of names | ACK means flushed, a visible name is flushed, and a name is old or complete without the hash stage |
| `LaneVerified` | depth 2, buffers of 2 units, with and without the hash stage | the lane implements `LaneSpec` (safety and liveness), buffers conserved, the reader never starves, changed sources surface, the threads end |
| `SessionPaired` | two v4 senders of two flows with the phrase, every held subset | pairing, success means stored, `Transfer` implemented, every sender returns, the receiver waits without bound only for a band |
| `Resume` | three offers over three names (a tree; the same with a file changed and one of a long name in place; one name offered twice and a link over a directory), one and two flows, durable or not in each run, four events | what is held is the same file, copies survive runs, kills and cuts, ACK means present, a repeat run is free, modes of directories, a durable ACK covers what was sent |
| `Exchange` | offers of files below, at and above the stage, directories, links and refused paths; v3 and v4 greetings, and every kind that is refused | bytes in order, fields aligned, the bitmap agrees, nobody waits for the other, paths stay inside |
| `Program` | one sender that discovers and one that was told, both v3, one without the phrase | replies name the listener's port, one guess (for v4 bands the theorem `GuessedOnce`), a v3 receiver that accepted returns, every command ends |
| `InPlaceDurable`, `InPlaceTwice`, `DirOverFile`, `SessionHang`, `ResumeDurable` | one property each, violated | section 5 |

**Why the bounds are enough.**  Every channel is a FIFO that is empty, partly
full or full: with capacity 1 each send meets full and empty, with capacity 2
also neither, and messages of two files share a channel.  Files of 0, 1, 2 and
3 units over buffers of 1 and 2 units give no chunk, exactly one, several, and
a partial last one.  In the pipeline five names, two in the root, two in a
directory of it and one a directory further down, give a walk of none, one and
two components, with the directories listed before the file, after it or not at
all; three names elsewhere give same name, same parent, parent and child.  Two
senders are enough for one to stand in the other's place in the backlog, and two
flows for one to fail while the other runs; the number of senders and flows is arbitrary
in the theorems of section 4.  No counter grows without bound: the offers are
finite and each run ends.

`Resume`: `MaxEvents` = 4 counts runs, failed flows, kills and power cuts
together, so that three runs with a kill or a cut between any two of them fit
(a durable run over what a failed one left needs two runs and a failure).  The
number of steps within a run is not bounded.  One name under a directory and
two in the root give the flush of a parent, of the root, and of neither.
`Exchange`: a stage of 3 bytes and a room of 4, smaller than a file and larger
than a field, so a read stages part of a field, several fields, or the first
bytes of the next phase; bytes of 2 bits, so three files need a second byte and
leave it partly full; paths of up to 3 parts.  `Program`: the three tries of the
code, one port (the receiver has one listener) and one sender on each of the
two ways to an address.

`CHECK_DEADLOCK FALSE` is set for `Session` and `Program`, where everybody has
returned, vanished or (section 5) waits in `accept`; for `Resume`, whose runs
are bounded by `MaxEvents`; and for `Exchange`, which ends with both ends gone
(`NotBothWait` says which stops are wrong).

**Fairness.**  Weak fairness of each thread (`RecvPipeline`, `SendLane`), of
each sender and of the receiver (`Session`): the operating system schedules a
thread that can run.  A blocked read or write of a socket counts as able to
run because `set_timeouts` arms 5 or 60 seconds on every connection, so the
step that fails is enabled; `accept` has no such step.  In `Program`
the receiver's and each sender's thread and the render threads are fair, and so
is the second that `find_peer` waits; starting a command, the responder and
every datagram are not.  Nothing makes anyone succeed: failing, being killed and vanishing are never fair.

## 4. What is proved

All proofs are for every value of the constants that meets the module's named
assumption:

- `PipelineAssumption`: clamped depth, positive buffers, every name under the
  root by a finite chain of parents, and an initial tree without entries of this
  session; `TreeAssumption`: a name found at the start is in a directory.
- `LaneAssumption`: item lists are finite sequences, a directory has no payload
  and a link a target, positive depth and buffers.
- `SessionAssumption`: flow counts clamped to `MAX_STREAMS`, offers are finite
  sequences; `ProgramAssumption`: no port that a listener is bound to is the one
  that asks for any.
- `ExchangeAssumption`: offers are finite sequences of items with a path, a
  positive byte width, room and stage.
- `ResumeAssumption`: trees and offers of the module's types; an offer lists a
  directory before what is in it and a name with in-place entries once; size and
  mtime tell apart the contents ever offered under a name, and those found
  before the first run, which are on permanent storage.

`RecvPipelineProofs`
- `TypeCorrect`: `TypeOK`, so no channel or pool exceeds its capacity.
- `NoScratchLeftBehind`: no scratch file after the joins.  `NoScratchLeft` is
  not inductive: it says nothing of the steps before the joins.  `ScratchIInv`
  adds that every scratch file has an `InFlight` with a stage or in a channel,
  and that a stage that has returned holds nothing; past the joins nobody is
  left to hold one.
- `PlaceholderIsReplaced`: `writer_gone()` is never what a session reports.
  `PlaceholderIInv` relates the network thread's placeholder to the writer's
  own error: the network thread returns the placeholder only when the stage it
  feeds is gone, that stage goes before the network thread does only behind a
  writer that failed, and the join prefers the writer's error.

- `NoBufferLost`: `BuffersConserved` of the pipeline.  It is inductive beside
  `TypeOK`; the work is in the number of data messages in a channel, which each
  send and each recv changes by one or not at all (`SharedFacts`).

`RecvTreeProofs`.  `FilesHyp` is `ScratchIInv` with `FilesInv`: where the network
thread is fits the kind of its entry (`EntryInv`), an opened entry has an inode
of its own name in a directory (`InodeInv`), what a name shows of this session
has left its scratch name (`VisibleInv`), and only an opened entry is held
(`HeldInv`).  `LineHyp` adds the line of work.  A point is how far a stage is:
an entry and how much of its payload.  The writer, the hash stage and the
network thread each are at one (`WriterAt`, `HashAt`, `NetAt`), and the messages
of each channel lead from the point of its reader to that of its sender
(`ChainInv`); `FinishInv` says that the digest is asked for once a file, and
`OwnedInScratch` that only the stage that holds a file removes its scratch file.
`FreshInv` extends to files written in place what a scratch name gives the rest:
such a file is empty until the writer comes to it, if its name is used once.
- `ParentsStayDirs`: `ParentsAreDirs`.  Nothing replaces a directory: a rename, a
  symlink and an unlink only meet what is no directory.
- `ScratchIsOwned`: `ScratchHasOwner`.  `ScratchIInv` is one half; the other needs
  the line of work, where the files that are held stand in a strict order.
- `NamesShowWholeFiles`: `PreviousOrComplete`.  What the writer has of a file is
  what its point says, and the message that lets it rename leads on only from
  a point with the whole payload.
- `VisibleStaysSynced`: `VisibleIsSynced`.  `FlushedInv`: between the flush of a
  file and its rename nobody writes to its inode, which `InodeInv` gives for
  files that have a scratch name.
- `FailuresHaveCause`: `FailureHasCause`.  `CauseInv` says that every error some
  stage returned is of a call that failed or a payload that was corrupted; for a
  digest mismatch that needs the line of work, by which the digest compared is
  that of the payload read (`MismatchIsReal`).
- `AckIsDurable`: `AckMeansDurable`, at every depth, for streams whose in-place
  files are in the destination root (`LongInRoot`; `InPlaceDurable` shows why)
  and which list each directory above an entry that is not in the root itself
  (`ParentsListed`; see section 5).  `EndInv` says
  that a session acknowledges only what read, wrote and joined without an error
  and flushed its registry.  `SyncedInv`: while nothing has failed, an inode is
  flushed or a stage holds a file on it that it has still to flush.  That is
  inductive because whoever dirties an inode holds a file on it (`Dirtied`), and a
  held file leaves the threads only once it is in place (`HeldStays`), which
  needs that the writer meets the next `Begin`, or the end of the line, only when
  the file before is done (`LineIsOver`).  `RegisterInv`: a directory that received an
  entry is registered, or the writer is about to register it, or a directory
  entry still to come will (`ToCome`): what `walk_dirs` adds is not registered
  on the way.
- `AckIsWritten`: `AckMeansWritten`, for streams that use no in-place name twice
  (`LongNamesOnce`; `InPlaceTwice` shows why).  `TreeInv` follows each entry while
  nothing has failed: a directory is there once it is passed, a symlink until a
  later entry of its name comes up, a file written in place from its creation,
  whole once nobody holds it, and a renamed name shows the entry renamed
  last or a later one.  The last needs `OrderInv`: a name never shows a file later in
  the stream than one still held, since the file with the writer is the least
  of those held (`Apart`).  At the ACK nobody holds a file, so the last entry
  of a name is what it shows, and `PreviousOrComplete` says that it is whole.

`SendLaneProofs` (one inductive invariant, `LaneIInv`, for the first four)
- `TypeCorrect`: `TypeOK`.  That the pool never holds more than there are is no
  consequence of the types: it needs the bound on all the buffers in use.
- `NoBufferLost`: `BuffersConserved`.  `PoolInv` adds that in use there are
  never more buffers than were made, also once a thread has gone; a stage that
  ends must hold nothing, which is `StageInv`: the order in which the threads
  end, and what each leaves behind.
- `NeverStarved`: without the hash stage, whatever is not in the pool is in the
  one queue or being written, which together leave a buffer for the reader.
- `ChangeIsReported`: `ErrInv` says that a change that was noticed is with the
  reader, in a channel, in the hash stage's hand, or reported; when the loop
  ends well both stages have gone and the channels are empty, so it is none of
  the first three.
- `LaneRefines`: the lane implements `LaneSpec` but for its liveness.  `FlowInv`
  says why what is on its way always continues what is on the wire.  A spot is
  a place in the frames: an item and how many tokens into its frame.  The wire
  ends at one, the message being written leads from there to the next, the
  channel behind it on, then the hash stage's hand, then the reader's channel
  (`Line`, `Leads`), and the last is where the reader stands (`ReaderAt`); the
  running hash is what lies between the header and the message the hash stage
  takes next (`SumAt`), so the digest it makes is that of this item's payload
  (`HashFits`).  Behind an error nothing leads on.  A write that fails half way
  leaves a beginning of the frames (`PartWritten`); at the terminator nothing is
  on its way and the reader has gone, so the wire ends where the frames do.
  `Parts` unfolds `Body` item by item, again by a least counterexample.

`SessionProofs`
- `TypeCorrect`: needs `SenderInv`, the number of handshakes at each point of a
  sender, to bound the flow index.
- `FlowsBelongTogether`: `accept_multi` never asks that two bands differ in
  index, nor that they come from the primary's sender, yet what it receives is
  exactly one sender's flows.  `ArrivalInv` says that a connection arrives
  once, and a band only from a sender that was answered; `CountInv` that only
  the session's sender is; `BandInv` that the indexes were checked.  So the
  accepted connections are n distinct indexes below n: all of them
  (`FlowsComplete`, by an injection on a finite set).
- `SuccessIsStored`: `StoreInv` carries "this pipeline ended well, so its deal
  is stored" to the flush, where `OfferCovered` shows that the skipped entries
  and the deals of all the flows cover the offer; `CommitInv` carries it from
  the flush to the ACK to the sender.
- `PromiseKept`: `Session` implements `Transfer`.  `Flush` is `Commit`,
  `ReadAck` is `Succeed`, the failing and vanishing steps are `Fail`, and every
  other step leaves the abstract state alone.

- `GuessedOnce`: `OneGuess`.  `GuessInv` says that only the newest connection
  can lack the phrase, while it is being checked or once it has ended the run:
  nothing is accepted before the last handshake was answered, and a failed one
  ends the run.

`ProgramProofs`
- `RepliesNameListener`: `ReplyNamesListener`.  `DiscoveryInv` says that there is
  a responder only once there is a listener, that it was given the listener's
  port, and that every datagram that names the receiver names that port.
- `GuessedOncePerCommand` and `CommandsRunSession`: the two commands do to the
  session only what `Session` allows (`BeforeInv`: a command that has not come
  to its session has not touched it), so `OneGuess` and the other theorems of
  `SessionProofs` hold of it inside them.

`ResumeProofs` (one inductive invariant, `IInv`, for all six)
- `HeldFilesAreSame`: `HeldIsSame`.  `DiskInv` says that every node a name shows
  is honest, a file of the size and mtime of an entry having its contents, and
  that while everything is flushed (`plain` is false) so is every node a power
  cut may leave.  A cut after something was not ends it, which `exposed` records;
  `InPlaceInv` is what a file being written in place has instead.
- `AckedNamesHold`: `AckMeansSame`.  `HoldsInv` says of each name that it holds
  one of the entries written or skipped under it; `ProgInv` that all are, by the
  acknowledgement.
- `RepeatSendsNothing`: `RepeatIsFree`.  `StampInv` and `SettledInv` carry "would
  be held" from the stamp through the acknowledgement to the next answer.
- `DirModesAreOffered`: `DirModeIsOffered` (`DirInv`).
- `DurableAckIsKept`: `DurableAckCovers`.  `RegInv` says that a directory that is
  not owed a flush was flushed after its last change; at the acknowledgement
  none is owed one (`AckedInv`), so a power cut can leave only what is there,
  and `FlushInv` says its contents are flushed.
- `CopiesAreKept`: `CopyKept`, an action property: no step of a run, no kill and
  no failure takes a whole file away from a name that only renames change, and
  while everything is flushed no power cut can.

`ExchangeProofs`
- `NothingLost`: `InOrder`.  What was taken, what is staged and what is on the
  wire are always, one after the other, what was sent.  A read cuts the
  socket's bytes or the stage's in two and moves the first part to the end of
  the next sequence; each of the three ways through `Staged` regroups the same
  concatenation.  `FlowInv` is the type that
  makes the parts sequences of bytes, `StageInv` that nothing is staged during
  the handshake.
- `FieldsStayAligned`: `FieldsAlign`.  `Script` is all the bytes ever encoded.
  `GrammarInv` says that it is a greeting followed by whole units (an entry's
  bytes, or a terminator), in the order in which the sender walks the manifest
  and then the entries it deals; `SenderInv` that the sender is at the end of
  it.  `GotInv` and `ReaderInv` say where in the script the reader is: at the
  start of a unit when it reads a kind, at a field's offset in its unit
  otherwise.  Together with the first two they are inductive (`ExchangeSafe`).
  A unit's length comes from the bytes read, and the next boundary is where the
  unit ends, which is unique (`BoundaryUnique`, `UnitsApart`).
- `AnswersAgree`: `AnswerAgrees`.  `ListedInv` counts the bits by the files listed
  so far, `BackInv` says that what is on its way back is the encoded bitmap and
  then the acknowledgement, `HaveInv` that a sender past its read has the bits
  themselves, by `BitmapRoundTrip`, for every number of files and every byte
  width.  `StoredInv` says that the stored entries are, in order, those dealt
  before the field being read.
- `EndsNeverBothWait`: `NotBothWait`.  If both wait, all that was sent is taken.
  The reader cannot be inside a field, for the script ends at a boundary
  (`MidField`); nor between two units, for a sender that waits has written its
  terminator, and after one the reader has something to do.
- `PathsInside`: `PathsStayInside`.  That `Components` and `Resolved` exist and
  unfold as written is shown by a least counterexample (`LeastOne`, `Unfolds`);
  so is that resolving a path without `..` is the root followed by its parts.

The inductive invariants were checked with TLC on the instances of section 3
before they were proved.

**Only model-checked.**  Liveness, that of `LaneSpec` included (the prover has
no fairness or `ENABLED`).  `AckMeansWritten` and `AckMeansDurable` without the
conditions of `AckIsWritten` and `AckIsDurable`: they hold on the streams of
their runs and not on every stream, as `InPlaceTwice` and `InPlaceDurable`
(section 5) show.  `AckMeansEveryEntry`, which asks nothing of the names, is
refuted by `DirOverFile`.

## 5. Disagreements between the code and what is said of it

Each is a run that finds the statement violated; `findings` in `PROJECT.json`
quotes it.

- `InPlaceDurable`: a name too long for a scratch name is created in place and
  its directory is never registered, so a durable ACK does not cover it.
- `InPlaceTwice`: two in-place entries of one name share an inode, and the
  second one's `O_TRUNC` can come before the first one's last write.
- `DirOverFile`: a directory entry that meets a file counts as made, so the ACK
  does not mean every entry is written.
- `SessionHang`: a v4 receiver waits for its band in `accept` with no timeout;
  a sender that is gone after its manifest leaves it there for ever.
  `OnlyTheBandIsAwaited` shows that this is the only such place, and
  `NeverBlocksForever` in `Program` that v3 has none.
- `ResumeDurable`: a file that an earlier run renamed into place without
  flushing it (not durable, or failed before the flush) is held by size and
  mtime; a durable run skips it, flushes neither it nor its directory and
  acknowledges.  `DurableAckCovers` shows that what a durable run itself sends
  is covered, files written in place and directory entries that met a file
  (`InPlaceDurable`, `DirOverFile`) excepted.

Seen while reading, without a run of its own:
- `README.md:158` says that a symlink's stamped mtime lets the next manifest
  treat it as held; `answer_manifest` has bits for files only, and `Exchange`
  and `Resume` send every symlink again.
- `walk_dirs` registers none of the directories it changes; `receive_dir` and the
  writer register the parent they end in (`recv.rs:726`, `recv.rs:748`).  A directory
  below the root that only a walk added a directory to is therefore flushed by
  nobody, and a durable ACK does not cover it, unless the directory made has an
  entry in the offer.  `tf send` lists every directory it walks; a single flow
  with `d/e/y` alone, which the wire format allows, does not, and TLC finds
  `AckMeansDurable` violated on it.  Over several flows the entry may be on another
  lane: the registry is shared and flushed once, after all pipelines have ended,
  so it still counts, but `AckIsDurable` is about one pipeline with its own stream.
- Two file entries of one relative name that differ replace each other on every
  run: only the last is held the next time, so the first is sent and takes the
  name (`AckMeansSame` and `RepeatIsFree` except or allow for it).
- Over two flows a directory may be made as the parent of a file, with the
  default mode, before the lane that has its entry gets to it; mkdir then leaves
  the mode as it is.  `DirModeIsOffered` is about one flow for that reason.
- `README.md` gives 243 as the longest name with a scratch name; the 21
  characters around it leave 234.
- A mode is subject to the umask unless it lacks owner `rw`.
- A datagram that is no reply uses up one of the three tries at once, without
  the second of waiting.

## 6. What is not modelled

`walk` (pure I/O: the offer is a constant; `Resume` assumes that it lists a
directory before what is in it), permission bits other than a directory's mode,
directory times, the value of the umask, the `F_FULLFSYNC` fallback, socket
buffer sizes, `scratch_name`'s lengths (a name is long or it is not).
`Progress`'s counters and `Diag` are written and never read back; the render
thread's relaxed loads decide what it draws, not when it ends.  The phrase's
words and hash, the sleep assertion, argument parsing, tests, examples and
scripts are left out.

What a module leaves to another: `Session` takes a lane or a pipeline as one
step that keeps the promise `SendLane` and `RecvPipeline` check, and takes the
destination as the set of entries stored, so it does not tell apart two entries
of one relative name (`RecvPipeline` and `Resume` do).  It treats the listener
as closed once the receiver has returned; the process closes it a moment later,
after the render thread's last line.  `Exchange` takes payloads as intact and
the checks against the disk as a choice, and its way back has no bound: the
bitmap is written at once (`Answer`), so that a receiver blocked on writing it
is not among the waits of `NotBothWait`.  `Resume` takes payloads as verified
and does what happens to a scratch file up to its rename in one step, since no
name of the tree shows it; it leaves out that two in-place entries of one name
share an inode (`InPlaceTwice`).

## 7. What is left

1. *Flow*: `SendLane` and `RecvPipeline` joined by the socket of `Exchange`, so
   that neither peer is a choice; one or two files, depth 1.
2. *Scratch names*: their lengths against `NAME_MAX` over bounded inputs.
