------------------------------- MODULE Resume -------------------------------
(***************************************************************************)
(* Repeat transfers: several runs of the receiver, one after the other,    *)
(* over one disk that a kill or a power cut may catch between any two      *)
(* steps.  answer_manifest and file_held with what read_entries and        *)
(* write_loop leave in the tree, and what full_fsync makes permanent.      *)
(*                                                                         *)
(* A run deals the entries the sender keeps over its flows.  In each flow  *)
(* the network thread takes them in order and runs ahead of the writer,    *)
(* which finishes the files in order.  Payloads arrive verified.  A        *)
(* scratch file is under no name of the tree until its rename, so what the *)
(* writer does to it up to the rename is one step with it; a file written  *)
(* in place shows every one of its states.                                 *)
(*                                                                         *)
(* A node's contents are named by a number: which file it is, the mode of  *)
(* a directory, or Lost when a power cut kept the inode and not its data.  *)
(*                                                                         *)
(* A definition marked "Variation" is not part of the system: it is the    *)
(* definition after it with a plausible mistake, kept to show that a       *)
(* property depends on the code being as it is.                            *)
(***************************************************************************)
EXTENDS Integers, Sequences, FiniteSets

CONSTANTS
    Names,      \* names of destination entries
    Root,       \* the destination root, a directory that is always there
    Parent,     \* the directory each name lives in: Root, or a name in Root
    Offers,     \* what senders may offer, as walk lists it
    Trees,      \* what the destination may hold before the first run
    Flows,      \* the flow counts senders may choose
    MaxEvents   \* bound on runs, failed pipelines, kills and power cuts together

Lost == 0       \* contents that never reached the disk
\* The mtime a write leaves before it is stamped: no mtime that is offered, though
\* at one second's resolution a file changed and sent at once could have it.
Now  == 0

Node(kind, of, len, mtime, synced) ==
    [kind |-> kind, of |-> of, len |-> len, mtime |-> mtime, synced |-> synced]
Absent  == Node("absent", 0, 0, 0, TRUE)
Dir(m)  == Node("dir", m, 0, 0, TRUE)
Link(t) == Node("link", t, 0, 0, TRUE)
Default == 0    \* mode 0755

Entry == [kind : {"Dir", "Symlink", "File"}, name : Names, of : Nat \ {0}, size : Nat,
          mtime : Nat \ {0}, long : BOOLEAN]

NodeType == [kind : {"absent", "dir", "link", "file"}, of : Nat, len : Nat, mtime : Nat,
             synced : BOOLEAN]

\* walk lists a directory before what is in it; two files that differ also
\* differ in size or mtime (README: "Contents are not compared"); one name is
\* not written in place twice in a run (see RecvPipeline for that); what was
\* there before the first run is on permanent storage.
ASSUME ResumeAssumption ==
    /\ Root \notin Names /\ Parent \in [Names -> Names \cup {Root}]
    /\ \A n \in Names : Parent[n] # Root => Parent[Parent[n]] = Root
    /\ Offers \subseteq Seq(Entry) /\ Flows \subseteq Nat \ {0}
    /\ MaxEvents \in Nat
    /\ \A o \in Offers : \A i \in 1 .. Len(o) :
         /\ Parent[o[i].name] # Root =>
              \E j \in 1 .. i - 1 : o[j].kind = "Dir" /\ o[j].name = Parent[o[i].name]
         /\ \A j \in 1 .. Len(o) : o[i].long /\ o[i].name = o[j].name => i = j
    /\ \A o, p \in Offers : \A i \in 1 .. Len(o), j \in 1 .. Len(p) :
         /\ o[i].kind = "File" /\ p[j].kind = "File" /\ o[i].name = p[j].name
         /\ o[i].size = p[j].size /\ o[i].mtime = p[j].mtime
         => o[i].of = p[j].of
    /\ Trees \subseteq [Names -> NodeType]
    /\ \A t \in Trees : \A n \in Names : t[n].kind = "file" => t[n].synced
    /\ \A t \in Trees, o \in Offers : \A i \in 1 .. Len(o) :
         LET node == t[o[i].name] IN
         node.kind = "file" /\ node.len = o[i].size /\ node.mtime = o[i].mtime
         => node.of = o[i].of

VARIABLES
    offer,      \* the entries of this run
    flows,      \* its flow count
    durable,    \* tf recv --durable
    phase,      \* "idle" (no receiver), "data", or "acked"
    held,       \* the entries the manifest was answered with
    prog,       \* how far each entry is
    failed,     \* the flows whose pipeline failed
    reg,        \* directories still to be flushed before the acknowledgement
    tree,       \* what each name shows
    maybe,      \* what a power cut may leave under each name
    events,     \* runs, failed pipelines, kills and cuts so far
    before,     \* the tree the manifest was answered from (history)
    plain,      \* something was written unsynced or in place since a cut (history)
    exposed,    \* a power cut came after that (history)
    unstamped,  \* an mtime of this run could not be set (history)
    settled,    \* the offer the tree was last acknowledged for (history)
    repeat      \* this run offers it again (history)

runVars  == <<offer, flows, durable, held, before, repeat>>
diskVars == <<tree, maybe>>
history  == <<plain, exposed, unstamped, settled>>
vars == <<runVars, phase, prog, failed, reg, diskVars, events, history>>

Entries == 1 .. Len(offer)
Kept    == Entries \ held
File(i, len, mtime, synced) == Node("file", offer[i].of, len, mtime, synced)

\* What a power cut may leave of an inode that is in its directory for good.
MayLeave(node) ==
    IF node.kind = "file" /\ ~node.synced THEN {node, [node EXCEPT !.of = Lost]} ELSE {node}

Init ==
    /\ offer = <<>> /\ flows = 1 /\ durable = FALSE /\ phase = "idle"
    /\ held = {} /\ prog = <<>> /\ failed = {} /\ reg = {}
    /\ tree \in Trees /\ maybe = [n \in Names |-> {tree[n]}]
    /\ events = 0 /\ before = tree
    /\ plain = FALSE /\ exposed = FALSE /\ unstamped = FALSE /\ settled = <<>> /\ repeat = FALSE

-----------------------------------------------------------------------------
Event == events < MaxEvents /\ events' = events + 1

(* The manifest.                                                           *)

\* Variation of Matches: the size alone is compared.
SizeMatches(node, e) == node.kind = "file" /\ node.len = e.size

\* stat_file_in_dir gives a plain file with the size and the mtime offered.
Matches(node, e) == node.kind = "file" /\ node.len = e.size /\ node.mtime = e.mtime

\* Variation of AfterCheck: the parents are walked, and made, with walk_dirs.
CheckMakesParents(o) ==
    [n \in Names |-> IF tree[n] = Absent /\ \E i \in 1 .. Len(o) : Parent[o[i].name] = n
                     THEN Dir(Default) ELSE tree[n]]

\* open_dir_chain creates nothing.
AfterCheck(o) == tree

\* file_held: the parent is a real directory and the file in it matches.
FileHeld(e) ==
    /\ Parent[e.name] # Root => tree[Parent[e.name]].kind = "dir"
    /\ Matches(tree[e.name], e)

\* A receiver is started, takes a sender and answers its manifest. A durable
\* session owes its root a flush whatever is sent.
Start(o, f, d) ==
    /\ phase # "data" /\ Event
    /\ offer' = o /\ flows' = f /\ durable' = d /\ phase' = "data"
    /\ held' = {i \in 1 .. Len(o) : o[i].kind = "File" /\ FileHeld(o[i])}
    /\ tree' = AfterCheck(o)
    /\ prog' = [i \in 1 .. Len(o) |-> IF i \in held' THEN "held" ELSE "todo"]
    /\ failed' = {} /\ unstamped' = FALSE /\ reg' = IF d THEN {Root} ELSE {}
    /\ before' = tree /\ plain' = (plain \/ ~d)
    /\ repeat' = (o = settled) /\ settled' = IF o = settled THEN settled ELSE <<>>
    /\ UNCHANGED <<maybe, exposed>>

-----------------------------------------------------------------------------
(* One entry.                                                              *)

\* Round-robin over the entries the answer left.
FlowOf(i) == Cardinality({j \in Kept : j < i}) % flows
Before(i) == {j \in Kept : j < i /\ FlowOf(j) = FlowOf(i)}

\* The flow's network thread takes entry i next.
NetTakes(i) ==
    /\ phase = "data" /\ i \in Kept /\ prog[i] = "todo" /\ FlowOf(i) \notin failed
    /\ \A j \in Before(i) : prog[j] # "todo"

\* The flow's writer is at file i, which is at point p.
WriterAt(i, p) ==
    /\ phase = "data" /\ i \in Kept /\ prog[i] = p /\ FlowOf(i) \notin failed
    /\ \A j \in Before(i) : prog[j] = "done"

Becomes(i, p) == prog' = [prog EXCEPT ![i] = p]

\* Variation of Register: only the root is flushed.
RegisterRoot(n) == UNCHANGED reg

\* The directory that received n.
Register(n) == reg' = IF durable THEN reg \cup {Parent[n]} ELSE reg

\* walk_dirs made the parent if it was missing.
Walked(n) ==
    IF Parent[n] # Root /\ tree[Parent[n]] = Absent
    THEN [tree EXCEPT ![Parent[n]] = Dir(Default)] ELSE tree
ParentThere(n) == Parent[n] # Root => Walked(n)[Parent[n]].kind = "dir"

\* The tree becomes t: a power cut may leave what was there or what is now, and
\* the names in between that gone lists.
Tree(t, gone) ==
    /\ tree' = t
    /\ maybe' = [n \in Names |->
                   maybe[n] \cup (IF t[n] = tree[n] THEN {} ELSE MayLeave(t[n]))
                            \cup (IF n \in gone THEN {Absent} ELSE {})]

\* mkdir_at with the entry's mode: an existing name is left as it is.
MakeDir(i) ==
    LET n == offer[i].name  t == Walked(n) IN
    /\ NetTakes(i) /\ offer[i].kind = "Dir" /\ ParentThere(n)
    /\ Tree([t EXCEPT ![n] = IF @ = Absent THEN Dir(offer[i].of) ELSE @], {})
    /\ Register(n) /\ Becomes(i, "done")
    /\ UNCHANGED <<runVars, phase, failed, events, history>>

\* unlink_at, then symlink_at.
MakeSymlink(i) ==
    LET n == offer[i].name  t == Walked(n) IN
    /\ NetTakes(i) /\ offer[i].kind = "Symlink" /\ ParentThere(n) /\ t[n].kind # "dir"
    /\ Tree([t EXCEPT ![n] = Link(offer[i].of)], {n})
    /\ Register(n) /\ Becomes(i, "done")
    /\ UNCHANGED <<runVars, phase, failed, events, history>>

\* create_temp_file_at, and the Begin goes to the writer.
CreateScratch(i) ==
    /\ NetTakes(i) /\ offer[i].kind = "File" /\ ~offer[i].long /\ ParentThere(offer[i].name)
    /\ Tree(Walked(offer[i].name), {})
    /\ Becomes(i, "open")
    /\ UNCHANGED <<runVars, phase, failed, reg, events, history>>

\* create_file_at: O_TRUNC on the file the name has, if it has one.
CreateInPlace(i) ==
    LET n == offer[i].name  t == Walked(n) IN
    /\ NetTakes(i) /\ offer[i].kind = "File" /\ offer[i].long /\ ParentThere(n)
    /\ t[n].kind \in {"absent", "file"}
    /\ Tree([t EXCEPT ![n] = File(i, 0, Now, FALSE)], {})
    /\ Becomes(i, "open")
    /\ plain' = TRUE
    /\ UNCHANGED <<runVars, phase, failed, reg, events, exposed, unstamped, settled>>

\* One more unit of a file written in place.
WriteInPlace(i) ==
    LET n == offer[i].name IN
    /\ WriterAt(i, "open") /\ offer[i].long /\ tree[n].len < offer[i].size
    /\ Tree([tree EXCEPT ![n] = File(i, @.len + 1, Now, FALSE)], {})
    /\ UNCHANGED <<runVars, phase, prog, failed, reg, events, history>>

\* Variation of Flushed: the rename does not wait for the flush.
NotFlushed == FALSE

\* Only a durable session flushes the file before the rename.
Flushed == durable

\* Variation of Stamped: a write after the stamp moves the mtime again.
StampedEarly(e, ok) == Now

\* set_mtime_fd, ok or not: its failure is ignored.
Stamped(e, ok) == IF ok THEN e.mtime ELSE Now

\* EndFile of a scratch file: stamp, flush, rename over the real name, register.
FinishFile(i) ==
    LET e == offer[i] IN
    /\ WriterAt(i, "open") /\ ~e.long /\ tree[e.name].kind # "dir"
    /\ \E ok \in BOOLEAN :
         /\ Tree([tree EXCEPT ![e.name] = File(i, e.size, Stamped(e, ok), Flushed)], {})
         /\ unstamped' = (unstamped \/ ~ok)
    /\ Register(e.name) /\ Becomes(i, "done")
    /\ UNCHANGED <<runVars, phase, failed, events, plain, exposed, settled>>

\* EndFile of a file written in place: there is nothing to rename, and no
\* directory is registered.
StampInPlace(i) ==
    LET e == offer[i] IN
    /\ WriterAt(i, "open") /\ e.long /\ tree[e.name].len = e.size
    /\ \E ok \in BOOLEAN :
         /\ Tree([tree EXCEPT ![e.name] = File(i, e.size, Stamped(e, ok), FALSE)], {})
         /\ unstamped' = (unstamped \/ ~ok)
    /\ Becomes(i, IF durable THEN "sync" ELSE "done")
    /\ UNCHANGED <<runVars, phase, failed, reg, events, plain, exposed, settled>>

\* full_fsync of a file written in place.
SyncInPlace(i) ==
    /\ WriterAt(i, "sync")
    /\ Tree([tree EXCEPT ![offer[i].name].synced = TRUE], {})
    /\ Becomes(i, "done")
    /\ UNCHANGED <<runVars, phase, failed, reg, events, history>>

-----------------------------------------------------------------------------
(* How a run ends.                                                         *)

InFlight(i) == prog[i] \in {"open", "sync"}

\* A pipeline fails (the sender is gone, a digest differs, no space left):
\* what it has in flight is unlinked. The other flows run to their end.
FlowFails(f) ==
    LET mine == {i \in Kept : FlowOf(i) = f}
        gone == {offer[i].name : i \in {j \in mine : offer[j].long /\ InFlight(j)}}
    IN
    /\ phase = "data" /\ f \notin failed /\ Event
    /\ failed' = failed \cup {f}
    /\ prog' = [i \in Entries |-> IF i \in mine /\ prog[i] # "done" THEN "dropped" ELSE prog[i]]
    /\ Tree([n \in Names |-> IF n \in gone THEN Absent ELSE tree[n]], {})
    /\ UNCHANGED <<runVars, phase, reg, history>>

\* Variation of AllWell: only the primary's result is looked at.
PrimaryWell == 0 \notin failed

\* Every pipeline returned Ok.
AllWell == failed = {}

AllEnded == \A i \in Entries : prog[i] \in {"done", "held", "dropped"}

\* flush_directories: one more directory is on permanent storage as it is.
FlushDirectory(d) ==
    /\ phase = "data" /\ AllEnded /\ AllWell /\ d \in reg
    /\ reg' = reg \ {d}
    /\ maybe' = [n \in Names |-> IF Parent[n] = d THEN MayLeave(tree[n]) ELSE maybe[n]]
    /\ UNCHANGED <<runVars, phase, prog, failed, tree, events, history>>

OneOfEach == \A i, j \in Entries : offer[i].name = offer[j].name => i = j

Acknowledge ==
    /\ phase = "data" /\ AllEnded /\ AllWell /\ reg = {}
    /\ phase' = "acked"
    /\ settled' = IF OneOfEach /\ ~unstamped THEN offer ELSE <<>>
    /\ UNCHANGED <<runVars, prog, failed, reg, diskVars, events, plain, exposed, unstamped>>

\* Nothing of a run is left but the disk.
Gone ==
    /\ phase' = "idle" /\ offer' = <<>> /\ held' = {} /\ prog' = <<>>
    /\ failed' = {} /\ reg' = {} /\ flows' = 1 /\ durable' = FALSE /\ repeat' = FALSE

NoReceiver ==
    /\ Gone
    /\ before' = tree /\ unstamped' = FALSE
    /\ UNCHANGED <<diskVars, plain, exposed, settled>>

\* Every pipeline has ended and one had failed.
RunFails == phase = "data" /\ AllEnded /\ ~AllWell /\ NoReceiver /\ UNCHANGED events

\* The process is killed, or a directory cannot be flushed.
Killed == phase = "data" /\ NoReceiver /\ Event

\* Every name shows one of the nodes it may be left with; what was in a
\* directory that is not there is not there either.
PowerCut ==
    /\ Event
    /\ \E left \in [Names -> UNION {maybe[n] : n \in Names}] :
         /\ \A n \in Names : left[n] \in maybe[n]
         /\ tree' = [n \in Names |->
                       IF Parent[n] # Root /\ left[Parent[n]].kind # "dir" THEN Absent
                       ELSE [left[n] EXCEPT !.synced = TRUE]]
    /\ maybe' = [n \in Names |-> {tree'[n]}]
    /\ before' = tree'
    /\ exposed' = (exposed \/ plain) /\ plain' = FALSE /\ unstamped' = FALSE /\ settled' = <<>>
    /\ Gone

-----------------------------------------------------------------------------
NetStep(i)    == MakeDir(i) \/ MakeSymlink(i) \/ CreateScratch(i) \/ CreateInPlace(i)
WriterStep(i) == WriteInPlace(i) \/ FinishFile(i) \/ StampInPlace(i) \/ SyncInPlace(i)

Next ==
    \/ \E o \in Offers, f \in Flows, d \in BOOLEAN : Start(o, f, d)
    \/ \E i \in Entries : NetStep(i) \/ WriterStep(i)
    \/ \E f \in 0 .. flows - 1 : FlowFails(f)
    \/ \E d \in Names \cup {Root} : FlushDirectory(d)
    \/ Acknowledge \/ RunFails \/ Killed \/ PowerCut

Spec == Init /\ [][Next]_vars
-----------------------------------------------------------------------------
(* Properties.                                                             *)

\* A file the receiver calls held is the file offered, whatever runs, kills and
\* cuts came before: "a file that matches both was put there by this tool, from
\* this source, and a file still being written has neither" (file_held). A cut
\* after a run that flushes nothing, or after an in-place write, is excepted
\* (README, Durability).
HeldIsSame ==
    ~exposed => \A i \in held : before[offer[i].name].of = offer[i].of

\* A name that only renames change never loses a whole file: no run or kill
\* takes it away, and while every run was durable no cut can ("an interrupted
\* transfer costs the temp file and never the copy that was already there",
\* README; write_loop).
Whole(node) == node.kind = "file" /\ node.of # Lost
OnlyRenamed(n) ==
    /\ Parent[n] = Root
    /\ \A o \in Offers : \A i \in 1 .. Len(o) : o[i].name = n => o[i].kind = "File" /\ ~o[i].long
CopyKept ==
    [][\A n \in Names : OnlyRenamed(n) =>
         /\ phase' # "idle" /\ Whole(tree[n]) => Whole(tree'[n])
         /\ ~plain' /\ ~exposed' /\ (\A node \in maybe[n] : Whole(node)) =>
              \A node \in maybe'[n] : Whole(node)]_vars

\* An acknowledged run leaves every name of a file or a symlink holding an
\* entry offered under that name, whether it was sent or skipped and whatever
\* the other entries did meanwhile (answer_manifest, keep_unskipped).
Holds(i) ==
    LET node == tree[offer[i].name] IN
    /\ node.of = offer[i].of
    /\ CASE offer[i].kind = "File" -> node.kind = "file" /\ node.len = offer[i].size
         [] offer[i].kind = "Symlink" -> node.kind = "link"
         [] offer[i].kind = "Dir" -> node.kind = "dir"
Offered(n) == {i \in Entries : offer[i].name = n}
AckMeansSame ==
    phase = "acked" /\ ~exposed =>
        \A n \in Names : (\E i \in Offered(n) : offer[i].kind # "Dir") => \E i \in Offered(n) : Holds(i)

\* Offering again what was acknowledged sends no file: "a second run over an
\* unchanged tree" (README) finds each one stamped, though runs that failed or
\* were killed came between. Two entries of one name, and a file whose stamp
\* failed, are excepted.
RepeatIsFree == repeat => \A i \in Entries : offer[i].kind = "File" => i \in held

\* On one flow a directory this run made has the mode of its entry: neither the
\* manifest's check nor a file under it made it first with the default mode
\* (file_held, walk_dirs).
DirModeIsOffered ==
    phase = "acked" /\ flows = 1 /\ OneOfEach =>
        \A i \in Entries : offer[i].kind = "Dir" /\ before[offer[i].name] = Absent =>
            tree[offer[i].name] = Dir(offer[i].of)

\* No cut can take entry i from its name, nor the name from its directory.
Survives(i) ==
    LET n == offer[i].name IN
    /\ maybe[n] = {tree[n]} /\ (tree[n].kind = "file" => tree[n].synced)
    /\ Parent[n] # Root => maybe[Parent[n]] = {tree[Parent[n]]}

\* A durable acknowledgement covers every entry this run sent: no power cut
\* takes it back, nor the directory it is in (write_loop, flush_directories).
\* Files written in place are excepted, and a directory entry that met something
\* else (DirOverFile).
MetAnother(i) == offer[i].kind = "Dir" /\ tree[offer[i].name].kind # "dir"
DurableAckCovers ==
    phase = "acked" /\ durable =>
        \A i \in Kept : offer[i].long \/ MetAnother(i) \/ Survives(i)

\* The same of every file offered: "--durable withholds the acknowledgement
\* until each regular file has been flushed [...] and every directory that
\* received an entry has been flushed too" (README, Durability).
DurableAckCoversAll ==
    phase = "acked" /\ durable =>
        \A i \in Entries : offer[i].kind # "File" \/ offer[i].long \/ Survives(i)
=============================================================================
