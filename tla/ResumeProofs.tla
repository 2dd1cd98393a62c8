---------------------------- MODULE ResumeProofs ----------------------------
(***************************************************************************)
(* What holds of repeat runs, for every tree, every set of offers and any  *)
(* number of runs, failed pipelines, kills and power cuts.                 *)
(***************************************************************************)
EXTENDS Resume, FiniteSetTheorems, TLAPS

Points == {"todo", "held", "open", "sync", "done", "dropped"}

\* Every variable keeps its type; without a run there is no offer.
Typed ==
    /\ offer \in Seq(Entry) /\ flows \in Nat \ {0} /\ durable \in BOOLEAN
    /\ phase \in {"idle", "data", "acked"}
    /\ IF phase = "idle" THEN offer = <<>> ELSE offer \in Offers
    /\ held \subseteq Entries /\ prog \in [Entries -> Points]
    /\ reg \subseteq Names \cup {Root}
    /\ tree \in [Names -> NodeType] /\ before \in [Names -> NodeType]
    /\ maybe \in [Names -> SUBSET NodeType]
    /\ events \in Nat /\ plain \in BOOLEAN /\ exposed \in BOOLEAN /\ unstamped \in BOOLEAN
    /\ settled \in Seq(Entry) /\ repeat \in BOOLEAN

\* A file that would be held for an offered one is that one.
Honest(n, node) ==
    \A o \in Offers : \A i \in 1 .. Len(o) :
        o[i].kind = "File" /\ o[i].name = n /\ Matches(node, o[i]) => node.of = o[i].of

\* What the disk holds: until something was written in place or left unflushed,
\* all of it is flushed, what a power cut may bring back included.
DiskInv ==
    /\ \A n \in Names : tree[n] \in maybe[n]
    /\ ~exposed => \A n \in Names : Honest(n, tree[n])
    /\ ~exposed /\ ~plain => \A n \in Names : \A node \in maybe[n] :
          Honest(n, node) /\ (node.kind = "file" => node.synced)

\* Where an entry is, by its kind and the run it is in.
ProgInv ==
    /\ phase # "idle" /\ ~plain => durable
    /\ \A i \in Entries :
         /\ i \in held <=> prog[i] = "held"
         /\ prog[i] \in {"held", "open", "sync"} => offer[i].kind = "File"
         /\ prog[i] = "sync" => offer[i].long
         /\ prog[i] = "dropped" => FlowOf(i) \in failed
         /\ prog[i] \in {"held", "open", "sync", "done"} /\ Parent[offer[i].name] # Root =>
              tree[Parent[offer[i].name]].kind = "dir"
    /\ phase = "acked" => \A i \in Entries : prog[i] \in {"held", "done"}

\* A file that is being written in place is what its name shows.
InPlaceInv ==
    \A i \in Entries : offer[i].long /\ InFlight(i) =>
        LET node == tree[offer[i].name] IN
        /\ plain
        /\ node.kind = "file" /\ node.of = offer[i].of /\ ~node.synced
        /\ prog[i] = "open" => node.mtime = Now /\ node.len <= offer[i].size
        /\ prog[i] = "sync" => node.len = offer[i].size /\ node.mtime \in {Now, offer[i].mtime}

\* HeldIsSame, and what was held is what the manifest was answered from.
HeldInv == ~exposed => \A i \in held : before[offer[i].name].of = offer[i].of

\* A name one of whose entries was written or skipped holds one of them.
HoldsInv ==
    ~exposed => \A i \in Entries :
        offer[i].kind # "Dir" /\ prog[i] \in {"held", "done"} =>
            \E j \in Entries : offer[j].name = offer[i].name /\ Holds(j)

\* While no stamp failed, a file that was finished or skipped would be held.
StampInv ==
    ~unstamped /\ OneOfEach => \A i \in Entries :
        offer[i].kind = "File" /\ prog[i] \in {"held", "sync", "done"} =>
            Matches(tree[offer[i].name], offer[i])

\* What was acknowledged last is still there, and a run that offers it again
\* sends no file.
SettledInv ==
    settled # <<>> =>
        /\ settled \in Offers
        /\ \A i, j \in 1 .. Len(settled) : settled[i].name = settled[j].name => i = j
        /\ \A i \in 1 .. Len(settled) : settled[i].kind = "File" => FileHeld(settled[i])
        /\ phase # "idle" => offer = settled
        /\ phase = "data" => \A i \in Entries : offer[i].kind = "File" => i \in held
RepeatInv == RepeatIsFree

\* On one flow, a directory that was not there has the mode of its entry.
DirInv ==
    flows = 1 /\ OneOfEach /\ phase # "idle" => \A i \in Entries :
        offer[i].kind = "Dir" /\ before[offer[i].name] = Absent =>
            /\ prog[i] = "todo" => tree[offer[i].name] = Absent
            /\ prog[i] = "done" => tree[offer[i].name] = Dir(offer[i].of)

\* A durable run's files are flushed before they show, and a directory it put
\* something in is owed a flush until it had one, after the last change.
FlushInv ==
    durable => \A i \in Kept :
        prog[i] = "done" /\ ~offer[i].long /\ offer[i].kind # "Dir"
        /\ tree[offer[i].name].kind = "file" => tree[offer[i].name].synced
Received(d) ==
    d = Root \/ \E i \in Kept : prog[i] = "done" /\ ~offer[i].long /\ Parent[offer[i].name] = d
RegInv ==
    durable /\ phase # "idle" => \A d \in (Names \cup {Root}) \ reg : Received(d) =>
        AllEnded /\ \A n \in Names : Parent[n] = d => maybe[n] = MayLeave(tree[n])
AckedInv == phase = "acked" => reg = {}

IInv ==
    /\ Typed /\ DiskInv /\ ProgInv /\ InPlaceInv /\ HeldInv /\ HoldsInv /\ StampInv
    /\ SettledInv /\ RepeatInv /\ DirInv /\ FlushInv /\ RegInv /\ AckedInv

-----------------------------------------------------------------------------
(* One entry.                                                              *)

\* What is known of an offer, whichever it is (walk).
LEMMA OfferFacts ==
    ASSUME NEW o \in Offers, NEW i \in 1 .. Len(o)
    PROVE  /\ o \in Seq(Entry) /\ o[i] \in Entry
           /\ o[i].kind \in {"Dir", "Symlink", "File"} /\ o[i].name \in Names
           /\ o[i].of \in Nat /\ o[i].of # 0 /\ o[i].size \in Nat
           /\ o[i].mtime \in Nat /\ o[i].mtime # 0 /\ o[i].long \in BOOLEAN
           /\ Parent[o[i].name] \in Names \cup {Root} /\ Parent[o[i].name] # o[i].name
           /\ \A j \in 1 .. Len(o) : o[i].long /\ o[i].name = o[j].name => i = j
<1>1. o \in Seq(Entry)
  BY ResumeAssumption
<1>2. o[i] \in Entry
  BY <1>1
<1>3. /\ o[i].kind \in {"Dir", "Symlink", "File"} /\ o[i].name \in Names
      /\ o[i].of \in Nat /\ o[i].of # 0 /\ o[i].size \in Nat
      /\ o[i].mtime \in Nat /\ o[i].mtime # 0 /\ o[i].long \in BOOLEAN
  BY <1>2 DEF Entry
<1>4. Parent[o[i].name] \in Names \cup {Root} /\ Parent[o[i].name] # o[i].name
  BY <1>3, ResumeAssumption
<1>5. \A j \in 1 .. Len(o) : o[i].long /\ o[i].name = o[j].name => i = j
  BY ResumeAssumption
<1> QED
  BY <1>1, <1>2, <1>3, <1>4, <1>5

\* The nodes the receiver makes are nodes.
LEMMA NodeFacts ==
    ASSUME NEW k \in {"absent", "dir", "link", "file"}, NEW c \in Nat, NEW l \in Nat,
           NEW m \in Nat, NEW s \in BOOLEAN
    PROVE  /\ Node(k, c, l, m, s) \in NodeType
           /\ Node(k, c, l, m, s).kind = k /\ Node(k, c, l, m, s).of = c
           /\ Node(k, c, l, m, s).len = l /\ Node(k, c, l, m, s).mtime = m
           /\ Node(k, c, l, m, s).synced = s
BY DEF Node, NodeType

\* walk_dirs makes at most the parent, and only where nothing is.
LEMMA WalkedFacts ==
    ASSUME Typed, NEW n \in Names, Parent[n] # n
    PROVE  /\ Walked(n) \in [Names -> NodeType]
           /\ Walked(n)[n] = tree[n]
           /\ \A m \in Names : \/ Walked(n)[m] = tree[m]
                               \/ /\ m = Parent[n] /\ tree[m] = Absent
                                  /\ Walked(n)[m] = Dir(Default)
<1>1. tree \in [Names -> NodeType]
  BY DEF Typed
<1>2. Dir(Default) \in NodeType
  BY NodeFacts DEF Dir, Default
<1> QED
  BY <1>1, <1>2 DEF Walked

\* What a power cut may leave of a node is a node.
LEMMA LeaveFacts ==
    ASSUME NEW node \in NodeType
    PROVE  /\ MayLeave(node) \subseteq NodeType /\ node \in MayLeave(node)
           /\ \A left \in MayLeave(node) : /\ left.kind = node.kind /\ left.synced = node.synced
                                           /\ left # node => node.kind = "file" /\ ~node.synced
BY DEF MayLeave, NodeType, Lost

Owed(i) == IF durable THEN reg \cup {Parent[offer[i].name]} ELSE reg

\* What a step of entry i makes of its name, and how far the entry is then.
Outcome(i, node, p) ==
    LET e == offer[i]  old == tree[e.name] IN
    \/ /\ e.kind = "Dir" /\ prog[i] = "todo" /\ p = "done"
       /\ node = IF old = Absent THEN Dir(e.of) ELSE old
       /\ reg' = Owed(i) /\ plain' = plain /\ unstamped' = unstamped
    \/ /\ e.kind = "Symlink" /\ prog[i] = "todo" /\ p = "done"
       /\ old.kind # "dir" /\ node = Link(e.of)
       /\ reg' = Owed(i) /\ plain' = plain /\ unstamped' = unstamped
    \/ /\ e.kind = "File" /\ ~e.long /\ prog[i] = "todo" /\ p = "open" /\ node = old
       /\ reg' = reg /\ plain' = plain /\ unstamped' = unstamped
    \/ /\ e.kind = "File" /\ e.long /\ prog[i] = "todo" /\ p = "open"
       /\ old.kind # "dir" /\ node = File(i, 0, Now, FALSE)
       /\ reg' = reg /\ plain' = TRUE /\ unstamped' = unstamped
    \/ /\ e.kind = "File" /\ e.long /\ prog[i] = "open" /\ p = "open" /\ old.len < e.size
       /\ node = File(i, old.len + 1, Now, FALSE)
       /\ reg' = reg /\ plain' = plain /\ unstamped' = unstamped
    \/ /\ e.kind = "File" /\ ~e.long /\ prog[i] = "open" /\ p = "done" /\ old.kind # "dir"
       /\ \E ok \in BOOLEAN : /\ node = File(i, e.size, Stamped(e, ok), durable)
                              /\ unstamped' = (unstamped \/ ~ok)
       /\ reg' = Owed(i) /\ plain' = plain
    \/ /\ e.kind = "File" /\ e.long /\ prog[i] = "open" /\ p = IF durable THEN "sync" ELSE "done"
       /\ old.len = e.size
       /\ \E ok \in BOOLEAN : /\ node = File(i, e.size, Stamped(e, ok), FALSE)
                              /\ unstamped' = (unstamped \/ ~ok)
       /\ reg' = reg /\ plain' = plain
    \/ /\ e.kind = "File" /\ e.long /\ prog[i] = "sync" /\ p = "done"
       /\ node = [old EXCEPT !.synced = TRUE]
       /\ reg' = reg /\ plain' = plain /\ unstamped' = unstamped

\* What a step of entry i leaves alone, and where the entry is then.
Frame(i, p) ==
    /\ phase = "data" /\ phase' = "data" /\ i \in Kept /\ FlowOf(i) \notin failed
    /\ UNCHANGED <<runVars, failed, events, settled, exposed>>
    /\ p \in Points /\ prog' = [prog EXCEPT ![i] = p]
    /\ prog[i] = "todo" => \A j \in Before(i) : prog[j] # "todo"

\* What it changes on the disk: the entry's name, and a parent that was missing.
Places(i, node) ==
    LET n == offer[i].name IN
    /\ prog[i] = "todo" /\ Parent[n] # Root => tree'[Parent[n]].kind = "dir"
    /\ prog[i] # "todo" => \A m \in Names : m # n => tree'[m] = tree[m]
    /\ tree' \in [Names -> NodeType] /\ tree'[n] = node
    /\ \A m \in Names : m # n => \/ tree'[m] = tree[m]
                                 \/ m = Parent[n] /\ tree[m] = Absent /\ tree'[m] = Dir(Default)
    /\ maybe' = [m \in Names |->
          maybe[m] \cup (IF tree'[m] = tree[m] THEN {} ELSE MayLeave(tree'[m]))
                   \cup (IF offer[i].kind = "Symlink" /\ m = n THEN {Absent} ELSE {})]

Effect(i, node, p) == Frame(i, p) /\ Places(i, node) /\ Outcome(i, node, p)

\* Where an entry is put by the network thread.
LEMMA NetPlaces ==
    ASSUME Typed, NEW i \in Entries, NEW node \in NodeType, NEW n \in Names,
           n = offer[i].name, Parent[n] # n, prog[i] = "todo", ParentThere(n),
           Tree([Walked(n) EXCEPT ![n] = node],
                IF offer[i].kind = "Symlink" THEN {n} ELSE {})
    PROVE  Places(i, node)
<1>1. /\ Walked(n) \in [Names -> NodeType] /\ tree \in [Names -> NodeType]
      /\ \A m \in Names : \/ Walked(n)[m] = tree[m]
                          \/ m = Parent[n] /\ tree[m] = Absent /\ Walked(n)[m] = Dir(Default)
  BY WalkedFacts DEF Typed
<1>2. tree' = [Walked(n) EXCEPT ![n] = node]
  BY DEF Tree
<1>3. /\ tree' \in [Names -> NodeType] /\ tree'[n] = node
      /\ \A m \in Names : m # n => tree'[m] = Walked(n)[m]
  BY <1>1, <1>2
<1>4. Parent[n] # Root => tree'[Parent[n]].kind = "dir"
  <2>1. Parent[n] # Root => Parent[n] \in Names
    BY ResumeAssumption
  <2> QED
    BY <1>3, <2>1 DEF ParentThere
<1>5. maybe' = [m \in Names |->
         maybe[m] \cup (IF tree'[m] = tree[m] THEN {} ELSE MayLeave(tree'[m]))
                  \cup (IF offer[i].kind = "Symlink" /\ m = n THEN {Absent} ELSE {})]
  <2>1. \A m \in Names :
          m \in (IF offer[i].kind = "Symlink" THEN {n} ELSE {})
          <=> offer[i].kind = "Symlink" /\ m = n
    OBVIOUS
  <2> QED
    BY <1>2, <2>1 DEF Tree
<1> QED
  BY <1>1, <1>3, <1>4, <1>5 DEF Places

\* Where it is put by the writer.
LEMMA WriterPlaces ==
    ASSUME Typed, NEW i \in Entries, NEW node \in NodeType, NEW n \in Names,
           n = offer[i].name, prog[i] # "todo", offer[i].kind # "Symlink",
           Tree([tree EXCEPT ![n] = node], {})
    PROVE  Places(i, node)
<1>1. tree \in [Names -> NodeType]
  BY DEF Typed
<1>2. tree' = [tree EXCEPT ![n] = node]
  BY DEF Tree
<1>3. /\ tree' \in [Names -> NodeType] /\ tree'[n] = node
      /\ \A m \in Names : m # n => tree'[m] = tree[m]
  BY <1>1, <1>2
<1>4. maybe' = [m \in Names |->
         maybe[m] \cup (IF tree'[m] = tree[m] THEN {} ELSE MayLeave(tree'[m]))
                  \cup (IF offer[i].kind = "Symlink" /\ m = n THEN {Absent} ELSE {})]
  BY <1>2 DEF Tree
<1> QED
  BY <1>3, <1>4 DEF Places

\* Each step of an entry is one of these outcomes.
LEMMA EntryEffect ==
    ASSUME Typed, ProgInv, NEW i \in Entries, NetStep(i) \/ WriterStep(i)
    PROVE  \E node \in NodeType, p \in Points : Effect(i, node, p)
<1>1. offer \in Offers
  BY DEF Typed, NetStep, WriterStep, MakeDir, MakeSymlink, CreateScratch, CreateInPlace,
         NetTakes, WriteInPlace, FinishFile, StampInPlace, SyncInPlace, WriterAt
<1> DEFINE e == offer[i]  n == e.name  t == Walked(n)
<1>2. /\ e \in Entry /\ e.kind \in {"Dir", "Symlink", "File"} /\ n \in Names
      /\ e.of \in Nat /\ e.of # 0 /\ e.size \in Nat /\ e.mtime \in Nat /\ e.long \in BOOLEAN
      /\ Parent[n] \in Names \cup {Root} /\ Parent[n] # n
  BY <1>1, OfferFacts DEF Entries
<1>3. /\ tree \in [Names -> NodeType] /\ maybe \in [Names -> SUBSET NodeType]
      /\ prog \in [Entries -> Points] /\ durable \in BOOLEAN
  BY DEF Typed
<1>4. /\ t \in [Names -> NodeType] /\ t[n] = tree[n]
      /\ \A m \in Names : \/ t[m] = tree[m]
                          \/ m = Parent[n] /\ tree[m] = Absent /\ t[m] = Dir(Default)
  BY <1>2, WalkedFacts
<1>5. tree[n] \in NodeType /\ tree[n].len \in Nat
  BY <1>2, <1>3 DEF NodeType
<1>6. ParentThere(n) => (Parent[n] # Root => t[Parent[n]].kind = "dir")
  BY DEF ParentThere
<1>15. /\ prog[i] \in {"open", "sync"} => e.kind = "File"
       /\ prog[i] = "sync" => e.long
  BY DEF ProgInv
<1>16. prog = [prog EXCEPT ![i] = prog[i]]
  BY <1>3
<1> HIDE DEF e, n, t
<1>7. CASE MakeDir(i)
  <2> DEFINE node == IF tree[n] = Absent THEN Dir(e.of) ELSE tree[n]
  <2>1. node \in NodeType
    BY <1>2, <1>5, NodeFacts DEF Dir
  <2>2. tree' = [t EXCEPT ![n] = node]
    BY <1>4, <1>2, <1>7 DEF MakeDir, Tree, e, n, t
  <2>3. Effect(i, node, "done")
    <3>1. Frame(i, "done")
      BY <1>7, <2>1, <2>2, <1>2, <1>3, <1>4, <1>6
         DEF Frame, MakeDir, NetTakes, Becomes, history, runVars, e, n, Points
    <3>2. Places(i, node)
      <4>1. /\ prog[i] = "todo" /\ ParentThere(n)
            /\ Tree([t EXCEPT ![n] = node], IF e.kind = "Symlink" THEN {n} ELSE {})
        BY <1>2, <1>4, <1>7 DEF MakeDir, NetTakes, e, n, t
      <4> QED
        BY <1>2, <2>1, <4>1, NetPlaces DEF e, n, t
    <3>3. Outcome(i, node, "done")
      BY <1>7, <2>1, <2>2, <1>2, <1>3, <1>4, <1>6
         DEF Outcome, MakeDir, NetTakes, Register, Owed, history, runVars, e, n, t
    <3> QED
      BY <3>1, <3>2, <3>3 DEF Effect
  <2> QED
    BY <2>1, <2>3 DEF Points
<1>8. CASE MakeSymlink(i)
  <2> DEFINE node == Link(e.of)
  <2>1. node \in NodeType
    BY <1>2, NodeFacts DEF Link
  <2>2. tree' = [t EXCEPT ![n] = node]
    BY <1>8 DEF MakeSymlink, Tree, e, n, t
  <2>3. Effect(i, node, "done")
    <3>1. Frame(i, "done")
      BY <1>8, <2>1, <2>2, <1>2, <1>3, <1>4, <1>6
         DEF Frame, MakeSymlink, NetTakes, Becomes, history, runVars, e, n, Points
    <3>2. Places(i, node)
      <4>1. /\ prog[i] = "todo" /\ ParentThere(n)
            /\ Tree([t EXCEPT ![n] = node], IF e.kind = "Symlink" THEN {n} ELSE {})
        BY <1>8 DEF MakeSymlink, NetTakes, e, n, t
      <4> QED
        BY <1>2, <2>1, <4>1, NetPlaces DEF e, n, t
    <3>3. Outcome(i, node, "done")
      BY <1>8, <2>1, <2>2, <1>2, <1>3, <1>4, <1>6
         DEF Outcome, MakeSymlink, NetTakes, Register, Owed, history, runVars, e, n, t
    <3> QED
      BY <3>1, <3>2, <3>3 DEF Effect
  <2> QED
    BY <2>1, <2>3 DEF Points
<1>9. CASE CreateScratch(i)
  <2>1. tree' = t
    BY <1>9 DEF CreateScratch, Tree, e, n, t
  <2>2. Effect(i, tree[n], "open")
    <3>1. Frame(i, "open")
      BY <1>9, <2>1, <1>2, <1>3, <1>4, <1>6
         DEF Frame, CreateScratch, NetTakes, Becomes, history, runVars, e, n, Points
    <3>2. Places(i, tree[n])
      <4>1. /\ prog[i] = "todo" /\ ParentThere(n)
            /\ Tree([t EXCEPT ![n] = tree[n]], IF e.kind = "Symlink" THEN {n} ELSE {})
        BY <1>2, <1>4, <1>9 DEF CreateScratch, NetTakes, e, n, t
      <4> QED
        BY <1>2, <1>5, <4>1, NetPlaces DEF e, n, t
    <3>3. Outcome(i, tree[n], "open")
      BY <1>9, <2>1, <1>2, <1>3, <1>4, <1>6
         DEF Outcome, CreateScratch, NetTakes, history, runVars, e, n, t
    <3> QED
      BY <3>1, <3>2, <3>3 DEF Effect
  <2> QED
    BY <1>5, <2>2 DEF Points
<1>10. CASE CreateInPlace(i)
  <2> DEFINE node == File(i, 0, Now, FALSE)
  <2>1. node \in NodeType
    BY <1>2, NodeFacts DEF File, Now, e
  <2>2. tree' = [t EXCEPT ![n] = node]
    BY <1>10 DEF CreateInPlace, Tree, e, n, t
  <2>3. Effect(i, node, "open")
    <3>1. Frame(i, "open")
      BY <1>10, <2>1, <2>2, <1>2, <1>3, <1>4, <1>6
         DEF Frame, CreateInPlace, NetTakes, Becomes, runVars, e, n, Points
    <3>2. Places(i, node)
      <4>1. /\ prog[i] = "todo" /\ ParentThere(n)
            /\ Tree([t EXCEPT ![n] = node], IF e.kind = "Symlink" THEN {n} ELSE {})
        BY <1>10 DEF CreateInPlace, NetTakes, e, n, t
      <4> QED
        BY <1>2, <2>1, <4>1, NetPlaces DEF e, n, t
    <3>3. Outcome(i, node, "open")
      <4>1. /\ e.kind = "File" /\ e.long /\ prog[i] = "todo" /\ tree[n].kind # "dir"
            /\ reg' = reg /\ plain' = TRUE /\ unstamped' = unstamped
        BY <1>4, <1>10 DEF CreateInPlace, NetTakes, e, n, t
      <4> QED
        BY <4>1 DEF Outcome, e, n
    <3> QED
      BY <3>1, <3>2, <3>3 DEF Effect
  <2> QED
    BY <2>1, <2>3 DEF Points
<1>11. CASE WriteInPlace(i)
  <2> DEFINE node == File(i, tree[n].len + 1, Now, FALSE)
  <2>1. node \in NodeType
    <3>1. tree[n].len + 1 \in Nat
      BY <1>5
    <3> QED
      BY <1>2, <3>1, NodeFacts DEF File, Now, e
  <2>2. tree' = [tree EXCEPT ![n] = node]
    BY <1>11, <1>2, <1>3 DEF WriteInPlace, Tree, e, n
  <2>3. Effect(i, node, "open")
    <3>1. Frame(i, "open")
      BY <1>11, <2>1, <2>2, <1>2, <1>3, <1>15, <1>16
         DEF Frame, WriteInPlace, WriterAt, history, runVars, e, n, Points
    <3>2. Places(i, node)
      <4>1. /\ prog[i] # "todo" /\ e.kind # "Symlink"
            /\ Tree([tree EXCEPT ![n] = node], {})
        BY <1>15, <1>11 DEF WriteInPlace, WriterAt, e, n
      <4> QED
        BY <1>2, <2>1, <4>1, WriterPlaces DEF e, n
    <3>3. Outcome(i, node, "open")
      BY <1>11, <2>1, <2>2, <1>2, <1>3, <1>15, <1>16
         DEF Outcome, WriteInPlace, WriterAt, history, runVars, e, n
    <3> QED
      BY <3>1, <3>2, <3>3 DEF Effect
  <2> QED
    BY <2>1, <2>3 DEF Points
<1>12. CASE FinishFile(i)
  <2>1. PICK ok \in BOOLEAN :
          /\ Tree([tree EXCEPT ![n] = File(i, e.size, Stamped(e, ok), durable)], {})
          /\ unstamped' = (unstamped \/ ~ok)
    BY <1>12 DEF FinishFile, Flushed, e, n
  <2> DEFINE node == File(i, e.size, Stamped(e, ok), durable)
  <2>2. node \in NodeType
    BY <1>2, <1>3, NodeFacts DEF File, Now, Stamped, e
  <2>3. tree' = [tree EXCEPT ![n] = node]
    BY <2>1 DEF Tree
  <2>4. Effect(i, node, "done")
    <3>1. Frame(i, "done")
      BY <1>12, <2>1, <2>2, <2>3, <1>2, <1>3, <1>15
         DEF Frame, FinishFile, WriterAt, Becomes, runVars, e, n, Points
    <3>2. Places(i, node)
      <4>1. /\ prog[i] # "todo" /\ e.kind # "Symlink"
            /\ Tree([tree EXCEPT ![n] = node], {})
        BY <1>15, <1>12, <2>1 DEF FinishFile, WriterAt, e, n
      <4> QED
        BY <1>2, <2>2, <4>1, WriterPlaces DEF e, n
    <3>3. Outcome(i, node, "done")
      BY <1>12, <2>1, <2>2, <2>3, <1>2, <1>3, <1>15
         DEF Outcome, FinishFile, WriterAt, Register, Owed, runVars, e, n
    <3> QED
      BY <3>1, <3>2, <3>3 DEF Effect
  <2> QED
    BY <2>2, <2>4 DEF Points
<1>13. CASE StampInPlace(i)
  <2>1. PICK ok \in BOOLEAN :
          /\ Tree([tree EXCEPT ![n] = File(i, e.size, Stamped(e, ok), FALSE)], {})
          /\ unstamped' = (unstamped \/ ~ok)
    BY <1>13 DEF StampInPlace, e, n
  <2> DEFINE node == File(i, e.size, Stamped(e, ok), FALSE)
             p == IF durable THEN "sync" ELSE "done"
  <2>2. node \in NodeType /\ p \in Points
    BY <1>2, NodeFacts DEF File, Now, Stamped, e, Points
  <2>3. tree' = [tree EXCEPT ![n] = node]
    BY <2>1 DEF Tree
  <2>4. Effect(i, node, p)
    <3>1. Frame(i, p)
      BY <1>13, <2>1, <2>2, <2>3, <1>2, <1>3, <1>15
         DEF Frame, StampInPlace, WriterAt, Becomes, runVars, e, n
    <3>2. Places(i, node)
      <4>1. /\ prog[i] # "todo" /\ e.kind # "Symlink"
            /\ Tree([tree EXCEPT ![n] = node], {})
        BY <1>15, <1>13, <2>1 DEF StampInPlace, WriterAt, e, n
      <4> QED
        BY <1>2, <2>2, <4>1, WriterPlaces DEF e, n
    <3>3. Outcome(i, node, p)
      <4>1. /\ e.kind = "File" /\ e.long /\ prog[i] = "open" /\ tree[n].len = e.size
            /\ reg' = reg /\ plain' = plain
        BY <1>13, <1>15 DEF StampInPlace, WriterAt, e, n
      <4> QED
        BY <2>1, <4>1 DEF Outcome, e, n
    <3> QED
      BY <3>1, <3>2, <3>3 DEF Effect
  <2> QED
    BY <2>2, <2>4
<1>14. CASE SyncInPlace(i)
  <2> DEFINE node == [tree[n] EXCEPT !.synced = TRUE]
  <2>1. node \in NodeType
    BY <1>5 DEF NodeType
  <2>2. tree' = [tree EXCEPT ![n] = node]
    BY <1>14, <1>2, <1>3 DEF SyncInPlace, Tree, e, n
  <2>3. Effect(i, node, "done")
    <3>1. Frame(i, "done")
      BY <1>14, <2>1, <2>2, <1>2, <1>3, <1>15
         DEF Frame, SyncInPlace, WriterAt, Becomes, history, runVars, e, n, Points
    <3>2. Places(i, node)
      <4>1. /\ prog[i] # "todo" /\ e.kind # "Symlink"
            /\ Tree([tree EXCEPT ![n] = node], {})
        BY <1>15, <1>14, <1>2, <1>3 DEF SyncInPlace, WriterAt, e, n
      <4> QED
        BY <1>2, <2>1, <4>1, WriterPlaces DEF e, n
    <3>3. Outcome(i, node, "done")
      BY <1>14, <2>1, <2>2, <1>2, <1>3, <1>15
         DEF Outcome, SyncInPlace, WriterAt, history, runVars, e, n
    <3> QED
      BY <3>1, <3>2, <3>3 DEF Effect
  <2> QED
    BY <2>1, <2>3 DEF Points
<1> QED
  BY <1>7, <1>8, <1>9, <1>10, <1>11, <1>12, <1>13, <1>14 DEF NetStep, WriterStep

-----------------------------------------------------------------------------
(* The other steps.                                                        *)

\* A pipeline that fails changes the names it was writing in place, and no
\* entry that is done.
Unlinked(f) ==
    LET mine == {i \in Kept : FlowOf(i) = f}
    IN  {offer[i].name : i \in {j \in mine : offer[j].long /\ InFlight(j)}}

\* What a failed pipeline leaves (InFlight's Drop).
LEMMA FailEffect ==
    ASSUME Typed, NEW f \in 0 .. flows - 1, FlowFails(f)
    PROVE  /\ phase = "data" /\ phase' = "data" /\ offer \in Offers
           /\ UNCHANGED <<runVars, reg, history>> /\ events' \in Nat
           /\ failed' = failed \cup {f}
           /\ prog' \in [Entries -> Points]
           /\ \A i \in Entries : \/ prog'[i] = prog[i]
                                 \/ /\ i \in Kept /\ FlowOf(i) = f
                                    /\ prog[i] # "done" /\ prog'[i] = "dropped"
           /\ \A i \in Entries : i \in Kept /\ FlowOf(i) = f => prog'[i] \in {"done", "dropped"}
           /\ tree' \in [Names -> NodeType] /\ maybe' \in [Names -> SUBSET NodeType]
           /\ \A n \in Names :
                \/ tree'[n] = tree[n] /\ maybe'[n] = maybe[n]
                \/ /\ tree'[n] = Absent
                   /\ maybe'[n] = maybe[n] \cup {Absent}
                   /\ \E j \in Kept : /\ offer[j].name = n /\ offer[j].long /\ InFlight(j)
                                      /\ prog'[j] = "dropped"
<1>1. /\ tree \in [Names -> NodeType] /\ maybe \in [Names -> SUBSET NodeType]
      /\ prog \in [Entries -> Points] /\ events \in Nat
  BY DEF Typed
<1>2. Absent \in NodeType /\ MayLeave(Absent) = {Absent}
  BY NodeFacts DEF Absent, MayLeave, Node
<1>3. /\ phase = "data" /\ phase' = "data" /\ offer \in Offers
      /\ UNCHANGED <<runVars, reg, history>> /\ failed' = failed \cup {f}
  BY DEF FlowFails, Typed
<1>4. events' \in Nat
  BY <1>1 DEF FlowFails, Event
<1> DEFINE mine == {i \in Kept : FlowOf(i) = f}
<1>5. prog' = [i \in Entries |-> IF i \in mine /\ prog[i] # "done" THEN "dropped" ELSE prog[i]]
  BY DEF FlowFails
<1>6. /\ prog' \in [Entries -> Points]
      /\ \A i \in Entries : \/ prog'[i] = prog[i]
                            \/ /\ i \in Kept /\ FlowOf(i) = f
                               /\ prog[i] # "done" /\ prog'[i] = "dropped"
      /\ \A i \in Entries : i \in Kept /\ FlowOf(i) = f => prog'[i] \in {"done", "dropped"}
  BY <1>1, <1>5 DEF Points
<1> DEFINE gone == Unlinked(f)
<1>7. Tree([n \in Names |-> IF n \in gone THEN Absent ELSE tree[n]], {})
  BY DEF FlowFails, Unlinked
<1>8. tree' = [n \in Names |-> IF n \in gone THEN Absent ELSE tree[n]]
  BY <1>7 DEF Tree
<1>9. tree' \in [Names -> NodeType]
  BY <1>1, <1>2, <1>8
<1>10. \A n \in Names :
         maybe'[n] = maybe[n] \cup (IF tree'[n] = tree[n] THEN {} ELSE MayLeave(tree'[n]))
  BY <1>7, <1>8 DEF Tree
<1>11. \A n \in Names : n \notin gone => tree'[n] = tree[n] /\ maybe'[n] = maybe[n]
  BY <1>8, <1>10
<1>12. \A n \in Names : n \in gone =>
         /\ tree'[n] = Absent
         /\ \/ maybe'[n] = maybe[n] \cup {Absent}
            \/ tree[n] = Absent /\ maybe'[n] = maybe[n]
  BY <1>2, <1>8, <1>10
<1>13. \A n \in gone : \E j \in Kept : /\ offer[j].name = n /\ offer[j].long /\ InFlight(j)
                                       /\ prog'[j] = "dropped"
  <2> TAKE n \in gone
  <2>1. PICK j \in Kept : FlowOf(j) = f /\ offer[j].long /\ InFlight(j) /\ offer[j].name = n
    BY DEF Unlinked
  <2>2. prog'[j] = "dropped"
    BY <2>1, <1>5 DEF InFlight, Kept
  <2> QED
    BY <2>1, <2>2
<1>14. maybe' \in [Names -> SUBSET NodeType]
  <2>1. \A n \in Names : maybe'[n] \in SUBSET NodeType
    BY <1>1, <1>2, <1>11, <1>12
  <2> QED
    BY <2>1, <1>7 DEF Tree
<1>15. \A n \in Names :
         \/ tree'[n] = tree[n] /\ maybe'[n] = maybe[n]
         \/ /\ tree'[n] = Absent
            /\ maybe'[n] = maybe[n] \cup {Absent}
            /\ \E j \in Kept : /\ offer[j].name = n /\ offer[j].long /\ InFlight(j)
                               /\ prog'[j] = "dropped"
  BY <1>11, <1>12, <1>13
<1> QED
  BY <1>3, <1>4, <1>6, <1>9, <1>14, <1>15

\* A run that has ended, or was ended, leaves the disk as it is.
Ended == NoReceiver /\ events' \in Nat

\* Every step is one of an entry, or one of these.
LEMMA StepCases ==
    ASSUME Typed, ProgInv, [Next]_vars
    PROVE  \/ \E o \in Offers, f \in Flows, d \in BOOLEAN : Start(o, f, d)
           \/ \E i \in Entries : \E node \in NodeType, p \in Points : Effect(i, node, p)
           \/ \E f \in 0 .. flows - 1 : FlowFails(f)
           \/ \E d \in Names \cup {Root} : FlushDirectory(d)
           \/ Acknowledge \/ Ended \/ PowerCut \/ UNCHANGED vars
<1>1. ASSUME NEW i \in Entries, NetStep(i) \/ WriterStep(i)
      PROVE  \E node \in NodeType, p \in Points : Effect(i, node, p)
  BY <1>1, EntryEffect
<1>2. RunFails \/ Killed => Ended
  <2>1. events \in Nat
    BY DEF Typed
  <2> QED
    BY <2>1 DEF RunFails, Killed, Ended, Event
<1> QED
  BY <1>1, <1>2 DEF Next

\* The progress of no entries.
LEMMA NoProgress == <<>> \in [{} -> Points] /\ <<>> \in Seq(Entry)
<1>1. DOMAIN <<>> = {}
  OBVIOUS
<1>2. <<>> = [x \in {} |-> "todo"]
  BY <1>1
<1>3. [x \in {} |-> "todo"] \in [{} -> Points]
  OBVIOUS
<1> QED
  BY <1>2, <1>3

\* With nobody there, no entry is.
LEMMA NoEntries ==
    ASSUME Gone
    PROVE  Entries' = {} /\ offer' = <<>> /\ phase' = "idle" /\ held' = {} /\ prog' = <<>>
           /\ reg' = {} /\ failed' = {} /\ flows' = 1 /\ durable' = FALSE /\ repeat' = FALSE
BY DEF Gone, Entries

\* What a power cut leaves under a name is one of the nodes it may leave, or
\* nothing.
LEMMA CutEffect ==
    ASSUME Typed, PowerCut
    PROVE  /\ Gone /\ events' \in Nat /\ before' = tree'
           /\ exposed' = (exposed \/ plain) /\ plain' = FALSE /\ unstamped' = FALSE
           /\ settled' = <<>>
           /\ tree' \in [Names -> NodeType] /\ maybe' = [n \in Names |-> {tree'[n]}]
           /\ \A n \in Names : \/ tree'[n] = Absent /\ Parent[n] # Root
                               \/ \E node \in maybe[n] : tree'[n] = [node EXCEPT !.synced = TRUE]
<1>1. maybe \in [Names -> SUBSET NodeType] /\ events \in Nat
  BY DEF Typed
<1>2. PICK left \in [Names -> UNION {maybe[n] : n \in Names}] :
        /\ \A n \in Names : left[n] \in maybe[n]
        /\ tree' = [n \in Names |->
                      IF Parent[n] # Root /\ left[Parent[n]].kind # "dir" THEN Absent
                      ELSE [left[n] EXCEPT !.synced = TRUE]]
  BY DEF PowerCut
<1>3. Absent \in NodeType
  BY NodeFacts DEF Absent
<1>4. \A node \in NodeType : [node EXCEPT !.synced = TRUE] \in NodeType
  BY DEF NodeType
<1>5. tree' \in [Names -> NodeType]
  BY <1>1, <1>2, <1>3, <1>4
<1>6. \A n \in Names : \/ tree'[n] = Absent /\ Parent[n] # Root
                       \/ \E node \in maybe[n] : tree'[n] = [node EXCEPT !.synced = TRUE]
  BY <1>2
<1> QED
  <2>1. events' \in Nat
    BY <1>1 DEF PowerCut, Event
  <2>2. /\ Gone /\ before' = tree' /\ exposed' = (exposed \/ plain) /\ plain' = FALSE
        /\ unstamped' = FALSE /\ settled' = <<>> /\ maybe' = [n \in Names |-> {tree'[n]}]
    BY Zenon DEF PowerCut
  <2> QED
    BY <1>5, <1>6, <2>1, <2>2, Zenon

-----------------------------------------------------------------------------
(* Types.                                                                  *)

\* The types before the first run.
LEMMA InitTyped == Init => Typed
<1> SUFFICES ASSUME Init PROVE Typed
  OBVIOUS
<1>1. Entries = {} /\ offer = <<>>
  BY DEF Init, Entries
<1>2. tree \in [Names -> NodeType]
  BY ResumeAssumption DEF Init
<1>3. maybe \in [Names -> SUBSET NodeType]
  BY <1>2 DEF Init
<1> QED
  <2>1. prog \in [Entries -> Points] /\ held \subseteq Entries
    BY <1>1, NoProgress DEF Init
  <2>2. offer \in Seq(Entry) /\ settled \in Seq(Entry)
    BY NoProgress DEF Init
  <2> QED
    <3>0. 1 \in Nat \ {0}
      OBVIOUS
    <3>1. flows \in Nat \ {0} /\ durable \in BOOLEAN /\ phase \in {"idle", "data", "acked"}
      BY <3>0, Zenon DEF Init
    <3>2. IF phase = "idle" THEN offer = <<>> ELSE offer \in Offers
      BY DEF Init
    <3>3. reg \subseteq Names \cup {Root} /\ before \in [Names -> NodeType] /\ events \in Nat
      BY <1>2 DEF Init
    <3>4. plain \in BOOLEAN /\ exposed \in BOOLEAN /\ unstamped \in BOOLEAN /\ repeat \in BOOLEAN
      BY DEF Init
    <3> QED
      BY <1>2, <1>3, <2>1, <2>2, <3>1, <3>2, <3>3, <3>4 DEF Typed

\* The types after any step.
LEMMA NextTyped ==
    ASSUME Typed, ProgInv, [Next]_vars
    PROVE  Typed'
<1>1. CASE \E o \in Offers, f \in Flows, d \in BOOLEAN : Start(o, f, d)
  <2>1. PICK o \in Offers, f \in Flows, d \in BOOLEAN : Start(o, f, d)
    BY <1>1
  <2>2. o \in Seq(Entry) /\ f \in Nat \ {0} /\ Entries' = 1 .. Len(o)
    BY <2>1, ResumeAssumption DEF Start, Entries
  <2>3. held' \subseteq Entries' /\ prog' \in [Entries' -> Points]
    BY <2>1, <2>2 DEF Start, Points
  <2>4. events' \in Nat /\ plain' \in BOOLEAN /\ repeat' \in BOOLEAN
    BY <2>1 DEF Start, Event, Typed
  <2>5. settled' \in Seq(Entry)
    BY <2>1 DEF Start, Typed
  <2> QED
    BY <2>1, <2>2, <2>3, <2>4, <2>5 DEF Start, Typed, AfterCheck
<1>2. CASE \E i \in Entries : \E node \in NodeType, p \in Points : Effect(i, node, p)
  <2>1. PICK i \in Entries, node \in NodeType, p \in Points : Effect(i, node, p)
    BY <1>2
  <2>2. offer \in Offers /\ offer' = offer /\ Entries' = Entries
    BY <2>1 DEF Effect, Frame, Places, Typed, runVars, Entries
  <2>3. Parent[offer[i].name] \in Names \cup {Root}
    BY <2>2, OfferFacts DEF Entries
  <2>4. reg' \subseteq Names \cup {Root} /\ plain' \in BOOLEAN /\ unstamped' \in BOOLEAN
    BY <2>1, <2>3 DEF Effect, Frame, Places, Outcome, Owed, Typed
  <2>5. prog' \in [Entries -> Points]
    BY <2>1 DEF Effect, Frame, Places, Typed
  <2>6. maybe' \in [Names -> SUBSET NodeType]
    <3>1. Absent \in NodeType
      BY NodeFacts DEF Absent
    <3>2. tree' \in [Names -> NodeType] /\ maybe \in [Names -> SUBSET NodeType]
      BY <2>1 DEF Effect, Frame, Places, Typed
    <3>3. \A m \in Names : MayLeave(tree'[m]) \subseteq NodeType
      BY <3>2, LeaveFacts
    <3> QED
      BY <2>1, <3>1, <3>2, <3>3 DEF Effect, Frame, Places
  <2> QED
    BY <2>1, <2>2, <2>4, <2>5, <2>6 DEF Effect, Frame, Places, Typed, runVars
<1>3. CASE \E f \in 0 .. flows - 1 : FlowFails(f)
  BY <1>3, FailEffect DEF Typed, runVars, history, Entries
<1>4. CASE \E d \in Names \cup {Root} : FlushDirectory(d)
  <2>1. PICK d \in Names \cup {Root} : FlushDirectory(d)
    BY <1>4
  <2>2. \A n \in Names : MayLeave(tree[n]) \subseteq NodeType
    BY LeaveFacts DEF Typed
  <2>3. maybe' \in [Names -> SUBSET NodeType]
    BY <2>1, <2>2 DEF FlushDirectory, Typed
  <2> QED
    BY <2>1, <2>3 DEF FlushDirectory, Typed, runVars, history, Entries
<1>5. CASE Acknowledge
  BY <1>5 DEF Acknowledge, Typed, runVars, diskVars, Entries
<1>6. CASE Ended
  <2>1. Gone /\ before' = tree /\ UNCHANGED <<tree, maybe, plain, exposed, settled>>
        /\ events' \in Nat /\ unstamped' = FALSE
    BY <1>6 DEF Ended, NoReceiver, diskVars
  <2>2. prog' \in [Entries' -> Points] /\ offer' \in Seq(Entry)
    BY <2>1, NoEntries, NoProgress
  <2>3. 1 \in Nat \ {0}
    OBVIOUS
  <2>4. /\ flows' \in Nat \ {0} /\ durable' \in BOOLEAN /\ phase' = "idle" /\ offer' = <<>>
        /\ repeat' \in BOOLEAN /\ unstamped' \in BOOLEAN
        /\ held' = {} /\ reg' = {}
    BY <2>1, <2>3, NoEntries, Zenon
  <2>5. /\ tree' \in [Names -> NodeType] /\ before' \in [Names -> NodeType]
        /\ maybe' \in [Names -> SUBSET NodeType] /\ settled' \in Seq(Entry)
        /\ plain' \in BOOLEAN /\ exposed' \in BOOLEAN
    BY <2>1 DEF Typed
  <2> QED
    BY <2>1, <2>2, <2>4, <2>5 DEF Typed
<1>7. CASE PowerCut
  <2>1. maybe' \in [Names -> SUBSET NodeType]
    BY <1>7, CutEffect
  <2>2. Gone
    BY <1>7, CutEffect
  <2>3. prog' \in [Entries' -> Points] /\ offer' \in Seq(Entry) /\ settled' \in Seq(Entry)
    BY <1>7, <2>2, CutEffect, NoEntries, NoProgress
  <2>4. exposed' \in BOOLEAN /\ plain' \in BOOLEAN /\ unstamped' \in BOOLEAN
    BY <1>7, CutEffect DEF Typed
  <2>5. 1 \in Nat \ {0}
    OBVIOUS
  <2>6. /\ flows' \in Nat \ {0} /\ durable' \in BOOLEAN /\ phase' = "idle" /\ offer' = <<>>
        /\ repeat' \in BOOLEAN /\ held' = {} /\ reg' = {}
    BY <2>2, <2>5, NoEntries, Zenon
  <2>7. /\ tree' \in [Names -> NodeType] /\ before' \in [Names -> NodeType] /\ events' \in Nat
    BY <1>7, CutEffect, Zenon
  <2> QED
    BY <2>1, <2>3, <2>4, <2>6, <2>7 DEF Typed
<1>8. CASE UNCHANGED vars
  BY <1>8 DEF vars, runVars, diskVars, history, Typed, Entries
<1> QED
  BY <1>1, <1>2, <1>3, <1>4, <1>5, <1>6, <1>7, <1>8, StepCases

-----------------------------------------------------------------------------
(* The disk.                                                               *)

\* No offered mtime is that of a write, and only a file is held.
LEMMA HonestOther ==
    ASSUME NEW n, NEW node, node.kind # "file" \/ node.mtime = Now
    PROVE  Honest(n, node)
<1> SUFFICES ASSUME NEW o \in Offers, NEW i \in 1 .. Len(o), Matches(node, o[i])
             PROVE  FALSE
  BY DEF Honest
<1>1. o[i].mtime # 0
  BY OfferFacts
<1> QED
  BY <1>1 DEF Matches, Now

\* Two offered files that are alike are the same (README, "Contents are not
\* compared").
LEMMA HonestFile ==
    ASSUME NEW p \in Offers, NEW j \in 1 .. Len(p), p[j].kind = "File", NEW node,
           node.of = p[j].of, node.len = p[j].size, node.mtime = p[j].mtime
    PROVE  Honest(p[j].name, node)
<1> SUFFICES ASSUME NEW o \in Offers, NEW i \in 1 .. Len(o), o[i].kind = "File",
                    o[i].name = p[j].name, Matches(node, o[i])
             PROVE  node.of = o[i].of
  BY DEF Honest
<1>1. o[i].size = p[j].size /\ o[i].mtime = p[j].mtime
  BY DEF Matches
<1> QED
  BY <1>1, ResumeAssumption

\* Flushing a file changes nothing the manifest looks at.
LEMMA HonestSynced ==
    ASSUME NEW n, NEW node \in NodeType, Honest(n, node)
    PROVE  Honest(n, [node EXCEPT !.synced = TRUE])
<1> DEFINE after == [node EXCEPT !.synced = TRUE]
<1>1. after.kind = node.kind /\ after.len = node.len /\ after.mtime = node.mtime /\ after.of = node.of
  BY DEF NodeType
<1> HIDE DEF after
<1>2. Honest(n, after)
  BY <1>1 DEF Honest, Matches
<1> QED
  BY <1>2 DEF after

\* What a step makes of its name is honest, and while nothing was written in
\* place or left unflushed, flushed.
LEMMA EffectHonest ==
    ASSUME Typed, ProgInv, InPlaceInv, NEW i \in Entries, NEW node \in NodeType,
           NEW p \in Points, Effect(i, node, p), Honest(offer[i].name, tree[offer[i].name])
    PROVE  /\ Honest(offer[i].name, node)
           /\ ~plain' /\ node # tree[offer[i].name] => (node.kind = "file" => node.synced)
<1> DEFINE e == offer[i]  n == e.name
<1>1. /\ offer \in Offers /\ e.of \in Nat /\ e.size \in Nat /\ e.mtime \in Nat /\ n \in Names
      /\ e.mtime # 0 /\ i \in 1 .. Len(offer)
  BY OfferFacts DEF Effect, Frame, Places, Typed, Entries
<1>2. tree[n] \in NodeType /\ tree[n].len \in Nat /\ durable \in BOOLEAN
  BY <1>1 DEF Typed, NodeType
<1>3. Outcome(i, node, p) /\ phase = "data"
  BY DEF Effect, Frame
<1>4. CASE node = tree[n]
  BY <1>4
<1>5. CASE e.kind = "Dir" /\ node = Dir(e.of)
  <2>1. node.kind = "dir"
    BY <1>5 DEF Dir, Node
  <2> QED
    BY <2>1, HonestOther
<1>6. CASE node = Link(e.of)
  <2>1. node.kind = "link"
    BY <1>6 DEF Link, Node
  <2> QED
    BY <2>1, HonestOther
<1>7. CASE node = File(i, 0, Now, FALSE) /\ plain' = TRUE
  <2>1. node.mtime = Now
    BY <1>7 DEF File, Node
  <2> QED
    BY <1>7, <2>1, HonestOther
<1>8. CASE /\ e.long /\ prog[i] = "open" /\ plain' = plain
           /\ node = File(i, tree[n].len + 1, Now, FALSE)
  <2>1. node.mtime = Now
    BY <1>8 DEF File, Node
  <2>2. plain
    BY <1>8 DEF InPlaceInv, InFlight
  <2> QED
    BY <1>8, <2>1, <2>2, HonestOther
<1>9. ASSUME NEW s \in BOOLEAN, NEW ok \in BOOLEAN, e.kind = "File",
             node = File(i, e.size, Stamped(e, ok), s)
      PROVE  Honest(n, node) /\ node.synced = s
  <2>1. node.of = e.of /\ node.len = e.size /\ node.mtime = Stamped(e, ok) /\ node.synced = s
    BY <1>9 DEF File, Node
  <2>2. CASE ok
    BY <1>1, <1>9, <2>1, <2>2, HonestFile DEF Stamped
  <2>3. CASE ~ok
    BY <2>1, <2>3, HonestOther DEF Stamped
  <2> QED
    BY <2>1, <2>2, <2>3
<1>10. CASE /\ e.kind = "File" /\ ~e.long /\ plain' = plain
            /\ \E ok \in BOOLEAN : node = File(i, e.size, Stamped(e, ok), durable)
  <2>1. ~plain => durable
    BY <1>3 DEF ProgInv
  <2> QED
    BY <1>2, <1>9, <1>10, <2>1
<1>11. CASE /\ e.kind = "File" /\ e.long /\ prog[i] = "open" /\ plain' = plain
            /\ \E ok \in BOOLEAN : node = File(i, e.size, Stamped(e, ok), FALSE)
  <2>1. plain
    BY <1>11 DEF InPlaceInv, InFlight
  <2> QED
    BY <1>9, <1>11, <2>1
<1>12. CASE /\ e.long /\ prog[i] = "sync" /\ plain' = plain
            /\ node = [tree[n] EXCEPT !.synced = TRUE]
  <2>1. node.synced
    BY <1>2, <1>12 DEF NodeType
  <2> QED
    BY <1>2, <1>12, <2>1, HonestSynced
<1> QED
  BY <1>3, <1>4, <1>5, <1>6, <1>7, <1>8, <1>10, <1>11, <1>12 DEF Outcome

\* The next disk is one that DiskInv allows, after any step.
LEMMA NextDisk ==
    ASSUME Typed, DiskInv, ProgInv, InPlaceInv, [Next]_vars
    PROVE  DiskInv'
<1> USE DEF DiskInv
<1>1. CASE \E o \in Offers, f \in Flows, d \in BOOLEAN : Start(o, f, d)
  <2>1. PICK o \in Offers, f \in Flows, d \in BOOLEAN : Start(o, f, d)
    BY <1>1
  <2>2. tree' = tree /\ maybe' = maybe /\ exposed' = exposed /\ (plain => plain')
    BY <2>1, Zenon DEF Start, AfterCheck
  <2> QED
    BY <2>2
<1>2. CASE \E i \in Entries : \E node \in NodeType, p \in Points : Effect(i, node, p)
  <2>1. PICK i \in Entries, node \in NodeType, p \in Points : Effect(i, node, p)
    BY <1>2
  <2> DEFINE n == offer[i].name
  <2>0. plain => plain'
    <3>1. Outcome(i, node, p)
      BY <2>1 DEF Effect
    <3> QED
      BY <3>1, Zenon DEF Outcome
  <2>2. /\ exposed' = exposed /\ tree'[n] = node /\ tree' \in [Names -> NodeType]
        /\ tree \in [Names -> NodeType] /\ (plain => plain')
    BY <2>0, <2>1, Zenon DEF Effect, Frame, Places, Typed
  <2>3. n \in Names
    BY <2>1, OfferFacts DEF Effect, Frame, Places, Typed, Entries
  <2>4. \A m \in Names : m # n =>
          tree'[m] = tree[m] \/ (tree[m] = Absent /\ tree'[m] = Dir(Default))
    BY <2>1, Zenon DEF Effect, Frame, Places
  <2>5. \A m \in Names :
          maybe'[m] = maybe[m] \cup (IF tree'[m] = tree[m] THEN {} ELSE MayLeave(tree'[m]))
                               \cup (IF offer[i].kind = "Symlink" /\ m = n THEN {Absent} ELSE {})
    BY <2>1 DEF Effect, Frame, Places
  <2>6. Absent.kind = "absent" /\ Dir(Default).kind = "dir"
    BY DEF Absent, Dir, Node
  <2>7. ~exposed => \A m \in Names :
          /\ Honest(m, tree'[m])
          /\ ~plain' /\ tree'[m] # tree[m] => (tree'[m].kind = "file" => tree'[m].synced)
    <3> SUFFICES ASSUME ~exposed, NEW m \in Names
                 PROVE  /\ Honest(m, tree'[m])
                        /\ ~plain' /\ tree'[m] # tree[m] => (tree'[m].kind = "file" => tree'[m].synced)
      OBVIOUS
    <3>1. CASE m = n
      BY <2>1, <2>2, <3>1, EffectHonest
    <3>2. CASE m # n
      BY <2>4, <2>6, <3>2, HonestOther
    <3> QED
      BY <3>1, <3>2
  <2>8. \A m \in Names : tree'[m] \in maybe'[m]
    BY <2>2, <2>5, LeaveFacts
  <2>9. ASSUME ~exposed, ~plain', NEW m \in Names, NEW left \in maybe'[m]
        PROVE  Honest(m, left) /\ (left.kind = "file" => left.synced)
    <3>1. CASE left \in maybe[m]
      BY <2>2, <2>9, <3>1
    <3>2. CASE left = Absent
      BY <2>6, <3>2, HonestOther
    <3>3. CASE tree'[m] # tree[m] /\ left \in MayLeave(tree'[m])
      <4>1. tree'[m] \in NodeType /\ (tree'[m].kind = "file" => tree'[m].synced)
        BY <2>2, <2>7, <2>9, <3>3
      <4>2. left = tree'[m]
        BY <3>3, <4>1 DEF MayLeave
      <4> QED
        BY <2>7, <2>9, <4>1, <4>2
    <3> QED
      BY <2>5, <2>9, <3>1, <3>2, <3>3
  <2> QED
    BY <2>2, <2>7, <2>8, <2>9
<1>3. CASE \E f \in 0 .. flows - 1 : FlowFails(f)
  <2>1. exposed' = exposed /\ plain' = plain
    BY <1>3, FailEffect DEF history
  <2>2. \A n \in Names : \/ tree'[n] = tree[n] /\ maybe'[n] = maybe[n]
                         \/ tree'[n] = Absent /\ maybe'[n] = maybe[n] \cup {Absent}
    BY <1>3, FailEffect
  <2>3. \A n : Honest(n, Absent) /\ Absent.kind # "file"
    BY HonestOther DEF Absent, Node
  <2> QED
    BY <2>1, <2>2, <2>3
<1>4. CASE \E d \in Names \cup {Root} : FlushDirectory(d)
  <2>1. PICK d \in Names \cup {Root} : FlushDirectory(d)
    BY <1>4
  <2>2. /\ tree' = tree /\ exposed' = exposed /\ plain' = plain
        /\ \A n \in Names : maybe'[n] \in {maybe[n], MayLeave(tree[n])}
    BY <2>1 DEF FlushDirectory, history
  <2>3. \A n \in Names : tree[n] \in MayLeave(tree[n])
    BY LeaveFacts DEF Typed
  <2>4. ~exposed /\ ~plain => \A n \in Names : MayLeave(tree[n]) = {tree[n]}
    BY DEF MayLeave
  <2> QED
    BY <2>2, <2>3, <2>4
<1>5. CASE Acknowledge
  BY <1>5 DEF Acknowledge, diskVars
<1>6. CASE Ended
  BY <1>6 DEF Ended, NoReceiver, diskVars
<1>7. CASE PowerCut
  <2>1. \A n \in Names : tree'[n] \in maybe'[n] /\ maybe'[n] = {tree'[n]}
    BY <1>7, CutEffect
  <2>2. ASSUME ~exposed', NEW n \in Names
        PROVE  Honest(n, tree'[n]) /\ (tree'[n].kind = "file" => tree'[n].synced)
    <3>1. ~exposed /\ ~plain
      BY <1>7, <2>2, CutEffect
    <3>2. CASE tree'[n] = Absent
      BY <3>2, HonestOther DEF Absent, Node
    <3>3. CASE \E node \in maybe[n] : tree'[n] = [node EXCEPT !.synced = TRUE]
      <4>1. PICK node \in maybe[n] : tree'[n] = [node EXCEPT !.synced = TRUE]
        BY <3>3
      <4>2. node \in NodeType /\ Honest(n, node)
        BY <3>1 DEF Typed
      <4>3. tree'[n].synced
        BY <4>1, <4>2 DEF NodeType
      <4> QED
        BY <4>1, <4>2, <4>3, HonestSynced
    <3> QED
      BY <1>7, <3>2, <3>3, CutEffect
  <2> QED
    BY <2>1, <2>2
<1>8. CASE UNCHANGED vars
  BY <1>8 DEF vars, diskVars, history
<1> QED
  BY <1>1, <1>2, <1>3, <1>4, <1>5, <1>6, <1>7, <1>8, StepCases

-----------------------------------------------------------------------------
(* The entries of a run.                                                   *)

\* Two entries of a run, one of a long name, have different names.
LEMMA LongAlone ==
    ASSUME Typed, NEW i \in Entries, NEW j \in Entries, offer[i].long,
           offer[i].name = offer[j].name
    PROVE  i = j
<1>1. CASE phase = "idle"
  BY <1>1 DEF Typed, Entries
<1>2. CASE phase # "idle"
  BY <1>2, OfferFacts DEF Typed, Entries
<1> QED
  BY <1>1, <1>2

\* What the entries of a run are.
LEMMA EntryFacts ==
    ASSUME Typed, NEW i \in Entries
    PROVE  /\ offer \in Offers /\ i \in 1 .. Len(offer) /\ phase # "idle"
           /\ offer[i].kind \in {"Dir", "Symlink", "File"} /\ offer[i].name \in Names
           /\ offer[i].of \in Nat /\ offer[i].of # 0 /\ offer[i].size \in Nat
           /\ offer[i].mtime \in Nat /\ offer[i].mtime # 0 /\ offer[i].long \in BOOLEAN
           /\ Parent[offer[i].name] \in Names \cup {Root}
           /\ Parent[offer[i].name] # offer[i].name
           /\ tree[offer[i].name] \in NodeType /\ tree[offer[i].name].len \in Nat
           /\ prog[i] \in Points
<1>1. offer \in Offers /\ i \in 1 .. Len(offer) /\ phase # "idle"
  BY DEF Typed, Entries
<1>2. offer[i].name \in Names
  BY <1>1, OfferFacts
<1>3. tree[offer[i].name] \in NodeType /\ prog[i] \in Points
  BY <1>2 DEF Typed
<1>4. tree[offer[i].name].len \in Nat
  BY <1>3 DEF NodeType
<1> QED
  BY <1>1, <1>3, <1>4, OfferFacts

\* What a step of an entry leaves alone: the run, the other entries, and what
\* another name holds, unless it was a parent that was missing.
LEMMA EffectKeeps ==
    ASSUME Typed, NEW i \in Entries, NEW node \in NodeType, NEW p \in Points,
           Effect(i, node, p)
    PROVE  /\ offer' = offer /\ flows' = flows /\ durable' = durable /\ held' = held
           /\ before' = before /\ repeat' = repeat /\ failed' = failed
           /\ settled' = settled /\ exposed' = exposed /\ (plain => plain')
           /\ (unstamped => unstamped')
           /\ phase = "data" /\ phase' = "data" /\ i \in Kept
           /\ Entries' = Entries /\ Kept' = Kept
           /\ \A j \in Entries : j # i => prog'[j] = prog[j]
           /\ prog'[i] = p /\ p \in {"open", "sync", "done"}
           /\ prog[i] \in {"todo", "open", "sync"}
           /\ tree'[offer[i].name] = node
           /\ tree \in [Names -> NodeType] /\ tree' \in [Names -> NodeType]
           /\ \A m \in Names : m # offer[i].name /\ tree[m] # Absent => tree'[m] = tree[m]
<1>1. Outcome(i, node, p)
  BY DEF Effect
<1>2. plain => plain'
  BY <1>1, Zenon DEF Outcome
<1>3. unstamped => unstamped'
  BY <1>1, Zenon DEF Outcome
<1>4. p \in {"open", "sync", "done"} /\ prog[i] \in {"todo", "open", "sync"}
  BY <1>1 DEF Outcome
<1>5. /\ offer' = offer /\ flows' = flows /\ durable' = durable /\ held' = held
      /\ before' = before /\ repeat' = repeat /\ failed' = failed
      /\ settled' = settled /\ exposed' = exposed
      /\ phase = "data" /\ phase' = "data" /\ i \in Kept
  BY DEF Effect, Frame, Places, runVars
<1>6. Entries' = Entries /\ Kept' = Kept
  BY <1>5 DEF Entries, Kept
<1>7. prog' = [prog EXCEPT ![i] = p] /\ prog \in [Entries -> Points]
  BY DEF Effect, Frame, Places, Typed
<1>8. /\ tree'[offer[i].name] = node
      /\ \A m \in Names : m # offer[i].name /\ tree[m] # Absent => tree'[m] = tree[m]
  BY Zenon DEF Effect, Frame, Places
<1>9. tree \in [Names -> NodeType] /\ tree' \in [Names -> NodeType]
  BY Zenon DEF Effect, Frame, Places, Typed
<1> QED
  BY <1>2, <1>3, <1>4, <1>5, <1>6, <1>7, <1>8, <1>9

\* A directory stays one (mkdir_at, symlink_at, rename_at).
LEMMA DirsStay ==
    ASSUME Typed, InPlaceInv, NEW i \in Entries, NEW node \in NodeType, NEW p \in Points,
           Effect(i, node, p), NEW m \in Names, tree[m].kind = "dir"
    PROVE  tree'[m] = tree[m]
<1>1. tree[m] # Absent
  BY DEF Absent, Node
<1>2. CASE m # offer[i].name
  BY <1>1, <1>2, EffectKeeps
<1>3. CASE m = offer[i].name
  <2>1. Outcome(i, node, p) /\ tree'[m] = node
    BY <1>3 DEF Effect, Frame, Places
  <2>2. offer[i].long /\ prog[i] \in {"open", "sync"} => tree[m].kind = "file"
    BY <1>3 DEF InPlaceInv, InFlight
  <2> QED
    BY <1>1, <1>3, <2>1, <2>2 DEF Outcome
<1> QED
  BY <1>2, <1>3

\* A directory's flush changes what a power cut may leave, and nothing else.
LEMMA FlushKeeps ==
    ASSUME NEW d \in Names \cup {Root}, FlushDirectory(d)
    PROVE  /\ UNCHANGED <<offer, flows, durable, held, before, repeat, phase, prog, failed, tree>>
           /\ UNCHANGED <<plain, exposed, unstamped, settled>>
           /\ Entries' = Entries /\ Kept' = Kept /\ phase = "data"
BY DEF FlushDirectory, runVars, history, Entries, Kept

\* The acknowledgement comes once every entry is written or skipped and no
\* directory is owed a flush, and changes nothing of that.
LEMMA AckKeeps ==
    ASSUME Typed, ProgInv, Acknowledge
    PROVE  /\ UNCHANGED <<offer, flows, durable, held, before, repeat, prog, failed, tree, maybe, reg>>
           /\ UNCHANGED <<plain, exposed, unstamped>>
           /\ settled' = IF OneOfEach /\ ~unstamped THEN offer ELSE <<>>
           /\ Entries' = Entries /\ Kept' = Kept /\ phase = "data" /\ phase' = "acked" /\ reg = {}
           /\ \A i \in Entries : prog[i] \in {"held", "done"}
<1>1. /\ UNCHANGED <<offer, flows, durable, held, before, repeat, prog, failed, tree, maybe, reg>>
      /\ UNCHANGED <<plain, exposed, unstamped>>
      /\ settled' = IF OneOfEach /\ ~unstamped THEN offer ELSE <<>>
      /\ phase = "data" /\ phase' = "acked" /\ reg = {}
  BY DEF Acknowledge, runVars, diskVars
<1>2. \A i \in Entries : prog[i] \in {"held", "done"}
  BY DEF Acknowledge, AllEnded, AllWell, ProgInv
<1> QED
  BY <1>1, <1>2 DEF Entries, Kept

\* How far an entry is, after any step.
LEMMA NextProg ==
    ASSUME Typed, ProgInv, InPlaceInv, [Next]_vars
    PROVE  ProgInv'
<1>1. CASE \E o \in Offers, f \in Flows, d \in BOOLEAN : Start(o, f, d)
  <2>1. PICK o \in Offers, f \in Flows, d \in BOOLEAN : Start(o, f, d)
    BY <1>1
  <2>2. /\ offer' = o /\ Entries' = 1 .. Len(o) /\ tree' = tree /\ phase' = "data" /\ durable' = d
        /\ plain' = (plain \/ ~d)
        /\ held' = {i \in 1 .. Len(o) : o[i].kind = "File" /\ FileHeld(o[i])}
        /\ prog' = [i \in 1 .. Len(o) |-> IF i \in held' THEN "held" ELSE "todo"]
    BY <2>1, Zenon DEF Start, Entries, AfterCheck
  <2>3. \A i \in 1 .. Len(o) : FileHeld(o[i]) =>
          (Parent[o[i].name] # Root => tree[Parent[o[i].name]].kind = "dir")
    BY DEF FileHeld
  <2>4. \A i \in Entries' : /\ prog'[i] \in {"held", "todo"}
                            /\ i \in held' <=> prog'[i] = "held"
                            /\ prog'[i] = "held" => o[i].kind = "File" /\ FileHeld(o[i])
    BY <2>2
  <2>5. phase' # "idle" /\ ~plain' => durable'
    BY <2>2
  <2> QED
    BY <2>2, <2>3, <2>4, <2>5 DEF ProgInv
<1>2. CASE \E i \in Entries : \E node \in NodeType, p \in Points : Effect(i, node, p)
  <2>1. PICK i \in Entries, node \in NodeType, p \in Points : Effect(i, node, p)
    BY <1>2
  <2>2. /\ offer' = offer /\ held' = held /\ failed' = failed /\ durable' = durable
        /\ (plain => plain') /\ phase = "data" /\ phase' = "data" /\ i \in Kept
        /\ Entries' = Entries /\ flows' = flows
        /\ \A j \in Entries : j # i => prog'[j] = prog[j]
        /\ prog'[i] = p /\ p \in {"open", "sync", "done"}
    BY <2>1, EffectKeeps
  <2>3. \A j \in Entries : FlowOf(j)' = FlowOf(j)
    BY <2>2 DEF FlowOf, Kept, Entries
  <2>4. \A m \in Names : tree[m].kind = "dir" => tree'[m].kind = "dir"
    BY <2>1, DirsStay
  <2>5. /\ p \in {"open", "sync"} => offer[i].kind = "File"
        /\ p = "sync" => offer[i].long
    <3>1. Outcome(i, node, p)
      BY <2>1 DEF Effect
    <3> QED
      BY <3>1 DEF Outcome
  <2>6. Parent[offer[i].name] # Root => tree'[Parent[offer[i].name]].kind = "dir"
    <3>1. CASE prog[i] = "todo"
      BY <2>1, <3>1 DEF Effect, Frame, Places
    <3>2. CASE prog[i] \in {"open", "sync"}
      BY <2>4, <3>2, EntryFacts DEF ProgInv
    <3> QED
      BY <2>1, <3>1, <3>2, EffectKeeps
  <2>7. ASSUME NEW j \in Entries, j # i
        PROVE  /\ j \in held' <=> prog'[j] = "held"
               /\ prog'[j] \in {"held", "open", "sync"} => offer'[j].kind = "File"
               /\ prog'[j] = "sync" => offer'[j].long
               /\ prog'[j] = "dropped" => FlowOf(j)' \in failed'
               /\ prog'[j] \in {"held", "open", "sync", "done"} /\ Parent[offer'[j].name] # Root =>
                    tree'[Parent[offer'[j].name]].kind = "dir"
    BY <2>2, <2>3, <2>4, <2>7, EntryFacts DEF ProgInv
  <2>8. /\ i \in held' <=> prog'[i] = "held"
        /\ prog'[i] = "dropped" => FlowOf(i)' \in failed'
    BY <2>2 DEF Kept
  <2>9. phase' # "idle" /\ ~plain' => durable'
    BY <2>2 DEF ProgInv
  <2> QED
    BY <2>2, <2>5, <2>6, <2>7, <2>8, <2>9 DEF ProgInv
<1>3. CASE \E f \in 0 .. flows - 1 : FlowFails(f)
  <2>1. PICK f \in 0 .. flows - 1 : FlowFails(f)
    BY <1>3
  <2>2. /\ offer' = offer /\ held' = held /\ flows' = flows /\ durable' = durable /\ plain' = plain
        /\ failed' = failed \cup {f} /\ Entries' = Entries /\ phase = "data" /\ phase' = "data"
    BY <2>1, FailEffect DEF runVars, history, Entries
  <2>3. \A j \in Entries : FlowOf(j)' = FlowOf(j)
    BY <2>2 DEF FlowOf, Kept, Entries
  <2>4. \A j \in Entries : \/ prog'[j] = prog[j]
                           \/ j \in Kept /\ FlowOf(j) = f /\ prog'[j] = "dropped"
    BY <2>1, FailEffect
  <2>5. \A m \in Names : tree[m].kind = "dir" => tree'[m] = tree[m]
    <3> SUFFICES ASSUME NEW m \in Names, tree[m].kind = "dir", tree'[m] # tree[m]
                 PROVE  FALSE
      OBVIOUS
    <3>1. PICK j \in Kept : offer[j].name = m /\ offer[j].long /\ InFlight(j)
      BY <2>1, FailEffect
    <3> QED
      BY <3>1 DEF InPlaceInv, Kept
  <2>6. \A j \in Entries : Parent[offer[j].name] \in Names \cup {Root}
    BY EntryFacts
  <2>7. ASSUME NEW j \in Entries
        PROVE  /\ j \in held' <=> prog'[j] = "held"
               /\ prog'[j] \in {"held", "open", "sync"} => offer'[j].kind = "File"
               /\ prog'[j] = "sync" => offer'[j].long
               /\ prog'[j] = "dropped" => FlowOf(j)' \in failed'
               /\ prog'[j] \in {"held", "open", "sync", "done"} /\ Parent[offer'[j].name] # Root =>
                    tree'[Parent[offer'[j].name]].kind = "dir"
    <3>1. CASE prog'[j] = prog[j]
      BY <2>2, <2>3, <2>5, <2>6, <3>1 DEF ProgInv
    <3>2. CASE j \in Kept /\ FlowOf(j) = f /\ prog'[j] = "dropped"
      BY <2>2, <2>3, <3>2 DEF Kept
    <3> QED
      BY <2>4, <3>1, <3>2
  <2>8. phase' # "idle" /\ ~plain' => durable'
    BY <2>2 DEF ProgInv
  <2> QED
    BY <2>2, <2>7, <2>8 DEF ProgInv
<1>4. CASE \E d \in Names \cup {Root} : FlushDirectory(d)
  <2>1. PICK d \in Names \cup {Root} : FlushDirectory(d)
    BY <1>4
  <2>2. /\ UNCHANGED <<offer, flows, durable, held, phase, prog, failed, tree, plain>>
        /\ Entries' = Entries /\ Kept' = Kept /\ phase = "data"
    BY <2>1, FlushKeeps
  <2>3. \A j \in Entries : FlowOf(j)' = FlowOf(j)
    BY <2>2 DEF FlowOf
  <2> QED
    BY <2>2, <2>3 DEF ProgInv
<1>5. CASE Acknowledge
  <2>1. /\ UNCHANGED <<offer, flows, durable, held, prog, failed, tree, plain>>
        /\ Entries' = Entries /\ Kept' = Kept /\ phase = "data"
        /\ \A i \in Entries : prog[i] \in {"held", "done"}
    BY <1>5, AckKeeps
  <2>2. \A j \in Entries : FlowOf(j)' = FlowOf(j)
    BY <2>1 DEF FlowOf
  <2> QED
    BY <2>1, <2>2 DEF ProgInv
<1>6. CASE Ended
  <2>1. Gone
    BY <1>6 DEF Ended, NoReceiver
  <2> QED
    BY <2>1, NoEntries DEF ProgInv
<1>7. CASE PowerCut
  <2>1. Gone
    BY <1>7, CutEffect
  <2> QED
    BY <2>1, NoEntries DEF ProgInv
<1>8. CASE UNCHANGED vars
  BY <1>8 DEF vars, runVars, diskVars, history, ProgInv, Entries, Kept, FlowOf
<1> QED
  BY <1>1, <1>2, <1>3, <1>4, <1>5, <1>6, <1>7, <1>8, StepCases

\* What is written in place is what its name shows, after any step.
LEMMA NextInPlace ==
    ASSUME Typed, ProgInv, InPlaceInv, [Next]_vars
    PROVE  InPlaceInv'
<1>1. CASE \E o \in Offers, f \in Flows, d \in BOOLEAN : Start(o, f, d)
  <2>1. PICK o \in Offers, f \in Flows, d \in BOOLEAN : Start(o, f, d)
    BY <1>1
  <2>2. /\ offer' = o /\ Entries' = 1 .. Len(o)
        /\ prog' = [i \in 1 .. Len(o) |-> IF i \in held' THEN "held" ELSE "todo"]
    BY <2>1, Zenon DEF Start, Entries
  <2>3. \A i \in Entries' : ~InFlight(i)'
    BY <2>2 DEF InFlight
  <2> QED
    BY <2>3 DEF InPlaceInv
<1>2. CASE \E i \in Entries : \E node \in NodeType, p \in Points : Effect(i, node, p)
  <2>1. PICK i \in Entries, node \in NodeType, p \in Points : Effect(i, node, p)
    BY <1>2
  <2>2. /\ offer' = offer /\ (plain => plain') /\ Entries' = Entries
        /\ \A j \in Entries : j # i => prog'[j] = prog[j]
        /\ prog'[i] = p /\ tree'[offer[i].name] = node
        /\ \A m \in Names : m # offer[i].name /\ tree[m] # Absent => tree'[m] = tree[m]
    BY <2>1, EffectKeeps
  <2>3. ASSUME NEW j \in Entries, j # i, offer[j].long, prog'[j] \in {"open", "sync"}
        PROVE  tree'[offer[j].name] = tree[offer[j].name] /\ prog'[j] = prog[j]
    <3>1. prog'[j] = prog[j] /\ tree[offer[j].name] # Absent
      BY <2>2, <2>3 DEF InPlaceInv, InFlight, Absent, Node
    <3>2. offer[j].name # offer[i].name /\ offer[j].name \in Names
      BY <2>3, LongAlone, EntryFacts
    <3> QED
      BY <2>2, <3>1, <3>2
  <2>4. ASSUME offer[i].long, p \in {"open", "sync"}
        PROVE  /\ plain'
               /\ node.kind = "file" /\ node.of = offer[i].of /\ ~node.synced
               /\ p = "open" => node.mtime = Now /\ node.len <= offer[i].size
               /\ p = "sync" => node.len = offer[i].size /\ node.mtime \in {Now, offer[i].mtime}
    <3> DEFINE e == offer[i]
    <3>1. e.size \in Nat /\ tree[e.name].len \in Nat /\ Outcome(i, node, p)
      BY <2>1, EntryFacts DEF Effect
    <3>2. CASE plain' = TRUE /\ p = "open" /\ node = File(i, 0, Now, FALSE)
      BY <3>1, <3>2 DEF File, Node
    <3>3. CASE /\ prog[i] = "open" /\ p = "open" /\ tree[e.name].len < e.size
               /\ node = File(i, tree[e.name].len + 1, Now, FALSE)
      <4>1. tree[e.name].len + 1 <= e.size
        BY <3>1, <3>3
      <4>2. plain'
        BY <2>2, <2>4, <3>3 DEF InPlaceInv, InFlight
      <4> QED
        BY <3>3, <4>1, <4>2 DEF File, Node
    <3>4. CASE /\ prog[i] = "open" /\ p # "open"
               /\ \E ok \in BOOLEAN : node = File(i, e.size, Stamped(e, ok), FALSE)
      <4>1. plain'
        BY <2>2, <2>4, <3>4 DEF InPlaceInv, InFlight
      <4> QED
        BY <3>4, <4>1 DEF File, Node, Stamped
    <3> QED
      BY <2>4, <3>1, <3>2, <3>3, <3>4 DEF Outcome
  <2> QED
    BY <2>2, <2>3, <2>4 DEF InPlaceInv, InFlight
<1>3. CASE \E f \in 0 .. flows - 1 : FlowFails(f)
  <2>1. PICK f \in 0 .. flows - 1 : FlowFails(f)
    BY <1>3
  <2>2. /\ offer' = offer /\ plain' = plain /\ Entries' = Entries
        /\ \A j \in Entries : prog'[j] = prog[j] \/ prog'[j] = "dropped"
    BY <2>1, FailEffect DEF runVars, history, Entries
  <2>3. ASSUME NEW j \in Entries, offer[j].long, prog'[j] \in {"open", "sync"}
        PROVE  tree'[offer[j].name] = tree[offer[j].name] /\ prog'[j] = prog[j]
    <3>1. SUFFICES ASSUME tree'[offer[j].name] # tree[offer[j].name] PROVE FALSE
      BY <2>2, <2>3
    <3>2. offer[j].name \in Names
      BY EntryFacts
    <3>3. PICK k \in Kept : offer[k].name = offer[j].name /\ prog'[k] = "dropped"
      BY <2>1, <3>1, <3>2, FailEffect
    <3>4. k = j
      BY <2>3, <3>3, LongAlone DEF Kept
    <3> QED
      BY <2>3, <3>3, <3>4
  <2> QED
    BY <2>2, <2>3 DEF InPlaceInv, InFlight
<1>4. CASE \E d \in Names \cup {Root} : FlushDirectory(d)
  BY <1>4, FlushKeeps DEF InPlaceInv, InFlight
<1>5. CASE Acknowledge
  BY <1>5, AckKeeps DEF InPlaceInv, InFlight
<1>6. CASE Ended
  <2>1. Gone
    BY <1>6 DEF Ended, NoReceiver
  <2> QED
    BY <2>1, NoEntries DEF InPlaceInv
<1>7. CASE PowerCut
  <2>1. Gone
    BY <1>7, CutEffect
  <2> QED
    BY <2>1, NoEntries DEF InPlaceInv
<1>8. CASE UNCHANGED vars
  BY <1>8 DEF vars, runVars, diskVars, history, InPlaceInv, InFlight, Entries
<1> QED
  BY <1>1, <1>2, <1>3, <1>4, <1>5, <1>6, <1>7, <1>8, StepCases

-----------------------------------------------------------------------------
(* What is held, and what the names hold.                                  *)

\* What was held is the file offered, after any step.
LEMMA NextHeld ==
    ASSUME Typed, DiskInv, ProgInv, HeldInv, [Next]_vars
    PROVE  HeldInv'
<1>1. CASE \E o \in Offers, f \in Flows, d \in BOOLEAN : Start(o, f, d)
  <2>1. PICK o \in Offers, f \in Flows, d \in BOOLEAN : Start(o, f, d)
    BY <1>1
  <2>2. /\ offer' = o /\ before' = tree /\ exposed' = exposed
        /\ held' = {i \in 1 .. Len(o) : o[i].kind = "File" /\ FileHeld(o[i])}
    BY <2>1, Zenon DEF Start
  <2>3. ASSUME ~exposed, NEW i \in held'
        PROVE  tree[o[i].name].of = o[i].of
    <3>1. i \in 1 .. Len(o) /\ o[i].kind = "File" /\ Matches(tree[o[i].name], o[i])
      BY <2>2 DEF FileHeld
    <3>2. o[i].name \in Names
      BY <3>1, OfferFacts
    <3> QED
      BY <2>3, <3>1, <3>2 DEF DiskInv, Honest
  <2> QED
    BY <2>2, <2>3 DEF HeldInv
<1>2. CASE \E i \in Entries : \E node \in NodeType, p \in Points : Effect(i, node, p)
  BY <1>2, EffectKeeps DEF HeldInv
<1>3. CASE \E f \in 0 .. flows - 1 : FlowFails(f)
  BY <1>3, FailEffect DEF runVars, history, HeldInv
<1>4. CASE \E d \in Names \cup {Root} : FlushDirectory(d)
  BY <1>4, FlushKeeps DEF HeldInv
<1>5. CASE Acknowledge
  BY <1>5, AckKeeps DEF HeldInv
<1>6. CASE Ended
  <2>1. Gone
    BY <1>6 DEF Ended, NoReceiver
  <2> QED
    BY <2>1, NoEntries DEF HeldInv
<1>7. CASE PowerCut
  <2>1. Gone
    BY <1>7, CutEffect
  <2> QED
    BY <2>1, NoEntries DEF HeldInv
<1>8. CASE UNCHANGED vars
  BY <1>8 DEF vars, runVars, diskVars, history, HeldInv
<1> QED
  BY <1>1, <1>2, <1>3, <1>4, <1>5, <1>6, <1>7, <1>8, StepCases

\* An entry that is what its name shows is not absent.
LEMMA HoldsIsThere ==
    ASSUME Typed, NEW i \in Entries, Holds(i)
    PROVE  tree[offer[i].name] # Absent
<1>1. offer[i].kind \in {"Dir", "Symlink", "File"}
  BY EntryFacts
<1>2. Absent.kind = "absent"
  BY DEF Absent, Node
<1> QED
  BY <1>1, <1>2 DEF Holds

\* While its name is left alone, an entry that is what it shows stays so.
LEMMA HoldsStays ==
    ASSUME NEW i \in Entries, Holds(i), offer' = offer,
           tree'[offer[i].name] = tree[offer[i].name]
    PROVE  Holds(i)'
BY DEF Holds

\* An entry that has just been written is what its name shows.
LEMMA EffectHolds ==
    ASSUME Typed, InPlaceInv, NEW i \in Entries, NEW node \in NodeType, NEW p \in Points,
           Effect(i, node, p), p \in {"sync", "done"},
           offer[i].kind = "Dir" => tree[offer[i].name] = Absent
    PROVE  Holds(i)'
<1> DEFINE e == offer[i]
<1>1. offer' = offer /\ tree'[e.name] = node /\ Outcome(i, node, p)
  BY EffectKeeps DEF Effect, Frame, Places
<1>2. CASE e.kind = "Dir" /\ node = Dir(e.of)
  BY <1>1, <1>2 DEF Holds, Dir, Node
<1>3. CASE e.kind = "Symlink" /\ node = Link(e.of)
  BY <1>1, <1>3 DEF Holds, Link, Node
<1>4. CASE /\ e.kind = "File"
           /\ \E ok \in BOOLEAN, s \in BOOLEAN : node = File(i, e.size, Stamped(e, ok), s)
  BY <1>1, <1>4 DEF Holds, File, Node
<1>5. CASE /\ e.kind = "File" /\ e.long /\ prog[i] = "sync"
           /\ node = [tree[e.name] EXCEPT !.synced = TRUE]
  <2>1. /\ tree[e.name] \in NodeType /\ tree[e.name].kind = "file"
        /\ tree[e.name].of = e.of /\ tree[e.name].len = e.size
    BY <1>5, EntryFacts DEF InPlaceInv, InFlight
  <2>2. node.kind = "file" /\ node.of = e.of /\ node.len = e.size
    BY <1>5, <2>1 DEF NodeType
  <2> QED
    BY <1>1, <1>5, <2>2 DEF Holds
<1>6. durable \in BOOLEAN
  BY DEF Typed
<1> QED
  BY <1>1, <1>2, <1>3, <1>4, <1>5, <1>6 DEF Outcome

\* A name that was dealt with holds an entry of it, after any step.
LEMMA NextHolds ==
    ASSUME Typed, DiskInv, ProgInv, InPlaceInv, HoldsInv, [Next]_vars
    PROVE  HoldsInv'
<1>1. CASE \E o \in Offers, f \in Flows, d \in BOOLEAN : Start(o, f, d)
  <2>1. PICK o \in Offers, f \in Flows, d \in BOOLEAN : Start(o, f, d)
    BY <1>1
  <2>2. /\ offer' = o /\ tree' = tree /\ exposed' = exposed /\ Entries' = 1 .. Len(o)
        /\ held' = {i \in 1 .. Len(o) : o[i].kind = "File" /\ FileHeld(o[i])}
        /\ prog' = [i \in 1 .. Len(o) |-> IF i \in held' THEN "held" ELSE "todo"]
    BY <2>1, Zenon DEF Start, Entries, AfterCheck
  <2>3. ASSUME ~exposed, NEW i \in Entries', prog'[i] \in {"held", "done"}
        PROVE  \E j \in Entries' : o[j].name = o[i].name /\ Holds(j)'
    <3>1. i \in 1 .. Len(o) /\ o[i].kind = "File" /\ Matches(tree[o[i].name], o[i])
      BY <2>2, <2>3 DEF FileHeld
    <3>2. o[i].name \in Names
      BY <3>1, OfferFacts
    <3>3. tree[o[i].name].of = o[i].of
      BY <2>3, <3>1, <3>2 DEF DiskInv, Honest
    <3>4. Holds(i)'
      BY <2>2, <3>1, <3>3 DEF Holds, Matches
    <3> QED
      BY <2>3, <3>4
  <2> QED
    BY <2>2, <2>3 DEF HoldsInv
<1>2. CASE \E i \in Entries : \E node \in NodeType, p \in Points : Effect(i, node, p)
  <2>1. PICK i \in Entries, node \in NodeType, p \in Points : Effect(i, node, p)
    BY <1>2
  <2> DEFINE n == offer[i].name
  <2>2. /\ offer' = offer /\ exposed' = exposed /\ Entries' = Entries
        /\ \A j \in Entries : j # i => prog'[j] = prog[j]
        /\ prog'[i] = p /\ tree'[n] = node
        /\ \A m \in Names : m # n /\ tree[m] # Absent => tree'[m] = tree[m]
    BY <2>1, EffectKeeps
  <2>3. SUFFICES ASSUME ~exposed, NEW j \in Entries, offer[j].kind # "Dir",
                        prog'[j] \in {"held", "done"}
                 PROVE  \E k \in Entries : offer[k].name = offer[j].name /\ Holds(k)'
    BY <2>2 DEF HoldsInv
  <2>4. ASSUME prog'[j] = prog[j],
               tree[offer[j].name] # Absent => tree'[offer[j].name] = tree[offer[j].name]
        PROVE  \E k \in Entries : offer[k].name = offer[j].name /\ Holds(k)'
    <3>1. PICK k \in Entries : offer[k].name = offer[j].name /\ Holds(k)
      BY <2>3, <2>4 DEF HoldsInv
    <3>2. tree'[offer[k].name] = tree[offer[k].name]
      BY <2>4, <3>1, HoldsIsThere
    <3> QED
      BY <2>2, <3>1, <3>2, HoldsStays
  <2>5. CASE offer[j].name # n
    <3>1. j # i /\ offer[j].name \in Names
      BY <2>5, EntryFacts
    <3> QED
      BY <2>2, <2>4, <2>5, <3>1
  <2>6. CASE offer[j].name = n /\ node = tree[n] /\ j # i
    BY <2>2, <2>4, <2>6
  <2>7. CASE offer[j].name = n /\ Holds(i)'
    BY <2>7
  <2>8. CASE offer[j].name = n /\ p = "open" /\ offer[i].long
    <3>1. j = i
      BY <2>8, LongAlone
    <3> QED
      BY <2>2, <2>3, <2>8, <3>1
  <2>9. CASE p \in {"sync", "done"} /\ (offer[i].kind = "Dir" => tree[n] = Absent)
    <3>1. Holds(i)'
      BY <2>1, <2>9, EffectHolds
    <3> QED
      BY <2>5, <2>7, <3>1
  <2>10. Outcome(i, node, p)
    BY <2>1 DEF Effect
  <2>11. \/ node = tree[n] /\ (p = "open" \/ offer[i].kind = "Dir")
         \/ p = "open" /\ offer[i].long
         \/ p \in {"sync", "done"} /\ (offer[i].kind = "Dir" => tree[n] = Absent)
    BY <2>10 DEF Outcome
  <2>12. CASE node = tree[n] /\ (p = "open" \/ offer[i].kind = "Dir")
    BY <2>2, <2>3, <2>5, <2>6, <2>12
  <2> QED
    BY <2>5, <2>8, <2>9, <2>11, <2>12
<1>3. CASE \E f \in 0 .. flows - 1 : FlowFails(f)
  <2>1. PICK f \in 0 .. flows - 1 : FlowFails(f)
    BY <1>3
  <2>2. /\ offer' = offer /\ exposed' = exposed /\ Entries' = Entries
        /\ \A j \in Entries : prog'[j] = prog[j] \/ prog'[j] = "dropped"
    BY <2>1, FailEffect DEF runVars, history, Entries
  <2>3. SUFFICES ASSUME ~exposed, NEW j \in Entries, offer[j].kind # "Dir",
                        prog'[j] \in {"held", "done"}
                 PROVE  \E k \in Entries : offer[k].name = offer[j].name /\ Holds(k)'
    BY <2>2 DEF HoldsInv
  <2>4. PICK k \in Entries : offer[k].name = offer[j].name /\ Holds(k)
    BY <2>2, <2>3 DEF HoldsInv
  <2>5. tree'[offer[j].name] = tree[offer[j].name]
    <3>1. SUFFICES ASSUME tree'[offer[j].name] # tree[offer[j].name] PROVE FALSE
      OBVIOUS
    <3>2. offer[j].name \in Names
      BY EntryFacts
    <3>3. PICK h \in Kept : /\ offer[h].name = offer[j].name /\ offer[h].long
                            /\ prog'[h] = "dropped"
      BY <2>1, <3>1, <3>2, FailEffect
    <3>4. h = j
      BY <3>3, LongAlone DEF Kept
    <3> QED
      BY <2>3, <3>3, <3>4
  <2> QED
    BY <2>2, <2>4, <2>5, HoldsStays
<1>4. CASE \E d \in Names \cup {Root} : FlushDirectory(d)
  <2>1. UNCHANGED <<offer, tree, exposed, prog>> /\ Entries' = Entries
    BY <1>4, FlushKeeps
  <2> QED
    BY <2>1, HoldsStays DEF HoldsInv
<1>5. CASE Acknowledge
  <2>1. UNCHANGED <<offer, tree, exposed, prog>> /\ Entries' = Entries
    BY <1>5, AckKeeps
  <2> QED
    BY <2>1, HoldsStays DEF HoldsInv
<1>6. CASE Ended
  <2>1. Gone
    BY <1>6 DEF Ended, NoReceiver
  <2> QED
    BY <2>1, NoEntries DEF HoldsInv
<1>7. CASE PowerCut
  <2>1. Gone
    BY <1>7, CutEffect
  <2> QED
    BY <2>1, NoEntries DEF HoldsInv
<1>8. CASE UNCHANGED vars
  <2>1. UNCHANGED <<offer, tree, exposed, prog>> /\ Entries' = Entries
    BY <1>8 DEF vars, runVars, diskVars, history, Entries
  <2> QED
    BY <2>1, HoldsStays DEF HoldsInv
<1> QED
  BY <1>1, <1>2, <1>3, <1>4, <1>5, <1>6, <1>7, <1>8, StepCases

-----------------------------------------------------------------------------
(* What the next manifest will find.                                       *)

\* A failed pipeline takes a name away only from an entry it drops.
LEMMA FailKeeps ==
    ASSUME Typed, NEW f \in 0 .. flows - 1, FlowFails(f), NEW j \in Entries,
           prog'[j] # "dropped"
    PROVE  tree'[offer[j].name] = tree[offer[j].name]
<1> SUFFICES ASSUME tree'[offer[j].name] # tree[offer[j].name] PROVE FALSE
  OBVIOUS
<1>1. offer[j].name \in Names
  BY EntryFacts
<1>2. PICK h \in Kept : /\ offer[h].name = offer[j].name /\ offer[h].long
                        /\ prog'[h] = "dropped"
  BY <1>1, FailEffect
<1>3. h = j
  BY <1>2, LongAlone DEF Kept
<1> QED
  BY <1>2, <1>3

\* A file that was finished would be held, after any step.
LEMMA NextStamp ==
    ASSUME Typed, ProgInv, InPlaceInv, StampInv, [Next]_vars
    PROVE  StampInv'
<1>1. CASE \E o \in Offers, f \in Flows, d \in BOOLEAN : Start(o, f, d)
  <2>1. PICK o \in Offers, f \in Flows, d \in BOOLEAN : Start(o, f, d)
    BY <1>1
  <2>2. /\ offer' = o /\ tree' = tree /\ Entries' = 1 .. Len(o)
        /\ held' = {i \in 1 .. Len(o) : o[i].kind = "File" /\ FileHeld(o[i])}
        /\ prog' = [i \in 1 .. Len(o) |-> IF i \in held' THEN "held" ELSE "todo"]
    BY <2>1, Zenon DEF Start, Entries, AfterCheck
  <2>3. ASSUME NEW i \in Entries', prog'[i] \in {"held", "sync", "done"}
        PROVE  Matches(tree[o[i].name], o[i])
    BY <2>2, <2>3 DEF FileHeld
  <2> QED
    BY <2>2, <2>3 DEF StampInv
<1>2. CASE \E i \in Entries : \E node \in NodeType, p \in Points : Effect(i, node, p)
  <2>1. PICK i \in Entries, node \in NodeType, p \in Points : Effect(i, node, p)
    BY <1>2
  <2> DEFINE e == offer[i]
  <2>2. /\ offer' = offer /\ (unstamped => unstamped') /\ Entries' = Entries
        /\ \A j \in Entries : j # i => prog'[j] = prog[j]
        /\ prog'[i] = p /\ tree'[e.name] = node
        /\ \A m \in Names : m # e.name /\ tree[m] # Absent => tree'[m] = tree[m]
    BY <2>1, EffectKeeps
  <2>3. SUFFICES ASSUME ~unstamped', OneOfEach, NEW j \in Entries, offer[j].kind = "File",
                        prog'[j] \in {"held", "sync", "done"}
                 PROVE  Matches(tree'[offer[j].name], offer[j])
    <3>1. OneOfEach' <=> OneOfEach
      BY <2>2 DEF OneOfEach
    <3> QED
      BY <2>2, <3>1 DEF StampInv
  <2>4. CASE j # i
    <3>1. Matches(tree[offer[j].name], offer[j])
      BY <2>2, <2>3, <2>4 DEF StampInv
    <3>2. offer[j].name # e.name /\ offer[j].name \in Names
      BY <2>3, <2>4, EntryFacts DEF OneOfEach
    <3>3. tree[offer[j].name] # Absent
      BY <3>1 DEF Matches, Absent, Node
    <3> QED
      BY <2>2, <3>1, <3>2, <3>3
  <2>5. CASE j = i
    <3>1. Outcome(i, node, p) /\ tree[e.name] \in NodeType
      BY <2>1, EntryFacts DEF Effect
    <3>2. CASE \E ok \in BOOLEAN, s \in BOOLEAN : /\ node = File(i, e.size, Stamped(e, ok), s)
                                                  /\ unstamped' = (unstamped \/ ~ok)
      <4>1. PICK ok \in BOOLEAN, s \in BOOLEAN : /\ node = File(i, e.size, Stamped(e, ok), s)
                                                 /\ unstamped' = (unstamped \/ ~ok)
        BY <3>2
      <4>2. ok
        BY <2>3, <4>1
      <4> QED
        BY <2>2, <2>5, <4>1, <4>2 DEF Matches, File, Node, Stamped
    <3>3. CASE prog[i] = "sync" /\ node = [tree[e.name] EXCEPT !.synced = TRUE]
      <4>1. Matches(tree[e.name], e)
        BY <2>2, <2>3, <2>5, <3>3 DEF StampInv
      <4>2. /\ node.kind = tree[e.name].kind /\ node.len = tree[e.name].len
            /\ node.mtime = tree[e.name].mtime
        BY <3>1, <3>3 DEF NodeType
      <4> QED
        BY <2>2, <2>5, <4>1, <4>2 DEF Matches
    <3>4. durable \in BOOLEAN
      BY DEF Typed
    <3> QED
      BY <2>2, <2>3, <2>5, <3>1, <3>2, <3>3, <3>4 DEF Outcome
  <2> QED
    BY <2>4, <2>5
<1>3. CASE \E f \in 0 .. flows - 1 : FlowFails(f)
  <2>1. PICK f \in 0 .. flows - 1 : FlowFails(f)
    BY <1>3
  <2>2. /\ offer' = offer /\ unstamped' = unstamped /\ Entries' = Entries
        /\ \A j \in Entries : prog'[j] = prog[j] \/ prog'[j] = "dropped"
    BY <2>1, FailEffect DEF runVars, history, Entries
  <2>3. OneOfEach' <=> OneOfEach
    BY <2>2 DEF OneOfEach
  <2> QED
    BY <2>1, <2>2, <2>3, FailKeeps DEF StampInv
<1>4. CASE \E d \in Names \cup {Root} : FlushDirectory(d)
  BY <1>4, FlushKeeps DEF StampInv, OneOfEach
<1>5. CASE Acknowledge
  BY <1>5, AckKeeps DEF StampInv, OneOfEach
<1>6. CASE Ended
  <2>1. Gone
    BY <1>6 DEF Ended, NoReceiver
  <2> QED
    BY <2>1, NoEntries DEF StampInv
<1>7. CASE PowerCut
  <2>1. Gone
    BY <1>7, CutEffect
  <2> QED
    BY <2>1, NoEntries DEF StampInv
<1>8. CASE UNCHANGED vars
  BY <1>8 DEF vars, runVars, diskVars, history, StampInv, OneOfEach, Entries
<1> QED
  BY <1>1, <1>2, <1>3, <1>4, <1>5, <1>6, <1>7, <1>8, StepCases

\* What was acknowledged last is still there, after any step.
LEMMA NextSettled ==
    ASSUME Typed, ProgInv, InPlaceInv, StampInv, SettledInv, [Next]_vars
    PROVE  SettledInv'
<1>1. CASE \E o \in Offers, f \in Flows, d \in BOOLEAN : Start(o, f, d)
  <2>1. PICK o \in Offers, f \in Flows, d \in BOOLEAN : Start(o, f, d)
    BY <1>1
  <2>2. /\ offer' = o /\ tree' = tree /\ Entries' = 1 .. Len(o)
        /\ held' = {i \in 1 .. Len(o) : o[i].kind = "File" /\ FileHeld(o[i])}
        /\ settled' = IF o = settled THEN settled ELSE <<>>
    BY <2>1, Zenon DEF Start, Entries, AfterCheck
  <2>4. CASE o = settled
    <3>1. settled' = settled
      BY <2>2, <2>4
    <3>2. ASSUME settled # <<>>
          PROVE  \A i \in Entries' : o[i].kind = "File" => i \in held'
      BY <2>2, <2>4, <3>2 DEF SettledInv
    <3>3. ASSUME settled # <<>>, NEW i \in 1 .. Len(settled), settled[i].kind = "File"
          PROVE  FileHeld(settled[i])'
      BY <2>2, <3>1, <3>3 DEF SettledInv, FileHeld
    <3> QED
      BY <2>2, <2>4, <3>1, <3>2, <3>3 DEF SettledInv
  <2>5. CASE o # settled
    BY <2>2, <2>5 DEF SettledInv
  <2> QED
    BY <2>4, <2>5
<1>2. CASE \E i \in Entries : \E node \in NodeType, p \in Points : Effect(i, node, p)
  <2>1. PICK i \in Entries, node \in NodeType, p \in Points : Effect(i, node, p)
    BY <1>2
  <2>2. /\ offer' = offer /\ settled' = settled /\ held' = held /\ Entries' = Entries
        /\ phase = "data" /\ phase' = "data" /\ i \in Kept
        /\ \A m \in Names : m # offer[i].name /\ tree[m] # Absent => tree'[m] = tree[m]
    BY <2>1, EffectKeeps
  <2>3. ASSUME settled # <<>>, NEW j \in 1 .. Len(settled), settled[j].kind = "File"
        PROVE  FileHeld(settled[j])'
    <3>1. offer = settled /\ j \in Entries /\ j \in held /\ FileHeld(offer[j])
      BY <2>2, <2>3 DEF SettledInv, Entries
    <3>2. offer[j].name # offer[i].name
      BY <2>2, <2>3, <3>1 DEF SettledInv, Kept, Entries
    <3>3. offer[j].name \in Names /\ Parent[offer[j].name] \in Names \cup {Root}
      BY <3>1, EntryFacts
    <3>4. tree[offer[j].name] # Absent
      BY <3>1 DEF FileHeld, Matches, Absent, Node
    <3>5. tree'[offer[j].name] = tree[offer[j].name]
      BY <2>2, <3>2, <3>3, <3>4
    <3>6. Parent[offer[j].name] # Root =>
            tree'[Parent[offer[j].name]] = tree[Parent[offer[j].name]]
      BY <2>1, <3>1, <3>3, DirsStay DEF FileHeld
    <3>7. FileHeld(offer[j])'
      <4>1. Parent[offer[j].name] # Root => tree'[Parent[offer[j].name]].kind = "dir"
        BY <3>1, <3>6 DEF FileHeld
      <4> QED
        BY <2>2, <3>1, <3>5, <4>1 DEF FileHeld, Matches
    <3> QED
      BY <2>2, <3>1, <3>7
  <2> QED
    BY <2>2, <2>3 DEF SettledInv, FileHeld
<1>3. CASE \E f \in 0 .. flows - 1 : FlowFails(f)
  <2>1. PICK f \in 0 .. flows - 1 : FlowFails(f)
    BY <1>3
  <2>2. /\ offer' = offer /\ settled' = settled /\ held' = held /\ Entries' = Entries
        /\ phase = "data" /\ phase' = "data"
    BY <2>1, FailEffect DEF runVars, history, Entries
  <2>3. ASSUME settled # <<>>, NEW m \in Names
        PROVE  tree'[m] = tree[m]
    <3> SUFFICES ASSUME tree'[m] # tree[m] PROVE FALSE
      OBVIOUS
    <3>1. PICK k \in Kept : InFlight(k)
      BY <2>1, FailEffect
    <3>2. offer[k].kind = "File" /\ k \in Entries /\ k \notin held
      BY <3>1 DEF ProgInv, InFlight, Kept
    <3> QED
      BY <2>2, <2>3, <3>2 DEF SettledInv
  <2>4. settled # <<>> => \A j \in 1 .. Len(settled) :
          settled[j].name \in Names /\ Parent[settled[j].name] \in Names \cup {Root}
    BY OfferFacts DEF SettledInv
  <2> QED
    BY <2>2, <2>3, <2>4 DEF SettledInv, FileHeld
<1>4. CASE \E d \in Names \cup {Root} : FlushDirectory(d)
  BY <1>4, FlushKeeps DEF SettledInv, FileHeld
<1>5. CASE Acknowledge
  <2>1. /\ UNCHANGED <<offer, prog, tree>> /\ Entries' = Entries /\ phase = "data" /\ phase' = "acked"
        /\ settled' = IF OneOfEach /\ ~unstamped THEN offer ELSE <<>>
        /\ \A i \in Entries : prog[i] \in {"held", "done"}
    BY <1>5, AckKeeps
  <2>2. CASE OneOfEach /\ ~unstamped
    <3>1. offer \in Offers /\ settled' = offer
      BY <2>1, <2>2 DEF Typed
    <3>2. ASSUME NEW i \in Entries, offer[i].kind = "File"
          PROVE  FileHeld(offer[i])
      BY <2>1, <2>2, <3>2 DEF FileHeld, StampInv, ProgInv
    <3> QED
      BY <2>1, <2>2, <3>1, <3>2 DEF SettledInv, FileHeld, OneOfEach, Entries
  <2> QED
    BY <2>1, <2>2 DEF SettledInv
<1>6. CASE Ended
  <2>1. Gone /\ UNCHANGED <<tree, settled>>
    BY <1>6 DEF Ended, NoReceiver, diskVars
  <2> QED
    BY <2>1, NoEntries DEF SettledInv, FileHeld
<1>7. CASE PowerCut
  BY <1>7, CutEffect DEF SettledInv
<1>8. CASE UNCHANGED vars
  BY <1>8 DEF vars, runVars, diskVars, history, SettledInv, FileHeld, Entries
<1> QED
  BY <1>1, <1>2, <1>3, <1>4, <1>5, <1>6, <1>7, <1>8, StepCases

\* A run that offers again what was acknowledged sends no file, after any step.
LEMMA NextRepeat ==
    ASSUME Typed, ProgInv, SettledInv, RepeatInv, [Next]_vars
    PROVE  RepeatInv'
<1> USE DEF RepeatInv, RepeatIsFree
<1>1. CASE \E o \in Offers, f \in Flows, d \in BOOLEAN : Start(o, f, d)
  <2>1. PICK o \in Offers, f \in Flows, d \in BOOLEAN : Start(o, f, d)
    BY <1>1
  <2>2. /\ offer' = o /\ Entries' = 1 .. Len(o) /\ repeat' = (o = settled)
        /\ held' = {i \in 1 .. Len(o) : o[i].kind = "File" /\ FileHeld(o[i])}
    BY <2>1, Zenon DEF Start, Entries
  <2>3. CASE o = settled /\ o # <<>>
    BY <2>2, <2>3 DEF SettledInv
  <2>4. CASE o = <<>>
    <3>1. Entries' = {}
      BY <2>2, <2>4
    <3> QED
      BY <3>1
  <2> QED
    BY <2>2, <2>3, <2>4
<1>2. CASE \E i \in Entries : \E node \in NodeType, p \in Points : Effect(i, node, p)
  BY <1>2, EffectKeeps
<1>3. CASE \E f \in 0 .. flows - 1 : FlowFails(f)
  BY <1>3, FailEffect DEF runVars, Entries
<1>4. CASE \E d \in Names \cup {Root} : FlushDirectory(d)
  BY <1>4, FlushKeeps
<1>5. CASE Acknowledge
  BY <1>5, AckKeeps
<1>6. CASE Ended
  <2>1. Gone
    BY <1>6 DEF Ended, NoReceiver
  <2> QED
    BY <2>1, NoEntries
<1>7. CASE PowerCut
  <2>1. Gone
    BY <1>7, CutEffect
  <2> QED
    BY <2>1, NoEntries
<1>8. CASE UNCHANGED vars
  BY <1>8 DEF vars, runVars, Entries
<1> QED
  BY <1>1, <1>2, <1>3, <1>4, <1>5, <1>6, <1>7, <1>8, StepCases

-----------------------------------------------------------------------------
(* Directories, and what a durable run flushes.                            *)

\* On one flow every entry is in it.
LEMMA OneFlow ==
    ASSUME Typed, flows = 1, NEW i \in Entries
    PROVE  FlowOf(i) = 0
<1> DEFINE S == {j \in Kept : j < i}
<1>1. Entries = 1 .. Len(offer) /\ Len(offer) \in Nat
  BY DEF Typed, Entries
<1>2. IsFiniteSet(S)
  <2>1. IsFiniteSet(1 .. Len(offer))
    BY <1>1, FS_Interval
  <2>2. S \subseteq 1 .. Len(offer)
    BY <1>1 DEF Kept
  <2> QED
    BY <2>1, <2>2, FS_Subset
<1>3. Cardinality(S) \in Nat
  BY <1>2, FS_CardinalityType
<1> HIDE DEF S
<1>4. Cardinality(S) % 1 = 0
  BY <1>3
<1> QED
  BY <1>4 DEF S, FlowOf

\* A directory's mode is that of its entry, after any step.
LEMMA NextDir ==
    ASSUME Typed, ProgInv, InPlaceInv, DirInv, [Next]_vars
    PROVE  DirInv'
<1>1. CASE \E o \in Offers, f \in Flows, d \in BOOLEAN : Start(o, f, d)
  <2>1. PICK o \in Offers, f \in Flows, d \in BOOLEAN : Start(o, f, d)
    BY <1>1
  <2>2. /\ offer' = o /\ tree' = tree /\ before' = tree /\ Entries' = 1 .. Len(o)
        /\ prog' = [i \in 1 .. Len(o) |-> IF i \in held' THEN "held" ELSE "todo"]
    BY <2>1, Zenon DEF Start, Entries, AfterCheck
  <2>3. \A i \in Entries' : prog'[i] # "done"
    BY <2>2
  <2> QED
    BY <2>2, <2>3 DEF DirInv
<1>2. CASE \E i \in Entries : \E node \in NodeType, p \in Points : Effect(i, node, p)
  <2>1. PICK i \in Entries, node \in NodeType, p \in Points : Effect(i, node, p)
    BY <1>2
  <2> DEFINE n == offer[i].name
  <2>2. /\ offer' = offer /\ before' = before /\ flows' = flows /\ Entries' = Entries
        /\ phase = "data" /\ i \in Kept
        /\ \A j \in Entries : j # i => prog'[j] = prog[j]
        /\ prog'[i] = p /\ p \in {"open", "sync", "done"} /\ tree'[n] = node
        /\ \A m \in Names : m # n /\ tree[m] # Absent => tree'[m] = tree[m]
    BY <2>1, EffectKeeps
  <2>3. SUFFICES ASSUME flows = 1, OneOfEach, NEW j \in Entries, offer[j].kind = "Dir",
                        before[offer[j].name] = Absent
                 PROVE  /\ prog'[j] = "todo" => tree'[offer[j].name] = Absent
                        /\ prog'[j] = "done" => tree'[offer[j].name] = Dir(offer[j].of)
    <3>1. OneOfEach' <=> OneOfEach
      BY <2>2 DEF OneOfEach
    <3> QED
      BY <2>2, <3>1 DEF DirInv
  <2>4. /\ prog[j] = "todo" => tree[offer[j].name] = Absent
        /\ prog[j] = "done" => tree[offer[j].name] = Dir(offer[j].of)
    BY <2>2, <2>3 DEF DirInv
  <2>5. CASE j = i
    <3>1. Outcome(i, node, p)
      BY <2>1 DEF Effect
    <3>2. prog[i] = "todo" /\ (node = IF tree[n] = Absent THEN Dir(offer[i].of) ELSE tree[n])
      BY <2>3, <2>5, <3>1 DEF Outcome
    <3> QED
      BY <2>2, <2>4, <2>5, <3>2
  <2>6. CASE j # i
    <3>1. prog'[j] = prog[j] /\ offer[j].name # n /\ offer[j].name \in Names
      BY <2>2, <2>3, <2>6, EntryFacts DEF OneOfEach
    <3>2. CASE prog[j] = "done"
      <4>1. tree[offer[j].name] # Absent
        BY <2>4, <3>2 DEF Dir, Absent, Node
      <4> QED
        BY <2>2, <2>4, <3>1, <3>2, <4>1
    <3>3. CASE prog[j] = "todo"
      <4>1. SUFFICES ASSUME tree'[offer[j].name] # tree[offer[j].name] PROVE FALSE
        BY <2>4, <3>1, <3>3
      <4>2. offer[j].name = Parent[n] /\ prog[i] = "todo"
        BY <2>1, <3>1, <4>1, Zenon DEF Effect, Frame, Places
      <4>3. offer \in Offers /\ i \in 1 .. Len(offer) /\ Parent[n] # Root
        BY <3>1, <4>2, EntryFacts, ResumeAssumption
      <4>4. PICK q \in 1 .. i - 1 : offer[q].kind = "Dir" /\ offer[q].name = Parent[n]
        BY <4>3, ResumeAssumption
      <4>5. q \in Entries /\ q < i
        BY <4>3 DEF Entries, Typed
      <4>6. q = j
        BY <2>3, <4>2, <4>4, <4>5 DEF OneOfEach
      <4>7. j \in Kept
        BY <3>3 DEF ProgInv, Kept
      <4>8. j \in Before(i)
        BY <2>3, <4>5, <4>6, <4>7, OneFlow DEF Before
      <4> QED
        BY <2>1, <3>3, <4>2, <4>8 DEF Effect, Frame, Places
    <3> QED
      BY <3>1, <3>2, <3>3
  <2> QED
    BY <2>5, <2>6
<1>3. CASE \E f \in 0 .. flows - 1 : FlowFails(f)
  <2>1. PICK f \in 0 .. flows - 1 : FlowFails(f)
    BY <1>3
  <2>2. /\ offer' = offer /\ before' = before /\ flows' = flows /\ Entries' = Entries
        /\ phase = "data"
        /\ \A j \in Entries : prog'[j] = prog[j] \/ prog'[j] = "dropped"
    BY <2>1, FailEffect DEF runVars, Entries
  <2>3. OneOfEach' <=> OneOfEach
    BY <2>2 DEF OneOfEach
  <2> QED
    BY <2>1, <2>2, <2>3, FailKeeps DEF DirInv
<1>4. CASE \E d \in Names \cup {Root} : FlushDirectory(d)
  BY <1>4, FlushKeeps DEF DirInv, OneOfEach
<1>5. CASE Acknowledge
  BY <1>5, AckKeeps DEF DirInv, OneOfEach
<1>6. CASE Ended
  <2>1. Gone
    BY <1>6 DEF Ended, NoReceiver
  <2> QED
    BY <2>1, NoEntries DEF DirInv
<1>7. CASE PowerCut
  <2>1. Gone
    BY <1>7, CutEffect
  <2> QED
    BY <2>1, NoEntries DEF DirInv
<1>8. CASE UNCHANGED vars
  BY <1>8 DEF vars, runVars, diskVars, history, DirInv, OneOfEach, Entries
<1> QED
  BY <1>1, <1>2, <1>3, <1>4, <1>5, <1>6, <1>7, <1>8, StepCases

\* A durable run's files are flushed before they show, after any step.
LEMMA NextFlush ==
    ASSUME Typed, ProgInv, FlushInv, [Next]_vars
    PROVE  FlushInv'
<1>1. CASE \E o \in Offers, f \in Flows, d \in BOOLEAN : Start(o, f, d)
  <2>1. PICK o \in Offers, f \in Flows, d \in BOOLEAN : Start(o, f, d)
    BY <1>1
  <2>2. /\ Entries' = 1 .. Len(o)
        /\ prog' = [i \in 1 .. Len(o) |-> IF i \in held' THEN "held" ELSE "todo"]
    BY <2>1, Zenon DEF Start, Entries
  <2>3. \A i \in Kept' : prog'[i] # "done"
    BY <2>2 DEF Kept
  <2> QED
    BY <2>3 DEF FlushInv
<1>2. CASE \E i \in Entries : \E node \in NodeType, p \in Points : Effect(i, node, p)
  <2>1. PICK i \in Entries, node \in NodeType, p \in Points : Effect(i, node, p)
    BY <1>2
  <2> DEFINE n == offer[i].name
  <2>2. /\ offer' = offer /\ durable' = durable /\ Kept' = Kept
        /\ \A j \in Entries : j # i => prog'[j] = prog[j]
        /\ prog'[i] = p /\ tree'[n] = node
    BY <2>1, EffectKeeps
  <2>3. SUFFICES ASSUME durable, NEW j \in Kept, prog'[j] = "done", ~offer[j].long,
                        offer[j].kind # "Dir", tree'[offer[j].name].kind = "file"
                 PROVE  tree'[offer[j].name].synced
    BY <2>2 DEF FlushInv
  <2>4. j \in Entries /\ offer[j].name \in Names
    BY EntryFacts DEF Kept
  <2>5. ASSUME j # i, tree'[offer[j].name] = tree[offer[j].name]
        PROVE  tree'[offer[j].name].synced
    BY <2>2, <2>3, <2>4, <2>5 DEF FlushInv
  <2>6. CASE offer[j].name # n
    <3>1. \/ tree'[offer[j].name] = tree[offer[j].name]
          \/ tree'[offer[j].name] = Dir(Default)
      BY <2>1, <2>4, <2>6, Zenon DEF Effect, Frame, Places
    <3>2. Dir(Default).kind = "dir"
      BY DEF Dir, Node
    <3> QED
      BY <2>3, <2>5, <2>6, <3>1, <3>2
  <2>7. CASE offer[j].name = n
    <3>1. Outcome(i, node, p)
      BY <2>1 DEF Effect
    <3>2. offer[i].long => i = j
      BY <2>4, <2>7, LongAlone
    <3>3. CASE node = tree[n] /\ j # i
      BY <2>2, <2>5, <2>7, <3>3
    <3>4. CASE node \in {Dir(offer[i].of), Link(offer[i].of)}
      BY <2>2, <2>3, <2>7, <3>4 DEF Dir, Link, Node
    <3>5. CASE \E ok \in BOOLEAN : node = File(i, offer[i].size, Stamped(offer[i], ok), durable)
      BY <2>2, <2>3, <2>7, <3>5 DEF File, Node
    <3>6. j = i => p = "done" /\ offer[i].kind # "Dir"
      BY <2>2, <2>3
    <3>7. ~offer[i].long
      BY <2>3, <3>2
    <3> QED
      BY <3>1, <3>3, <3>4, <3>5, <3>6, <3>7 DEF Outcome
  <2> QED
    BY <2>6, <2>7
<1>3. CASE \E f \in 0 .. flows - 1 : FlowFails(f)
  <2>1. PICK f \in 0 .. flows - 1 : FlowFails(f)
    BY <1>3
  <2>2. /\ offer' = offer /\ durable' = durable /\ Kept' = Kept
        /\ \A j \in Entries : prog'[j] = prog[j] \/ prog'[j] = "dropped"
    BY <2>1, FailEffect DEF runVars, Entries, Kept
  <2> QED
    BY <2>1, <2>2, FailKeeps DEF FlushInv, Kept
<1>4. CASE \E d \in Names \cup {Root} : FlushDirectory(d)
  BY <1>4, FlushKeeps DEF FlushInv
<1>5. CASE Acknowledge
  BY <1>5, AckKeeps DEF FlushInv
<1>6. CASE Ended
  <2>1. Gone
    BY <1>6 DEF Ended, NoReceiver
  <2> QED
    BY <2>1, NoEntries DEF FlushInv
<1>7. CASE PowerCut
  <2>1. Gone
    BY <1>7, CutEffect
  <2> QED
    BY <2>1, NoEntries DEF FlushInv
<1>8. CASE UNCHANGED vars
  BY <1>8 DEF vars, runVars, diskVars, history, FlushInv, Kept, Entries
<1> QED
  BY <1>1, <1>2, <1>3, <1>4, <1>5, <1>6, <1>7, <1>8, StepCases

\* A directory that received something and is owed no flush had it after the
\* last change, after any step.
LEMMA NextReg ==
    ASSUME Typed, ProgInv, RegInv, [Next]_vars
    PROVE  RegInv'
<1>1. CASE \E o \in Offers, f \in Flows, d \in BOOLEAN : Start(o, f, d)
  <2>1. PICK o \in Offers, f \in Flows, d \in BOOLEAN : Start(o, f, d)
    BY <1>1
  <2>2. /\ Entries' = 1 .. Len(o) /\ durable' = d /\ reg' = IF d THEN {Root} ELSE {}
        /\ prog' = [i \in 1 .. Len(o) |-> IF i \in held' THEN "held" ELSE "todo"]
    BY <2>1, Zenon DEF Start, Entries
  <2>3. \A i \in Kept' : prog'[i] # "done"
    BY <2>2 DEF Kept
  <2>4. durable' => \A e \in (Names \cup {Root}) \ reg' : ~Received(e)'
    BY <2>2, <2>3 DEF Received
  <2> QED
    BY <2>4 DEF RegInv
<1>2. CASE \E i \in Entries : \E node \in NodeType, p \in Points : Effect(i, node, p)
  <2>1. PICK i \in Entries, node \in NodeType, p \in Points : Effect(i, node, p)
    BY <1>2
  <2>2. /\ offer' = offer /\ durable' = durable /\ Kept' = Kept /\ phase = "data"
        /\ \A j \in Entries : j # i => prog'[j] = prog[j]
        /\ prog'[i] = p /\ prog[i] \in {"todo", "open", "sync"}
    BY <2>1, EffectKeeps
  <2>3. ~AllEnded
    BY <2>2 DEF AllEnded
  <2>4. durable /\ p = "done" /\ ~offer[i].long => reg' = reg \cup {Parent[offer[i].name]}
    <3>1. Outcome(i, node, p)
      BY <2>1 DEF Effect
    <3> QED
      BY <3>1 DEF Outcome, Owed
  <2>5. durable => reg \subseteq reg'
    <3>1. Outcome(i, node, p)
      BY <2>1 DEF Effect
    <3> QED
      BY <3>1 DEF Outcome, Owed
  <2>6. ASSUME durable, NEW d \in (Names \cup {Root}) \ reg', Received(d)'
        PROVE  FALSE
    <3>1. ~Received(d)
      BY <2>2, <2>3, <2>5, <2>6 DEF RegInv
    <3>2. PICK j \in Kept : prog'[j] = "done" /\ ~offer[j].long /\ Parent[offer[j].name] = d
      BY <2>2, <2>6, <3>1 DEF Received
    <3>3. j = i
      BY <2>2, <3>1, <3>2 DEF Received, Kept
    <3> QED
      BY <2>2, <2>4, <2>6, <3>2, <3>3
  <2> QED
    BY <2>2, <2>6 DEF RegInv
<1>3. CASE \E f \in 0 .. flows - 1 : FlowFails(f)
  <2>1. PICK f \in 0 .. flows - 1 : FlowFails(f)
    BY <1>3
  <2>2. /\ offer' = offer /\ durable' = durable /\ reg' = reg /\ Kept' = Kept
        /\ Entries' = Entries /\ phase = "data"
        /\ \A j \in Entries : prog'[j] = prog[j] \/ prog'[j] = "dropped"
    BY <2>1, FailEffect DEF runVars, Entries, Kept
  <2>3. ASSUME NEW d, Received(d)' PROVE Received(d)
    BY <2>2, <2>3 DEF Received, Kept
  <2>4. AllEnded => AllEnded'
    BY <2>2 DEF AllEnded
  <2>5. AllEnded => \A n \in Names : tree'[n] = tree[n] /\ maybe'[n] = maybe[n]
    <3>1. AllEnded => \A k \in Kept : ~InFlight(k)
      BY DEF AllEnded, InFlight, Kept
    <3> QED
      BY <2>1, <3>1, FailEffect
  <2>6. ASSUME durable, NEW d \in (Names \cup {Root}) \ reg, Received(d)'
        PROVE  AllEnded' /\ \A n \in Names : Parent[n] = d => maybe'[n] = MayLeave(tree'[n])
    <3>1. AllEnded /\ \A n \in Names : Parent[n] = d => maybe[n] = MayLeave(tree[n])
      BY <2>2, <2>3, <2>6 DEF RegInv
    <3> QED
      BY <2>4, <2>5, <3>1
  <2> QED
    BY <2>2, <2>6 DEF RegInv
<1>4. CASE \E d \in Names \cup {Root} : FlushDirectory(d)
  <2>1. PICK d \in Names \cup {Root} : FlushDirectory(d)
    BY <1>4
  <2>2. /\ UNCHANGED <<offer, durable, phase, prog, tree>>
        /\ Entries' = Entries /\ Kept' = Kept /\ phase = "data"
    BY <2>1, FlushKeeps
  <2>3. /\ AllEnded /\ reg' = reg \ {d} /\ maybe \in [Names -> SUBSET NodeType]
        /\ maybe' = [n \in Names |-> IF Parent[n] = d THEN MayLeave(tree[n]) ELSE maybe[n]]
    BY <2>1 DEF FlushDirectory, Typed
  <2>4. \A e : Received(e)' => Received(e)
    BY <2>2 DEF Received
  <2>5. AllEnded'
    BY <2>2, <2>3 DEF AllEnded
  <2> QED
    BY <2>2, <2>3, <2>4, <2>5 DEF RegInv
<1>5. CASE Acknowledge
  <2>1. /\ UNCHANGED <<offer, durable, prog, tree, maybe, reg>> /\ phase = "data"
        /\ Entries' = Entries /\ Kept' = Kept
    BY <1>5, AckKeeps
  <2>2. (\A e : Received(e)' => Received(e)) /\ (AllEnded => AllEnded')
    BY <2>1 DEF Received, AllEnded
  <2> QED
    BY <2>1, <2>2 DEF RegInv
<1>6. CASE Ended
  <2>1. Gone
    BY <1>6 DEF Ended, NoReceiver
  <2> QED
    BY <2>1, NoEntries DEF RegInv
<1>7. CASE PowerCut
  <2>1. Gone
    BY <1>7, CutEffect
  <2> QED
    BY <2>1, NoEntries DEF RegInv
<1>8. CASE UNCHANGED vars
  BY <1>8 DEF vars, runVars, diskVars, history, RegInv, Received, AllEnded, Kept, Entries
<1> QED
  BY <1>1, <1>2, <1>3, <1>4, <1>5, <1>6, <1>7, <1>8, StepCases

\* Nothing is owed once the acknowledgement is sent, after any step.
LEMMA NextAcked ==
    ASSUME Typed, ProgInv, AckedInv, [Next]_vars
    PROVE  AckedInv'
<1>1. CASE \E o \in Offers, f \in Flows, d \in BOOLEAN : Start(o, f, d)
  <2>1. phase' = "data"
    BY <1>1, Zenon DEF Start
  <2> QED
    BY <2>1 DEF AckedInv
<1>2. CASE \E i \in Entries : \E node \in NodeType, p \in Points : Effect(i, node, p)
  BY <1>2, EffectKeeps DEF AckedInv
<1>3. CASE \E f \in 0 .. flows - 1 : FlowFails(f)
  BY <1>3, FailEffect DEF AckedInv
<1>4. CASE \E d \in Names \cup {Root} : FlushDirectory(d)
  BY <1>4, FlushKeeps DEF AckedInv
<1>5. CASE Acknowledge
  BY <1>5, AckKeeps DEF AckedInv
<1>6. CASE Ended
  BY <1>6, NoEntries DEF Ended, NoReceiver, AckedInv
<1>7. CASE PowerCut
  BY <1>7, CutEffect, NoEntries DEF AckedInv
<1>8. CASE UNCHANGED vars
  BY <1>8 DEF vars, AckedInv
<1> QED
  BY <1>1, <1>2, <1>3, <1>4, <1>5, <1>6, <1>7, <1>8, StepCases

-----------------------------------------------------------------------------
(* Theorems.                                                               *)

\* The inductive invariant before the first run.
LEMMA InitIInv == Init => IInv
<1> SUFFICES ASSUME Init PROVE IInv
  OBVIOUS
<1>1. Typed
  BY InitTyped
<1>2. Entries = {} /\ phase = "idle" /\ settled = <<>> /\ held = {} /\ durable = FALSE
  BY DEF Init, Entries
<1>3. DiskInv
  <2>1. tree \in Trees /\ maybe = [n \in Names |-> {tree[n]}]
    BY DEF Init
  <2>2. \A n \in Names : Honest(n, tree[n])
    BY <2>1, ResumeAssumption DEF Honest, Matches
  <2>3. \A n \in Names : tree[n].kind = "file" => tree[n].synced
    BY <2>1, ResumeAssumption
  <2> QED
    BY <2>1, <2>2, <2>3 DEF DiskInv
<1>4. ProgInv /\ InPlaceInv /\ HeldInv /\ HoldsInv /\ StampInv
  BY <1>2 DEF ProgInv, InPlaceInv, HeldInv, HoldsInv, StampInv
<1>5. SettledInv /\ RepeatInv /\ DirInv /\ FlushInv /\ RegInv /\ AckedInv
  BY <1>2 DEF SettledInv, RepeatInv, RepeatIsFree, DirInv, FlushInv, RegInv, AckedInv
<1> QED
  BY <1>1, <1>3, <1>4, <1>5 DEF IInv

\* The inductive invariant after any step.
LEMMA NextIInv == IInv /\ [Next]_vars => IInv'
<1> SUFFICES ASSUME IInv, [Next]_vars PROVE IInv'
  OBVIOUS
<1>1. Typed' /\ DiskInv' /\ ProgInv' /\ InPlaceInv' /\ HeldInv'
  BY NextTyped, NextDisk, NextProg, NextInPlace, NextHeld DEF IInv
<1>2. HoldsInv' /\ StampInv' /\ SettledInv' /\ RepeatInv'
  BY NextHolds, NextStamp, NextSettled, NextRepeat DEF IInv
<1>3. DirInv' /\ FlushInv' /\ RegInv' /\ AckedInv'
  BY NextDir, NextFlush, NextReg, NextAcked DEF IInv
<1> QED
  BY <1>1, <1>2, <1>3 DEF IInv

\* The inductive invariant holds of every run.
LEMMA IInvAlways == Spec => []IInv
<1>1. Init => IInv
  BY InitIInv
<1>2. IInv /\ [Next]_vars => IInv'
  BY NextIInv
<1> QED
  BY <1>1, <1>2, PTL DEF Spec

\* HeldIsSame (Resume): what the manifest's answer tells the sender to skip is
\* what the sender has (file_held).
THEOREM HeldFilesAreSame == Spec => []HeldIsSame
<1>1. IInv => HeldIsSame
  BY DEF IInv, HeldInv, HeldIsSame
<1> QED
  BY <1>1, IInvAlways, PTL

\* AckMeansSame (Resume): after an acknowledged run the name of each file and
\* link holds one that was offered under it (answer_manifest, keep_unskipped).
THEOREM AckedNamesHold == Spec => []AckMeansSame
<1>1. IInv => AckMeansSame
  <2> SUFFICES ASSUME IInv, phase = "acked", ~exposed, NEW n \in Names,
                      NEW i \in Offered(n), offer[i].kind # "Dir"
               PROVE  \E j \in Offered(n) : Holds(j)
    BY DEF AckMeansSame
  <2>1. i \in Entries /\ offer[i].name = n
    BY DEF Offered
  <2>2. prog[i] \in {"held", "done"}
    BY <2>1 DEF IInv, ProgInv
  <2>3. PICK j \in Entries : offer[j].name = offer[i].name /\ Holds(j)
    BY <2>1, <2>2 DEF IInv, HoldsInv
  <2> QED
    BY <2>1, <2>3 DEF Offered
<1> QED
  BY <1>1, IInvAlways, PTL

\* RepeatIsFree (Resume): a run that offers again what was acknowledged sends no
\* file, whatever failed or was killed in between (answer_manifest).
THEOREM RepeatSendsNothing == Spec => []RepeatIsFree
<1>1. IInv => RepeatIsFree
  BY DEF IInv, RepeatInv
<1> QED
  BY <1>1, IInvAlways, PTL

\* DirModeIsOffered (Resume): on one flow nothing makes a directory before its
\* entry does (walk_dirs, open_dir_chain).
THEOREM DirModesAreOffered == Spec => []DirModeIsOffered
<1>1. IInv => DirModeIsOffered
  <2> SUFFICES ASSUME IInv, phase = "acked", flows = 1, OneOfEach, NEW i \in Entries,
                      offer[i].kind = "Dir", before[offer[i].name] = Absent
               PROVE  tree[offer[i].name] = Dir(offer[i].of)
    BY DEF DirModeIsOffered
  <2>1. prog[i] = "done"
    BY DEF IInv, ProgInv
  <2> QED
    BY <2>1 DEF IInv, DirInv
<1> QED
  BY <1>1, IInvAlways, PTL

\* DurableAckCovers (Resume): no power cut takes back what a durable run sent and
\* acknowledged (write_loop, flush_directories).
THEOREM DurableAckIsKept == Spec => []DurableAckCovers
<1>1. IInv => DurableAckCovers
  <2> SUFFICES ASSUME IInv, phase = "acked", durable, NEW i \in Kept, ~offer[i].long,
                      ~MetAnother(i)
               PROVE  Survives(i)
    BY DEF DurableAckCovers
  <2> DEFINE n == offer[i].name
  <2>1. Typed /\ i \in Entries /\ n \in Names /\ Parent[n] \in Names \cup {Root}
    BY EntryFacts DEF IInv, Kept
  <2>2. prog[i] = "done" /\ reg = {}
    BY DEF IInv, ProgInv, AckedInv, Kept
  <2>3. Received(Parent[n]) /\ Received(Root)
    BY <2>2 DEF Received
  <2>4. \A m \in Names : Parent[m] \in {Parent[n], Root} => maybe[m] = MayLeave(tree[m])
    BY <2>1, <2>2, <2>3 DEF IInv, RegInv
  <2>5. tree[n].kind = "file" => tree[n].synced
    <3>1. offer[i].kind = "Dir" => tree[n].kind = "dir"
      BY DEF MetAnother
    <3> QED
      BY <2>2, <3>1 DEF IInv, FlushInv
  <2>6. maybe[n] = {tree[n]}
    BY <2>1, <2>4, <2>5 DEF MayLeave
  <2>7. Parent[n] # Root => maybe[Parent[n]] = {tree[Parent[n]]}
    <3> SUFFICES ASSUME Parent[n] # Root PROVE maybe[Parent[n]] = {tree[Parent[n]]}
      OBVIOUS
    <3>1. Parent[n] \in Names /\ Parent[Parent[n]] = Root
      BY <2>1, ResumeAssumption
    <3>2. tree[Parent[n]].kind = "dir"
      BY <2>1, <2>2 DEF IInv, ProgInv
    <3> QED
      BY <2>4, <3>1, <3>2 DEF MayLeave
  <2> QED
    BY <2>5, <2>6, <2>7 DEF Survives
<1> QED
  BY <1>1, IInvAlways, PTL

\* What a step may do to a copy that only renames change.
KeepsCopy(n) ==
    /\ phase' # "idle" /\ Whole(tree[n]) => Whole(tree'[n])
    /\ ~plain' /\ ~exposed' /\ (\A node \in maybe[n] : Whole(node)) =>
         \A node \in maybe'[n] : Whole(node)

\* A step of an entry that is renamed to n, or not of n, keeps its copy.
LEMMA EffectKeepsCopy ==
    ASSUME IInv, NEW i \in Entries, NEW node \in NodeType, NEW p \in Points,
           Effect(i, node, p), NEW n \in Names, OnlyRenamed(n)
    PROVE  KeepsCopy(n)
<1> DEFINE e == offer[i]
<1>1. /\ Typed /\ tree[n] \in maybe[n] /\ Outcome(i, node, p) /\ (plain => plain')
      /\ tree'[e.name] = node /\ phase = "data" /\ durable \in BOOLEAN
  BY EffectKeeps DEF IInv, Effect, Frame, Places, DiskInv, Typed
<1>2. maybe'[n] = maybe[n] \cup (IF tree'[n] = tree[n] THEN {} ELSE MayLeave(tree'[n]))
                           \cup (IF e.kind = "Symlink" /\ n = e.name THEN {Absent} ELSE {})
  BY Zenon DEF Effect, Frame, Places
<1>3. CASE n # e.name
  <2>1. tree'[n] = tree[n] \/ tree[n] = Absent
    BY <1>3, Zenon DEF Effect, Frame, Places
  <2>2. ~Whole(Absent)
    BY DEF Whole, Absent, Node
  <2>3. CASE tree'[n] = tree[n]
    BY <1>2, <1>3, <2>3 DEF KeepsCopy
  <2>4. CASE tree[n] = Absent
    BY <1>1, <2>2, <2>4 DEF KeepsCopy
  <2> QED
    BY <2>1, <2>3, <2>4
<1>4. CASE n = e.name
  <2>1. offer \in Offers /\ e.of # 0 /\ i \in 1 .. Len(offer)
    BY <1>1, EntryFacts
  <2>2. e.kind = "File" /\ ~e.long
    BY <1>4, <2>1 DEF OnlyRenamed
  <2>3. CASE node = tree[n]
    BY <1>1, <1>2, <1>4, <2>2, <2>3 DEF KeepsCopy
  <2>4. CASE \E ok \in BOOLEAN : node = File(i, e.size, Stamped(e, ok), durable)
    <3>1. Whole(node) /\ node.synced = durable
      BY <2>1, <2>4 DEF Whole, Lost, File, Node
    <3>2. ~plain => durable
      BY <1>1 DEF IInv, ProgInv
    <3>3. ~plain' => MayLeave(node) = {node}
      BY <1>1, <3>1, <3>2 DEF MayLeave
    <3> QED
      BY <1>1, <1>2, <1>4, <2>2, <3>1, <3>3 DEF KeepsCopy
  <2> QED
    BY <1>1, <1>4, <2>2, <2>3, <2>4 DEF Outcome
<1> QED
  BY <1>3, <1>4

\* So does every other step.
LEMMA NextKeepsCopy ==
    ASSUME IInv, [Next]_vars, NEW n \in Names, OnlyRenamed(n)
    PROVE  KeepsCopy(n)
<1>1. Typed /\ ProgInv /\ DiskInv /\ tree[n] \in maybe[n]
  BY DEF IInv, DiskInv
<1>2. CASE \E o \in Offers, f \in Flows, d \in BOOLEAN : Start(o, f, d)
  <2>1. tree' = tree /\ maybe' = maybe
    BY <1>2, Zenon DEF Start, AfterCheck
  <2> QED
    BY <2>1 DEF KeepsCopy
<1>3. CASE \E i \in Entries : \E node \in NodeType, p \in Points : Effect(i, node, p)
  BY <1>3, EffectKeepsCopy
<1>4. CASE \E f \in 0 .. flows - 1 : FlowFails(f)
  <2>1. PICK f \in 0 .. flows - 1 : FlowFails(f)
    BY <1>4
  <2>2. ~ \E h \in Kept : offer[h].name = n /\ offer[h].long
    <3>1. offer \in Offers /\ Entries = 1 .. Len(offer)
      BY <1>1, <2>1, FailEffect DEF Entries
    <3> QED
      BY <3>1 DEF OnlyRenamed, Kept
  <2>3. tree'[n] = tree[n] /\ maybe'[n] = maybe[n]
    BY <1>1, <2>1, <2>2, FailEffect
  <2> QED
    BY <2>3 DEF KeepsCopy
<1>5. CASE \E d \in Names \cup {Root} : FlushDirectory(d)
  <2>1. PICK d \in Names \cup {Root} : FlushDirectory(d)
    BY <1>5
  <2>2. /\ UNCHANGED <<tree, plain, exposed>>
        /\ maybe'[n] = maybe[n] \/ maybe'[n] = MayLeave(tree[n])
    BY <2>1 DEF FlushDirectory, history
  <2>3. ~plain /\ ~exposed => MayLeave(tree[n]) = {tree[n]}
    BY <1>1 DEF DiskInv, MayLeave
  <2> QED
    BY <1>1, <2>2, <2>3 DEF KeepsCopy
<1>6. CASE Acknowledge
  BY <1>1, <1>6, AckKeeps DEF KeepsCopy
<1>7. CASE Ended
  <2>1. phase' = "idle" /\ maybe' = maybe
    BY <1>7, NoEntries DEF Ended, NoReceiver, diskVars
  <2> QED
    BY <2>1 DEF KeepsCopy
<1>8. CASE PowerCut
  <2>1. phase' = "idle" /\ maybe'[n] = {tree'[n]} /\ Parent[n] = Root
    BY <1>1, <1>8, CutEffect, NoEntries DEF OnlyRenamed
  <2>2. PICK node \in maybe[n] : tree'[n] = [node EXCEPT !.synced = TRUE]
    BY <1>1, <1>8, <2>1, CutEffect
  <2>3. node \in NodeType
    BY <1>1 DEF Typed
  <2>4. Whole(node) => Whole(tree'[n])
    BY <2>2, <2>3 DEF Whole, NodeType
  <2> QED
    BY <2>1, <2>4 DEF KeepsCopy
<1>9. CASE UNCHANGED vars
  BY <1>9 DEF vars, diskVars, KeepsCopy
<1> QED
  BY <1>1, <1>2, <1>3, <1>4, <1>5, <1>6, <1>7, <1>8, <1>9, StepCases

\* CopyKept (Resume): no run or kill takes a whole copy away from a name that
\* only renames change, nor can a cut while every run was durable (write_loop).
THEOREM CopiesAreKept == Spec => CopyKept
<1>1. ASSUME IInv, [Next]_vars
      PROVE  \A n \in Names : OnlyRenamed(n) =>
               /\ phase' # "idle" /\ Whole(tree[n]) => Whole(tree'[n])
               /\ ~plain' /\ ~exposed' /\ (\A node \in maybe[n] : Whole(node)) =>
                    \A node \in maybe'[n] : Whole(node)
  BY <1>1, NextKeepsCopy DEF KeepsCopy
<1>2. IInv /\ [Next]_vars =>
        [\A n \in Names : OnlyRenamed(n) =>
           /\ phase' # "idle" /\ Whole(tree[n]) => Whole(tree'[n])
           /\ ~plain' /\ ~exposed' /\ (\A node \in maybe[n] : Whole(node)) =>
                \A node \in maybe'[n] : Whole(node)]_vars
  BY <1>1
<1> QED
  BY <1>2, IInvAlways, PTL DEF Spec, CopyKept
=============================================================================
