------------------------------ MODULE Exchange ------------------------------
(***************************************************************************)
(* One flow as bytes: what send_to_diag_streamed and accept_one say to     *)
(* each other over one socket.  Handshake, manifest, bitmap, data phase,   *)
(* acknowledgement; Entry::encode and decode, the bitmap, sanitize, and    *)
(* the staging buffer every read of the receiver but the handshake's goes  *)
(* through.                                                                *)
(*                                                                         *)
(* A byte says which field of which item it belongs to, so a receiver that *)
(* lost its place would be seen to read one field as another.  A path is   *)
(* the sequence of its parts, and each part one byte.  The socket holds at *)
(* most Room bytes and gives a reader any number of those it holds.        *)
(* Payloads are intact here: RecvPipeline compares digests.                *)
(*                                                                         *)
(* A definition marked "Variation" is not part of the system: it is the    *)
(* definition after it with a plausible mistake, kept to show that a       *)
(* property depends on the code being as it is.                            *)
(***************************************************************************)
EXTENDS Integers, Sequences, FiniteSets

CONSTANTS
    Offers,     \* the item lists senders may walk
    Greetings,  \* the handshakes the receiver may meet
    MaxPath,    \* MAX_PATH_LEN, in parts
    Room,       \* what the socket buffers hold
    StageCap,   \* STAGE_CAP
    BitsPerByte,\* 8
    MaxStreams  \* MAX_STREAMS

Item     == [kind : {"File", "Dir", "Symlink"}, path : Seq(STRING), size : Nat]
\* streams: the flow count and the index of the v4 tail.
Greeting == [magic : BOOLEAN, version : Nat, flags : Nat, token : BOOLEAN, streams : Nat \X Nat]

\* An item's path has at least one part; a directory's size is 0.
ASSUME ExchangeAssumption ==
    /\ Offers \subseteq Seq(Item) /\ Greetings \subseteq Greeting
    /\ \A o \in Offers : \A i \in 1 .. Len(o) :
          o[i].path # <<>> /\ (o[i].kind = "Dir" => o[i].size = 0)
    /\ MaxPath \in Nat /\ Room \in Nat \ {0} /\ StageCap \in Nat \ {0}
    /\ BitsPerByte \in Nat \ {0} /\ MaxStreams \in Nat

VARIABLES
    offer, greet,   \* what the sender offers, and how it greets
    spc,            \* where the sender is
    at,             \* the last item of the phase that it encoded
    unsent,         \* what it encoded and has not written
    have,           \* the answer it read
    wire,           \* bytes in the socket, sender to receiver
    back,           \* bytes in the socket, receiver to sender
    rpc,            \* the field the receiver reads, or where it is
    data,           \* it is past the manifest
    stage,          \* staged bytes not yet read: stage[off..end]
    got, need,      \* what the read it is in has, and how much it lacks
    entry,          \* the item it decodes
    bits,           \* its answer
    stored,         \* the items it received
    sent, taken     \* bytes that went into the socket, and out of it to the
                    \* receiver's reads (history)

sendVars == <<offer, greet, spc, at, unsent, have>>
recvVars == <<rpc, data, entry, bits, stored>>
vars == <<sendVars, wire, back, recvVars, stage, got, need, sent, taken>>

Min2(a, b) == IF a <= b THEN a ELSE b
Take(s, n) == SubSeq(s, 1, n)
Drop(s, n) == SubSeq(s, n + 1, Len(s))

-----------------------------------------------------------------------------
(* The framing.                                                            *)

Byte(part, i, k) == [part |-> part, of |-> i, at |-> k]

Verify(g) == g.flags = 0        \* no FLAG_NO_VERIFY
Multi(g)  == g.version = 4

\* base_handshake is one byte here; a v4 handshake has the stream tail.
Hello(g) == <<Byte("hello", 0, 0)>> \o (IF Multi(g) THEN <<Byte("tail", 0, 0)>> ELSE <<>>)

\* Entry::encode.
Header(o, i) ==
    <<Byte("kind", i, 0), Byte("len", i, Len(o[i].path))>>
    \o [k \in 1 .. Len(o[i].path) |-> Byte("path", i, k)] \o <<Byte("meta", i, 0)>>
End == Byte("end", 0, 0)

Frame(o, g, i) ==
    Header(o, i) \o [k \in 1 .. o[i].size |-> Byte("data", i, k)]
    \o (IF Verify(g) /\ o[i].kind # "Dir" THEN <<Byte("digest", i, 0)>> ELSE <<>>)

Files(o, n) == Cardinality({i \in 1 .. n : o[i].kind = "File"})
Bytes(n)    == (n + BitsPerByte - 1) \div BitsPerByte      \* div_ceil

\* Variation of Mask: the most significant bit first.
MaskMsbFirst(i) == {BitsPerByte - 1 - ((i - 1) % BitsPerByte)}

\* A byte of an answer is the set of its bits that are 1, by their weight.
\* 1 << (i % 8): the least significant bit of a byte first.
Mask(i) == {(i - 1) % BitsPerByte}

\* Variation of EncodedBytes: a last byte that is not full is left out.
FullBytes(n) == n \div BitsPerByte

EncodedBytes(n) == Bytes(n)

\* encode_bitmap: each file that is held sets its bit.
EncodeBitmap(b) ==
    [j \in 1 .. EncodedBytes(Len(b)) |->
        UNION {Mask(i) : i \in {i \in 1 .. Len(b) : b[i] /\ (i - 1) \div BitsPerByte + 1 = j}}]

\* read_bitmap: bytes[i / 8] >> (i % 8) & 1 for each of the n files.
DecodeBitmap(bytes, n) ==
    [i \in 1 .. n |-> (i - 1) % BitsPerByte \in bytes[(i - 1) \div BitsPerByte + 1]]

\* keep_unskipped: a bit for each file in wire order; anything else is kept.
Kept(o, b) ==
    {i \in 1 .. Len(o) : ~(o[i].kind = "File" /\ Files(o, i) <= Len(b) /\ b[Files(o, i)])}

\* What the flow of this connection is dealt: in v4 each count-th kept item.
Dealt(o, g, b) ==
    {i \in Kept(o, b) : Multi(g) =>
        Cardinality({j \in Kept(o, b) : j < i}) % g.streams[1] = g.streams[2]}

\* The parts that name something: the loop over path.split('/'), dropping these.
Components(path, dropped) ==
    LET parts[k \in 0 .. Len(path)] ==
          IF k = 0 THEN <<>>
          ELSE IF path[k] \in dropped THEN parts[k - 1] ELSE Append(parts[k - 1], path[k])
    IN  parts[Len(path)]

\* Variation of Sanitize: a parent reference is dropped like a dot.
SanitizeDots(path) ==
    IF Len(path) > MaxPath \/ (path[1] = "" /\ Len(path) > 1) THEN <<>>
    ELSE Components(path, {"", ".", ".."})

\* The components, or none for a path that is refused: too long, absolute (its
\* first part is empty), with a parent reference, or with nothing left.
Sanitize(path) ==
    IF \/ Len(path) > MaxPath
       \/ path[1] = "" /\ Len(path) > 1
       \/ \E k \in 1 .. Len(path) : path[k] = ".."
    THEN <<>> ELSE Components(path, {"", "."})

-----------------------------------------------------------------------------
Init ==
    /\ offer \in Offers /\ greet \in Greetings
    /\ spc = "manifest" /\ at = 0 /\ unsent = Hello(greet) /\ have = <<>>
    /\ wire = <<>> /\ back = <<>>
    /\ rpc = "hello" /\ data = FALSE /\ stage = <<>> /\ got = <<>> /\ need = 1
    /\ entry = 0 /\ bits = <<>> /\ stored = <<>>
    /\ sent = <<>> /\ taken = <<>>

SenderGone   == spc \in {"ok", "failed"}
ReceiverGone == rpc \in {"ok", "failed"}

(* The sender.                                                             *)

\* write_all gets some more into the socket.
Write ==
    /\ \E k \in 1 .. Room - Len(wire) :
         /\ k <= Len(unsent)
         /\ wire' = wire \o Take(unsent, k) /\ sent' = sent \o Take(unsent, k)
         /\ unsent' = Drop(unsent, k)
    /\ UNCHANGED <<offer, greet, spc, at, have, back, recvVars, stage, got, need, taken>>

Walk == IF spc = "data" THEN Dealt(offer, greet, have) ELSE 1 .. Len(offer)

\* The next item of the phase, or the terminator after the last.
Encode ==
    /\ spc \in {"manifest", "data"} /\ unsent = <<>>
    /\ \/ \E i \in Walk :
            /\ at < i /\ \A j \in Walk : at < j => i <= j
            /\ at' = i
            /\ unsent' = IF spc = "data" THEN Frame(offer, greet, i) ELSE Header(offer, i)
       \/ /\ at <= Len(offer) /\ \A j \in Walk : j <= at
          /\ at' = Len(offer) + 1 /\ unsent' = <<End>>
    /\ UNCHANGED <<offer, greet, spc, have, wire, back, recvVars, stage, got, need, sent, taken>>

\* The phase is written: the answer comes next.
Written ==
    /\ spc \in {"manifest", "data"} /\ unsent = <<>> /\ at = Len(offer) + 1
    /\ spc' = IF spc = "manifest" THEN "bitmap" ELSE "ack"
    /\ at' = 0
    /\ UNCHANGED <<offer, greet, unsent, have, wire, back, recvVars, stage, got, need, sent, taken>>

Offered == Files(offer, Len(offer))

\* read_bitmap, and what keep_unskipped leaves is what the data phase sends.
ReadBitmap ==
    /\ spc = "bitmap" /\ Len(back) >= Bytes(Offered)
    /\ have' = DecodeBitmap(back, Offered)
    /\ back' = Drop(back, Bytes(Offered))
    /\ spc' = "data"
    /\ UNCHANGED <<offer, greet, at, unsent, wire, recvVars, stage, got, need, sent, taken>>

\* 0xFF.
Ack == 0 .. BitsPerByte - 1

\* read_ack.
ReadAck ==
    /\ spc = "ack" /\ back # <<>>
    /\ spc' = IF back[1] = Ack THEN "ok" ELSE "failed"
    /\ back' = Tail(back)
    /\ UNCHANGED <<offer, greet, at, unsent, have, wire, recvVars, stage, got, need, sent, taken>>

\* The source or the socket fails, or the receiver has closed it.
SenderFails ==
    /\ ~SenderGone
    /\ spc' = "failed"
    /\ UNCHANGED <<offer, greet, at, unsent, have, wire, back, recvVars, stage, got, need, sent, taken>>

-----------------------------------------------------------------------------
(* The receiver's reads.                                                   *)

Delivers(c) == got' = got \o c /\ need' = need - Len(c) /\ taken' = taken \o c

\* A read of the socket itself into at most n bytes.
Direct(n) ==
    /\ \E k \in 1 .. Min2(n, Len(wire)) : Delivers(Take(wire, k)) /\ wire' = Drop(wire, k)
    /\ UNCHANGED stage

\* Variation of Bypasses: a big read goes to the socket whatever is staged.
BypassesAlways(n) == n >= StageCap

\* Only a big read bypasses the stage, and only when it is drained.
Bypasses(n) == stage = <<>> /\ n >= StageCap

\* Staged::read into n bytes.
Staged(n) ==
    \/ Bypasses(n) /\ Direct(n)
    \/ /\ ~Bypasses(n) /\ stage = <<>>
       /\ \E k \in 1 .. Min2(StageCap, Len(wire)) :
            /\ Delivers(Take(wire, Min2(n, k)))
            /\ stage' = SubSeq(wire, Min2(n, k) + 1, k)
            /\ wire' = Drop(wire, k)
    \/ /\ ~Bypasses(n) /\ stage # <<>>
       /\ Delivers(Take(stage, Min2(n, Len(stage))))
       /\ stage' = Drop(stage, Min2(n, Len(stage)))
       /\ UNCHANGED wire

\* Variation of HelloRead: the handshake is read through a stage of its own,
\* which is dropped with what else it holds.
HelloStaged(n) ==
    /\ \E k \in 1 .. Min2(StageCap, Len(wire)) :
         Delivers(Take(wire, Min2(n, k))) /\ wire' = Drop(wire, k)
    /\ UNCHANGED stage

\* The handshake is read off the socket itself, before anything is staged.
HelloRead(n) == Direct(n)

\* One read of the loop in read_exact or pump_file.
Read ==
    /\ ~ReceiverGone /\ need \in Nat \ {0}
    /\ IF rpc \in {"hello", "tail"} THEN HelloRead(need) ELSE Staged(need)
    /\ UNCHANGED <<sendVars, back, recvVars, sent>>

\* The field is there.
Has(field) == rpc = field /\ need = 0

\* The next read is of field r and n bytes.
NextField(r, n) == rpc' = r /\ need' = n /\ got' = <<>>
Stops(how)  == rpc' = how /\ UNCHANGED <<need, got>>

-----------------------------------------------------------------------------
(* What it makes of them.                                                  *)

\* decode_handshake refuses a foreign protocol, a version or a flag it does not
\* know; the token is compared once the whole handshake is there, by ct_eq.
Parses == greet.magic /\ greet.version \in {3, 4} /\ greet.flags \in {0, 1}

\* The primary comes first, with a flow count in range.
Joins == greet.token /\ greet.streams[2] = 0 /\ greet.streams[1] \in 2 .. MaxStreams

GotHello ==
    /\ \/ Has("hello") /\ Multi(greet) /\ Parses /\ NextField("tail", 1)
       \/ Has("hello") /\ ~Multi(greet) /\ Parses /\ greet.token /\ NextField("kind", 1)
       \/ Has("tail") /\ Joins /\ NextField("kind", 1)
       \/ Has("hello") /\ ~Parses /\ Stops("failed")
       \/ Has("hello") /\ ~Multi(greet) /\ ~greet.token /\ Stops("failed")
       \/ Has("tail") /\ ~Joins /\ Stops("failed")
    /\ UNCHANGED <<sendVars, wire, back, data, entry, bits, stored, stage, sent, taken>>

\* Entry::decode, the kind: the terminator ends a phase.
GotKind ==
    /\ Has("kind")
    /\ \/ /\ got[1] = End
          /\ NextField(IF data THEN "ack" ELSE "answer", 0) /\ UNCHANGED entry
       \/ /\ got[1] # End
          /\ NextField("len", 1) /\ entry' = got[1].of
    /\ UNCHANGED <<sendVars, wire, back, data, bits, stored, stage, sent, taken>>

GotLen ==
    /\ Has("len") /\ NextField("path", got[1].at)
    /\ UNCHANGED <<sendVars, wire, back, data, entry, bits, stored, stage, sent, taken>>

GotPath ==
    /\ Has("path") /\ NextField("meta", 1)
    /\ UNCHANGED <<sendVars, wire, back, data, entry, bits, stored, stage, sent, taken>>

Me == offer[entry]

\* A manifest entry: a file has its bit, set only for a path that is accepted.
GotListed ==
    /\ Has("meta") /\ ~data
    /\ NextField("kind", 1)
    /\ \/ /\ Me.kind = "File"
          /\ \E held \in BOOLEAN : bits' = Append(bits, held /\ Sanitize(Me.path) # <<>>)
       \/ Me.kind # "File" /\ UNCHANGED bits
    /\ UNCHANGED <<sendVars, wire, back, data, entry, stored, stage, sent, taken>>

Stores == stored' = Append(stored, entry)

\* A data entry: a path that is refused ends the session.
GotHeader ==
    /\ Has("meta") /\ data
    /\ \/ Sanitize(Me.path) = <<>> /\ Stops("failed") /\ UNCHANGED stored
       \/ /\ Sanitize(Me.path) # <<>> /\ Me.kind = "Dir"
          /\ NextField("kind", 1) /\ Stores
       \/ /\ Sanitize(Me.path) # <<>> /\ Me.kind # "Dir"
          /\ NextField("data", Me.size) /\ UNCHANGED stored
    /\ UNCHANGED <<sendVars, wire, back, data, entry, bits, stage, sent, taken>>

\* A payload is followed by its digest unless the sender opted out.
GotPayload ==
    /\ \/ Has("data") /\ Verify(greet) /\ NextField("digest", 1) /\ UNCHANGED stored
       \/ Has("data") /\ ~Verify(greet) /\ NextField("kind", 1) /\ Stores
       \/ Has("digest") /\ NextField("kind", 1) /\ Stores
    /\ UNCHANGED <<sendVars, wire, back, data, entry, bits, stage, sent, taken>>

\* answer_manifest writes the bitmap.
Answer ==
    /\ Has("answer")
    /\ back' = back \o EncodeBitmap(bits)
    /\ data' = TRUE /\ NextField("kind", 1)
    /\ UNCHANGED <<sendVars, wire, entry, bits, stored, stage, sent, taken>>

Acknowledge ==
    /\ Has("ack")
    /\ back' = Append(back, Ack)
    /\ Stops("ok")
    /\ UNCHANGED <<sendVars, wire, data, entry, bits, stored, stage, sent, taken>>

\* The disk or the socket fails, or the sender has closed it.
ReceiverFails ==
    /\ ~ReceiverGone /\ Stops("failed")
    /\ UNCHANGED <<sendVars, wire, back, data, entry, bits, stored, stage, sent, taken>>

-----------------------------------------------------------------------------
SenderStep   == Write \/ Encode \/ Written \/ ReadBitmap \/ ReadAck \/ SenderFails
ReceiverStep ==
    \/ Read \/ GotHello \/ GotKind \/ GotLen \/ GotPath \/ GotListed \/ GotHeader
    \/ GotPayload \/ Answer \/ Acknowledge \/ ReceiverFails

Next == SenderStep \/ ReceiverStep
Spec == Init /\ [][Next]_vars
-----------------------------------------------------------------------------
(* Properties.                                                             *)

\* No read loses, repeats or reorders a byte: what the receiver read, what is
\* staged and what is in the socket are together what was written, however the
\* socket cuts it and whichever reads bypass the stage (Staged).
InOrder == taken \o stage \o wire = sent

\* Each byte is read as the field of the item it was written as, in both
\* phases: neither end ever loses its place (Entry::decode, read_entries).
Parts(field) == IF field = "kind" THEN {"kind", "end"} ELSE {field}
FieldsAlign ==
    rpc \in {"hello", "tail", "kind", "len", "path", "meta", "data", "digest"} =>
        \A k \in 1 .. Len(got) :
            /\ got[k].part \in Parts(rpc)
            /\ rpc \in {"len", "path", "meta", "data", "digest"} => got[k].of = entry
            /\ rpc \in {"path", "data"} => got[k].at = k

\* The sender skips exactly the files the receiver meant, and an acknowledgement
\* means that all the others were received, in order ("both ends counted the
\* same File entries out of the manifest", encode_bitmap; keep_unskipped).
AnswerAgrees ==
    /\ spc \in {"data", "ack", "ok"} => have = bits
    /\ rpc = "ok" =>
         /\ {stored[n] : n \in DOMAIN stored} = Dealt(offer, greet, bits)
         /\ \A n \in 2 .. Len(stored) : stored[n - 1] < stored[n]

\* The two ends never wait for each other: a sender that waits for room, for the
\* answer or for the acknowledgement has a receiver with something to do
\* (send_to_diag_streamed, answer_manifest).
SenderWaits ==
    \/ unsent # <<>> /\ Len(wire) = Room
    \/ spc = "bitmap" /\ Len(back) < Bytes(Offered)
    \/ spc = "ack" /\ back = <<>>
ReceiverWaits == ~ReceiverGone /\ need > 0 /\ stage = <<>> /\ wire = <<>>
NotBothWait == ~(SenderWaits /\ ReceiverWaits)

\* An entry that is received lies inside the destination, at the place its path
\* names: resolving the path part by part never leaves the root and ends where
\* the components do, whatever the peer offers (sanitize, read_entries).
Resolved(path) ==
    LET place[k \in 0 .. Len(path)] ==
          IF k = 0 THEN <<"root">>
          ELSE CASE path[k] = ".." -> IF place[k - 1] = <<>> THEN <<>> ELSE Take(place[k - 1], Len(place[k - 1]) - 1)
                 [] path[k] \in {"", "."} -> place[k - 1]
                 [] OTHER -> Append(place[k - 1], path[k])
    IN  place
PathsStayInside ==
    \A n \in 1 .. Len(stored) :
        LET path == offer[stored[n]].path IN
        /\ path[1] = "" => Len(path) = 1
        /\ \A k \in 0 .. Len(path) : Resolved(path)[k] # <<>>
        /\ Resolved(path)[Len(path)] = <<"root">> \o Sanitize(path) /\ Sanitize(path) # <<>>
=============================================================================
