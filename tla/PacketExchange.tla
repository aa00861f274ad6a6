--------------------------- MODULE PacketExchange ---------------------------
(***************************************************************************)
(* The life of a packet: a program fills one in with the setters, encodes  *)
(* it, frees it and writes the bytes to a connection; libwebsockets hands  *)
(* them on in one piece or, when they do not fit its buffer, in two calls  *)
(* of the callback, and the code never asks whether a call is the last of  *)
(* its frame.  Then somebody decodes the bytes:                            *)
(*   "self"    the round trips of the tests, of every kind of packet;      *)
(*   "server"  iw_request_process of src/iw-server.c, a prompt or coding;  *)
(*   "prompt"  test/iw-server-prompt-test.c, which takes the server's      *)
(*             replies, generations, for prompts.                          *)
(* All but the server free what they decoded.                              *)
(***************************************************************************)
EXTENDS PacketCodec

CONSTANTS
  Wanted,       \* packets to make: a kind and what its setters are given
  Junk,         \* bytes that memory nobody has written to may hold
  MaxPackets    \* bound: packets made one after the other

Kinds == {"prompt", "coding", "compilation", "build", "preview", "generation"}

ASSUME JunkAssumption == Junk \subseteq Byte /\ MaxPackets \in Nat

VARIABLES
  made,         \* packets begun
  making,       \* the packet being filled in: its kind is "none" without one
  wire,         \* pieces on their way, in order
  reading,      \* the last piece read and what became of it, by "nobody" at first
  heap          \* what has been allocated and not been freed

vars == <<made, making, wire, reading, heap>>

NoPacket == [kind |-> "none"]
NoReader == [by |-> "nobody"]

Fresh(kind, j) ==
  CASE kind = "prompt"      -> PromptInit(j)
    [] kind = "coding"      -> CodingInit(j)
    [] kind = "compilation" -> CompilationInit(j)
    [] kind = "build"       -> BuildInit(j)
    [] kind = "preview"     -> PreviewInit(j)
    [] kind = "generation"  -> GenerationInit(j)

Set(kind, p, f, v) ==
  CASE kind = "prompt"      -> PromptSet(p, f, v)
    [] kind = "coding"      -> CodingSet(p, f, v)
    [] kind = "compilation" -> CompilationSet(p, f, v)
    [] kind = "build"       -> BuildSet(p, f, v)
    [] kind = "preview"     -> PreviewSet(p, f, v)
    [] kind = "generation"  -> GenerationSet(p, f, v)

Encode(kind, p) ==
  CASE kind = "prompt"      -> PromptEncode(p)
    [] kind = "coding"      -> CodingEncode(p)
    [] kind = "compilation" -> CompilationEncode(p)
    [] kind = "build"       -> BuildEncode(p)
    [] kind = "preview"     -> PreviewEncode(p)
    [] kind = "generation"  -> GenerationEncode(p)

Decode(kind, m) ==
  CASE kind = "prompt"      -> PromptDecode(m)
    [] kind = "coding"      -> CodingDecode(m)
    [] kind = "compilation" -> CompilationDecode(m)
    [] kind = "build"       -> BuildDecode(m)
    [] kind = "preview"     -> PreviewDecode(m)
    [] kind = "generation"  -> GenerationDecode(m)

\* iw_respond_busy: a generation that says busy, "BS", has the magic number and
\* no text.
Busy == <<66, 83>>
BusyOK(p) == p.status = Busy => p.magic = Magic /\ p.text_length = 0

\* The packets that programs send: the lengths are those of the blocks, a
\* prompt or coding says in its type which it is, a busy reply is the server's.
WellFormed(kind, p) ==
  CASE kind = "prompt"      -> PromptOK(p) /\ p.type = <<80, 84>>
    [] kind = "coding"      -> CodingOK(p) /\ p.type = <<67, 68>>
    [] kind = "compilation" -> CompilationOK(p)
    [] kind = "build"       -> BuildOK(p)
    [] kind = "preview"     -> PreviewOK(p)
    [] kind = "generation"  -> GenerationOK(p) /\ BusyOK(p)

\* A packet of a kind, some of whose fields have been set.
Filled(kind, j, fields, done) ==
  LET fresh == Fresh(kind, j)
  IN [f \in DOMAIN fresh |->
        IF f \in done THEN Set(kind, fresh, f, fields[f])[f] ELSE fresh[f]]

ASSUME WantedAssumption ==
  \A w \in Wanted, j \in Junk :
    /\ w.kind \in Kinds /\ DOMAIN w.fields \subseteq DOMAIN Fresh(w.kind, j)
    /\ WellFormed(w.kind, Filled(w.kind, j, w.fields, DOMAIN w.fields))

\* The blocks a packet of a kind points to: its decoder allocates all of them,
\* a setter the one it sets.
Allocated(kind) ==
  CASE kind = "prompt"                   -> {"text", "file_lens", "files"}
    [] kind \in {"coding", "generation"} -> {"text"}
    [] kind = "compilation"              -> {"source"}
    [] OTHER                             -> {}

\* Those that iw_..._free frees.
Freed(kind) ==
  CASE kind = "prompt"      -> PromptBlocks
    [] kind = "coding"      -> CodingBlocks
    [] kind = "compilation" -> CompilationBlocks
    [] kind = "generation"  -> GenerationBlocks
    [] OTHER                -> {}

\* Blocks are known by who holds them, for which packet.
Held(by, blocks) == [by : {by}, n : {made}, block : blocks]

Maker(kind) == IF kind = "generation" THEN "server" ELSE "maker"

Init ==
  /\ made = 0 /\ making = NoPacket /\ wire = <<>> /\ reading = NoReader
  /\ heap = {}

-----------------------------------------------------------------------------

\* iw_..._init
Begin(w, j) ==
  /\ made < MaxPackets /\ making.kind = "none" /\ wire = <<>> /\ reading.by = "nobody"
  /\ made' = made + 1
  /\ making' = [kind |-> w.kind, packet |-> Fresh(w.kind, j),
                todo |-> DOMAIN w.fields, fields |-> w.fields]
  /\ heap' = heap \cup [by : {Maker(w.kind)}, n : {made + 1}, block : {"packet"}]
  /\ UNCHANGED <<wire, reading>>

\* One call of a setter; the callers call them in different orders.
SetField(f) ==
  /\ making.kind # "none" /\ f \in making.todo
  /\ making' = [making EXCEPT !.packet = Set(making.kind, @, f, making.fields[f]),
                              !.todo = @ \ {f}]
  /\ heap' = IF f \in Allocated(making.kind)
             THEN heap \cup Held(Maker(making.kind), {f}) ELSE heap
  /\ UNCHANGED <<made, wire, reading>>

\* iw_..._encode, iw_..._free but for the server's generations, lws_write.
EncodeAndSend ==
  /\ making.kind # "none" /\ making.todo = {}
  /\ LET e == Encode(making.kind, making.packet)
     IN wire' = <<[kind |-> making.kind, packet |-> making.packet,
                   size |-> e.size, bytes |-> e.bytes, part |-> "whole"]>>
  /\ heap' = IF making.kind = "generation" THEN heap
             ELSE heap \ Held("maker", {"packet"} \cup Freed(making.kind))
  /\ making' = NoPacket
  /\ UNCHANGED <<made, reading>>

\* The frame does not fit the receive buffer: two calls of the callback.
Split(k) ==
  /\ wire # <<>> /\ Head(wire).part = "whole"
  /\ k \in 1..Len(Head(wire).bytes) - 1
  /\ wire' = LET f == Head(wire) IN
       <<[f EXCEPT !.bytes = SubSeq(@, 1, k), !.part = "first"],
         [f EXCEPT !.bytes = SubSeq(@, k + 1, Len(@)), !.part = "rest"]>>
  /\ UNCHANGED <<made, making, reading, heap>>

\* A decoder's result: what it allocated, unless the process died.
Reads(by, result, blocks) ==
  /\ reading' = [by |-> by, piece |-> Head(wire), result |-> result]
  /\ heap' = IF result.is = "packet" THEN heap \cup Held(by, {"packet"} \cup blocks)
             ELSE IF result.is = "fault" THEN {h \in heap : h.by # by}
             ELSE heap
  /\ UNCHANGED <<made, making>>

\* run_local_round_trip, and the decoding tests of gen/test.
ReadSelf(j) ==
  /\ wire # <<>> /\ reading.by = "nobody" /\ Head(wire).part = "whole"
  /\ LET f == Head(wire)
     IN Reads("self", Decode(f.kind, Memory(f.bytes, j)), Allocated(f.kind))
  /\ wire' = <<>>

\* What the callback makes of a piece: the magic number, the type, a decoder.
Served(m) ==
  LET type == Part(m, 4, 2)
  IN IF Number(m, 0) # Magic THEN [is |-> "refused"]
     ELSE IF type = <<80, 84>> THEN PromptDecode(m)
     ELSE IF type = <<67, 68>> THEN CodingDecode(m)
     ELSE [is |-> "refused"]

\* LWS_CALLBACK_RECEIVE of an idle server.  When it refuses or dies the
\* connection ends, with the piece behind this one.
ServerReads(j) ==
  /\ wire # <<>> /\ reading.by = "nobody"
  /\ Head(wire).kind \in {"prompt", "coding"}
  /\ LET f == Head(wire)
         result == Served(Memory(f.bytes, j))
     IN /\ Reads("server", result, Allocated(f.kind))
        /\ wire' = IF result.is = "packet" THEN Tail(wire) ELSE <<>>

\* iw_prompt_packet_decode copies the reply to zeroed memory of the size of
\* the struct, which is 56 bytes.  The client's own packet lacks the server's
\* magic number: it hears that the server is busy, or nothing.
PromptSize == 56
\* Mutant: the reply is decoded where it is.
Unpadded(b) == b

Padded(b) == [i \in 1..(IF Len(b) > PromptSize THEN Len(b) ELSE PromptSize) |->
                IF i <= Len(b) THEN b[i] ELSE 0]

PromptClientReads(j) ==
  /\ wire # <<>> /\ reading.by = "nobody" /\ Head(wire).part = "whole"
  /\ Head(wire).kind = "generation" /\ Head(wire).packet.status = Busy
  /\ Reads("prompt", PromptDecode(Memory(Padded(Head(wire).bytes), j)),
           Allocated("prompt"))
  /\ wire' = <<>>

\* iw_..._free of what was decoded, but not in the server.
Forget ==
  /\ reading.by # "nobody"
  /\ heap' = CASE reading.by = "server" -> heap
               [] reading.by = "self" ->
                    heap \ Held("self", {"packet"} \cup Freed(reading.piece.kind))
               [] reading.by = "prompt" ->
                    heap \ Held("prompt", {"packet"} \cup PromptBlocks)
  /\ reading' = NoReader
  /\ UNCHANGED <<made, making, wire>>

Next ==
  \/ \E w \in Wanted, j \in Junk : Begin(w, j)
  \/ making.kind # "none" /\ \E f \in making.todo : SetField(f)
  \/ EncodeAndSend
  \/ wire # <<>> /\ \E k \in 1..Len(Head(wire).bytes) : Split(k)
  \/ \E j \in Junk : ReadSelf(j) \/ ServerReads(j) \/ PromptClientReads(j)
  \/ Forget

Spec == Init /\ [][Next]_vars

-----------------------------------------------------------------------------
(* What must hold                                                          *)

\* The kinds whose decoder looks at the magic number.
Guarded == Kinds \ {"build", "preview"}

\* Whole frames that a decoder was asked to give back as the packet they were
\* made from.
Returning ==
  /\ reading.by \in {"self", "server"}
  /\ reading.piece.part = "whole" /\ reading.result.is # "refused"

\* What arrives is what was sent: a frame read whole gives back the packet it
\* was made from, field by field and with every block, from exactly the bytes
\* of the frame, in whatever order the setters were called and whatever memory
\* held before and holds behind the frame.  The packet is one the system can
\* exchange: where the decoder looks at the magic number, it has that number.
\* Of the others see RoundTripsDecode.
PacketsArrive ==
  Returning /\ (reading.piece.kind \in Guarded => reading.piece.packet.magic = Magic)
    => /\ reading.result.is = "packet"
       /\ reading.result.packet = reading.piece.packet
       /\ reading.result.reach = Len(reading.piece.bytes)

\* "assert(decoded_obj != NULL)" in each test of gen/test/iw-pkt-codec-test.c,
\* which set every byte of the magic number to 0xAA, and "assert(decoded !=
\* NULL)" in the local round trip of test/iw-server-prompt-test.c, which sets
\* it to 1769947755: a program that decodes what it has encoded gets a packet.
RoundTripsDecode ==
  reading.by = "self" => reading.result.is = "packet"

\* The encoder's two passes agree: what it copies fills the buffer it asked
\* malloc for, no more and no less, with lengths that come from one set of
\* fields and blocks that come from another.
BufferFits ==
  \A i \in DOMAIN wire :
    wire[i].part = "whole" => wire[i].size = Len(wire[i].bytes)

\* No frame begins with a shorter one: the first call for a frame that comes
\* in two never yields a packet from its own bytes.  A decoder that is given
\* it reads on behind it, or refuses.
NoShorterPacket ==
  reading.by # "nobody" /\ reading.piece.part = "first" /\ reading.result.is = "packet"
    => reading.result.reach > Len(reading.piece.bytes)

\* The prompt client survives the one reply it can get, that the server is
\* busy, although it takes that generation for a prompt: it finds a prompt
\* with no text and no files, inside the memory it has set aside.
BusyReplyReadable ==
  reading.by # "nobody" /\ reading.by = "prompt" =>
    /\ reading.result.is = "packet"
    /\ reading.result.packet.text = <<>> /\ reading.result.packet.files = <<>>
    /\ reading.result.reach <= PromptSize

\* The clients give back what they take: whenever nothing is being made or
\* read, only the server still holds memory.
ClientsFreeAll ==
  making.kind = "none" /\ reading.by = "nobody" => \A h \in heap : h.by = "server"

-----------------------------------------------------------------------------
(* Why it holds: the inductive invariant of PacketProofs                   *)

\* A packet being made is a fresh one but for the fields set so far.
MakingOK ==
  making.kind # "none" =>
    \E w \in Wanted, j \in Junk :
      /\ making.kind = w.kind /\ making.fields = w.fields
      /\ making.todo \subseteq DOMAIN w.fields
      /\ making.packet =
           Filled(w.kind, j, w.fields, DOMAIN w.fields \ making.todo)

\* A piece is a whole frame, the beginning of one, or the rest.
PieceOK(q) ==
  LET e == Encode(q.kind, q.packet)
  IN /\ q.kind \in Kinds /\ WellFormed(q.kind, q.packet) /\ q.size = e.size
     /\ q.part \in {"whole", "first", "rest"}
     /\ q.part = "whole" => q.bytes = e.bytes
     /\ q.part = "first" =>
          \E k \in 1..Len(e.bytes) - 1 : q.bytes = SubSeq(e.bytes, 1, k)

WireOK ==
  /\ wire \in Seq({wire[i] : i \in DOMAIN wire})
  /\ \A i \in DOMAIN wire : PieceOK(wire[i])

ReadingOK ==
  reading.by # "nobody" =>
    /\ reading.by \in {"self", "server", "prompt"} /\ PieceOK(reading.piece)
    /\ reading.by # "server" => reading.piece.part = "whole"
    /\ reading.by = "self" => \E j \in Junk : reading.result =
         Decode(reading.piece.kind, Memory(reading.piece.bytes, j))
    /\ reading.by = "server" =>
         /\ reading.piece.kind \in {"prompt", "coding"}
         /\ \E j \in Junk :
              reading.result = Served(Memory(reading.piece.bytes, j))
    /\ reading.by = "prompt" =>
         /\ reading.piece.kind = "generation" /\ reading.piece.packet.status = Busy
         /\ \E j \in Junk : reading.result =
              PromptDecode(Memory(Padded(reading.piece.bytes), j))

\* Whoever holds a block is at work on the packet it belongs to.
HolderOK(h) ==
  /\ h = [by |-> h.by, n |-> h.n, block |-> h.block]
  /\ h.by \in {"maker", "self", "prompt", "server"}
  /\ h.by = "maker" =>
       /\ h.n = made /\ making.kind \notin {"none", "generation"}
       /\ h.block \in {"packet"} \cup Freed(making.kind)
  /\ h.by = "self" =>
       /\ h.n = made /\ reading.by = "self"
       /\ h.block \in {"packet"} \cup Freed(reading.piece.kind)
  /\ h.by = "prompt" =>
       /\ h.n = made /\ reading.by = "prompt"
       /\ h.block \in {"packet"} \cup PromptBlocks

HeapOK == \A h \in heap : HolderOK(h)

ExchangeInv == MakingOK /\ WireOK /\ ReadingOK /\ HeapOK
=============================================================================
