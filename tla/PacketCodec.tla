---------------------------- MODULE PacketCodec ----------------------------
(***************************************************************************)
(* gen/src/iw-pkt.c and gen/src/iw-pkt-codec.c: the six packets, what      *)
(* their setters leave in them, the bytes they are encoded to and what a   *)
(* decoder takes from memory.  Bytes are 0..255; an int is four of them,   *)
(* the lowest first, and a long, which is only copied, is its eight bytes. *)
(* A block (text, file_lens, files, source) is its content: <<>> for NULL. *)
(***************************************************************************)
EXTENDS Integers, Sequences

CONSTANTS
  PathSize,     \* bytes of project_path and of a preview's source: 200
  Slack         \* bytes behind a buffer that can be read without a fault

ASSUME SizesAssumption == PathSize \in Nat \ {0} /\ Slack \in Nat

Byte == 0..255
Chars(n) == [1..n -> Byte]

Magic == 287454020
INT_MIN == (-2147483647) - 1

BytesOf(n) ==
  <<n % 256, (n \div 256) % 256, (n \div 65536) % 256, (n \div 16777216) % 256>>

IntOf(b) ==
  b[1] + 256 * b[2] + 65536 * b[3]
    + 16777216 * (IF b[4] < 128 THEN b[4] ELSE b[4] - 256)

\* The bytes of a block of ints, and its first n ints added up.
IntBytes(s) == [i \in 1..4 * Len(s) |->
                  BytesOf(s[((i - 1) \div 4) + 1])[((i - 1) % 4) + 1]]
Sum(s, n) ==
  LET sum[i \in 0..n] == IF i = 0 THEN 0 ELSE sum[i - 1] + s[i] IN sum[n]

-----------------------------------------------------------------------------
(* The packets                                                             *)

Prompt == [magic : Int, type : Chars(2), version : Chars(2),
           request : Chars(8), text_length : Int, text : Seq(Byte),
           file_count : Int, file_lens : Seq(Int), files : Seq(Byte)]

Coding == [magic : Int, type : Chars(2), version : Chars(2),
           request : Chars(8), text_length : Int, text : Seq(Byte)]

Compilation == [magic : Int, type : Chars(2), language : Chars(2),
                src_len : Int, source : Seq(Byte)]

Build == [magic : Int, type : Chars(2), build_tool : Chars(2),
          project_path : Chars(PathSize)]

Preview == [magic : Int, type : Chars(2), file_type : Chars(2),
            source : Chars(PathSize)]

Generation == [magic : Int, request : Chars(8), status : Chars(2),
               text_length : Int, text : Seq(Byte)]

\* A packet whose numbers fit an int and whose lengths are those of its blocks.
Int32 == {n \in Int : INT_MIN <= n /\ n <= 2147483647}

PromptOK(p) ==
  /\ p \in Prompt /\ p.magic \in Int32
  /\ p.text_length = Len(p.text) /\ p.text_length \in Int32
  /\ p.file_count = Len(p.file_lens) /\ p.file_count \in Int32
  /\ p.file_lens \in Seq({n \in Int32 : 0 <= n})
  /\ Len(p.files) = Sum(p.file_lens, p.file_count)

CodingOK(p) ==
  /\ p \in Coding /\ p.magic \in Int32
  /\ p.text_length = Len(p.text) /\ p.text_length \in Int32

CompilationOK(p) ==
  /\ p \in Compilation /\ p.magic \in Int32
  /\ p.src_len = Len(p.source) /\ p.src_len \in Int32

BuildOK(p) == p \in Build /\ p.magic \in Int32

PreviewOK(p) == p \in Preview /\ p.magic \in Int32

GenerationOK(p) ==
  /\ p \in Generation /\ p.magic \in Int32
  /\ p.text_length = Len(p.text) /\ p.text_length \in Int32

\* iw_..._init: of an array only the first byte is written; j is what malloc
\* found in the others.
Array(n, j) == [i \in 1..n |-> IF i = 1 THEN 0 ELSE j]
UnsetLong == BytesOf(INT_MIN) \o BytesOf(-1)

PromptInit(j) ==
  [magic |-> INT_MIN, type |-> Array(2, j), version |-> Array(2, j),
   request |-> UnsetLong, text_length |-> INT_MIN, text |-> <<>>,
   file_count |-> INT_MIN, file_lens |-> <<>>, files |-> <<>>]

CodingInit(j) ==
  [magic |-> INT_MIN, type |-> Array(2, j), version |-> Array(2, j),
   request |-> UnsetLong, text_length |-> INT_MIN, text |-> <<>>]

CompilationInit(j) ==
  [magic |-> INT_MIN, type |-> Array(2, j), language |-> Array(2, j),
   src_len |-> INT_MIN, source |-> <<>>]

BuildInit(j) ==
  [magic |-> Magic, type |-> Array(2, j), build_tool |-> Array(2, j),
   project_path |-> Array(PathSize, j)]

PreviewInit(j) ==
  [magic |-> Magic, type |-> Array(2, j), file_type |-> Array(2, j),
   source |-> Array(PathSize, j)]

GenerationInit(j) ==
  [magic |-> INT_MIN, request |-> UnsetLong, status |-> Array(2, j),
   text_length |-> INT_MIN, text |-> <<>>]

\* Mutant: the lengths of the files are not freed.
PromptBlocksForgotten == {"text", "files"}

\* What iw_..._free frees besides the packet, when it is not NULL.
PromptBlocks      == {"text", "file_lens", "files"}
CodingBlocks      == {"text"}
CompilationBlocks == {"source"}
GenerationBlocks  == {"text"}

\* Setters.  Numbers and blocks are replaced; a value is copied over the
\* beginning of an array, and what is behind it stays.
Put(p, f, v)  == [p EXCEPT ![f] = v]
Fill(p, f, v) == [p EXCEPT ![f] = v \o SubSeq(@, Len(v) + 1, Len(@))]

PromptSet(p, f, v) ==
  IF f \in {"type", "version"} THEN Fill(p, f, v) ELSE Put(p, f, v)

CodingSet(p, f, v) ==
  IF f \in {"type", "version"} THEN Fill(p, f, v) ELSE Put(p, f, v)

CompilationSet(p, f, v) ==
  IF f \in {"type", "language"} THEN Fill(p, f, v) ELSE Put(p, f, v)

BuildSet(p, f, v) == IF f = "magic" THEN Put(p, f, v) ELSE Fill(p, f, v)

PreviewSet(p, f, v) == IF f = "magic" THEN Put(p, f, v) ELSE Fill(p, f, v)

GenerationSet(p, f, v) ==
  IF f = "status" THEN Fill(p, f, v) ELSE Put(p, f, v)

-----------------------------------------------------------------------------
(* Encoders: the size added up for malloc, and the bytes then copied.      *)

\* memcpy of n elements of s
Copied(s, n) == SubSeq(s, 1, n)

\* Mutant: the lengths of the files are not added up.
PromptEncodeShort(p) ==
  LET block == Sum(p.file_lens, p.file_count)
  IN [size  |-> 4 + 2 + 2 + 8 + 4 + p.text_length + 4 + block,
      bytes |-> BytesOf(p.magic) \o p.type \o p.version \o p.request
                  \o BytesOf(p.text_length) \o Copied(p.text, p.text_length)
                  \o BytesOf(p.file_count)
                  \o Copied(IntBytes(p.file_lens), 4 * p.file_count)
                  \o Copied(p.files, block)]

PromptEncode(p) ==
  LET block == Sum(p.file_lens, p.file_count)
  IN [size  |-> 4 + 2 + 2 + 8 + 4 + p.text_length + 4 + 4 * p.file_count + block,
      bytes |-> BytesOf(p.magic) \o p.type \o p.version \o p.request
                  \o BytesOf(p.text_length) \o Copied(p.text, p.text_length)
                  \o BytesOf(p.file_count)
                  \o Copied(IntBytes(p.file_lens), 4 * p.file_count)
                  \o Copied(p.files, block)]

CodingEncode(p) ==
  [size  |-> 4 + 2 + 2 + 8 + 4 + p.text_length,
   bytes |-> BytesOf(p.magic) \o p.type \o p.version \o p.request
               \o BytesOf(p.text_length) \o Copied(p.text, p.text_length)]

CompilationEncode(p) ==
  [size  |-> 4 + 2 + 2 + 4 + p.src_len,
   bytes |-> BytesOf(p.magic) \o p.type \o p.language
               \o BytesOf(p.src_len) \o Copied(p.source, p.src_len)]

BuildEncode(p) ==
  [size  |-> 4 + 2 + 2 + PathSize,
   bytes |-> BytesOf(p.magic) \o p.type \o p.build_tool \o p.project_path]

PreviewEncode(p) ==
  [size  |-> 4 + 2 + 2 + PathSize,
   bytes |-> BytesOf(p.magic) \o p.type \o p.file_type \o p.source]

GenerationEncode(p) ==
  [size  |-> 4 + 8 + 2 + 4 + p.text_length,
   bytes |-> BytesOf(p.magic) \o p.request \o p.status
               \o BytesOf(p.text_length) \o Copied(p.text, p.text_length)]

-----------------------------------------------------------------------------
(* Decoders, over a memory: a buffer and the byte that fills what is       *)
(* behind it.  No decoder looks at the size of the buffer.                 *)

Memory(buffer, behind) == [buffer |-> buffer, behind |-> behind]

\* The n bytes of m from offset at, and the int there.
Part(m, at, n) ==
  [i \in 1..n |-> IF at + i <= Len(m.buffer) THEN m.buffer[at + i] ELSE m.behind]
Number(m, at) == IntOf(Part(m, at, 4))

\* A length that some memory holds: a negative int is a size_t beyond all.
Holds(m, n) == n \in 0..Len(m.buffer) + Slack

\* What a decoder returns, and the offset up to which it read.
Null  == [is |-> "null", reach |-> 4]
Fault == [is |-> "fault"]
Decoded(m, p, reach) ==
  IF Holds(m, reach) THEN [is |-> "packet", packet |-> p, reach |-> reach]
                     ELSE Fault

\* Mutant: the files are read from where their lengths begin.
PromptDecodeEarly(m) ==
  LET n     == Number(m, 16)
      count == Number(m, 20 + n)
      lens  == [i \in 1..count |-> Number(m, 20 + n + 4 * i)]
      block == Sum(lens, count)
      files == 24 + n
  IN IF Number(m, 0) # Magic THEN Null
     ELSE IF ~Holds(m, n) THEN Fault
     ELSE IF ~Holds(m, count) THEN Fault
     ELSE IF ~Holds(m, block) THEN Fault
     ELSE Decoded(m,
            [magic |-> Magic, type |-> Part(m, 4, 2), version |-> Part(m, 6, 2),
             request |-> Part(m, 8, 8), text_length |-> n,
             text |-> Part(m, 20, n), file_count |-> count,
             file_lens |-> lens, files |-> Part(m, files, block)],
            files + block)

PromptDecode(m) ==
  LET n     == Number(m, 16)
      count == Number(m, 20 + n)
      lens  == [i \in 1..count |-> Number(m, 20 + n + 4 * i)]
      block == Sum(lens, count)
      files == 24 + n + 4 * count
  IN IF Number(m, 0) # Magic THEN Null
     ELSE IF ~Holds(m, n) THEN Fault
     ELSE IF ~Holds(m, count) THEN Fault
     ELSE IF ~Holds(m, block) THEN Fault
     ELSE Decoded(m,
            [magic |-> Magic, type |-> Part(m, 4, 2), version |-> Part(m, 6, 2),
             request |-> Part(m, 8, 8), text_length |-> n,
             text |-> Part(m, 20, n), file_count |-> count,
             file_lens |-> lens, files |-> Part(m, files, block)],
            files + block)

\* Mutant: the text is left for later.
CodingDecodeHeader(m) ==
  IF Number(m, 0) # Magic THEN Null
  ELSE Decoded(m,
         [magic |-> Magic, type |-> Part(m, 4, 2), version |-> Part(m, 6, 2),
          request |-> Part(m, 8, 8), text_length |-> Number(m, 16), text |-> <<>>],
         20)

CodingDecode(m) ==
  LET n == Number(m, 16)
  IN IF Number(m, 0) # Magic THEN Null
     ELSE IF ~Holds(m, n) THEN Fault
     ELSE Decoded(m,
            [magic |-> Magic, type |-> Part(m, 4, 2), version |-> Part(m, 6, 2),
             request |-> Part(m, 8, 8), text_length |-> n,
             text |-> Part(m, 20, n)],
            20 + n)

CompilationDecode(m) ==
  LET n == Number(m, 8)
  IN IF Number(m, 0) # Magic THEN Null
     ELSE IF ~Holds(m, n) THEN Fault
     ELSE Decoded(m,
            [magic |-> Magic, type |-> Part(m, 4, 2), language |-> Part(m, 6, 2),
             src_len |-> n, source |-> Part(m, 12, n)],
            12 + n)

BuildDecode(m) ==
  Decoded(m,
    [magic |-> Number(m, 0), type |-> Part(m, 4, 2),
     build_tool |-> Part(m, 6, 2), project_path |-> Part(m, 8, PathSize)],
    8 + PathSize)

PreviewDecode(m) ==
  Decoded(m,
    [magic |-> Number(m, 0), type |-> Part(m, 4, 2),
     file_type |-> Part(m, 6, 2), source |-> Part(m, 8, PathSize)],
    8 + PathSize)

GenerationDecode(m) ==
  LET n == Number(m, 14)
  IN IF Number(m, 0) # Magic THEN Null
     ELSE IF ~Holds(m, n) THEN Fault
     ELSE Decoded(m,
            [magic |-> Magic, request |-> Part(m, 4, 8), status |-> Part(m, 12, 2),
             text_length |-> n, text |-> Part(m, 18, n)],
            18 + n)

=============================================================================
