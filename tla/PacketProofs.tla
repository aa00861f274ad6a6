---------------------------- MODULE PacketProofs ----------------------------
(***************************************************************************)
(* Proofs about PacketCodec and PacketExchange: every kind of packet is    *)
(* decoded from the bytes it was encoded to, whatever its fields, and what *)
(* follows for the exchange.                                               *)
(***************************************************************************)
EXTENDS PacketExchange, SequenceTheorems, TLAPS

-----------------------------------------------------------------------------
(* Bytes and where they stand                                              *)

\* An int comes back from its four bytes.
LEMMA IntBack ==
  ASSUME NEW n \in Int32
  PROVE  /\ BytesOf(n) \in Seq(Byte) /\ Len(BytesOf(n)) = 4
         /\ IntOf(BytesOf(n)) = n
<1> DEFINE b1 == n % 256
           b2 == (n \div 256) % 256
           b3 == (n \div 65536) % 256
           b4 == (n \div 16777216) % 256
           top == n \div 16777216
<1>1. BytesOf(n) = <<b1, b2, b3, b4>>
  BY SMT DEF BytesOf
<1>2. n \in Int /\ (-2147483647) - 1 <= n /\ n <= 2147483647
  BY SMT DEF Int32, INT_MIN
<1>3. b1 \in 0..255 /\ b2 \in 0..255 /\ b3 \in 0..255 /\ b4 \in 0..255
  <2>1. \A x \in Int : x % 256 \in 0..255
    OBVIOUS
  <2>2. n \div 256 \in Int /\ n \div 65536 \in Int /\ n \div 16777216 \in Int
    BY SMT, <1>2
  <2> QED  BY SMT, <1>2, <2>1, <2>2
<1>4. top \in -128..127 /\ n = b1 + 256 * b2 + 65536 * b3 + 16777216 * top
  BY SMT, <1>2
<1>5. top = IF b4 < 128 THEN b4 ELSE b4 - 256
  BY SMT, <1>4
<1> HIDE DEF b1, b2, b3, b4, top
<1>6. IntOf(<<b1, b2, b3, b4>>) = b1 + 256 * b2 + 65536 * b3 + 16777216 * top
  BY SMT, <1>3, <1>5 DEF IntOf
<1>7. <<b1, b2, b3, b4>> \in Seq(Byte) /\ Len(<<b1, b2, b3, b4>>) = 4
  BY <1>3 DEF Byte
<1> QED  BY <1>1, <1>4, <1>6, <1>7

\* c stands in b behind the first at bytes.
Stands(b, at, c) == \A i \in 1..Len(c) : at + i <= Len(b) /\ b[at + i] = c[i]

\* What stands in b stands there in a longer sequence.
LEMMA StandsLonger ==
  ASSUME NEW b \in Seq(Byte), NEW c \in Seq(Byte), NEW d \in Seq(Byte),
         NEW at \in Nat, Stands(b, at, c)
  PROVE  Stands(b \o d, at, c)
BY ConcatProperties DEF Stands

\* The end of a concatenation stands behind its beginning.
LEMMA StandsLast ==
  ASSUME NEW b \in Seq(Byte), NEW c \in Seq(Byte)
  PROVE  Stands(b \o c, Len(b), c)
BY ConcatProperties DEF Stands

\* What stands in b and fits its first k bytes stands there.
LEMMA StandsShorter ==
  ASSUME NEW b \in Seq(Byte), NEW c \in Seq(Byte), NEW at \in Nat,
         NEW k \in 0..Len(b), Stands(b, at, c), at + Len(c) <= k
  PROVE  Stands(SubSeq(b, 1, k), at, c)
<1>1. Len(SubSeq(b, 1, k)) = k /\ \A i \in 1..k : SubSeq(b, 1, k)[i] = b[i]
  BY SubSeqProperties
<1> QED  BY <1>1 DEF Stands

\* What stands in a buffer is what a decoder finds there.
LEMMA PartFound ==
  ASSUME NEW b \in Seq(Byte), NEW c \in Seq(Byte), NEW at \in Nat, NEW j,
         Stands(b, at, c)
  PROVE  Part(Memory(b, j), at, Len(c)) = c
<1>1. \A i \in 1..Len(c) : Part(Memory(b, j), at, Len(c))[i] = c[i]
  BY DEF Part, Memory, Stands
<1>2. c = [i \in 1..Len(c) |-> c[i]]
  OBVIOUS
<1> QED  BY <1>1, <1>2 DEF Part

\* The same for an int.
LEMMA NumberFound ==
  ASSUME NEW b \in Seq(Byte), NEW n \in Int32, NEW at \in Nat, NEW j,
         Stands(b, at, BytesOf(n))
  PROVE  Number(Memory(b, j), at) = n
<1>1. BytesOf(n) \in Seq(Byte) /\ Len(BytesOf(n)) = 4 /\ IntOf(BytesOf(n)) = n
  BY IntBack
<1>2. Part(Memory(b, j), at, Len(BytesOf(n))) = BytesOf(n)
  BY <1>1, PartFound
<1> QED  BY <1>1, <1>2 DEF Number

\* An array is a sequence of its size.
LEMMA CharsSeq ==
  ASSUME NEW n \in Nat, NEW c \in Chars(n)
  PROVE  c \in Seq(Byte) /\ Len(c) = n
BY DEF Chars

\* A block is copied whole.
LEMMA CopiedWhole ==
  ASSUME NEW s \in Seq(Byte)
  PROVE  Copied(s, Len(s)) = s
BY SubSeqFull DEF Copied

-----------------------------------------------------------------------------
(* Where the fields of a packet stand in its bytes                         *)

\* e is b with c behind it.
Grown(b, c, e) ==
  /\ e \in Seq(Byte) /\ Len(e) = Len(b) + Len(c) /\ Stands(e, Len(b), c)
  /\ \A at \in Nat, d \in Seq(Byte) : Stands(b, at, d) => Stands(e, at, d)

\* What is put behind a sequence of bytes stands there, and all that stood
\* before it still does.
LEMMA OneMore ==
  ASSUME NEW b \in Seq(Byte), NEW c \in Seq(Byte)
  PROVE  Grown(b, c, b \o c)
BY ConcatProperties, StandsLast, StandsLonger DEF Grown

\* The four bytes of each int of a block, one after the other.
LEMMA IntBytesSeq ==
  ASSUME NEW s \in Seq(Int32)
  PROVE  IntBytes(s) \in Seq(Byte) /\ Len(IntBytes(s)) = 4 * Len(s)
<1> DEFINE l == Len(s)
           e(i) == BytesOf(s[((i - 1) \div 4) + 1])[((i - 1) % 4) + 1]
<1>1. l \in Nat
  BY LenProperties
<1>2. \A i \in 1..4 * l : ((i - 1) \div 4) + 1 \in 1..l /\ ((i - 1) % 4) + 1 \in 1..4
  <2> HIDE DEF l
  <2> QED  BY <1>1
<1>3. \A i \in 1..l : BytesOf(s[i]) \in Seq(Byte) /\ Len(BytesOf(s[i])) = 4
  BY IntBack
<1>4. \A i \in 1..l, k \in 1..4 : BytesOf(s[i])[k] \in Byte
  BY <1>3
<1>5. \A i \in 1..4 * l : e(i) \in Byte
  BY <1>2, <1>4
<1>6. IntBytes(s) = [i \in 1..4 * l |-> e(i)]
  BY DEF IntBytes
<1> HIDE DEF e, l
<1>7. 4 * l \in Nat
  BY <1>1
<1>8. [i \in 1..4 * l |-> e(i)] \in Seq(Byte) /\ Len([i \in 1..4 * l |-> e(i)]) = 4 * l
  BY <1>5, <1>7
<1> QED  BY <1>6, <1>8 DEF l

\* An int of a block stands at four times its place.
LEMMA IntStands ==
  ASSUME NEW s \in Seq(Int32), NEW b \in Seq(Byte), NEW at \in Nat,
         Stands(b, at, IntBytes(s)), NEW i \in 1..Len(s)
  PROVE  Stands(b, at + 4 * (i - 1), BytesOf(s[i]))
<1>1. Len(BytesOf(s[i])) = 4
  BY IntBack
<1>2. Len(IntBytes(s)) = 4 * Len(s) /\ Len(s) \in Nat /\ Len(b) \in Nat
  BY IntBytesSeq, LenProperties
<1> SUFFICES ASSUME NEW k \in 1..4
             PROVE  /\ at + 4 * (i - 1) + k <= Len(b)
                    /\ b[at + 4 * (i - 1) + k] = BytesOf(s[i])[k]
  BY <1>1 DEF Stands
<1> DEFINE h == 4 * (i - 1) + k
           l == Len(s)
<1>3. /\ h \in 1..4 * l /\ (h - 1) \div 4 = i - 1 /\ (h - 1) % 4 = k - 1
      /\ at + 4 * (i - 1) + k = at + h
  <2> HIDE DEF l
  <2>1. l \in Nat /\ i \in 1..l
    BY <1>2 DEF l
  <2> QED  BY <2>1
<1> HIDE DEF h
<1>4. at + h <= Len(b) /\ b[at + h] = IntBytes(s)[h]
  BY <1>2, <1>3 DEF Stands
<1>5. IntBytes(s)[h] = BytesOf(s[((h - 1) \div 4) + 1])[((h - 1) % 4) + 1]
  BY <1>3 DEF IntBytes
<1>6. ((h - 1) \div 4) + 1 = i /\ ((h - 1) % 4) + 1 = k
  BY <1>3
<1> QED  BY <1>3, <1>4, <1>5, <1>6

\* A coding: twenty bytes and the text.
LEMMA CodingLayout ==
  ASSUME NEW p, CodingOK(p)
  PROVE  LET b == CodingEncode(p).bytes
             n == p.text_length
         IN /\ p.magic \in Int32 /\ n \in Nat /\ n \in Int32
            /\ b \in Seq(Byte) /\ Len(b) = 20 + n
            /\ CodingEncode(p).size = Len(b)
            /\ Stands(b, 0, BytesOf(p.magic))
            /\ Stands(b, 4, p.type)
            /\ Stands(b, 6, p.version)
            /\ Stands(b, 8, p.request)
            /\ Stands(b, 16, BytesOf(n))
            /\ Stands(b, 20, p.text)
<1> DEFINE n == p.text_length
<1>1. /\ p.type \in Chars(2)
      /\ p.version \in Chars(2)
      /\ p.request \in Chars(8)
  BY DEF CodingOK, Coding
<1>2. /\ p.type \in Seq(Byte) /\ Len(p.type) = 2
      /\ p.version \in Seq(Byte) /\ Len(p.version) = 2
      /\ p.request \in Seq(Byte) /\ Len(p.request) = 8
  BY <1>1, CharsSeq
<1>3. p.text \in Seq(Byte) /\ Len(p.text) = n /\ n \in Nat
  BY LenProperties DEF CodingOK, Coding
<1>4. p.magic \in Int32 /\ n \in Int32
  BY DEF CodingOK
<1>5. /\ BytesOf(p.magic) \in Seq(Byte) /\ Len(BytesOf(p.magic)) = 4
      /\ BytesOf(n) \in Seq(Byte) /\ Len(BytesOf(n)) = 4
  BY <1>4, IntBack
<1>6. Copied(p.text, n) = p.text
  BY <1>3, CopiedWhole
<1> DEFINE b2 == BytesOf(p.magic) \o p.type
           b3 == b2 \o p.version
           b4 == b3 \o p.request
           b5 == b4 \o BytesOf(n)
           b6 == b5 \o p.text
<1>7. CodingEncode(p).bytes = b6
  BY <1>6 DEF CodingEncode
<1>8. CodingEncode(p).size = 20 + n
  BY <1>3 DEF CodingEncode
<1>9. Stands(BytesOf(p.magic), 0, BytesOf(p.magic))
  BY DEF Stands
<1> HIDE DEF n, b2, b3, b4, b5, b6
<1>10. Grown(BytesOf(p.magic), p.type, b2)
  BY <1>2, <1>3, <1>5, <1>9, OneMore DEF b2
<1>11. /\ b2 \in Seq(Byte) /\ Len(b2) = 6
      /\ Stands(b2, 0, BytesOf(p.magic))
      /\ Stands(b2, 4, p.type)
  BY <1>2, <1>3, <1>5, <1>9, <1>10 DEF Grown
<1>12. Grown(b2, p.version, b3)
  BY <1>2, <1>3, <1>5, <1>11, OneMore DEF b3
<1>13. /\ b3 \in Seq(Byte) /\ Len(b3) = 8
      /\ Stands(b3, 0, BytesOf(p.magic))
      /\ Stands(b3, 4, p.type)
      /\ Stands(b3, 6, p.version)
  BY <1>2, <1>3, <1>5, <1>11, <1>12 DEF Grown
<1>14. Grown(b3, p.request, b4)
  BY <1>2, <1>3, <1>5, <1>13, OneMore DEF b4
<1>15. /\ b4 \in Seq(Byte) /\ Len(b4) = 16
      /\ Stands(b4, 0, BytesOf(p.magic))
      /\ Stands(b4, 4, p.type)
      /\ Stands(b4, 6, p.version)
      /\ Stands(b4, 8, p.request)
  BY <1>2, <1>3, <1>5, <1>13, <1>14 DEF Grown
<1>16. Grown(b4, BytesOf(n), b5)
  BY <1>2, <1>3, <1>5, <1>15, OneMore DEF b5
<1>17. /\ b5 \in Seq(Byte) /\ Len(b5) = 20
      /\ Stands(b5, 0, BytesOf(p.magic))
      /\ Stands(b5, 4, p.type)
      /\ Stands(b5, 6, p.version)
      /\ Stands(b5, 8, p.request)
      /\ Stands(b5, 16, BytesOf(n))
  BY <1>2, <1>3, <1>5, <1>15, <1>16 DEF Grown
<1>18. Grown(b5, p.text, b6)
  BY <1>2, <1>3, <1>5, <1>17, OneMore DEF b6
<1>19. /\ b6 \in Seq(Byte) /\ Len(b6) = 20 + n
      /\ Stands(b6, 0, BytesOf(p.magic))
      /\ Stands(b6, 4, p.type)
      /\ Stands(b6, 6, p.version)
      /\ Stands(b6, 8, p.request)
      /\ Stands(b6, 16, BytesOf(n))
      /\ Stands(b6, 20, p.text)
  BY <1>2, <1>3, <1>5, <1>17, <1>18 DEF Grown
<1> QED  BY <1>3, <1>4, <1>7, <1>8, <1>19 DEF n

\* It comes back.
LEMMA CodingBack ==
  ASSUME NEW p, CodingOK(p), NEW j
  PROVE  LET b == CodingEncode(p).bytes
         IN CodingDecode(Memory(b, j)) =
              IF p.magic = Magic
              THEN [is |-> "packet", packet |-> p, reach |-> Len(b)] ELSE Null
<1> DEFINE b == CodingEncode(p).bytes
           m == Memory(b, j)
           n == p.text_length
<1>1. /\ p.magic \in Int32 /\ n \in Nat /\ n \in Int32
      /\ b \in Seq(Byte) /\ Len(b) = 20 + n
      /\ Stands(b, 0, BytesOf(p.magic))
      /\ Stands(b, 4, p.type)
      /\ Stands(b, 6, p.version)
      /\ Stands(b, 8, p.request)
      /\ Stands(b, 16, BytesOf(n))
      /\ Stands(b, 20, p.text)
  BY CodingLayout
<1>2. /\ p.type \in Seq(Byte)
      /\ p.version \in Seq(Byte)
      /\ p.request \in Seq(Byte)
      /\ p.text \in Seq(Byte)
  BY CharsSeq DEF CodingOK, Coding
<1>3. /\ Len(p.type) = 2
      /\ Len(p.version) = 2
      /\ Len(p.request) = 8
      /\ Len(p.text) = n
  BY CharsSeq DEF CodingOK, Coding
<1> HIDE DEF b, n
<1>4. /\ Number(m, 0) = p.magic
      /\ Number(m, 16) = n
  BY <1>1, NumberFound
<1>5. /\ Part(m, 4, 2) = p.type
      /\ Part(m, 6, 2) = p.version
      /\ Part(m, 8, 8) = p.request
      /\ Part(m, 20, n) = p.text
  <2>1. /\ Part(m, 4, Len(p.type)) = p.type
        /\ Part(m, 6, Len(p.version)) = p.version
        /\ Part(m, 8, Len(p.request)) = p.request
        /\ Part(m, 20, Len(p.text)) = p.text
    BY <1>1, <1>2, PartFound
  <2> QED  BY <1>3, <2>1
<1>6. Holds(m, n) /\ Holds(m, 20 + n)
  BY <1>1, SizesAssumption DEF Holds, Memory
<1>7. p.magic = Magic =>
        [magic |-> Magic, type |-> p.type, version |-> p.version,
         request |-> p.request, text_length |-> n, text |-> p.text] = p
  BY DEF CodingOK, Coding, n
<1> HIDE DEF m
<1>8. CodingDecode(m) = IF p.magic = Magic
        THEN [is |-> "packet", packet |-> p, reach |-> 20 + n] ELSE Null
  BY <1>4, <1>5, <1>6, <1>7 DEF CodingDecode, Decoded
<1> QED  BY <1>1, <1>8 DEF m, b

\* A compilation: twelve bytes and the source.
LEMMA CompilationLayout ==
  ASSUME NEW p, CompilationOK(p)
  PROVE  LET b == CompilationEncode(p).bytes
             n == p.src_len
         IN /\ p.magic \in Int32 /\ n \in Nat /\ n \in Int32
            /\ b \in Seq(Byte) /\ Len(b) = 12 + n
            /\ CompilationEncode(p).size = Len(b)
            /\ Stands(b, 0, BytesOf(p.magic))
            /\ Stands(b, 4, p.type)
            /\ Stands(b, 6, p.language)
            /\ Stands(b, 8, BytesOf(n))
            /\ Stands(b, 12, p.source)
<1> DEFINE n == p.src_len
<1>1. /\ p.type \in Chars(2)
      /\ p.language \in Chars(2)
  BY DEF CompilationOK, Compilation
<1>2. /\ p.type \in Seq(Byte) /\ Len(p.type) = 2
      /\ p.language \in Seq(Byte) /\ Len(p.language) = 2
  BY <1>1, CharsSeq
<1>3. p.source \in Seq(Byte) /\ Len(p.source) = n /\ n \in Nat
  BY LenProperties DEF CompilationOK, Compilation
<1>4. p.magic \in Int32 /\ n \in Int32
  BY DEF CompilationOK
<1>5. /\ BytesOf(p.magic) \in Seq(Byte) /\ Len(BytesOf(p.magic)) = 4
      /\ BytesOf(n) \in Seq(Byte) /\ Len(BytesOf(n)) = 4
  BY <1>4, IntBack
<1>6. Copied(p.source, n) = p.source
  BY <1>3, CopiedWhole
<1> DEFINE b2 == BytesOf(p.magic) \o p.type
           b3 == b2 \o p.language
           b4 == b3 \o BytesOf(n)
           b5 == b4 \o p.source
<1>7. CompilationEncode(p).bytes = b5
  BY <1>6 DEF CompilationEncode
<1>8. CompilationEncode(p).size = 12 + n
  BY <1>3 DEF CompilationEncode
<1>9. Stands(BytesOf(p.magic), 0, BytesOf(p.magic))
  BY DEF Stands
<1> HIDE DEF n, b2, b3, b4, b5
<1>10. Grown(BytesOf(p.magic), p.type, b2)
  BY <1>2, <1>3, <1>5, <1>9, OneMore DEF b2
<1>11. /\ b2 \in Seq(Byte) /\ Len(b2) = 6
      /\ Stands(b2, 0, BytesOf(p.magic))
      /\ Stands(b2, 4, p.type)
  BY <1>2, <1>3, <1>5, <1>9, <1>10 DEF Grown
<1>12. Grown(b2, p.language, b3)
  BY <1>2, <1>3, <1>5, <1>11, OneMore DEF b3
<1>13. /\ b3 \in Seq(Byte) /\ Len(b3) = 8
      /\ Stands(b3, 0, BytesOf(p.magic))
      /\ Stands(b3, 4, p.type)
      /\ Stands(b3, 6, p.language)
  BY <1>2, <1>3, <1>5, <1>11, <1>12 DEF Grown
<1>14. Grown(b3, BytesOf(n), b4)
  BY <1>2, <1>3, <1>5, <1>13, OneMore DEF b4
<1>15. /\ b4 \in Seq(Byte) /\ Len(b4) = 12
      /\ Stands(b4, 0, BytesOf(p.magic))
      /\ Stands(b4, 4, p.type)
      /\ Stands(b4, 6, p.language)
      /\ Stands(b4, 8, BytesOf(n))
  BY <1>2, <1>3, <1>5, <1>13, <1>14 DEF Grown
<1>16. Grown(b4, p.source, b5)
  BY <1>2, <1>3, <1>5, <1>15, OneMore DEF b5
<1>17. /\ b5 \in Seq(Byte) /\ Len(b5) = 12 + n
      /\ Stands(b5, 0, BytesOf(p.magic))
      /\ Stands(b5, 4, p.type)
      /\ Stands(b5, 6, p.language)
      /\ Stands(b5, 8, BytesOf(n))
      /\ Stands(b5, 12, p.source)
  BY <1>2, <1>3, <1>5, <1>15, <1>16 DEF Grown
<1> QED  BY <1>3, <1>4, <1>7, <1>8, <1>17 DEF n

\* It comes back.
LEMMA CompilationBack ==
  ASSUME NEW p, CompilationOK(p), NEW j
  PROVE  LET b == CompilationEncode(p).bytes
         IN CompilationDecode(Memory(b, j)) =
              IF p.magic = Magic
              THEN [is |-> "packet", packet |-> p, reach |-> Len(b)] ELSE Null
<1> DEFINE b == CompilationEncode(p).bytes
           m == Memory(b, j)
           n == p.src_len
<1>1. /\ p.magic \in Int32 /\ n \in Nat /\ n \in Int32
      /\ b \in Seq(Byte) /\ Len(b) = 12 + n
      /\ Stands(b, 0, BytesOf(p.magic))
      /\ Stands(b, 4, p.type)
      /\ Stands(b, 6, p.language)
      /\ Stands(b, 8, BytesOf(n))
      /\ Stands(b, 12, p.source)
  BY CompilationLayout
<1>2. /\ p.type \in Seq(Byte)
      /\ p.language \in Seq(Byte)
      /\ p.source \in Seq(Byte)
  BY CharsSeq DEF CompilationOK, Compilation
<1>3. /\ Len(p.type) = 2
      /\ Len(p.language) = 2
      /\ Len(p.source) = n
  BY CharsSeq DEF CompilationOK, Compilation
<1> HIDE DEF b, n
<1>4. /\ Number(m, 0) = p.magic
      /\ Number(m, 8) = n
  BY <1>1, NumberFound
<1>5. /\ Part(m, 4, 2) = p.type
      /\ Part(m, 6, 2) = p.language
      /\ Part(m, 12, n) = p.source
  <2>1. /\ Part(m, 4, Len(p.type)) = p.type
        /\ Part(m, 6, Len(p.language)) = p.language
        /\ Part(m, 12, Len(p.source)) = p.source
    BY <1>1, <1>2, PartFound
  <2> QED  BY <1>3, <2>1
<1>6. Holds(m, n) /\ Holds(m, 12 + n)
  BY <1>1, SizesAssumption DEF Holds, Memory
<1>7. p.magic = Magic =>
        [magic |-> Magic, type |-> p.type, language |-> p.language,
         src_len |-> n, source |-> p.source] = p
  BY DEF CompilationOK, Compilation, n
<1> HIDE DEF m
<1>8. CompilationDecode(m) = IF p.magic = Magic
        THEN [is |-> "packet", packet |-> p, reach |-> 12 + n] ELSE Null
  BY <1>4, <1>5, <1>6, <1>7 DEF CompilationDecode, Decoded
<1> QED  BY <1>1, <1>8 DEF m, b

\* A generation: eighteen bytes and the text.
LEMMA GenerationLayout ==
  ASSUME NEW p, GenerationOK(p)
  PROVE  LET b == GenerationEncode(p).bytes
             n == p.text_length
         IN /\ p.magic \in Int32 /\ n \in Nat /\ n \in Int32
            /\ b \in Seq(Byte) /\ Len(b) = 18 + n
            /\ GenerationEncode(p).size = Len(b)
            /\ Stands(b, 0, BytesOf(p.magic))
            /\ Stands(b, 4, p.request)
            /\ Stands(b, 12, p.status)
            /\ Stands(b, 14, BytesOf(n))
            /\ Stands(b, 18, p.text)
<1> DEFINE n == p.text_length
<1>1. /\ p.request \in Chars(8)
      /\ p.status \in Chars(2)
  BY DEF GenerationOK, Generation
<1>2. /\ p.request \in Seq(Byte) /\ Len(p.request) = 8
      /\ p.status \in Seq(Byte) /\ Len(p.status) = 2
  BY <1>1, CharsSeq
<1>3. p.text \in Seq(Byte) /\ Len(p.text) = n /\ n \in Nat
  BY LenProperties DEF GenerationOK, Generation
<1>4. p.magic \in Int32 /\ n \in Int32
  BY DEF GenerationOK
<1>5. /\ BytesOf(p.magic) \in Seq(Byte) /\ Len(BytesOf(p.magic)) = 4
      /\ BytesOf(n) \in Seq(Byte) /\ Len(BytesOf(n)) = 4
  BY <1>4, IntBack
<1>6. Copied(p.text, n) = p.text
  BY <1>3, CopiedWhole
<1> DEFINE b2 == BytesOf(p.magic) \o p.request
           b3 == b2 \o p.status
           b4 == b3 \o BytesOf(n)
           b5 == b4 \o p.text
<1>7. GenerationEncode(p).bytes = b5
  BY <1>6 DEF GenerationEncode
<1>8. GenerationEncode(p).size = 18 + n
  BY <1>3 DEF GenerationEncode
<1>9. Stands(BytesOf(p.magic), 0, BytesOf(p.magic))
  BY DEF Stands
<1> HIDE DEF n, b2, b3, b4, b5
<1>10. Grown(BytesOf(p.magic), p.request, b2)
  BY <1>2, <1>3, <1>5, <1>9, OneMore DEF b2
<1>11. /\ b2 \in Seq(Byte) /\ Len(b2) = 12
      /\ Stands(b2, 0, BytesOf(p.magic))
      /\ Stands(b2, 4, p.request)
  BY <1>2, <1>3, <1>5, <1>9, <1>10 DEF Grown
<1>12. Grown(b2, p.status, b3)
  BY <1>2, <1>3, <1>5, <1>11, OneMore DEF b3
<1>13. /\ b3 \in Seq(Byte) /\ Len(b3) = 14
      /\ Stands(b3, 0, BytesOf(p.magic))
      /\ Stands(b3, 4, p.request)
      /\ Stands(b3, 12, p.status)
  BY <1>2, <1>3, <1>5, <1>11, <1>12 DEF Grown
<1>14. Grown(b3, BytesOf(n), b4)
  BY <1>2, <1>3, <1>5, <1>13, OneMore DEF b4
<1>15. /\ b4 \in Seq(Byte) /\ Len(b4) = 18
      /\ Stands(b4, 0, BytesOf(p.magic))
      /\ Stands(b4, 4, p.request)
      /\ Stands(b4, 12, p.status)
      /\ Stands(b4, 14, BytesOf(n))
  BY <1>2, <1>3, <1>5, <1>13, <1>14 DEF Grown
<1>16. Grown(b4, p.text, b5)
  BY <1>2, <1>3, <1>5, <1>15, OneMore DEF b5
<1>17. /\ b5 \in Seq(Byte) /\ Len(b5) = 18 + n
      /\ Stands(b5, 0, BytesOf(p.magic))
      /\ Stands(b5, 4, p.request)
      /\ Stands(b5, 12, p.status)
      /\ Stands(b5, 14, BytesOf(n))
      /\ Stands(b5, 18, p.text)
  BY <1>2, <1>3, <1>5, <1>15, <1>16 DEF Grown
<1> QED  BY <1>3, <1>4, <1>7, <1>8, <1>17 DEF n

\* It comes back.
LEMMA GenerationBack ==
  ASSUME NEW p, GenerationOK(p), NEW j
  PROVE  LET b == GenerationEncode(p).bytes
         IN GenerationDecode(Memory(b, j)) =
              IF p.magic = Magic
              THEN [is |-> "packet", packet |-> p, reach |-> Len(b)] ELSE Null
<1> DEFINE b == GenerationEncode(p).bytes
           m == Memory(b, j)
           n == p.text_length
<1>1. /\ p.magic \in Int32 /\ n \in Nat /\ n \in Int32
      /\ b \in Seq(Byte) /\ Len(b) = 18 + n
      /\ Stands(b, 0, BytesOf(p.magic))
      /\ Stands(b, 4, p.request)
      /\ Stands(b, 12, p.status)
      /\ Stands(b, 14, BytesOf(n))
      /\ Stands(b, 18, p.text)
  BY GenerationLayout
<1>2. /\ p.request \in Seq(Byte)
      /\ p.status \in Seq(Byte)
      /\ p.text \in Seq(Byte)
  BY CharsSeq DEF GenerationOK, Generation
<1>3. /\ Len(p.request) = 8
      /\ Len(p.status) = 2
      /\ Len(p.text) = n
  BY CharsSeq DEF GenerationOK, Generation
<1> HIDE DEF b, n
<1>4. /\ Number(m, 0) = p.magic
      /\ Number(m, 14) = n
  BY <1>1, NumberFound
<1>5. /\ Part(m, 4, 8) = p.request
      /\ Part(m, 12, 2) = p.status
      /\ Part(m, 18, n) = p.text
  <2>1. /\ Part(m, 4, Len(p.request)) = p.request
        /\ Part(m, 12, Len(p.status)) = p.status
        /\ Part(m, 18, Len(p.text)) = p.text
    BY <1>1, <1>2, PartFound
  <2> QED  BY <1>3, <2>1
<1>6. Holds(m, n) /\ Holds(m, 18 + n)
  BY <1>1, SizesAssumption DEF Holds, Memory
<1>7. p.magic = Magic =>
        [magic |-> Magic, request |-> p.request, status |-> p.status,
         text_length |-> n, text |-> p.text] = p
  BY DEF GenerationOK, Generation, n
<1> HIDE DEF m
<1>8. GenerationDecode(m) = IF p.magic = Magic
        THEN [is |-> "packet", packet |-> p, reach |-> 18 + n] ELSE Null
  BY <1>4, <1>5, <1>6, <1>7 DEF GenerationDecode, Decoded
<1> QED  BY <1>1, <1>8 DEF m, b

\* A build: eight bytes and the array of the path.
LEMMA BuildLayout ==
  ASSUME NEW p, BuildOK(p)
  PROVE  LET b == BuildEncode(p).bytes
         IN /\ p.magic \in Int32
            /\ b \in Seq(Byte) /\ Len(b) = 8 + PathSize
            /\ BuildEncode(p).size = Len(b)
            /\ Stands(b, 0, BytesOf(p.magic))
            /\ Stands(b, 4, p.type)
            /\ Stands(b, 6, p.build_tool)
            /\ Stands(b, 8, p.project_path)
<1>1. /\ p.type \in Chars(2)
      /\ p.build_tool \in Chars(2)
      /\ p.project_path \in Chars(PathSize)
  BY DEF BuildOK, Build
<1>2. /\ p.type \in Seq(Byte) /\ Len(p.type) = 2
      /\ p.build_tool \in Seq(Byte) /\ Len(p.build_tool) = 2
      /\ p.project_path \in Seq(Byte) /\ Len(p.project_path) = PathSize
  BY <1>1, CharsSeq, SizesAssumption
<1>3. PathSize \in Nat
  BY SizesAssumption
<1>4. p.magic \in Int32
  BY DEF BuildOK
<1>5. /\ BytesOf(p.magic) \in Seq(Byte) /\ Len(BytesOf(p.magic)) = 4
  BY <1>4, IntBack
<1> DEFINE b2 == BytesOf(p.magic) \o p.type
           b3 == b2 \o p.build_tool
           b4 == b3 \o p.project_path
<1>7. BuildEncode(p).bytes = b4
  BY DEF BuildEncode
<1>8. BuildEncode(p).size = 8 + PathSize
  BY <1>3 DEF BuildEncode
<1>9. Stands(BytesOf(p.magic), 0, BytesOf(p.magic))
  BY DEF Stands
<1> HIDE DEF b2, b3, b4
<1>10. Grown(BytesOf(p.magic), p.type, b2)
  BY <1>2, <1>5, <1>9, OneMore DEF b2
<1>11. /\ b2 \in Seq(Byte) /\ Len(b2) = 6
      /\ Stands(b2, 0, BytesOf(p.magic))
      /\ Stands(b2, 4, p.type)
  BY <1>2, <1>3, <1>5, <1>9, <1>10 DEF Grown
<1>12. Grown(b2, p.build_tool, b3)
  BY <1>2, <1>5, <1>11, OneMore DEF b3
<1>13. /\ b3 \in Seq(Byte) /\ Len(b3) = 8
      /\ Stands(b3, 0, BytesOf(p.magic))
      /\ Stands(b3, 4, p.type)
      /\ Stands(b3, 6, p.build_tool)
  BY <1>2, <1>3, <1>5, <1>11, <1>12 DEF Grown
<1>14. Grown(b3, p.project_path, b4)
  BY <1>2, <1>5, <1>13, OneMore DEF b4
<1>15. /\ b4 \in Seq(Byte) /\ Len(b4) = 8 + PathSize
      /\ Stands(b4, 0, BytesOf(p.magic))
      /\ Stands(b4, 4, p.type)
      /\ Stands(b4, 6, p.build_tool)
      /\ Stands(b4, 8, p.project_path)
  BY <1>2, <1>3, <1>5, <1>13, <1>14 DEF Grown
<1> QED  BY <1>3, <1>4, <1>7, <1>8, <1>15

\* It comes back.
LEMMA BuildBack ==
  ASSUME NEW p, BuildOK(p), NEW j
  PROVE  LET b == BuildEncode(p).bytes
         IN BuildDecode(Memory(b, j)) =
              [is |-> "packet", packet |-> p, reach |-> Len(b)]
<1> DEFINE b == BuildEncode(p).bytes
           m == Memory(b, j)
<1>1. /\ p.magic \in Int32 /\ PathSize \in Nat
      /\ b \in Seq(Byte) /\ Len(b) = 8 + PathSize
      /\ Stands(b, 0, BytesOf(p.magic))
      /\ Stands(b, 4, p.type)
      /\ Stands(b, 6, p.build_tool)
      /\ Stands(b, 8, p.project_path)
  BY BuildLayout, SizesAssumption
<1>2. /\ p.type \in Seq(Byte)
      /\ p.build_tool \in Seq(Byte)
      /\ p.project_path \in Seq(Byte)
  BY <1>1, CharsSeq DEF BuildOK, Build
<1>3. /\ Len(p.type) = 2
      /\ Len(p.build_tool) = 2
      /\ Len(p.project_path) = PathSize
  BY <1>1, CharsSeq DEF BuildOK, Build
<1> HIDE DEF b
<1>4. /\ Number(m, 0) = p.magic
  BY <1>1, NumberFound
<1>5. /\ Part(m, 4, 2) = p.type
      /\ Part(m, 6, 2) = p.build_tool
      /\ Part(m, 8, PathSize) = p.project_path
  <2>1. /\ Part(m, 4, Len(p.type)) = p.type
        /\ Part(m, 6, Len(p.build_tool)) = p.build_tool
        /\ Part(m, 8, Len(p.project_path)) = p.project_path
    BY <1>1, <1>2, PartFound
  <2> QED  BY <1>3, <2>1
<1>6. Holds(m, 8 + PathSize)
  BY <1>1, SizesAssumption DEF Holds, Memory
<1>7. [magic |-> p.magic, type |-> p.type, build_tool |-> p.build_tool,
         project_path |-> p.project_path] = p
  BY DEF BuildOK, Build
<1> HIDE DEF m
<1>8. BuildDecode(m) = [is |-> "packet", packet |-> p, reach |-> 8 + PathSize]
  BY <1>4, <1>5, <1>6, <1>7 DEF BuildDecode, Decoded
<1> QED  BY <1>1, <1>8 DEF m, b

\* A preview: eight bytes and the array of the source.
LEMMA PreviewLayout ==
  ASSUME NEW p, PreviewOK(p)
  PROVE  LET b == PreviewEncode(p).bytes
         IN /\ p.magic \in Int32
            /\ b \in Seq(Byte) /\ Len(b) = 8 + PathSize
            /\ PreviewEncode(p).size = Len(b)
            /\ Stands(b, 0, BytesOf(p.magic))
            /\ Stands(b, 4, p.type)
            /\ Stands(b, 6, p.file_type)
            /\ Stands(b, 8, p.source)
<1>1. /\ p.type \in Chars(2)
      /\ p.file_type \in Chars(2)
      /\ p.source \in Chars(PathSize)
  BY DEF PreviewOK, Preview
<1>2. /\ p.type \in Seq(Byte) /\ Len(p.type) = 2
      /\ p.file_type \in Seq(Byte) /\ Len(p.file_type) = 2
      /\ p.source \in Seq(Byte) /\ Len(p.source) = PathSize
  BY <1>1, CharsSeq, SizesAssumption
<1>3. PathSize \in Nat
  BY SizesAssumption
<1>4. p.magic \in Int32
  BY DEF PreviewOK
<1>5. /\ BytesOf(p.magic) \in Seq(Byte) /\ Len(BytesOf(p.magic)) = 4
  BY <1>4, IntBack
<1> DEFINE b2 == BytesOf(p.magic) \o p.type
           b3 == b2 \o p.file_type
           b4 == b3 \o p.source
<1>7. PreviewEncode(p).bytes = b4
  BY DEF PreviewEncode
<1>8. PreviewEncode(p).size = 8 + PathSize
  BY <1>3 DEF PreviewEncode
<1>9. Stands(BytesOf(p.magic), 0, BytesOf(p.magic))
  BY DEF Stands
<1> HIDE DEF b2, b3, b4
<1>10. Grown(BytesOf(p.magic), p.type, b2)
  BY <1>2, <1>5, <1>9, OneMore DEF b2
<1>11. /\ b2 \in Seq(Byte) /\ Len(b2) = 6
      /\ Stands(b2, 0, BytesOf(p.magic))
      /\ Stands(b2, 4, p.type)
  BY <1>2, <1>3, <1>5, <1>9, <1>10 DEF Grown
<1>12. Grown(b2, p.file_type, b3)
  BY <1>2, <1>5, <1>11, OneMore DEF b3
<1>13. /\ b3 \in Seq(Byte) /\ Len(b3) = 8
      /\ Stands(b3, 0, BytesOf(p.magic))
      /\ Stands(b3, 4, p.type)
      /\ Stands(b3, 6, p.file_type)
  BY <1>2, <1>3, <1>5, <1>11, <1>12 DEF Grown
<1>14. Grown(b3, p.source, b4)
  BY <1>2, <1>5, <1>13, OneMore DEF b4
<1>15. /\ b4 \in Seq(Byte) /\ Len(b4) = 8 + PathSize
      /\ Stands(b4, 0, BytesOf(p.magic))
      /\ Stands(b4, 4, p.type)
      /\ Stands(b4, 6, p.file_type)
      /\ Stands(b4, 8, p.source)
  BY <1>2, <1>3, <1>5, <1>13, <1>14 DEF Grown
<1> QED  BY <1>3, <1>4, <1>7, <1>8, <1>15

\* It comes back.
LEMMA PreviewBack ==
  ASSUME NEW p, PreviewOK(p), NEW j
  PROVE  LET b == PreviewEncode(p).bytes
         IN PreviewDecode(Memory(b, j)) =
              [is |-> "packet", packet |-> p, reach |-> Len(b)]
<1> DEFINE b == PreviewEncode(p).bytes
           m == Memory(b, j)
<1>1. /\ p.magic \in Int32 /\ PathSize \in Nat
      /\ b \in Seq(Byte) /\ Len(b) = 8 + PathSize
      /\ Stands(b, 0, BytesOf(p.magic))
      /\ Stands(b, 4, p.type)
      /\ Stands(b, 6, p.file_type)
      /\ Stands(b, 8, p.source)
  BY PreviewLayout, SizesAssumption
<1>2. /\ p.type \in Seq(Byte)
      /\ p.file_type \in Seq(Byte)
      /\ p.source \in Seq(Byte)
  BY <1>1, CharsSeq DEF PreviewOK, Preview
<1>3. /\ Len(p.type) = 2
      /\ Len(p.file_type) = 2
      /\ Len(p.source) = PathSize
  BY <1>1, CharsSeq DEF PreviewOK, Preview
<1> HIDE DEF b
<1>4. /\ Number(m, 0) = p.magic
  BY <1>1, NumberFound
<1>5. /\ Part(m, 4, 2) = p.type
      /\ Part(m, 6, 2) = p.file_type
      /\ Part(m, 8, PathSize) = p.source
  <2>1. /\ Part(m, 4, Len(p.type)) = p.type
        /\ Part(m, 6, Len(p.file_type)) = p.file_type
        /\ Part(m, 8, Len(p.source)) = p.source
    BY <1>1, <1>2, PartFound
  <2> QED  BY <1>3, <2>1
<1>6. Holds(m, 8 + PathSize)
  BY <1>1, SizesAssumption DEF Holds, Memory
<1>7. [magic |-> p.magic, type |-> p.type, file_type |-> p.file_type,
         source |-> p.source] = p
  BY DEF PreviewOK, Preview
<1> HIDE DEF m
<1>8. PreviewDecode(m) = [is |-> "packet", packet |-> p, reach |-> 8 + PathSize]
  BY <1>4, <1>5, <1>6, <1>7 DEF PreviewDecode, Decoded
<1> QED  BY <1>1, <1>8 DEF m, b

\* A prompt: twenty bytes, the text, the number of files, their lengths, and
\* the files.
LEMMA PromptLayout ==
  ASSUME NEW p, PromptOK(p)
  PROVE  LET b == PromptEncode(p).bytes
             n == p.text_length
             c == p.file_count
             f == Sum(p.file_lens, c)
         IN /\ p.magic \in Int32 /\ n \in Nat /\ n \in Int32
            /\ c \in Nat /\ c \in Int32 /\ f \in Nat
            /\ b \in Seq(Byte) /\ Len(b) = 24 + n + 4 * c + f
            /\ PromptEncode(p).size = Len(b)
            /\ Stands(b, 0, BytesOf(p.magic))
            /\ Stands(b, 4, p.type)
            /\ Stands(b, 6, p.version)
            /\ Stands(b, 8, p.request)
            /\ Stands(b, 16, BytesOf(n))
            /\ Stands(b, 20, p.text)
            /\ Stands(b, 20 + n, BytesOf(c))
            /\ Stands(b, 24 + n, IntBytes(p.file_lens))
            /\ Stands(b, 24 + n + 4 * c, p.files)
<1> DEFINE n == p.text_length
           c == p.file_count
           f == Sum(p.file_lens, c)
           q == 4 * c
<1>1. /\ p.type \in Chars(2) /\ p.version \in Chars(2) /\ p.request \in Chars(8)
      /\ p.text \in Seq(Byte) /\ p.files \in Seq(Byte)
      /\ n = Len(p.text) /\ c = Len(p.file_lens) /\ f = Len(p.files)
      /\ p.magic \in Int32 /\ n \in Int32 /\ c \in Int32
  BY DEF PromptOK, Prompt
<1>2. p.file_lens \in Seq(Int32)
  BY DEF PromptOK
<1>3. n \in Nat /\ c \in Nat /\ f \in Nat /\ q \in Nat
  <2>1. n \in Nat /\ c \in Nat /\ f \in Nat
    BY <1>1, <1>2, LenProperties
  <2> QED  BY <2>1
<1>4. /\ p.type \in Seq(Byte) /\ Len(p.type) = 2
      /\ p.version \in Seq(Byte) /\ Len(p.version) = 2
      /\ p.request \in Seq(Byte) /\ Len(p.request) = 8
      /\ p.text \in Seq(Byte) /\ Len(p.text) = n
      /\ p.files \in Seq(Byte) /\ Len(p.files) = f
  BY <1>1, CharsSeq
<1>5. /\ BytesOf(p.magic) \in Seq(Byte) /\ Len(BytesOf(p.magic)) = 4
      /\ BytesOf(n) \in Seq(Byte) /\ Len(BytesOf(n)) = 4
      /\ BytesOf(c) \in Seq(Byte) /\ Len(BytesOf(c)) = 4
  BY <1>1, IntBack
<1>6. IntBytes(p.file_lens) \in Seq(Byte) /\ Len(IntBytes(p.file_lens)) = q
  BY <1>1, <1>2, IntBytesSeq
<1>7. /\ Copied(p.text, n) = p.text /\ Copied(p.files, f) = p.files
      /\ Copied(IntBytes(p.file_lens), q) = IntBytes(p.file_lens)
  BY <1>4, <1>6, CopiedWhole
<1> DEFINE b2 == BytesOf(p.magic) \o p.type
           b3 == b2 \o p.version
           b4 == b3 \o p.request
           b5 == b4 \o BytesOf(n)
           b6 == b5 \o p.text
           b7 == b6 \o BytesOf(c)
           b8 == b7 \o IntBytes(p.file_lens)
           b9 == b8 \o p.files
<1>8. PromptEncode(p).bytes = b9
  BY <1>7 DEF PromptEncode
<1>9. PromptEncode(p).size = 24 + n + 4 * c + f
  <2>1. PromptEncode(p).size = 4 + 2 + 2 + 8 + 4 + n + 4 + 4 * c + f
    BY Zenon DEF PromptEncode
  <2> HIDE DEF n, c, f
  <2> QED  BY <1>3, <2>1
<1>10. Stands(BytesOf(p.magic), 0, BytesOf(p.magic))
  BY DEF Stands
<1> HIDE DEF n, c, f, q, b2, b3, b4, b5, b6, b7, b8, b9
<1>11. Grown(BytesOf(p.magic), p.type, b2)
  BY <1>4, <1>5, <1>6, <1>10, OneMore DEF b2
<1>12. /\ b2 \in Seq(Byte) /\ Len(b2) = 6
       /\ Stands(b2, 0, BytesOf(p.magic))
       /\ Stands(b2, 4, p.type)
  BY <1>3, <1>4, <1>5, <1>6, <1>10, <1>11 DEF Grown
<1>13. Grown(b2, p.version, b3)
  BY <1>4, <1>5, <1>6, <1>12, OneMore DEF b3
<1>14. /\ b3 \in Seq(Byte) /\ Len(b3) = 8
       /\ Stands(b3, 0, BytesOf(p.magic))
       /\ Stands(b3, 4, p.type)
       /\ Stands(b3, 6, p.version)
  BY <1>3, <1>4, <1>5, <1>6, <1>12, <1>13 DEF Grown
<1>15. Grown(b3, p.request, b4)
  BY <1>4, <1>5, <1>6, <1>14, OneMore DEF b4
<1>16. /\ b4 \in Seq(Byte) /\ Len(b4) = 16
       /\ Stands(b4, 0, BytesOf(p.magic))
       /\ Stands(b4, 4, p.type)
       /\ Stands(b4, 6, p.version)
       /\ Stands(b4, 8, p.request)
  BY <1>3, <1>4, <1>5, <1>6, <1>14, <1>15 DEF Grown
<1>17. Grown(b4, BytesOf(n), b5)
  BY <1>4, <1>5, <1>6, <1>16, OneMore DEF b5
<1>18. /\ b5 \in Seq(Byte) /\ Len(b5) = 20
       /\ Stands(b5, 0, BytesOf(p.magic))
       /\ Stands(b5, 4, p.type)
       /\ Stands(b5, 6, p.version)
       /\ Stands(b5, 8, p.request)
       /\ Stands(b5, 16, BytesOf(n))
  BY <1>3, <1>4, <1>5, <1>6, <1>16, <1>17 DEF Grown
<1>19. Grown(b5, p.text, b6)
  BY <1>4, <1>5, <1>6, <1>18, OneMore DEF b6
<1>20. /\ b6 \in Seq(Byte) /\ Len(b6) = 20 + n
       /\ Stands(b6, 0, BytesOf(p.magic))
       /\ Stands(b6, 4, p.type)
       /\ Stands(b6, 6, p.version)
       /\ Stands(b6, 8, p.request)
       /\ Stands(b6, 16, BytesOf(n))
       /\ Stands(b6, 20, p.text)
  BY <1>3, <1>4, <1>5, <1>6, <1>18, <1>19, SMTT(60) DEF Grown
<1>21. Grown(b6, BytesOf(c), b7)
  BY <1>4, <1>5, <1>6, <1>20, OneMore DEF b7
<1>22. /\ b7 \in Seq(Byte) /\ Len(b7) = 24 + n
       /\ Stands(b7, 0, BytesOf(p.magic))
       /\ Stands(b7, 4, p.type)
       /\ Stands(b7, 6, p.version)
       /\ Stands(b7, 8, p.request)
       /\ Stands(b7, 16, BytesOf(n))
       /\ Stands(b7, 20, p.text)
       /\ Stands(b7, 20 + n, BytesOf(c))
  BY <1>3, <1>4, <1>5, <1>6, <1>20, <1>21, SMTT(60) DEF Grown
<1>23. Grown(b7, IntBytes(p.file_lens), b8)
  BY <1>4, <1>5, <1>6, <1>22, OneMore DEF b8
<1>24. /\ b8 \in Seq(Byte) /\ Len(b8) = 24 + n + q
       /\ Stands(b8, 0, BytesOf(p.magic))
       /\ Stands(b8, 4, p.type)
       /\ Stands(b8, 6, p.version)
       /\ Stands(b8, 8, p.request)
       /\ Stands(b8, 16, BytesOf(n))
       /\ Stands(b8, 20, p.text)
       /\ Stands(b8, 20 + n, BytesOf(c))
       /\ Stands(b8, 24 + n, IntBytes(p.file_lens))
  BY <1>3, <1>4, <1>5, <1>6, <1>22, <1>23, SMTT(60) DEF Grown
<1>25. Grown(b8, p.files, b9)
  BY <1>4, <1>5, <1>6, <1>24, OneMore DEF b9
<1>26. /\ b9 \in Seq(Byte) /\ Len(b9) = 24 + n + q + f
       /\ Stands(b9, 0, BytesOf(p.magic))
       /\ Stands(b9, 4, p.type)
       /\ Stands(b9, 6, p.version)
       /\ Stands(b9, 8, p.request)
       /\ Stands(b9, 16, BytesOf(n))
       /\ Stands(b9, 20, p.text)
       /\ Stands(b9, 20 + n, BytesOf(c))
       /\ Stands(b9, 24 + n, IntBytes(p.file_lens))
       /\ Stands(b9, 24 + n + q, p.files)
  BY <1>3, <1>4, <1>5, <1>6, <1>24, <1>25, SMTT(60) DEF Grown
<1> QED  BY <1>1, <1>3, <1>8, <1>9, <1>26 DEF n, c, f, q

\* A sequence is the function of its elements.
LEMMA ElementsOf ==
  ASSUME NEW S, NEW s \in Seq(S)
  PROVE  s = [i \in 1..Len(s) |-> s[i]]
OBVIOUS

\* It comes back.
LEMMA PromptBack ==
  ASSUME NEW p, PromptOK(p), NEW j
  PROVE  LET b == PromptEncode(p).bytes
         IN PromptDecode(Memory(b, j)) =
              IF p.magic = Magic
              THEN [is |-> "packet", packet |-> p, reach |-> Len(b)] ELSE Null
<1> DEFINE b == PromptEncode(p).bytes
           m == Memory(b, j)
           n == p.text_length
           c == p.file_count
           f == Sum(p.file_lens, c)
<1>1. /\ p.magic \in Int32 /\ n \in Nat /\ n \in Int32
      /\ c \in Nat /\ c \in Int32 /\ f \in Nat
      /\ b \in Seq(Byte) /\ Len(b) = 24 + n + 4 * c + f
  BY PromptLayout
<1>2. /\ Stands(b, 0, BytesOf(p.magic)) /\ Stands(b, 16, BytesOf(n))
      /\ Stands(b, 20 + n, BytesOf(c))
      /\ Stands(b, 24 + n, IntBytes(p.file_lens))
  BY PromptLayout
<1>3. /\ Stands(b, 4, p.type) /\ Stands(b, 6, p.version)
      /\ Stands(b, 8, p.request) /\ Stands(b, 20, p.text)
      /\ Stands(b, 24 + n + 4 * c, p.files)
  BY PromptLayout
<1>4. /\ p.type \in Seq(Byte) /\ p.version \in Seq(Byte) /\ p.request \in Seq(Byte)
      /\ p.text \in Seq(Byte) /\ p.files \in Seq(Byte)
      /\ p.file_lens \in Seq(Int32)
  BY CharsSeq DEF PromptOK, Prompt
<1>5. /\ Len(p.type) = 2 /\ Len(p.version) = 2 /\ Len(p.request) = 8
      /\ Len(p.text) = n /\ Len(p.files) = f /\ Len(p.file_lens) = c
  BY CharsSeq DEF PromptOK, Prompt
<1> HIDE DEF b, n, c, f
<1> DEFINE o1 == 20 + n
           o2 == 24 + n
           o3 == 24 + n + 4 * c
<1>6. /\ o1 \in Nat /\ o2 \in Nat /\ o3 \in Nat
      /\ \A i \in 1..c : o2 + 4 * (i - 1) = o1 + 4 * i /\ o1 + 4 * i \in Nat
  BY <1>1
<1>7. /\ Stands(b, o1, BytesOf(c)) /\ Stands(b, o2, IntBytes(p.file_lens))
      /\ Stands(b, o3, p.files)
  BY <1>2, <1>3
<1> HIDE DEF o1, o2, o3
<1>8. Number(m, 0) = p.magic /\ Number(m, 16) = n /\ Number(m, o1) = c
  <2>1. Number(m, 0) = p.magic
    <3>1. b \in Seq(Byte) /\ p.magic \in Int32 /\ Stands(b, 0, BytesOf(p.magic))
      BY <1>1, <1>2
    <3> QED  BY <3>1, NumberFound
  <2>2. Number(m, 16) = n
    <3>1. b \in Seq(Byte) /\ n \in Int32 /\ Stands(b, 16, BytesOf(n))
      BY <1>1, <1>2
    <3> QED  BY <3>1, NumberFound
  <2>3. Number(m, o1) = c
    <3>1. b \in Seq(Byte) /\ c \in Int32 /\ o1 \in Nat /\ Stands(b, o1, BytesOf(c))
      BY <1>1, <1>6, <1>7
    <3> QED  BY <3>1, NumberFound
  <2> QED  BY <2>1, <2>2, <2>3
<1>9. /\ Part(m, 4, 2) = p.type /\ Part(m, 6, 2) = p.version
      /\ Part(m, 8, 8) = p.request /\ Part(m, 20, n) = p.text
      /\ Part(m, o3, f) = p.files
  <2>1. /\ Part(m, 4, Len(p.type)) = p.type
        /\ Part(m, 6, Len(p.version)) = p.version
        /\ Part(m, 8, Len(p.request)) = p.request
        /\ Part(m, 20, Len(p.text)) = p.text
    <3>1. Part(m, 4, Len(p.type)) = p.type
      <4>1. b \in Seq(Byte) /\ p.type \in Seq(Byte) /\ Stands(b, 4, p.type)
        BY <1>1, <1>4, <1>3
      <4> QED  BY <4>1, PartFound
    <3>2. Part(m, 6, Len(p.version)) = p.version
      <4>1. b \in Seq(Byte) /\ p.version \in Seq(Byte) /\ Stands(b, 6, p.version)
        BY <1>1, <1>4, <1>3
      <4> QED  BY <4>1, PartFound
    <3>3. Part(m, 8, Len(p.request)) = p.request
      <4>1. b \in Seq(Byte) /\ p.request \in Seq(Byte) /\ Stands(b, 8, p.request)
        BY <1>1, <1>4, <1>3
      <4> QED  BY <4>1, PartFound
    <3>4. Part(m, 20, Len(p.text)) = p.text
      <4>1. b \in Seq(Byte) /\ p.text \in Seq(Byte) /\ Stands(b, 20, p.text)
        BY <1>1, <1>4, <1>3
      <4> QED  BY <4>1, PartFound
    <3> QED  BY <3>1, <3>2, <3>3, <3>4
  <2>2. Part(m, o3, Len(p.files)) = p.files
    BY <1>1, <1>4, <1>6, <1>7, PartFound
  <2> QED  BY <1>5, <2>1, <2>2
<1>10. [i \in 1..c |-> Number(m, o1 + 4 * i)] = p.file_lens
  <2>1. ASSUME NEW i \in 1..c
        PROVE  Number(m, o1 + 4 * i) = p.file_lens[i]
    <3>1. Stands(b, o2 + 4 * (i - 1), BytesOf(p.file_lens[i]))
      BY <1>1, <1>4, <1>5, <1>6, <1>7, IntStands
    <3>2. p.file_lens[i] \in Int32 /\ o1 + 4 * i \in Nat
      BY <1>4, <1>5, <1>6
    <3>3. Stands(b, o1 + 4 * i, BytesOf(p.file_lens[i]))
      BY <1>6, <3>1
    <3> HIDE DEF c
    <3> QED  BY <1>1, <3>2, <3>3, NumberFound
  <2>2. p.file_lens = [i \in 1..c |-> p.file_lens[i]]
    <3>1. p.file_lens \in Seq(Int32)
      BY <1>4
    <3>2. p.file_lens = [i \in 1..Len(p.file_lens) |-> p.file_lens[i]]
      BY <3>1, ElementsOf
    <3>3. Len(p.file_lens) = c
      BY <1>5
    <3> HIDE DEF c
    <3> QED  BY <3>2, <3>3
  <2> HIDE DEF m
  <2> QED  BY <2>1, <2>2
<1>11. Holds(m, n) /\ Holds(m, c) /\ Holds(m, f) /\ Holds(m, 24 + n + 4 * c + f)
  BY <1>1, SizesAssumption DEF Holds, Memory
<1>12. p.magic = Magic =>
        [magic |-> Magic, type |-> p.type, version |-> p.version,
         request |-> p.request, text_length |-> n, text |-> p.text,
         file_count |-> c, file_lens |-> p.file_lens, files |-> p.files] = p
  BY DEF PromptOK, Prompt, n, c
<1> HIDE DEF m
<1>13. PromptDecode(m) = IF p.magic = Magic
         THEN [is |-> "packet", packet |-> p, reach |-> 24 + n + 4 * c + f] ELSE Null
  BY <1>8, <1>9, <1>10, <1>11, <1>12, ZenonT(60)
  DEF PromptDecode, Decoded, f, o1, o2, o3
<1> QED  BY <1>1, <1>13 DEF m, b


\* A decoder that makes a coding has read its twenty bytes and the text.
LEMMA CodingReach ==
  ASSUME NEW a \in Seq(Byte), NEW j, CodingDecode(Memory(a, j)).is = "packet"
  PROVE  LET x == Number(Memory(a, j), 16)
         IN x \in Nat /\ CodingDecode(Memory(a, j)).reach = 20 + x
<1> DEFINE m == Memory(a, j)
           x == Number(m, 16)
<1>1. Len(m.buffer) \in Nat
  BY LenProperties DEF Memory
<1> HIDE DEF m
<1>2. CodingDecode(m).is = "packet"
  BY DEF m
<1>3. Number(m, 0) = Magic /\ Holds(m, x)
  BY <1>2 DEF CodingDecode, Null, Fault
<1>4. CodingDecode(m) = Decoded(m,
        [magic |-> Magic, type |-> Part(m, 4, 2), version |-> Part(m, 6, 2),
         request |-> Part(m, 8, 8), text_length |-> x,
         text |-> Part(m, 20, x)], 20 + x)
  BY <1>3 DEF CodingDecode
<1>5. CodingDecode(m).reach = 20 + x
  BY <1>2, <1>4 DEF Decoded, Fault
<1>6. x \in Nat
  BY <1>1, <1>3, SizesAssumption DEF Holds
<1> QED  BY <1>5, <1>6 DEF m

\* One that makes a prompt has read all its lengths and what they announce.
LEMMA PromptReach ==
  ASSUME NEW a \in Seq(Byte), NEW j, PromptDecode(Memory(a, j)).is = "packet"
  PROVE  LET m    == Memory(a, j)
             x    == Number(m, 16)
             y    == Number(m, 20 + x)
             lens == [i \in 1..y |-> Number(m, 20 + x + 4 * i)]
             z    == Sum(lens, y)
         IN /\ x \in Nat /\ y \in Nat /\ z \in Nat
            /\ PromptDecode(m).reach = 24 + x + 4 * y + z
<1> DEFINE m    == Memory(a, j)
           x    == Number(m, 16)
           y    == Number(m, 20 + x)
           lens == [i \in 1..y |-> Number(m, 20 + x + 4 * i)]
           z    == Sum(lens, y)
<1>1. Len(m.buffer) \in Nat
  BY LenProperties DEF Memory
<1> HIDE DEF m
<1>2. PromptDecode(m).is = "packet"
  BY DEF m
<1>3. Number(m, 0) = Magic /\ Holds(m, x) /\ Holds(m, y) /\ Holds(m, z)
  BY <1>2 DEF PromptDecode, Null, Fault
<1>4. PromptDecode(m) = Decoded(m,
        [magic |-> Magic, type |-> Part(m, 4, 2), version |-> Part(m, 6, 2),
         request |-> Part(m, 8, 8), text_length |-> x,
         text |-> Part(m, 20, x), file_count |-> y, file_lens |-> lens,
         files |-> Part(m, 24 + x + 4 * y, z)], 24 + x + 4 * y + z)
  BY <1>3 DEF PromptDecode
<1> HIDE DEF x, y, z, lens
<1>5. PromptDecode(m).reach = 24 + x + 4 * y + z
  BY <1>2, <1>4 DEF Decoded, Fault
<1>6. x \in Nat /\ y \in Nat /\ z \in Nat
  BY <1>1, <1>3, SizesAssumption DEF Holds
<1> QED  BY <1>5, <1>6 DEF m, x, y, z, lens

\* From the first k of its bytes no decoder makes a coding without looking
\* behind them.
LEMMA CodingCut ==
  ASSUME NEW p, CodingOK(p), NEW j, NEW k \in Nat,
         k < Len(CodingEncode(p).bytes),
         CodingDecode(Memory(SubSeq(CodingEncode(p).bytes, 1, k), j)).is = "packet"
  PROVE  CodingDecode(Memory(SubSeq(CodingEncode(p).bytes, 1, k), j)).reach > k
<1> DEFINE b == CodingEncode(p).bytes
           a == SubSeq(b, 1, k)
           m == Memory(a, j)
           n == p.text_length
           x == Number(m, 16)
<1>1. /\ n \in Nat /\ n \in Int32 /\ b \in Seq(Byte) /\ Len(b) = 20 + n
      /\ Stands(b, 16, BytesOf(n))
  BY CodingLayout
<1> HIDE DEF b, n
<1>2. k \in 0..Len(b) /\ a \in Seq(Byte) /\ Len(a) = k
  <2>1. k < Len(b)
    BY DEF b
  <2>2. k \in 0..Len(b)
    BY <1>1, <2>1
  <2> QED  BY <1>1, <2>2, SubSeqProperties
<1>3. CodingDecode(m).is = "packet"
  BY Zenon DEF b
<1> HIDE DEF a
<1>4. x \in Nat /\ CodingDecode(m).reach = 20 + x
  BY <1>2, <1>3, CodingReach
<1>5. k >= 20 => x = n
  <2> SUFFICES ASSUME k >= 20  PROVE x = n
    OBVIOUS
  <2>1. BytesOf(n) \in Seq(Byte) /\ 16 + Len(BytesOf(n)) <= k
    <3>1. BytesOf(n) \in Seq(Byte) /\ Len(BytesOf(n)) = 4
      BY <1>1, IntBack
    <3> QED  BY <3>1
  <2>2. Stands(a, 16, BytesOf(n))
    BY <1>1, <1>2, <2>1, StandsShorter DEF a
  <2> QED  BY <1>1, <1>2, <2>2, NumberFound
<1>6. k < 20 + n
  BY <1>1 DEF b
<1> HIDE DEF x, m
<1>7. 20 + x > k
  BY <1>1, <1>4, <1>5, <1>6
<1> QED  BY <1>4, <1>7 DEF m, a, b

\* The same for a prompt, whose lengths stand in three places.
LEMMA PromptCut ==
  ASSUME NEW p, PromptOK(p), NEW j, NEW k \in Nat,
         k < Len(PromptEncode(p).bytes),
         PromptDecode(Memory(SubSeq(PromptEncode(p).bytes, 1, k), j)).is = "packet"
  PROVE  PromptDecode(Memory(SubSeq(PromptEncode(p).bytes, 1, k), j)).reach > k
<1> DEFINE b == PromptEncode(p).bytes
           a == SubSeq(b, 1, k)
           m == Memory(a, j)
           n == p.text_length
           c == p.file_count
           f == Sum(p.file_lens, c)
           x == Number(m, 16)
           y == Number(m, 20 + x)
           lens == [i \in 1..y |-> Number(m, 20 + x + 4 * i)]
           z == Sum(lens, y)
<1>1. /\ n \in Nat /\ n \in Int32 /\ c \in Nat /\ c \in Int32 /\ f \in Nat
      /\ b \in Seq(Byte) /\ Len(b) = 24 + n + 4 * c + f
      /\ Stands(b, 16, BytesOf(n)) /\ Stands(b, 20 + n, BytesOf(c))
      /\ Stands(b, 24 + n, IntBytes(p.file_lens))
      /\ p.file_lens \in Seq(Int32) /\ Len(p.file_lens) = c
  <2>1. p.file_lens \in Seq(Int32) /\ Len(p.file_lens) = c
    BY DEF PromptOK
  <2> QED  BY <2>1, PromptLayout
<1> HIDE DEF b, n, c, f
<1>2. k \in 0..Len(b) /\ a \in Seq(Byte) /\ Len(a) = k
  <2>1. k < Len(b)
    BY DEF b
  <2>2. k \in 0..Len(b)
    BY <1>1, <2>1
  <2> QED  BY <1>1, <2>2, SubSeqProperties
<1>3. PromptDecode(m).is = "packet"
  BY Zenon DEF b
<1> HIDE DEF a
<1>4. /\ x \in Nat /\ y \in Nat /\ z \in Nat
      /\ PromptDecode(m).reach = 24 + x + 4 * y + z
  BY <1>2, <1>3, PromptReach
<1>5. k >= 20 => x = n
  <2> SUFFICES ASSUME k >= 20  PROVE x = n
    OBVIOUS
  <2>1. BytesOf(n) \in Seq(Byte) /\ 16 + Len(BytesOf(n)) <= k
    <3>1. BytesOf(n) \in Seq(Byte) /\ Len(BytesOf(n)) = 4
      BY <1>1, IntBack
    <3> QED  BY <3>1
  <2>2. Stands(a, 16, BytesOf(n))
    BY <1>1, <1>2, <2>1, StandsShorter DEF a
  <2> QED  BY <1>1, <1>2, <2>2, NumberFound
<1>6. k >= 24 + n => y = c
  <2> SUFFICES ASSUME k >= 24 + n  PROVE y = c
    OBVIOUS
  <2>1. BytesOf(c) \in Seq(Byte) /\ Len(BytesOf(c)) = 4
    BY <1>1, IntBack
  <2>2. 20 + n \in Nat /\ 20 + n + 4 <= k /\ x = n
    BY <1>1, <1>5
  <2>3. Stands(a, 20 + n, BytesOf(c))
    BY <1>1, <1>2, <2>1, <2>2, StandsShorter DEF a
  <2>4. Number(m, 20 + n) = c
    BY <1>1, <1>2, <2>2, <2>3, NumberFound
  <2> QED  BY <2>2, <2>4
<1>7. k >= 24 + n + 4 * c => z = f
  <2> SUFFICES ASSUME k >= 24 + n + 4 * c  PROVE z = f
    OBVIOUS
  <2>1. IntBytes(p.file_lens) \in Seq(Byte) /\ Len(IntBytes(p.file_lens)) = 4 * c
    BY <1>1, IntBytesSeq
  <2>2. 24 + n \in Nat /\ 24 + n + 4 * c <= k /\ x = n /\ y = c
    BY <1>1, <1>5, <1>6
  <2>3. Stands(a, 24 + n, IntBytes(p.file_lens))
    BY <1>1, <1>2, <2>1, <2>2, StandsShorter DEF a
  <2>4. ASSUME NEW i \in 1..c
        PROVE  Number(m, 20 + n + 4 * i) = p.file_lens[i]
    <3>1. Stands(a, 24 + n + 4 * (i - 1), BytesOf(p.file_lens[i]))
      BY <1>1, <1>2, <2>2, <2>3, IntStands
    <3>2. 24 + n + 4 * (i - 1) = 20 + n + 4 * i /\ 20 + n + 4 * i \in Nat
      BY <1>1
    <3>3. p.file_lens[i] \in Int32
      BY <1>1
    <3> QED  BY <1>2, <3>1, <3>2, <3>3, NumberFound
  <2>5. p.file_lens = [i \in 1..c |-> p.file_lens[i]]
    <3>1. p.file_lens \in Seq(Int32) /\ Len(p.file_lens) = c
      BY <1>1
    <3>2. p.file_lens = [i \in 1..Len(p.file_lens) |-> p.file_lens[i]]
      BY <3>1, ElementsOf
    <3> HIDE DEF c
    <3> QED  BY <3>1, <3>2
  <2> HIDE DEF m
  <2>6. lens = p.file_lens
    <3> HIDE DEF x, y
    <3> QED  BY <2>2, <2>4, <2>5
  <2> HIDE DEF lens, x, y
  <2> QED  BY <2>2, <2>6 DEF f
<1>8. k < 24 + n + 4 * c + f
  BY <1>1 DEF b
<1> HIDE DEF x, y, z, m
<1>9. 24 + x + 4 * y + z > k
  BY <1>1, <1>4, <1>5, <1>6, <1>7, <1>8
<1> QED  BY <1>4, <1>9 DEF m, a, b

-----------------------------------------------------------------------------
(* All kinds at once                                                       *)

\* The encoder's size is right and its bytes give the packet back.
LEMMA EncodeBack ==
  ASSUME NEW kind \in Kinds, NEW p, WellFormed(kind, p), NEW j
  PROVE  LET e == Encode(kind, p)
         IN /\ e.bytes \in Seq(Byte) /\ e.size = Len(e.bytes)
            /\ Decode(kind, Memory(e.bytes, j)) =
                 IF kind \in Guarded /\ p.magic # Magic THEN Null
                 ELSE [is |-> "packet", packet |-> p, reach |-> Len(e.bytes)]
<1>1. CASE kind = "prompt"
  <2>1. Encode(kind, p) = PromptEncode(p)
        /\ \A m : Decode(kind, m) = PromptDecode(m)
    BY <1>1 DEF Encode, Decode
  <2>2. PromptOK(p) /\ kind \in Guarded
    BY <1>1 DEF WellFormed, Guarded, Kinds
  <2> QED  BY <2>1, <2>2, PromptLayout, PromptBack
<1>2. CASE kind = "coding"
  <2>1. Encode(kind, p) = CodingEncode(p)
        /\ \A m : Decode(kind, m) = CodingDecode(m)
    BY <1>2 DEF Encode, Decode
  <2>2. CodingOK(p) /\ kind \in Guarded
    BY <1>2 DEF WellFormed, Guarded, Kinds
  <2> QED  BY <2>1, <2>2, CodingLayout, CodingBack
<1>3. CASE kind = "compilation"
  <2>1. Encode(kind, p) = CompilationEncode(p)
        /\ \A m : Decode(kind, m) = CompilationDecode(m)
    BY <1>3 DEF Encode, Decode
  <2>2. CompilationOK(p) /\ kind \in Guarded
    BY <1>3 DEF WellFormed, Guarded, Kinds
  <2> QED  BY <2>1, <2>2, CompilationLayout, CompilationBack
<1>4. CASE kind = "build"
  <2>1. Encode(kind, p) = BuildEncode(p)
        /\ \A m : Decode(kind, m) = BuildDecode(m)
    BY <1>4 DEF Encode, Decode
  <2>2. BuildOK(p) /\ kind \notin Guarded
    BY <1>4 DEF WellFormed, Guarded, Kinds
  <2> QED  BY <2>1, <2>2, BuildLayout, BuildBack
<1>5. CASE kind = "preview"
  <2>1. Encode(kind, p) = PreviewEncode(p)
        /\ \A m : Decode(kind, m) = PreviewDecode(m)
    BY <1>5 DEF Encode, Decode
  <2>2. PreviewOK(p) /\ kind \notin Guarded
    BY <1>5 DEF WellFormed, Guarded, Kinds
  <2> QED  BY <2>1, <2>2, PreviewLayout, PreviewBack
<1>6. CASE kind = "generation"
  <2>1. Encode(kind, p) = GenerationEncode(p)
        /\ \A m : Decode(kind, m) = GenerationDecode(m)
    BY <1>6 DEF Encode, Decode
  <2>2. GenerationOK(p) /\ kind \in Guarded
    BY <1>6 DEF WellFormed, Guarded, Kinds
  <2> QED  BY <2>1, <2>2, GenerationLayout, GenerationBack
<1> QED  BY <1>1, <1>2, <1>3, <1>4, <1>5, <1>6 DEF Kinds

\* The fields whose setters copy into an array.
ByCopy(kind, f) ==
  CASE kind = "prompt"      -> f \in {"type", "version"}
    [] kind = "coding"      -> f \in {"type", "version"}
    [] kind = "compilation" -> f \in {"type", "language"}
    [] kind = "build"       -> f # "magic"
    [] kind = "preview"     -> f # "magic"
    [] kind = "generation"  -> f = "status"

\* A setter copies or replaces, by the field alone.
LEMMA SetIs ==
  ASSUME NEW kind \in Kinds, NEW p, NEW f, NEW v
  PROVE  Set(kind, p, f, v) = IF ByCopy(kind, f) THEN Fill(p, f, v) ELSE Put(p, f, v)
<1>1. CASE kind = "prompt"
  BY <1>1 DEF Set, ByCopy, PromptSet
<1>2. CASE kind = "coding"
  BY <1>2 DEF Set, ByCopy, CodingSet
<1>3. CASE kind = "compilation"
  BY <1>3 DEF Set, ByCopy, CompilationSet
<1>4. CASE kind = "build"
  BY <1>4 DEF Set, ByCopy, BuildSet
<1>5. CASE kind = "preview"
  BY <1>5 DEF Set, ByCopy, PreviewSet
<1>6. CASE kind = "generation"
  BY <1>6 DEF Set, ByCopy, GenerationSet
<1> QED  BY <1>1, <1>2, <1>3, <1>4, <1>5, <1>6 DEF Kinds

\* A fresh packet is a function on its fields.
LEMMA FreshIsFilled ==
  ASSUME NEW kind \in Kinds, NEW j, NEW fields
  PROVE  Fresh(kind, j) = Filled(kind, j, fields, {})
<1> DEFINE q == Fresh(kind, j)
<1>1. q = [f \in DOMAIN q |-> q[f]]
  <2>1. CASE kind = "prompt"
    BY <2>1 DEF Fresh, PromptInit
  <2>2. CASE kind = "coding"
    BY <2>2 DEF Fresh, CodingInit
  <2>3. CASE kind = "compilation"
    BY <2>3 DEF Fresh, CompilationInit
  <2>4. CASE kind = "build"
    BY <2>4 DEF Fresh, BuildInit
  <2>5. CASE kind = "preview"
    BY <2>5 DEF Fresh, PreviewInit
  <2>6. CASE kind = "generation"
    BY <2>6 DEF Fresh, GenerationInit
  <2> QED  BY <2>1, <2>2, <2>3, <2>4, <2>5, <2>6 DEF Kinds
<1> HIDE DEF q
<1>2. Filled(kind, j, fields, {}) = [f \in DOMAIN q |-> q[f]]
  BY DEF Filled, q
<1> QED  BY <1>1, <1>2 DEF q

\* A setter that is called on a packet in the making adds its field.
LEMMA FilledMore ==
  ASSUME NEW kind \in Kinds, NEW j, NEW fields, NEW done,
         NEW f \in DOMAIN Fresh(kind, j), f \notin done
  PROVE  Set(kind, Filled(kind, j, fields, done), f, fields[f]) =
           Filled(kind, j, fields, done \cup {f})
<1> DEFINE q == Fresh(kind, j)
           p == Filled(kind, j, fields, done)
           v == fields[f]
<1>1. p = [g \in DOMAIN q |-> IF g \in done THEN Set(kind, q, g, fields[g])[g] ELSE q[g]]
  BY DEF Filled
<1>2. Filled(kind, j, fields, done \cup {f}) =
        [g \in DOMAIN q |-> IF g \in done \cup {f}
                            THEN Set(kind, q, g, fields[g])[g] ELSE q[g]]
  BY DEF Filled
<1>3. /\ Set(kind, q, f, v) = IF ByCopy(kind, f) THEN Fill(q, f, v) ELSE Put(q, f, v)
      /\ Set(kind, p, f, v) = IF ByCopy(kind, f) THEN Fill(p, f, v) ELSE Put(p, f, v)
  BY SetIs
<1> DEFINE new(old) ==
      IF ByCopy(kind, f) THEN v \o SubSeq(old, Len(v) + 1, Len(old)) ELSE v
<1> HIDE DEF p, q, v
<1>4. Set(kind, q, f, v)[f] = new(q[f])
  <2>1. f \in DOMAIN q
    BY DEF q
  <2>2. CASE ByCopy(kind, f)
    BY <1>3, <2>1, <2>2 DEF Fill
  <2>3. CASE ~ByCopy(kind, f)
    BY <1>3, <2>1, <2>3 DEF Put
  <2> QED  BY <2>2, <2>3
<1>5. Set(kind, p, f, v) = [p EXCEPT ![f] = new(p[f])] /\ p[f] = q[f] /\ DOMAIN p = DOMAIN q
  <2>1. p[f] = q[f] /\ DOMAIN p = DOMAIN q
    BY <1>1 DEF q
  <2>2. CASE ByCopy(kind, f)
    BY <1>3, <2>1, <2>2 DEF Fill
  <2>3. CASE ~ByCopy(kind, f)
    BY <1>3, <2>1, <2>3 DEF Put
  <2> QED  BY <2>1, <2>2, <2>3
<1> HIDE DEF new
<1>6. Set(kind, p, f, v) = [p EXCEPT ![f] = Set(kind, q, f, v)[f]]
  BY <1>4, <1>5
<1>7. [p EXCEPT ![f] = Set(kind, q, f, v)[f]] =
        [g \in DOMAIN q |-> IF g \in done \cup {f}
                            THEN Set(kind, q, g, fields[g])[g] ELSE q[g]]
  <2>1. [p EXCEPT ![f] = Set(kind, q, f, v)[f]] =
          [g \in DOMAIN q |-> IF g = f THEN Set(kind, q, f, v)[f] ELSE p[g]]
    BY <1>1, <1>5
  <2>2. \A g \in DOMAIN q :
          (IF g = f THEN Set(kind, q, f, v)[f] ELSE p[g]) =
          (IF g \in done \cup {f} THEN Set(kind, q, g, fields[g])[g] ELSE q[g])
    BY <1>1 DEF v
  <2> QED  BY <2>1, <2>2
<1> QED  BY <1>2, <1>6, <1>7 DEF p, q, v

\* The magic number and the type of a frame are found when it has them whole.
LEMMA HeadFound ==
  ASSUME NEW kind \in {"prompt", "coding"}, NEW p, WellFormed(kind, p), NEW j,
         NEW k \in Nat, k <= Len(Encode(kind, p).bytes), k >= 20
  PROVE  LET m == Memory(SubSeq(Encode(kind, p).bytes, 1, k), j)
         IN Number(m, 0) = p.magic /\ Part(m, 4, 2) = p.type
<1> DEFINE b == Encode(kind, p).bytes
           a == SubSeq(b, 1, k)
<1>1. /\ p.magic \in Int32 /\ p.type \in Chars(2) /\ b \in Seq(Byte)
      /\ Stands(b, 0, BytesOf(p.magic)) /\ Stands(b, 4, p.type)
  <2>1. CASE kind = "prompt"
    <3>1. PromptOK(p) /\ b = PromptEncode(p).bytes
      BY <2>1 DEF WellFormed, Encode
    <3> QED  BY <3>1, PromptLayout DEF PromptOK, Prompt
  <2>2. CASE kind = "coding"
    <3>1. CodingOK(p) /\ b = CodingEncode(p).bytes
      BY <2>2 DEF WellFormed, Encode
    <3> QED  BY <3>1, CodingLayout DEF CodingOK, Coding
  <2> QED  BY <2>1, <2>2
<1>2. p.type \in Seq(Byte) /\ Len(p.type) = 2
  BY <1>1, CharsSeq
<1>3. BytesOf(p.magic) \in Seq(Byte) /\ Len(BytesOf(p.magic)) = 4
  BY <1>1, IntBack
<1>4. k <= Len(b)
  OBVIOUS
<1> HIDE DEF b
<1>5. k \in 0..Len(b) /\ a \in Seq(Byte)
  <2>1. Len(b) \in Nat
    BY <1>1, LenProperties
  <2>2. k \in 0..Len(b)
    BY <1>4, <2>1
  <2> QED  BY <1>1, <2>2, SubSeqProperties
<1>6. Stands(a, 0, BytesOf(p.magic)) /\ Stands(a, 4, p.type)
  <2>1. 0 + Len(BytesOf(p.magic)) <= k /\ 4 + Len(p.type) <= k
    BY <1>2, <1>3
  <2>2. Stands(a, 0, BytesOf(p.magic))
    BY <1>1, <1>3, <1>5, <2>1, StandsShorter
  <2>3. p.type \in Seq(Byte)
    BY <1>2
  <2>4. Stands(a, 4, p.type)
    BY <1>1, <1>5, <2>1, <2>3, StandsShorter
  <2> QED  BY <2>2, <2>4
<1> HIDE DEF a
<1>7. Number(Memory(a, j), 0) = p.magic
  BY <1>1, <1>5, <1>6, NumberFound
<1>8. Part(Memory(a, j), 4, Len(p.type)) = p.type
  <2>1. p.type \in Seq(Byte)
    BY <1>2
  <2> QED  BY <1>5, <1>6, <2>1, PartFound
<1> QED  BY <1>2, <1>7, <1>8 DEF a, b

\* The type of a frame takes it to its own decoder.
LEMMA ServedType ==
  ASSUME NEW kind \in {"prompt", "coding"}, NEW p, WellFormed(kind, p), NEW m,
         Number(m, 0) = p.magic, Part(m, 4, 2) = p.type
  PROVE  Served(m) = IF p.magic = Magic THEN Decode(kind, m)
                     ELSE [is |-> "refused"]
<1>1. CASE kind = "prompt"
  <2>1. p.type = <<80, 84>> /\ Decode(kind, m) = PromptDecode(m)
    BY <1>1 DEF WellFormed, Decode
  <2> QED  BY <2>1 DEF Served
<1>2. CASE kind = "coding"
  <2>1. p.type = <<67, 68>> /\ Decode(kind, m) = CodingDecode(m)
    BY <1>2 DEF WellFormed, Decode
  <2>2. <<67, 68>> # <<80, 84>>
    OBVIOUS
  <2> QED  BY <2>1, <2>2 DEF Served
<1> QED  BY <1>1, <1>2

\* What the server makes of a whole frame.
LEMMA ServedBack ==
  ASSUME NEW kind \in {"prompt", "coding"}, NEW p, WellFormed(kind, p), NEW j
  PROVE  LET b == Encode(kind, p).bytes
         IN Served(Memory(b, j)) =
              IF p.magic = Magic
              THEN [is |-> "packet", packet |-> p, reach |-> Len(b)]
              ELSE [is |-> "refused"]
<1> DEFINE b == Encode(kind, p).bytes
           m == Memory(b, j)
<1>1. /\ b \in Seq(Byte)
      /\ p.magic = Magic =>
           Decode(kind, m) = [is |-> "packet", packet |-> p, reach |-> Len(b)]
  <2>1. kind \in Kinds
    BY DEF Kinds
  <2>2. p.magic = Magic =>
          Decode(kind, Memory(Encode(kind, p).bytes, j)) =
            [is |-> "packet", packet |-> p, reach |-> Len(Encode(kind, p).bytes)]
    BY <2>1, EncodeBack, ZenonT(60)
  <2>3. Encode(kind, p).bytes \in Seq(Byte)
    BY <2>1, EncodeBack, ZenonT(60)
  <2> QED  BY <2>2, <2>3
<1>2. Len(b) \in Nat /\ Len(b) >= 20
  <2>1. CASE kind = "prompt"
    <3> DEFINE n == p.text_length
               c == p.file_count
               f == Sum(p.file_lens, c)
    <3>1. PromptOK(p) /\ b = PromptEncode(p).bytes
      BY <2>1 DEF WellFormed, Encode
    <3>2. n \in Nat /\ c \in Nat /\ f \in Nat /\ Len(b) = 24 + n + 4 * c + f
      BY <3>1, PromptLayout
    <3> HIDE DEF n, c, f, b
    <3> QED  BY <3>2
  <2>2. CASE kind = "coding"
    <3> DEFINE n == p.text_length
    <3>1. CodingOK(p) /\ b = CodingEncode(p).bytes
      BY <2>2 DEF WellFormed, Encode
    <3>2. n \in Nat /\ Len(b) = 20 + n
      BY <3>1, CodingLayout
    <3> HIDE DEF n, b
    <3> QED  BY <3>2
  <2> QED  BY <2>1, <2>2
<1>3. SubSeq(b, 1, Len(b)) = b
  BY <1>1, SubSeqFull
<1>4. Number(m, 0) = p.magic /\ Part(m, 4, 2) = p.type
  <2> DEFINE k == Len(b)
  <2>1. k \in Nat /\ k <= Len(b) /\ k >= 20
    BY <1>2
  <2> HIDE DEF k
  <2>2. LET h == Memory(SubSeq(Encode(kind, p).bytes, 1, k), j)
        IN Number(h, 0) = p.magic /\ Part(h, 4, 2) = p.type
    BY <2>1, HeadFound, ZenonT(60)
  <2> QED  BY <1>3, <2>2 DEF k
<1> HIDE DEF m
<1>5. Served(m) = IF p.magic = Magic THEN Decode(kind, m) ELSE [is |-> "refused"]
  BY <1>4, ServedType
<1> QED  BY <1>1, <1>5 DEF m

\* From the first k bytes of a frame the server makes no packet without
\* looking behind them.
LEMMA ServedCut ==
  ASSUME NEW kind \in {"prompt", "coding"}, NEW p, WellFormed(kind, p), NEW j,
         NEW k \in Nat, k < Len(Encode(kind, p).bytes),
         Served(Memory(SubSeq(Encode(kind, p).bytes, 1, k), j)).is = "packet"
  PROVE  Served(Memory(SubSeq(Encode(kind, p).bytes, 1, k), j)).reach > k
<1> DEFINE b == Encode(kind, p).bytes
           a == SubSeq(b, 1, k)
           m == Memory(a, j)
<1>1. b \in Seq(Byte) /\ Len(b) \in Nat /\ k <= Len(b)
  <2>1. b \in Seq(Byte)
    BY EncodeBack DEF Kinds
  <2>2. Len(b) \in Nat
    BY <2>1, LenProperties
  <2>3. k < Len(b)
    OBVIOUS
  <2> HIDE DEF b
  <2> QED  BY <2>1, <2>2, <2>3
<1>2. a \in Seq(Byte)
  BY <1>1, SubSeqProperties
<1>3. CASE k < 20
  <2>1. Served(m).is = "packet" => Served(m) \in {PromptDecode(m), CodingDecode(m)}
    <3> HIDE DEF m
    <3> QED  BY DEF Served
  <2>2. CASE Served(m) = CodingDecode(m)
    <3> DEFINE x == Number(m, 16)
    <3> HIDE DEF a
    <3>1. x \in Nat /\ CodingDecode(m).reach = 20 + x
      BY <1>2, <2>2, CodingReach DEF a
    <3> HIDE DEF x, m
    <3>2. Served(m).reach > k
      BY <1>3, <2>2, <3>1
    <3> QED  BY <3>2 DEF m, a
  <2>3. CASE Served(m) = PromptDecode(m)
    <3> DEFINE x    == Number(m, 16)
               y    == Number(m, 20 + x)
               lens == [i \in 1..y |-> Number(m, 20 + x + 4 * i)]
               z    == Sum(lens, y)
    <3> HIDE DEF a
    <3>1. /\ x \in Nat /\ y \in Nat /\ z \in Nat
          /\ PromptDecode(m).reach = 24 + x + 4 * y + z
      BY <1>2, <2>3, PromptReach DEF a
    <3> HIDE DEF x, y, z, m
    <3>2. Served(m).reach > k
      BY <1>3, <2>3, <3>1
    <3> QED  BY <3>2 DEF m, a
  <2> QED  BY <2>1, <2>2, <2>3
<1>4. CASE k >= 20
  <2>1. Number(m, 0) = p.magic /\ Part(m, 4, 2) = p.type
    <3>1. k <= Len(Encode(kind, p).bytes) /\ k >= 20
      BY <1>1, <1>4
    <3>2. LET h == Memory(SubSeq(Encode(kind, p).bytes, 1, k), j)
          IN Number(h, 0) = p.magic /\ Part(h, 4, 2) = p.type
      BY <3>1, HeadFound, ZenonT(60)
    <3> QED  BY <3>2
  <2>2. Served(m) = IF p.magic = Magic THEN Decode(kind, m) ELSE [is |-> "refused"]
    BY <2>1, ServedType
  <2>3. Served(m) = Decode(kind, m)
    BY <2>2
  <2>4. CASE kind = "prompt"
    <3>1. PromptOK(p) /\ b = PromptEncode(p).bytes /\ Decode(kind, m) = PromptDecode(m)
      BY <2>4 DEF WellFormed, Encode, Decode
    <3> QED  BY <2>3, <3>1, PromptCut
  <2>5. CASE kind = "coding"
    <3>1. CodingOK(p) /\ b = CodingEncode(p).bytes /\ Decode(kind, m) = CodingDecode(m)
      BY <2>5 DEF WellFormed, Encode, Decode
    <3> QED  BY <2>3, <3>1, CodingCut
  <2> QED  BY <2>4, <2>5
<1> QED  BY <1>3, <1>4

-----------------------------------------------------------------------------
(* The exchange                                                            *)

\* A packet whose fields have all been set is one that programs send.
LEMMA MadeWellFormed ==
  ASSUME MakingOK, making.kind # "none", making.todo = {}
  PROVE  making.kind \in Kinds /\ WellFormed(making.kind, making.packet)
<1> PICK w \in Wanted, j \in Junk :
      /\ making.kind = w.kind
      /\ making.packet = Filled(w.kind, j, w.fields, DOMAIN w.fields \ making.todo)
  BY DEF MakingOK
<1>1. DOMAIN w.fields \ making.todo = DOMAIN w.fields
  OBVIOUS
<1> QED  BY <1>1, WantedAssumption

\* The parts of the invariant that a step leaves alone.
LEMMA MakingKept ==
  ASSUME MakingOK, UNCHANGED making
  PROVE  MakingOK'
BY DEF MakingOK

\* Pieces nobody touches stay what they were.
LEMMA WireKept ==
  ASSUME WireOK, UNCHANGED wire
  PROVE  WireOK'
BY DEF WireOK

\* So does what was read last.
LEMMA ReadingKept ==
  ASSUME ReadingOK, UNCHANGED reading
  PROVE  ReadingOK'
BY DEF ReadingOK

\* The pieces of a sequence of good pieces.
LEMMA WireSequence ==
  ASSUME NEW S, NEW s \in Seq(S), wire' = s, \A i \in DOMAIN s : PieceOK(s[i])
  PROVE  WireOK'
<1>1. s \in Seq({s[i] : i \in DOMAIN s})
  <2>1. Len(s) \in Nat /\ DOMAIN s = 1..Len(s) /\ s = [i \in 1..Len(s) |-> s[i]]
    OBVIOUS
  <2>2. \A i \in 1..Len(s) : s[i] \in {s[k] : k \in DOMAIN s}
    BY <2>1
  <2> QED  BY <2>1, <2>2
<1>2. (\A i \in DOMAIN wire : PieceOK(wire[i]))'
  BY DEF PieceOK
<1> QED  BY <1>1, <1>2 DEF WireOK

\* The first piece is a good one, and so are those behind it.
LEMMA WireHead ==
  ASSUME WireOK, wire # <<>>
  PROVE  /\ PieceOK(Head(wire))
         /\ Tail(wire) \in Seq({wire[i] : i \in DOMAIN wire})
         /\ \A i \in DOMAIN Tail(wire) : PieceOK(Tail(wire)[i])
<1> DEFINE S == {wire[i] : i \in DOMAIN wire}
<1>1. wire \in Seq(S) /\ \A i \in DOMAIN wire : PieceOK(wire[i])
  BY DEF WireOK
<1> HIDE DEF S
<1>2. Len(wire) \in Nat /\ Len(wire) # 0 /\ DOMAIN wire = 1..Len(wire)
  BY <1>1, EmptySeq, LenProperties
<1>3. Head(wire) = wire[1]
  BY <1>1
<1>4. /\ Tail(wire) \in Seq(S) /\ Len(Tail(wire)) = Len(wire) - 1
      /\ \A i \in 1..Len(Tail(wire)) : Tail(wire)[i] = wire[i + 1]
  BY <1>1, <1>2, HeadTailProperties
<1>5. DOMAIN Tail(wire) = 1..Len(Tail(wire))
  BY <1>4, LenProperties
<1> QED  BY <1>1, <1>2, <1>3, <1>4, <1>5 DEF S

\* Before the first packet there is nothing to go wrong.
LEMMA ExchangeInit == Init => ExchangeInv
<1> SUFFICES ASSUME Init PROVE ExchangeInv
  OBVIOUS
<1>1. MakingOK
  BY DEF Init, NoPacket, MakingOK
<1>2. WireOK
  BY EmptySeq DEF Init, WireOK
<1>3. ReadingOK
  BY DEF Init, NoReader, ReadingOK
<1>4. HeapOK
  BY DEF Init, HeapOK
<1> QED  BY <1>1, <1>2, <1>3, <1>4 DEF ExchangeInv

\* A packet is begun only when nothing else is under way: nobody but the
\* server holds a block.
LEMMA BeginKeeps ==
  ASSUME ExchangeInv, NEW w \in Wanted, NEW j \in Junk, Begin(w, j)
  PROVE  ExchangeInv'
<1> USE DEF ExchangeInv
<1>1. w.kind \in Kinds /\ making'.kind = w.kind /\ making'.fields = w.fields
      /\ making'.todo = DOMAIN w.fields /\ making'.packet = Fresh(w.kind, j)
  BY WantedAssumption DEF Begin
<1>2. MakingOK'
  <2>1. DOMAIN w.fields \ making'.todo = {}
    BY <1>1
  <2>2. making'.packet =
          Filled(w.kind, j, w.fields, DOMAIN w.fields \ making'.todo)
    BY <1>1, <2>1, FreshIsFilled
  <2> QED  BY <1>1, <2>2 DEF MakingOK
<1>3. WireOK'
  BY WireKept DEF Begin
<1>4. ReadingOK'
  BY ReadingKept DEF Begin
<1>5. HeapOK'
  <2> SUFFICES ASSUME NEW h \in heap'  PROVE HolderOK(h)'
    BY DEF HeapOK
  <2>1. CASE h \in heap
    <3>1. HolderOK(h) /\ making.kind = "none" /\ reading.by = "nobody"
      BY <2>1 DEF HeapOK, Begin
    <3>2. h.by = "server"
      BY <3>1 DEF HolderOK
    <3> QED  BY <3>1, <3>2 DEF HolderOK
  <2>2. CASE h \in [by : {Maker(w.kind)}, n : {made + 1}, block : {"packet"}]
    <3>1. h = [by |-> h.by, n |-> h.n, block |-> h.block]
          /\ h.by = Maker(w.kind) /\ h.n = made + 1 /\ h.block = "packet"
      BY <2>2
    <3>2. made' = made + 1
      BY DEF Begin
    <3> QED  BY <1>1, <3>1, <3>2 DEF HolderOK, Maker, Kinds
  <2> QED  BY <2>1, <2>2 DEF Begin
<1> QED  BY <1>2, <1>3, <1>4, <1>5

\* What a packet may point to is what its free function frees.
LEMMA AllFreed ==
  ASSUME NEW kind \in Kinds
  PROVE  Allocated(kind) = Freed(kind)
BY DEF Kinds, Allocated, Freed, PromptBlocks, CodingBlocks, CompilationBlocks,
       GenerationBlocks

\* A setter adds its field, and the block it allocates.
LEMMA SetFieldKeeps ==
  ASSUME ExchangeInv, NEW f, SetField(f)
  PROVE  ExchangeInv'
<1> USE DEF ExchangeInv
<1>1. making.kind # "none" /\ f \in making.todo
  BY DEF SetField
<1> PICK w \in Wanted, j \in Junk :
      /\ making.kind = w.kind /\ making.fields = w.fields
      /\ making.todo \subseteq DOMAIN w.fields
      /\ making.packet = Filled(w.kind, j, w.fields, DOMAIN w.fields \ making.todo)
  BY <1>1 DEF MakingOK
<1>2. MakingOK'
  <2>1. /\ making'.kind = making.kind /\ making'.fields = making.fields
        /\ making'.todo = making.todo \ {f}
        /\ making'.packet = Set(making.kind, making.packet, f, making.fields[f])
    BY DEF SetField
  <2>2. w.kind \in Kinds /\ f \in DOMAIN Fresh(w.kind, j)
    BY <1>1, WantedAssumption
  <2>3. Set(w.kind, making.packet, f, w.fields[f]) =
          Filled(w.kind, j, w.fields, (DOMAIN w.fields \ making.todo) \cup {f})
    BY <1>1, <2>2, FilledMore
  <2>4. (DOMAIN w.fields \ making.todo) \cup {f} = DOMAIN w.fields \ making'.todo
    BY <1>1, <2>1
  <2> QED  BY <2>1, <2>3, <2>4 DEF MakingOK
<1>3. WireOK'
  BY WireKept DEF SetField
<1>4. ReadingOK'
  BY ReadingKept DEF SetField
<1>5. HeapOK'
  <2> SUFFICES ASSUME NEW h \in heap'  PROVE HolderOK(h)'
    BY DEF HeapOK
  <2>1. making'.kind = making.kind /\ made' = made /\ reading' = reading
    BY DEF SetField
  <2>2. CASE h \in heap
    BY <2>1, <2>2 DEF HeapOK, HolderOK
  <2> Allocated(making.kind) = Freed(making.kind)
    BY WantedAssumption, AllFreed
  <2>3. CASE f \in Allocated(making.kind) /\ h \in Held(Maker(making.kind), {f})
    <3>1. h = [by |-> h.by, n |-> h.n, block |-> h.block]
          /\ h.by = Maker(making.kind) /\ h.n = made /\ h.block = f
      BY <2>3 DEF Held
    <3> QED  BY <1>1, <2>1, <2>3, <3>1 DEF HolderOK, Maker
  <2> QED  BY <2>2, <2>3 DEF SetField
<1> QED  BY <1>2, <1>3, <1>4, <1>5

\* What is sent is a packet that programs send; the maker holds no more of it.
LEMMA EncodeKeeps ==
  ASSUME ExchangeInv, EncodeAndSend
  PROVE  ExchangeInv'
<1> USE DEF ExchangeInv
<1> DEFINE e == Encode(making.kind, making.packet)
           q == [kind |-> making.kind, packet |-> making.packet,
                 size |-> e.size, bytes |-> e.bytes, part |-> "whole"]
<1>1. making.kind \in Kinds /\ WellFormed(making.kind, making.packet)
  BY MadeWellFormed DEF EncodeAndSend
<1>2. MakingOK'
  BY DEF EncodeAndSend, NoPacket, MakingOK
<1>3. WireOK'
  <2>1. PieceOK(q)
    BY <1>1 DEF PieceOK
  <2>2. wire' = <<q>>
    BY DEF EncodeAndSend
  <2> HIDE DEF q
  <2>3. <<q>> \in Seq({q}) /\ \A i \in DOMAIN <<q>> : PieceOK(<<q>>[i])
    BY <2>1
  <2> QED  BY <2>2, <2>3, WireSequence
<1>4. ReadingOK'
  BY ReadingKept DEF EncodeAndSend
<1>5. HeapOK'
  <2> SUFFICES ASSUME NEW h \in heap'  PROVE HolderOK(h)'
    BY DEF HeapOK
  <2>1. h \in heap /\ HolderOK(h) /\ made' = made /\ reading' = reading
    BY DEF EncodeAndSend, HeapOK
  <2>2. h.by # "maker"
    <3> SUFFICES ASSUME h.by = "maker"  PROVE FALSE
      OBVIOUS
    <3>1. h = [by |-> h.by, n |-> h.n, block |-> h.block] /\ h.n = made
          /\ making.kind # "generation"
          /\ h.block \in {"packet"} \cup Freed(making.kind)
      BY <2>1 DEF HolderOK
    <3>2. h \in Held("maker", {"packet"} \cup Freed(making.kind))
      BY <3>1 DEF Held
    <3> QED  BY <3>1, <3>2 DEF EncodeAndSend
  <2> QED  BY <2>1, <2>2 DEF HolderOK
<1> QED  BY <1>2, <1>3, <1>4, <1>5

\* A frame that is handed on in two calls: its beginning, and what is left.
LEMMA SplitKeeps ==
  ASSUME ExchangeInv, NEW k, Split(k)
  PROVE  ExchangeInv'
<1> USE DEF ExchangeInv
<1> DEFINE f  == Head(wire)
           q1 == [f EXCEPT !.bytes = SubSeq(f.bytes, 1, k), !.part = "first"]
           q2 == [f EXCEPT !.bytes = SubSeq(f.bytes, k + 1, Len(f.bytes)),
                           !.part = "rest"]
<1>1. PieceOK(f) /\ f.part = "whole" /\ k \in 1..Len(f.bytes) - 1
  BY WireHead DEF Split
<1>2. MakingOK'
  BY MakingKept DEF Split
<1>3. WireOK'
  <2>1. wire' = <<q1, q2>>
    BY DEF Split
  <2> HIDE DEF f
  <2>2. PieceOK(q1) /\ PieceOK(q2)
    BY <1>1 DEF PieceOK
  <2> HIDE DEF q1, q2
  <2>3. /\ <<q1, q2>> \in Seq({q1, q2})
        /\ \A i \in DOMAIN <<q1, q2>> : PieceOK(<<q1, q2>>[i])
    BY <2>2
  <2> QED  BY <2>1, <2>3, WireSequence
<1>4. ReadingOK'
  BY ReadingKept DEF Split
<1>5. HeapOK'
  BY DEF Split, HeapOK, HolderOK
<1> QED  BY <1>2, <1>3, <1>4, <1>5

\* Blocks a reader takes are its own, for the packet under way.
LEMMA ReadsKeeps ==
  ASSUME HeapOK, NEW by \in {"self", "server", "prompt"}, NEW result, NEW blocks,
         Reads(by, result, blocks), reading.by = "nobody",
         by = "self" => blocks = Freed(Head(wire).kind),
         by = "prompt" => blocks = PromptBlocks
  PROVE  HeapOK'
<1> SUFFICES ASSUME NEW h \in heap'  PROVE HolderOK(h)'
  BY DEF HeapOK
<1>1. /\ made' = made /\ making' = making
      /\ reading'.by = by /\ reading'.piece = Head(wire)
  BY DEF Reads
<1>2. CASE h \in heap
  <2>1. HolderOK(h)
    BY <1>2 DEF HeapOK
  <2>2. h.by \notin {"self", "prompt"}
    BY <2>1 DEF HolderOK
  <2> QED  BY <1>1, <2>1, <2>2 DEF HolderOK
<1>3. CASE h \in Held(by, {"packet"} \cup blocks)
  <2>1. h = [by |-> h.by, n |-> h.n, block |-> h.block]
        /\ h.by = by /\ h.n = made /\ h.block \in {"packet"} \cup blocks
    BY <1>3 DEF Held
  <2> QED  BY <1>1, <2>1 DEF HolderOK
<1> QED  BY <1>2, <1>3 DEF Reads

\* Three readers
LEMMA ReadSelfKeeps ==
  ASSUME ExchangeInv, NEW j \in Junk, ReadSelf(j)
  PROVE  ExchangeInv'
<1> USE DEF ExchangeInv
<1> DEFINE f == Head(wire)
           r == Decode(f.kind, Memory(f.bytes, j))
<1>1. /\ PieceOK(f) /\ f.part = "whole" /\ reading.by = "nobody"
      /\ Reads("self", r, Freed(f.kind)) /\ wire' = <<>>
  <2>1. /\ PieceOK(f) /\ f.part = "whole" /\ reading.by = "nobody"
        /\ Reads("self", r, Allocated(f.kind)) /\ wire' = <<>>
    BY WireHead DEF ReadSelf
  <2>2. Allocated(f.kind) = Freed(f.kind)
    BY <2>1, AllFreed DEF PieceOK
  <2> QED  BY <2>1, <2>2
<1>2. MakingOK'
  BY <1>1, MakingKept DEF Reads
<1>3. WireOK'
  BY <1>1, EmptySeq DEF WireOK
<1>4. ReadingOK'
  <2>1. reading' = [by |-> "self", piece |-> f, result |-> r]
    BY <1>1 DEF Reads
  <2> HIDE DEF f
  <2> QED  BY <1>1, <2>1 DEF ReadingOK, PieceOK
<1>5. HeapOK'
  BY <1>1, ReadsKeeps
<1> QED  BY <1>2, <1>3, <1>4, <1>5

\* The server reads one piece; the ones behind it stay pieces of frames.
LEMMA ServerReadsKeeps ==
  ASSUME ExchangeInv, NEW j \in Junk, ServerReads(j)
  PROVE  ExchangeInv'
<1> USE DEF ExchangeInv
<1> DEFINE f == Head(wire)
           r == Served(Memory(f.bytes, j))
<1>1. /\ PieceOK(f) /\ f.kind \in {"prompt", "coding"} /\ reading.by = "nobody"
      /\ Reads("server", r, Allocated(f.kind))
      /\ wire' \in {<<>>, Tail(wire)}
      /\ wire # <<>>
  BY WireHead DEF ServerReads
<1>2. MakingOK'
  BY <1>1, MakingKept DEF Reads
<1>3. WireOK'
  <2>1. CASE wire' = <<>>
    BY <2>1, EmptySeq DEF WireOK
  <2>2. CASE wire' = Tail(wire)
    BY <1>1, <2>2, WireHead, WireSequence
  <2> QED  BY <1>1, <2>1, <2>2
<1>4. ReadingOK'
  <2>1. reading' = [by |-> "server", piece |-> f, result |-> r]
    BY <1>1 DEF Reads
  <2> HIDE DEF f
  <2> QED  BY <1>1, <2>1 DEF ReadingOK, PieceOK
<1>5. HeapOK'
  BY <1>1, ReadsKeeps
<1> QED  BY <1>2, <1>3, <1>4, <1>5

\* The prompt client reads a reply; what it allocates is its own.
LEMMA PromptClientReadsKeeps ==
  ASSUME ExchangeInv, NEW j \in Junk, PromptClientReads(j)
  PROVE  ExchangeInv'
<1> USE DEF ExchangeInv
<1> DEFINE f == Head(wire)
           r == PromptDecode(Memory(Padded(f.bytes), j))
<1>1. /\ PieceOK(f) /\ f.part = "whole" /\ reading.by = "nobody"
      /\ Reads("prompt", r, PromptBlocks) /\ wire' = <<>>
      /\ f.kind = "generation" /\ f.packet.status = Busy
  BY WireHead DEF PromptClientReads, Allocated, PromptBlocks
<1>2. MakingOK'
  BY <1>1, MakingKept DEF Reads
<1>3. WireOK'
  BY <1>1, EmptySeq DEF WireOK
<1>4. ReadingOK'
  <2>1. reading' = [by |-> "prompt", piece |-> f, result |-> r]
    BY <1>1 DEF Reads
  <2> HIDE DEF f
  <2> QED  BY <1>1, <2>1 DEF ReadingOK, PieceOK
<1>5. HeapOK'
  BY <1>1, ReadsKeeps
<1> QED  BY <1>2, <1>3, <1>4, <1>5

\* Whoever read, but the server, frees what it took.
LEMMA ForgetKeeps ==
  ASSUME ExchangeInv, Forget
  PROVE  ExchangeInv'
<1> USE DEF ExchangeInv
<1>1. MakingOK'
  BY MakingKept DEF Forget
<1>2. WireOK'
  BY WireKept DEF Forget
<1>3. ReadingOK'
  BY DEF Forget, NoReader, ReadingOK
<1>4. HeapOK'
  <2> SUFFICES ASSUME NEW h \in heap'  PROVE HolderOK(h)'
    BY DEF HeapOK
  <2>1. made' = made /\ making' = making /\ reading.by \in {"self", "server", "prompt"}
    BY DEF Forget, ReadingOK
  <2>2. h \in heap
    BY <2>1 DEF Forget
  <2>3. HolderOK(h)
    BY <2>2 DEF HeapOK
  <2>4. h.by # "self"
    <3> SUFFICES ASSUME h.by = "self"  PROVE FALSE
      OBVIOUS
    <3>1. h \in Held("self", {"packet"} \cup Freed(reading.piece.kind))
          /\ reading.by = "self"
      BY <2>3 DEF HolderOK, Held
    <3> QED  BY <3>1 DEF Forget
  <2>5. h.by # "prompt"
    <3> SUFFICES ASSUME h.by = "prompt"  PROVE FALSE
      OBVIOUS
    <3>1. h \in Held("prompt", {"packet"} \cup PromptBlocks)
          /\ reading.by = "prompt"
      BY <2>3 DEF HolderOK, Held
    <3> QED  BY <3>1 DEF Forget
  <2> QED  BY <2>1, <2>3, <2>4, <2>5 DEF HolderOK
<1> QED  BY <1>1, <1>2, <1>3, <1>4

\* Every step keeps the invariant.
LEMMA ExchangeStep == ExchangeInv /\ [Next]_vars => ExchangeInv'
<1> SUFFICES ASSUME ExchangeInv, [Next]_vars  PROVE ExchangeInv'
  OBVIOUS
<1>1. ASSUME NEW w \in Wanted, NEW j \in Junk, Begin(w, j)  PROVE ExchangeInv'
  BY <1>1, BeginKeeps
<1>2. ASSUME NEW f, SetField(f)  PROVE ExchangeInv'
  BY <1>2, SetFieldKeeps
<1>3. CASE EncodeAndSend
  BY <1>3, EncodeKeeps
<1>4. ASSUME NEW k, Split(k)  PROVE ExchangeInv'
  BY <1>4, SplitKeeps
<1>5. ASSUME NEW j \in Junk, ReadSelf(j)  PROVE ExchangeInv'
  BY <1>5, ReadSelfKeeps
<1>6. ASSUME NEW j \in Junk, ServerReads(j)  PROVE ExchangeInv'
  BY <1>6, ServerReadsKeeps
<1>7. ASSUME NEW j \in Junk, PromptClientReads(j)  PROVE ExchangeInv'
  BY <1>7, PromptClientReadsKeeps
<1>8. CASE Forget
  BY <1>8, ForgetKeeps
<1>9. CASE UNCHANGED vars
  <2>1. MakingOK' /\ WireOK' /\ ReadingOK'
    BY <1>9, MakingKept, WireKept, ReadingKept DEF vars, ExchangeInv
  <2>2. HeapOK'
    BY <1>9 DEF vars, ExchangeInv, HeapOK, HolderOK
  <2> QED  BY <2>1, <2>2 DEF ExchangeInv
<1> QED  BY <1>1, <1>2, <1>3, <1>4, <1>5, <1>6, <1>7, <1>8, <1>9 DEF Next

\* The invariant holds in every state.
THEOREM ExchangeInvariant == Spec => []ExchangeInv
BY ExchangeInit, ExchangeStep, PTL DEF Spec

-----------------------------------------------------------------------------
(* What follows                                                            *)

\* A whole frame was decoded from the bytes its packet was encoded to.
LEMMA InvArrive == ExchangeInv => PacketsArrive
<1> SUFFICES ASSUME ExchangeInv, Returning,
                    reading.piece.kind \in Guarded => reading.piece.packet.magic = Magic
             PROVE  /\ reading.result.is = "packet"
                    /\ reading.result.packet = reading.piece.packet
                    /\ reading.result.reach = Len(reading.piece.bytes)
  BY DEF PacketsArrive
<1> DEFINE kind == reading.piece.kind
           p    == reading.piece.packet
           b    == Encode(kind, p).bytes
           r    == reading.result
<1>1. /\ kind \in Kinds /\ WellFormed(kind, p) /\ reading.piece.bytes = b
      /\ reading.by \in {"self", "server"}
  BY DEF ExchangeInv, ReadingOK, PieceOK, Returning
<1>2. CASE reading.by = "self"
  <2> PICK j \in Junk : r = Decode(kind, Memory(b, j))
    BY <1>1, <1>2 DEF ExchangeInv, ReadingOK
  <2>1. r = IF kind \in Guarded /\ p.magic # Magic THEN Null
            ELSE [is |-> "packet", packet |-> p, reach |-> Len(b)]
    BY <1>1, EncodeBack
  <2> HIDE DEF r, b
  <2>2. r = [is |-> "packet", packet |-> p, reach |-> Len(b)]
    BY <2>1
  <2> QED  BY <1>1, <2>2 DEF r, b
<1>3. CASE reading.by = "server"
  <2> PICK j \in Junk : r = Served(Memory(b, j))
    BY <1>1, <1>3 DEF ExchangeInv, ReadingOK
  <2>1. kind \in {"prompt", "coding"}
    BY <1>3 DEF ExchangeInv, ReadingOK
  <2>2. r = IF p.magic = Magic
            THEN [is |-> "packet", packet |-> p, reach |-> Len(b)]
            ELSE [is |-> "refused"]
    BY <1>1, <2>1, ServedBack
  <2> HIDE DEF r, b
  <2>3. r = [is |-> "packet", packet |-> p, reach |-> Len(b)]
    BY <2>1, <2>2 DEF Guarded, Kinds
  <2> QED  BY <1>1, <2>3 DEF r
<1> QED  BY <1>1, <1>2, <1>3

\* The size an encoder adds up is that of what it copies.
LEMMA InvFits == ExchangeInv => BufferFits
<1> SUFFICES ASSUME ExchangeInv, NEW i \in DOMAIN wire, wire[i].part = "whole"
             PROVE  wire[i].size = Len(wire[i].bytes)
  BY DEF BufferFits
<1> DEFINE q == wire[i]
           e == Encode(q.kind, q.packet)
<1>1. /\ q.kind \in Kinds /\ WellFormed(q.kind, q.packet)
      /\ q.size = e.size /\ q.bytes = e.bytes
  BY DEF ExchangeInv, WireOK, PieceOK
<1>2. e.size = Len(e.bytes)
  BY <1>1, EncodeBack
<1> QED  BY <1>1, <1>2

\* A decoder given the beginning of a frame reads behind it, or refuses.
LEMMA InvShorter == ExchangeInv => NoShorterPacket
<1> SUFFICES ASSUME ExchangeInv, reading.by # "nobody",
                    reading.piece.part = "first", reading.result.is = "packet"
             PROVE  reading.result.reach > Len(reading.piece.bytes)
  BY DEF NoShorterPacket
<1> DEFINE kind == reading.piece.kind
           p    == reading.piece.packet
           b    == Encode(kind, p).bytes
           r    == reading.result
<1>1. /\ kind \in {"prompt", "coding"} /\ WellFormed(kind, p)
      /\ reading.by = "server"
  BY DEF ExchangeInv, ReadingOK, PieceOK
<1> PICK k \in 1..Len(b) - 1 : reading.piece.bytes = SubSeq(b, 1, k)
  BY DEF ExchangeInv, ReadingOK, PieceOK
<1> PICK j \in Junk : r = Served(Memory(SubSeq(b, 1, k), j))
  BY <1>1 DEF ExchangeInv, ReadingOK
<1>2. b \in Seq(Byte) /\ Len(b) \in Nat
  <2>1. b \in Seq(Byte)
    BY <1>1, EncodeBack DEF Kinds
  <2> HIDE DEF b
  <2> QED  BY <2>1, LenProperties
<1>3. k \in Nat /\ k < Len(b) /\ k \in 0..Len(b)
  <2> HIDE DEF b
  <2> QED  BY <1>2
<1>4. Len(SubSeq(b, 1, k)) = k
  <2> HIDE DEF b
  <2> QED  BY <1>2, <1>3, SubSeqProperties
<1>5. r.reach > k
  BY <1>1, <1>3, ServedCut
<1> QED  BY <1>4, <1>5

\* No ints add up to nothing.
LEMMA SumNone ==
  ASSUME NEW s
  PROVE  Sum(s, 0) = 0
<1> DEFINE f == [i \in 0..0 |-> 0]
           IsSum(g) == g = [i \in 0..0 |-> IF i = 0 THEN 0 ELSE g[i - 1] + s[i]]
<1>1. IsSum(f)
  OBVIOUS
<1>2. IsSum(CHOOSE g : IsSum(g))
  BY <1>1
<1>3. Sum(s, 0) = (CHOOSE g : IsSum(g))[0]
  BY DEF Sum
<1>4. \A g : IsSum(g) => g[0] = 0
  OBVIOUS
<1> QED  BY <1>2, <1>3, <1>4

\* A reply shorter than the struct is followed by zeros up to its size.
LEMMA PaddedStands ==
  ASSUME NEW b \in Seq(Byte), Len(b) <= PromptSize
  PROVE  /\ Padded(b) \in Seq(Byte) /\ Len(Padded(b)) = PromptSize
         /\ \A i \in 1..PromptSize :
              Padded(b)[i] = IF i <= Len(b) THEN b[i] ELSE 0
         /\ \A at \in Nat, c \in Seq(Byte) :
              Stands(b, at, c) => Stands(Padded(b), at, c)
<1>1. Len(b) \in Nat /\ PromptSize \in Nat /\ 0 \in Byte
  BY LenProperties DEF PromptSize, Byte
<1>2. (IF Len(b) > PromptSize THEN Len(b) ELSE PromptSize) = PromptSize
  BY <1>1
<1> HIDE DEF PromptSize
<1>3. Padded(b) = [i \in 1..PromptSize |-> IF i <= Len(b) THEN b[i] ELSE 0]
  BY <1>2 DEF Padded
<1>4. \A i \in 1..PromptSize : (IF i <= Len(b) THEN b[i] ELSE 0) \in Byte
  BY <1>1, ElementOfSeq
<1>5. /\ Padded(b) \in Seq(Byte) /\ Len(Padded(b)) = PromptSize
      /\ \A i \in 1..PromptSize :
           Padded(b)[i] = IF i <= Len(b) THEN b[i] ELSE 0
  BY <1>1, <1>3, <1>4
<1>6. ASSUME NEW at \in Nat, NEW c \in Seq(Byte), Stands(b, at, c)
      PROVE  Stands(Padded(b), at, c)
  <2> SUFFICES ASSUME NEW i \in 1..Len(c)
               PROVE  at + i <= Len(Padded(b)) /\ Padded(b)[at + i] = c[i]
    BY DEF Stands
  <2>1. at + i <= Len(b) /\ b[at + i] = c[i] /\ i \in Nat /\ i >= 1
    BY <1>6, LenProperties DEF Stands
  <2>2. at + i \in 1..PromptSize
    BY <1>1, <2>1
  <2> QED  BY <1>5, <2>1, <2>2
<1> QED  BY <1>5, <1>6

\* A busy reply taken for a prompt: its text is the zeros that follow the
\* request, and its number of files the padding.
LEMMA BusyDecoded ==
  ASSUME NEW p, GenerationOK(p), BusyOK(p), p.status = Busy, NEW j
  PROVE  LET r == PromptDecode(Memory(Padded(GenerationEncode(p).bytes), j))
         IN /\ r.is = "packet" /\ r.packet.text = <<>> /\ r.packet.files = <<>>
            /\ r.reach = 24
<1> DEFINE b == GenerationEncode(p).bytes
           q == Padded(b)
           m == Memory(q, j)
<1>1. /\ p.magic = Magic /\ Magic \in Int32 /\ b \in Seq(Byte) /\ Len(b) = 18
      /\ Stands(b, 0, BytesOf(Magic)) /\ Stands(b, 14, BytesOf(0))
  <2>1. p.magic = Magic /\ p.text_length = 0
    BY DEF BusyOK
  <2> HIDE DEF b
  <2>2. /\ p.magic \in Int32 /\ b \in Seq(Byte) /\ Len(b) = 18 + 0
        /\ Stands(b, 0, BytesOf(Magic)) /\ Stands(b, 14, BytesOf(0))
    BY <2>1, GenerationLayout DEF b
  <2> QED  BY <2>1, <2>2
<1>2. /\ 0 \in Int32 /\ BytesOf(0) \in Seq(Byte) /\ Len(BytesOf(0)) = 4
      /\ BytesOf(Magic) \in Seq(Byte)
  <2>1. 0 \in Int32
    BY SMT DEF Int32, INT_MIN
  <2> HIDE DEF Magic
  <2> QED  BY <1>1, <2>1, IntBack
<1>3. \A i \in 1..4 : BytesOf(0)[i] = 0
  BY SMT DEF BytesOf
<1> HIDE DEF b
<1>4. /\ q \in Seq(Byte) /\ Len(q) = 56
      /\ \A i \in 1..56 : q[i] = IF i <= 18 THEN b[i] ELSE 0
  <2>1. PromptSize = 56
    BY DEF PromptSize
  <2>2. Len(b) <= PromptSize /\ b \in Seq(Byte)
    BY <1>1, <2>1
  <2>3. /\ q \in Seq(Byte) /\ Len(q) = PromptSize
        /\ \A i \in 1..PromptSize : q[i] = IF i <= Len(b) THEN b[i] ELSE 0
    BY <2>2, PaddedStands
  <2>4. Len(b) = 18
    BY <1>1
  <2> HIDE DEF q
  <2> QED  BY <2>1, <2>3, <2>4
<1> HIDE DEF q
<1> DEFINE zeros == BytesOf(0)
<1>5. Stands(q, 0, BytesOf(Magic)) /\ Stands(q, 14, zeros)
  <2>1. b \in Seq(Byte) /\ Len(b) <= PromptSize
    BY <1>1 DEF PromptSize
  <2> HIDE DEF Magic, zeros
  <2>2. Stands(Padded(b), 0, BytesOf(Magic)) /\ Stands(Padded(b), 14, BytesOf(0))
    BY <1>1, <1>2, <2>1, PaddedStands
  <2> QED  BY <2>2 DEF q, zeros
<1>6. Len(zeros) = 4 /\ \A i \in 1..4 : zeros[i] = 0
  BY <1>2, <1>3
<1> HIDE DEF zeros
<1>7. q[17] = 0 /\ q[18] = 0 /\ \A i \in 19..56 : q[i] = 0
  <2>1. 3 \in 1..Len(zeros) /\ 4 \in 1..Len(zeros)
    BY <1>6
  <2>2. q[14 + 3] = zeros[3] /\ q[14 + 4] = zeros[4]
    BY <1>5, <2>1 DEF Stands
  <2>3. \A i \in 19..56 : i \in 1..56 /\ ~(i <= 18)
    OBVIOUS
  <2>4. \A i \in 19..56 : q[i] = 0
    BY <1>4, <2>3
  <2> QED  BY <1>6, <2>2, <2>4
<1>8. Stands(q, 16, zeros) /\ Stands(q, 20, zeros)
  <2>1. \A i \in 1..4 : /\ 16 + i \in {17, 18} \/ 16 + i \in 19..56
                       /\ 20 + i \in 19..56
    OBVIOUS
  <2>2. \A i \in 1..4 : q[16 + i] = 0 /\ q[20 + i] = 0
    BY <1>7, <2>1
  <2>3. \A i \in 1..Len(zeros) : i \in 1..4 /\ zeros[i] = 0
    BY <1>6
  <2>4. /\ \A i \in 1..Len(zeros) : 16 + i <= Len(q) /\ q[16 + i] = zeros[i]
        /\ \A i \in 1..Len(zeros) : 20 + i <= Len(q) /\ q[20 + i] = zeros[i]
    <3> SUFFICES ASSUME NEW i \in 1..Len(zeros)
                 PROVE  /\ 16 + i <= Len(q) /\ q[16 + i] = zeros[i]
                        /\ 20 + i <= Len(q) /\ q[20 + i] = zeros[i]
      OBVIOUS
    <3>1. i \in 1..4 /\ zeros[i] = 0
      BY <2>3
    <3>2. 16 + i <= Len(q) /\ 20 + i <= Len(q)
      <4>1. Len(q) = 56
        BY <1>4
      <4>2. i \in 1..4
        BY <3>1
      <4> QED  BY <4>1, <4>2
    <3>3. q[16 + i] = 0 /\ q[20 + i] = 0
      BY <2>2, <3>1
    <3> QED  BY <3>1, <3>2, <3>3
  <2> QED  BY <2>4 DEF Stands
<1>9. Number(m, 0) = Magic /\ Number(m, 16) = 0 /\ Number(m, 20) = 0
  <2>1. q \in Seq(Byte)
    BY <1>4
  <2>2. 0 \in Nat /\ 16 \in Nat /\ 20 \in Nat /\ Magic \in Int32 /\ 0 \in Int32
    BY <1>1, <1>2
  <2> HIDE DEF Magic
  <2>3. Number(Memory(q, j), 0) = Magic
    BY <1>5, <2>1, <2>2, NumberFound
  <2>4. Number(Memory(q, j), 16) = 0 /\ Number(Memory(q, j), 20) = 0
    BY <1>8, <2>1, <2>2, NumberFound DEF zeros
  <2> QED  BY <2>3, <2>4
<1>10. Holds(m, 0) /\ Holds(m, 24)
  <2>1. Len(q) = 56 /\ m.buffer = q
    BY <1>4 DEF Memory
  <2>2. Slack \in Nat
    BY SizesAssumption
  <2>3. 0 \in 0..56 + Slack /\ 24 \in 0..56 + Slack
    BY <2>2
  <2> HIDE DEF m
  <2> QED  BY <2>1, <2>3 DEF Holds
<1> HIDE DEF m
<1>11. Part(m, 20, 0) = <<>> /\ Part(m, 24, 0) = <<>>
  BY DEF Part
<1> DEFINE lens == [i \in 1..0 |-> Number(m, 20 + 0 + 4 * i)]
<1>12. Sum(lens, 0) = 0
  BY SumNone
<1> HIDE DEF lens
<1>13. PromptDecode(m) = Decoded(m,
         [magic |-> Magic, type |-> Part(m, 4, 2), version |-> Part(m, 6, 2),
          request |-> Part(m, 8, 8), text_length |-> 0, text |-> Part(m, 20, 0),
          file_count |-> 0, file_lens |-> lens, files |-> Part(m, 24, 0)], 24)
  <2> HIDE DEF Magic
  <2> QED  BY <1>9, <1>10, <1>12 DEF PromptDecode, lens
<1>14. PromptDecode(m).is = "packet" /\ PromptDecode(m).reach = 24
       /\ PromptDecode(m).packet.text = <<>> /\ PromptDecode(m).packet.files = <<>>
  <2> HIDE DEF Magic
  <2> QED  BY <1>10, <1>11, <1>13 DEF Decoded
<1> QED  BY <1>14 DEF m, q, b

\* The prompt client is given busy replies only.
LEMMA InvBusy == ExchangeInv => BusyReplyReadable
<1> SUFFICES ASSUME ExchangeInv, reading.by = "prompt"
             PROVE  /\ reading.result.is = "packet"
                    /\ reading.result.packet.text = <<>>
                    /\ reading.result.packet.files = <<>>
                    /\ reading.result.reach <= PromptSize
  BY DEF BusyReplyReadable
<1> DEFINE p == reading.piece.packet
<1>1. /\ GenerationOK(p) /\ BusyOK(p) /\ p.status = Busy
      /\ reading.piece.bytes = GenerationEncode(p).bytes
  BY DEF ExchangeInv, ReadingOK, PieceOK, WellFormed, Encode
<1>2. PICK j \in Junk :
        reading.result = PromptDecode(Memory(Padded(reading.piece.bytes), j))
  BY DEF ExchangeInv, ReadingOK
<1> HIDE DEF p
<1>3. /\ reading.result.is = "packet" /\ reading.result.packet.text = <<>>
      /\ reading.result.packet.files = <<>> /\ reading.result.reach = 24
  BY <1>1, <1>2, BusyDecoded
<1> QED  BY <1>3 DEF PromptSize

\* Blocks that are not the server's belong to a packet being made or read.
LEMMA InvFree == ExchangeInv => ClientsFreeAll
<1> SUFFICES ASSUME ExchangeInv, making.kind = "none", reading.by = "nobody",
                    NEW h \in heap
             PROVE  h.by = "server"
  BY DEF ClientsFreeAll
<1> QED  BY DEF ExchangeInv, HeapOK, HolderOK

\* Whatever the packets, the sizes of their arrays and blocks, and the memory
\* around them: a frame read whole gives back the packet it was made from, if
\* that has the magic number its decoder looks for.
THEOREM ArriveTheorem == Spec => []PacketsArrive
BY ExchangeInvariant, InvArrive, PTL

\* An encoder fills its buffer to the last byte and never goes beyond.
THEOREM FitsTheorem == Spec => []BufferFits
BY ExchangeInvariant, InvFits, PTL

\* The beginning of a frame is never a frame.
THEOREM ShorterTheorem == Spec => []NoShorterPacket
BY ExchangeInvariant, InvShorter, PTL

\* Whatever the busy reply is made in, and whatever lies behind the memory the
\* prompt client sets aside, it reads an empty prompt inside that memory.
THEOREM BusyTheorem == Spec => []BusyReplyReadable
BY ExchangeInvariant, InvBusy, PTL

\* Only the server holds on to memory.
THEOREM FreeTheorem == Spec => []ClientsFreeAll
BY ExchangeInvariant, InvFree, PTL
=============================================================================
