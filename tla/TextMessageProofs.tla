------------------------- MODULE TextMessageProofs -------------------------
(***************************************************************************)
(* A message of TextMessage is built whenever it fits its arrays, is read  *)
(* line by line, and no text makes a field longer than its array.          *)
(***************************************************************************)
EXTENDS TextMessage, NaturalSets, SequenceTheorems

-----------------------------------------------------------------------------
(* Searching a text                                                        *)

\* A token found nowhere before k and at k is found at k.
LEMMA FirstOfIs ==
  ASSUME NEW s \in Seq(Tokens), NEW t, NEW k \in 1..Len(s), s[k] = t,
         \A j \in 1..k - 1 : s[j] # t
  PROVE  FirstOf(s, t) = k
<1> DEFINE Q(i) == s[i] = t /\ \A j \in 1..i - 1 : s[j] # t
<1>1. Len(s) \in Nat
  BY LenProperties
<1>2. \A i \in 1..Len(s) : Q(i) => i = k
  <2> SUFFICES ASSUME NEW i \in 1..Len(s), Q(i) PROVE i = k
    OBVIOUS
  <2>1. ~ (i < k)
    BY <1>1
  <2>2. ~ (k < i)
    BY <1>1
  <2> QED
    BY <1>1, <2>1, <2>2
<1>3. Q(k)
  OBVIOUS
<1>4. FirstOf(s, t) = CHOOSE i \in 1..Len(s) : Q(i)
  BY DEF FirstOf
<1> HIDE DEF Q
<1> QED
  BY <1>2, <1>3, <1>4

\* A token that a text does not have is found nowhere.
LEMMA FirstOfNone ==
  ASSUME NEW s \in Seq(Tokens), NEW t, \A j \in 1..Len(s) : s[j] # t
  PROVE  FirstOf(s, t) = 0
BY DEF FirstOf

\* What is found is there, and nowhere before; what is not found is not there.
LEMMA FirstOfSome ==
  ASSUME NEW s \in Seq(Tokens), NEW t
  PROVE  \/ FirstOf(s, t) = 0 /\ \A j \in 1..Len(s) : s[j] # t
         \/ /\ FirstOf(s, t) \in 1..Len(s) /\ s[FirstOf(s, t)] = t
            /\ \A j \in 1..FirstOf(s, t) - 1 : s[j] # t
<1>0. Len(s) \in Nat
  BY LenProperties
<1>1. CASE \A j \in 1..Len(s) : s[j] # t
  BY <1>1, FirstOfNone
<1>2. CASE \E j \in 1..Len(s) : s[j] = t
  <2> DEFINE S == {j \in 1..Len(s) : s[j] = t}
  <2>1. S \in SUBSET Nat /\ S # {}
    BY <1>2
  <2>2. Min(S) \in S /\ \A y \in S : Min(S) <= y
    BY <2>1, MinOfNaturals
  <2> DEFINE k == Min(S)
  <2> HIDE DEF k
  <2>3. k \in 1..Len(s) /\ s[k] = t
    BY <2>2 DEF k
  <2>4. \A y \in S : k <= y
    BY <2>2 DEF k
  <2>5. \A j \in 1..k - 1 : s[j] # t
    BY <1>0, <2>3, <2>4
  <2>6. FirstOf(s, t) = k
    BY <2>3, <2>5, FirstOfIs
  <2> QED
    BY <2>3, <2>5, <2>6
<1> QED
  BY <1>1, <1>2

\* A text up to a token is the beginning of the text.
LEMMA UpToBegins ==
  ASSUME NEW s \in Seq(Tokens), NEW t
  PROVE  /\ UpTo(s, t) \in Seq(Tokens) /\ Len(UpTo(s, t)) <= Len(s)
         /\ \A j \in 1..Len(UpTo(s, t)) : UpTo(s, t)[j] = s[j]
<1>0. Len(s) \in Nat
  BY LenProperties
<1>1. CASE FirstOf(s, t) = 0
  BY <1>0, <1>1 DEF UpTo
<1>2. CASE FirstOf(s, t) # 0
  <2> DEFINE k == FirstOf(s, t)
  <2>1. k \in 1..Len(s)
    BY <1>2, FirstOfSome
  <2>2. UpTo(s, t) = SubSeq(s, 1, k - 1)
    BY <1>2 DEF UpTo
  <2> HIDE DEF k
  <2>3. 1 \in 1..Len(s) + 1 /\ k - 1 \in 1 - 1..Len(s)
    BY <1>0, <2>1
  <2>4. /\ SubSeq(s, 1, k - 1) \in Seq(Tokens)
        /\ Len(SubSeq(s, 1, k - 1)) = k - 1
        /\ \A j \in 1..k - 1 : SubSeq(s, 1, k - 1)[j] = s[j]
    BY <1>0, <2>1, <2>3
  <2> QED
    BY <1>0, <2>1, <2>2, <2>4
<1> QED
  BY <1>1, <1>2

\* What follows place k of a text.
LEMMA Rest ==
  ASSUME NEW s \in Seq(Tokens), NEW k \in 0..Len(s)
  PROVE  /\ SubSeq(s, k + 1, Len(s)) \in Seq(Tokens)
         /\ Len(SubSeq(s, k + 1, Len(s))) = Len(s) - k
         /\ \A j \in 1..Len(s) - k : SubSeq(s, k + 1, Len(s))[j] = s[k + j]
<1>0. Len(s) \in Nat
  BY LenProperties
<1> QED
  BY <1>0

-----------------------------------------------------------------------------
(* Reading one line                                                        *)

\* A field is shorter than its array, whatever the text.
LEMMA ExtractFits ==
  ASSUME NEW s \in Seq(Tokens), NEW f \in FieldNames
  PROVE  Extract(s, f) \in Seq(Tokens) /\ Len(Extract(s, f)) < FieldSize[f]
<1> DEFINE k == FirstOf(s, KeyOf[f])
           r == SubSeq(s, k + 1, Len(s))
           line == UpTo(r, Newline)
           n == FieldSize[f]
<1>0. Len(s) \in Nat
  BY LenProperties
<1>1. n \in Nat \ {0}
  BY FieldSizeAssumption
<1>2. k \in 0..Len(s)
  BY <1>0, FirstOfSome
<1>3. r \in Seq(Tokens)
  <2> HIDE DEF k
  <2> QED
    BY <1>2, Rest
<1>4. line \in Seq(Tokens)
  <2> HIDE DEF r
  <2> QED
    BY <1>3, UpToBegins
<1>5. Extract(s, f) = IF Len(line) >= n THEN SubSeq(line, 1, n - 1) ELSE line
  BY DEF Extract
<1> HIDE DEF line, n
<1>6. Len(line) \in Nat
  BY <1>4, LenProperties
<1>7. CASE Len(line) >= n
  <2>1. SubSeq(line, 1, n - 1) \in Seq(Tokens) /\ Len(SubSeq(line, 1, n - 1)) = n - 1
    BY <1>1, <1>4, <1>6, <1>7
  <2> QED
    BY <1>1, <1>5, <1>7, <2>1 DEF n
<1>8. CASE Len(line) < n
  BY <1>1, <1>4, <1>5, <1>6, <1>8 DEF n
<1> QED
  BY <1>1, <1>6, <1>7, <1>8

\* Text v followed by a newline, wherever it stands, ends where v has its first
\* newline, or with v.
LEMMA UpToLine ==
  ASSUME NEW r \in Seq(Tokens), NEW v \in Seq(Tokens), Len(v) + 1 <= Len(r),
         \A j \in 1..Len(v) : r[j] = v[j], r[Len(v) + 1] = Newline
  PROVE  UpTo(r, Newline) = UpTo(v, Newline)
<1>0. Len(v) \in Nat /\ Len(r) \in Nat
  BY LenProperties
<1>1. CASE FirstOf(v, Newline) = 0
  <2>1. \A j \in 1..Len(v) : v[j] # Newline
    BY <1>1, FirstOfSome
  <2>2. \A j \in 1..(Len(v) + 1) - 1 : r[j] # Newline
    BY <1>0, <2>1
  <2>3. Len(v) + 1 \in 1..Len(r)
    BY <1>0
  <2>4. FirstOf(r, Newline) = Len(v) + 1
    BY <2>2, <2>3, FirstOfIs
  <2>5. UpTo(r, Newline) = SubSeq(r, 1, Len(v))
    BY <1>0, <2>4 DEF UpTo
  <2>6. SubSeq(r, 1, Len(v)) \in Seq(Tokens) /\ Len(SubSeq(r, 1, Len(v))) = Len(v)
    BY <1>0
  <2>7. \A j \in 1..Len(v) : SubSeq(r, 1, Len(v))[j] = v[j]
    BY <1>0
  <2>8. SubSeq(r, 1, Len(v)) = v
    BY <2>6, <2>7, SeqEqual
  <2>9. UpTo(v, Newline) = v
    BY <1>1 DEF UpTo
  <2> QED
    BY <2>5, <2>8, <2>9
<1>2. CASE FirstOf(v, Newline) # 0
  <2> DEFINE k == FirstOf(v, Newline)
  <2>1. /\ k \in 1..Len(v) /\ v[k] = Newline
        /\ \A j \in 1..k - 1 : v[j] # Newline
    BY <1>2, FirstOfSome
  <2>2. UpTo(v, Newline) = SubSeq(v, 1, k - 1)
    BY <1>2 DEF UpTo
  <2> HIDE DEF k
  <2>3. k \in 1..Len(r) /\ r[k] = Newline /\ \A j \in 1..k - 1 : r[j] # Newline
    BY <1>0, <2>1
  <2>4. FirstOf(r, Newline) = k
    BY <2>3, FirstOfIs
  <2>5. UpTo(r, Newline) = SubSeq(r, 1, k - 1)
    BY <2>1, <2>4 DEF UpTo
  <2>6. /\ SubSeq(r, 1, k - 1) \in Seq(Tokens) /\ Len(SubSeq(r, 1, k - 1)) = k - 1
        /\ SubSeq(v, 1, k - 1) \in Seq(Tokens) /\ Len(SubSeq(v, 1, k - 1)) = k - 1
    BY <1>0, <2>1
  <2>7. \A j \in 1..k - 1 : SubSeq(r, 1, k - 1)[j] = SubSeq(v, 1, k - 1)[j]
    BY <1>0, <2>1
  <2>8. SubSeq(r, 1, k - 1) = SubSeq(v, 1, k - 1)
    BY <2>6, <2>7, SeqEqual
  <2> QED
    BY <2>2, <2>5, <2>8
<1> QED
  BY <1>1, <1>2

\* The first place of a field's key is at k and its line is v: what is read is
\* v, up to the first newline in it.
LEMMA ExtractLine ==
  ASSUME NEW s \in Seq(Tokens), NEW f \in FieldNames, NEW v \in Seq(Tokens),
         Len(v) < FieldSize[f], NEW k \in 1..Len(s), s[k] = KeyOf[f],
         \A j \in 1..k - 1 : s[j] # KeyOf[f],
         k + Len(v) + 1 <= Len(s),
         \A j \in 1..Len(v) : s[k + j] = v[j], s[k + Len(v) + 1] = Newline
  PROVE  Extract(s, f) = UpTo(v, Newline)
<1> DEFINE r == SubSeq(s, k + 1, Len(s))
           n == FieldSize[f]
<1>0. Len(v) \in Nat /\ Len(s) \in Nat /\ n \in Nat
  BY LenProperties, FieldSizeAssumption
<1>1. FirstOf(s, KeyOf[f]) = k
  BY FirstOfIs
<1>2. k \in 0..Len(s)
  BY <1>0
<1>3. /\ r \in Seq(Tokens) /\ Len(r) = Len(s) - k
      /\ \A j \in 1..Len(s) - k : r[j] = s[k + j]
  BY <1>2, Rest
<1>4. Extract(s, f) = IF Len(UpTo(r, Newline)) >= n
                      THEN SubSeq(UpTo(r, Newline), 1, n - 1) ELSE UpTo(r, Newline)
  BY <1>1 DEF Extract
<1> HIDE DEF r
<1>5. Len(v) + 1 <= Len(r)
  BY <1>0, <1>3
<1>6. \A j \in 1..Len(v) : r[j] = v[j]
  BY <1>0, <1>3
<1>7. r[Len(v) + 1] = s[k + (Len(v) + 1)]
  BY <1>0, <1>3
<1>8. k + (Len(v) + 1) = k + Len(v) + 1
  BY <1>0
<1>9. UpTo(r, Newline) = UpTo(v, Newline)
  BY <1>3, <1>5, <1>6, <1>7, <1>8, UpToLine
<1>10. UpTo(v, Newline) \in Seq(Tokens) /\ Len(UpTo(v, Newline)) <= Len(v)
  BY UpToBegins
<1>11. Len(UpTo(v, Newline)) \in Nat
  BY <1>10, LenProperties
<1>12. ~ (Len(UpTo(v, Newline)) >= n)
  BY <1>0, <1>10, <1>11
<1> QED
  BY <1>4, <1>9, <1>12

-----------------------------------------------------------------------------
(* The text of a message                                                   *)

\* What fits an array is a text of tokens without a NUL, shorter than the array.
LEMMA FieldString ==
  ASSUME NEW f \in FieldNames, NEW v \in FieldStrings(f)
  PROVE  /\ v \in Seq(Tokens) /\ Len(v) \in Nat /\ Len(v) < FieldSize[f]
         /\ \A j \in 1..Len(v) : v[j] # Nul
<1>1. PICK n \in 0..FieldSize[f] - 1 : v \in [1..n -> Tokens \ {Nul}]
  BY DEF FieldStrings
<1>2. FieldSize[f] \in Nat \ {0}
  BY FieldSizeAssumption
<1>3. n \in Nat /\ n < FieldSize[f]
  BY <1>2
<1>4. v \in Seq(Tokens \ {Nul}) /\ Len(v) = n
  BY <1>1, <1>3
<1>5. v \in [1..n -> Tokens]
  BY <1>1
<1>6. v \in Seq(Tokens)
  BY <1>3, <1>5
<1> QED
  BY <1>1, <1>3, <1>4, <1>6

\* The keys are tokens, and neither a newline nor a NUL.
LEMMA KeysDiffer ==
  /\ KeyOf["prompt"] = "prompt=" /\ KeyOf["instruction"] = "instruction="
  /\ KeyOf["role"] = "role="
  /\ \A f \in FieldNames : KeyOf[f] \in Tokens /\ KeyOf[f] # Newline /\ KeyOf[f] # Nul
  /\ Newline \in Tokens /\ Newline # Nul
BY DEF KeyOf, FieldNames, Tokens, Keys, Newline, Nul

\* A line is a key, a value and a newline.
LEMMA LineIs ==
  ASSUME NEW f \in FieldNames, NEW v \in Seq(Tokens)
  PROVE  /\ Line(f, v) \in Seq(Tokens) /\ Len(Line(f, v)) = Len(v) + 2
         /\ Line(f, v)[1] = KeyOf[f] /\ Line(f, v)[Len(v) + 2] = Newline
         /\ \A j \in 1..Len(v) : Line(f, v)[1 + j] = v[j]
<1> DEFINE K == KeyOf[f]
<1>0. Len(v) \in Nat
  BY LenProperties
<1>1. K \in Tokens /\ Newline \in Tokens
  BY KeysDiffer
<1>2. Line(f, v) = <<K>> \o v \o <<Newline>>
  BY DEF Line
<1> HIDE DEF K, Newline
<1>3. <<K>> \in Seq(Tokens) /\ Len(<<K>>) = 1 /\ <<K>>[1] = K
  BY <1>1
<1>4. <<Newline>> \in Seq(Tokens) /\ Len(<<Newline>>) = 1 /\ <<Newline>>[1] = Newline
  BY <1>1
<1> DEFINE h == <<K>> \o v
<1>5. /\ h \in Seq(Tokens) /\ Len(h) = Len(v) + 1 /\ h[1] = K
      /\ \A j \in 1..Len(v) : h[1 + j] = v[j]
  BY <1>0, <1>3
<1> HIDE DEF h
<1> DEFINE l == h \o <<Newline>>
<1>6. /\ l \in Seq(Tokens) /\ Len(l) = Len(v) + 2
      /\ \A j \in 1..Len(v) + 1 : l[j] = h[j]
      /\ l[Len(v) + 2] = Newline
  BY <1>0, <1>4, <1>5
<1>7. Line(f, v) = l
  BY <1>2 DEF h
<1> HIDE DEF l
<1>8. l[1] = K
  BY <1>0, <1>5, <1>6
<1>9. \A j \in 1..Len(v) : l[1 + j] = v[j]
  BY <1>0, <1>5, <1>6
<1> QED
  BY <1>6, <1>7, <1>8, <1>9 DEF K

\* Line f with value v stands in text s from place k.
LineAt(s, k, f, v) ==
  /\ s[k] = KeyOf[f] /\ s[k + Len(v) + 1] = Newline
  /\ \A j \in 1..Len(v) : s[k + j] = v[j]

\* A line in front of a text stands at its beginning, and moves the text.
LEMMA LineFirst ==
  ASSUME NEW f \in FieldNames, NEW v \in Seq(Tokens), NEW t \in Seq(Tokens)
  PROVE  LET s == Line(f, v) \o t
         IN /\ s \in Seq(Tokens) /\ Len(s) = Len(v) + 2 + Len(t)
            /\ LineAt(s, 1, f, v)
            /\ \A j \in 1..Len(t) : s[Len(v) + 2 + j] = t[j]
<1> DEFINE l == Line(f, v)
           s == l \o t
<1>0. Len(v) \in Nat /\ Len(t) \in Nat
  BY LenProperties
<1>1. /\ l \in Seq(Tokens) /\ Len(l) = Len(v) + 2
      /\ l[1] = KeyOf[f] /\ l[Len(v) + 2] = Newline
      /\ \A j \in 1..Len(v) : l[1 + j] = v[j]
  BY LineIs
<1> HIDE DEF l
<1>2. /\ s \in Seq(Tokens) /\ Len(s) = Len(l) + Len(t)
      /\ \A j \in 1..Len(l) : s[j] = l[j]
      /\ \A j \in 1..Len(t) : s[Len(l) + j] = t[j]
  <2>1. l \in Seq(Tokens) /\ t \in Seq(Tokens)
    BY <1>1
  <2> HIDE DEF Tokens
  <2> QED
    BY <2>1
<1> HIDE DEF s
<1>3. s[1] = KeyOf[f] /\ s[Len(v) + 2] = Newline
  <2>1. 1 \in 1..Len(l) /\ Len(v) + 2 \in 1..Len(l)
    BY <1>0, <1>1
  <2> QED
    BY <1>1, <1>2, <2>1
<1>4. ASSUME NEW j \in 1..Len(v) PROVE s[1 + j] = v[j]
  <2>1. 1 + j \in 1..Len(l)
    BY <1>0, <1>1
  <2> QED
    BY <1>1, <1>2, <2>1
<1>5. 1 + Len(v) + 1 = Len(v) + 2
  BY <1>0
<1>6. LineAt(s, 1, f, v)
  BY <1>3, <1>4, <1>5 DEF LineAt
<1> QED
  BY <1>1, <1>2, <1>6 DEF l, s

\* A line of a text stands further down when something is put before it.
LEMMA LineMoves ==
  ASSUME NEW f \in FieldNames, NEW v \in Seq(Tokens), NEW t \in Seq(Tokens),
         NEW s \in Seq(Tokens), NEW n \in Nat, NEW k \in 1..Len(t),
         k + Len(v) + 1 <= Len(t), LineAt(t, k, f, v),
         \A j \in 1..Len(t) : s[n + j] = t[j]
  PROVE  LineAt(s, n + k, f, v)
<1>0. Len(v) \in Nat /\ Len(t) \in Nat
  BY LenProperties
<1>1. s[n + k] = KeyOf[f]
  BY DEF LineAt
<1>2. k + Len(v) + 1 \in 1..Len(t)
  BY <1>0
<1>3. s[n + (k + Len(v) + 1)] = Newline
  BY <1>2 DEF LineAt
<1>4. n + k + Len(v) + 1 = n + (k + Len(v) + 1)
  BY <1>0
<1>5. ASSUME NEW j \in 1..Len(v) PROVE s[n + k + j] = v[j]
  <2>1. k + j \in 1..Len(t) /\ n + k + j = n + (k + j)
    BY <1>0
  <2>2. s[n + (k + j)] = t[k + j]
    BY <2>1
  <2> QED
    BY <2>1, <2>2 DEF LineAt
<1> QED
  BY <1>1, <1>3, <1>4, <1>5 DEF LineAt

\* The three lines of a message, and their places.
LEMMA Layout ==
  ASSUME NEW m, \A f \in FieldNames : m[f] \in Seq(Tokens)
  PROVE  LET a == Len(m["prompt"])
             b == Len(m["instruction"])
             c == Len(m["role"])
             s == Lines(m)
         IN /\ s \in Seq(Tokens) /\ Len(s) = a + b + c + 6
            /\ LineAt(s, 1, "prompt", m["prompt"])
            /\ LineAt(s, a + 3, "instruction", m["instruction"])
            /\ LineAt(s, a + b + 5, "role", m["role"])
<1> DEFINE u == m["prompt"]
           v == m["instruction"]
           w == m["role"]
           a == Len(u)
           b == Len(v)
           c == Len(w)
           r == Line("role", w)
           t == Line("instruction", v) \o r
           s == Line("prompt", u) \o t
<1>0. /\ u \in Seq(Tokens) /\ v \in Seq(Tokens) /\ w \in Seq(Tokens)
      /\ "prompt" \in FieldNames /\ "instruction" \in FieldNames /\ "role" \in FieldNames
  BY DEF FieldNames
<1>1. s = Lines(m)
  BY DEF Lines
<1> HIDE DEF u, v, w
<1>2. a \in Nat /\ b \in Nat /\ c \in Nat
  BY <1>0, LenProperties
<1>3. /\ r \in Seq(Tokens) /\ Len(r) = c + 2
      /\ r[1] = KeyOf["role"] /\ r[c + 2] = Newline
      /\ \A j \in 1..c : r[1 + j] = w[j]
  BY <1>0, LineIs
<1>4. LineAt(r, 1, "role", w)
  <2>1. 1 + c + 1 = c + 2
    BY <1>2
  <2> QED
    BY <1>3, <2>1 DEF LineAt
<1> HIDE DEF r
<1>5. /\ t \in Seq(Tokens) /\ Len(t) = b + 2 + Len(r)
      /\ LineAt(t, 1, "instruction", v)
      /\ \A j \in 1..Len(r) : t[b + 2 + j] = r[j]
  <2>1. v \in Seq(Tokens) /\ "instruction" \in FieldNames /\ r \in Seq(Tokens)
    BY <1>0, <1>3
  <2> QED
    BY <2>1, LineFirst
<1> HIDE DEF t
<1>6. /\ s \in Seq(Tokens) /\ Len(s) = a + 2 + Len(t)
      /\ LineAt(s, 1, "prompt", u)
      /\ \A j \in 1..Len(t) : s[a + 2 + j] = t[j]
  <2>1. u \in Seq(Tokens) /\ "prompt" \in FieldNames /\ t \in Seq(Tokens)
    BY <1>0, <1>5
  <2> QED
    BY <2>1, LineFirst
<1> HIDE DEF s
<1>7. LineAt(t, (b + 2) + 1, "role", w)
  <2>1. 1 \in 1..Len(r) /\ 1 + c + 1 <= Len(r) /\ b + 2 \in Nat
    BY <1>2, <1>3
  <2> QED
    BY <1>0, <1>3, <1>4, <1>5, <2>1, LineMoves
<1>8. LineAt(s, (a + 2) + 1, "instruction", v)
  <2>1. 1 \in 1..Len(t) /\ 1 + b + 1 <= Len(t) /\ a + 2 \in Nat
    BY <1>2, <1>3, <1>5
  <2> QED
    BY <1>0, <1>5, <1>6, <2>1, LineMoves
<1>9. LineAt(s, (a + 2) + ((b + 2) + 1), "role", w)
  <2>1. /\ (b + 2) + 1 \in 1..Len(t) /\ (b + 2) + 1 + c + 1 <= Len(t)
        /\ a + 2 \in Nat
    BY <1>2, <1>3, <1>5
  <2> QED
    BY <1>0, <1>5, <1>6, <1>7, <2>1, LineMoves
<1>10. (a + 2) + 1 = a + 3 /\ (a + 2) + ((b + 2) + 1) = a + b + 5
  BY <1>2
<1>11. Len(s) = a + b + c + 6
  BY <1>2, <1>3, <1>5, <1>6
<1> QED
  BY <1>1, <1>6, <1>8, <1>9, <1>10, <1>11 DEF u, v, w

\* Every place of a line is its key, its newline or a place of its value.
LEMMA OfLine ==
  ASSUME NEW s, NEW k \in Nat, NEW f \in FieldNames, NEW v \in Seq(Tokens),
         LineAt(s, k, f, v), NEW j \in k..k + Len(v) + 1
  PROVE  \/ s[j] = KeyOf[f] \/ s[j] = Newline
         \/ \E i \in 1..Len(v) : s[j] = v[i]
<1>0. Len(v) \in Nat
  BY LenProperties
<1>1. j = k \/ j = k + Len(v) + 1 \/ j - k \in 1..Len(v)
  BY <1>0
<1>2. j = k + (j - k)
  BY <1>0
<1>3. ASSUME j - k \in 1..Len(v) PROVE s[j] = v[j - k]
  BY <1>2, <1>3 DEF LineAt
<1> QED
  BY <1>1, <1>3 DEF LineAt

\* A token that is neither the key, nor the newline, nor in the value of a line
\* is not in the line.
LEMMA NotInLine ==
  ASSUME NEW s, NEW k \in Nat, NEW f \in FieldNames, NEW v \in Seq(Tokens),
         LineAt(s, k, f, v), NEW t, KeyOf[f] # t, Newline # t,
         \A i \in 1..Len(v) : v[i] # t
  PROVE  \A j \in k..k + Len(v) + 1 : s[j] # t
BY OfLine

\* The message fits its arrays.
Fits(m) == \A f \in FieldNames : m[f] \in FieldStrings(f)

\* The facts the next lemmas share: the three values are texts without NULs,
\* and their lines stand one after the other.
LEMMA MessageIs ==
  ASSUME NEW m, Fits(m)
  PROVE  LET a == Len(m["prompt"])
             b == Len(m["instruction"])
             c == Len(m["role"])
             s == Lines(m)
         IN /\ a \in Nat /\ b \in Nat /\ c \in Nat
            /\ \A f \in FieldNames :
                 /\ m[f] \in Seq(Tokens) /\ Len(m[f]) < FieldSize[f]
                 /\ \A j \in 1..Len(m[f]) : m[f][j] # Nul
            /\ s \in Seq(Tokens) /\ Len(s) = a + b + c + 6
            /\ LineAt(s, 1, "prompt", m["prompt"])
            /\ LineAt(s, a + 3, "instruction", m["instruction"])
            /\ LineAt(s, a + b + 5, "role", m["role"])
<1>1. \A f \in FieldNames :
        /\ m[f] \in Seq(Tokens) /\ Len(m[f]) \in Nat /\ Len(m[f]) < FieldSize[f]
        /\ \A j \in 1..Len(m[f]) : m[f][j] # Nul
  BY FieldString DEF Fits
<1>2. "prompt" \in FieldNames /\ "instruction" \in FieldNames /\ "role" \in FieldNames
  BY DEF FieldNames
<1> QED
  BY <1>1, <1>2, Layout

\* A message that fits its arrays fits the buffers, is no shorter to a reader of
\* C strings, and has all three keys.
LEMMA LinesWhole ==
  ASSUME NEW m, Fits(m)
  PROVE  /\ Lines(m) \in Seq(Tokens)
         /\ Len(Lines(m)) < MessageSize /\ Len(Lines(m)) < LocalSize
         /\ Terminated(Lines(m)) = Lines(m)
         /\ \A f \in FieldNames : FirstOf(Lines(m), KeyOf[f]) # 0
<1> DEFINE u == m["prompt"]
           v == m["instruction"]
           w == m["role"]
           a == Len(u)
           b == Len(v)
           c == Len(w)
           s == Lines(m)
<1>0. "prompt" \in FieldNames /\ "instruction" \in FieldNames /\ "role" \in FieldNames
  BY DEF FieldNames
<1>1. /\ a \in Nat /\ b \in Nat /\ c \in Nat
      /\ u \in Seq(Tokens) /\ v \in Seq(Tokens) /\ w \in Seq(Tokens)
      /\ a < FieldSize["prompt"] /\ b < FieldSize["instruction"]
      /\ c < FieldSize["role"]
      /\ \A j \in 1..a : u[j] # Nul
      /\ \A j \in 1..b : v[j] # Nul
      /\ \A j \in 1..c : w[j] # Nul
  BY <1>0, MessageIs
<1>2. /\ s \in Seq(Tokens) /\ Len(s) = a + b + c + 6
      /\ LineAt(s, 1, "prompt", u)
      /\ LineAt(s, a + 3, "instruction", v)
      /\ LineAt(s, a + b + 5, "role", w)
  BY MessageIs
<1> HIDE DEF u, v, w, s
<1>3. Len(s) < MessageSize /\ Len(s) < LocalSize
  <2>1. /\ FieldSize["prompt"] \in Nat /\ FieldSize["instruction"] \in Nat
        /\ FieldSize["role"] \in Nat
    BY <1>0, FieldSizeAssumption
  <2>2. /\ MessageSize \in Nat /\ LocalSize \in Nat /\ MessageSize <= LocalSize
        /\ FieldSize["prompt"] + FieldSize["instruction"] + FieldSize["role"] + 3
             < MessageSize
    BY BuffersAssumption
  <2>3. /\ a \in Nat /\ b \in Nat /\ c \in Nat
        /\ a < FieldSize["prompt"] /\ b < FieldSize["instruction"]
        /\ c < FieldSize["role"]
    BY <1>1
  <2>4. a + b + c + 6 < MessageSize
    BY <2>1, <2>2, <2>3
  <2> QED
    BY <1>2, <2>2, <2>3, <2>4
<1>4. ASSUME NEW j \in 1..Len(s) PROVE s[j] # Nul
  <2>1. KeyOf["prompt"] # Nul /\ KeyOf["instruction"] # Nul /\ KeyOf["role"] # Nul
    BY <1>0, KeysDiffer
  <2>2. Newline # Nul
    BY KeysDiffer
  <2>3. 1 \in Nat /\ a + 3 \in Nat /\ a + b + 5 \in Nat
    BY <1>1
  <2>4. \A i \in 1..1 + a + 1 : s[i] # Nul
    BY <1>0, <1>1, <1>2, <2>1, <2>2, <2>3, NotInLine
  <2>5. \A i \in a + 3..(a + 3) + b + 1 : s[i] # Nul
    BY <1>0, <1>1, <1>2, <2>1, <2>2, <2>3, NotInLine
  <2>6. \A i \in a + b + 5..(a + b + 5) + c + 1 : s[i] # Nul
    BY <1>0, <1>1, <1>2, <2>1, <2>2, <2>3, NotInLine
  <2>7. a \in Nat /\ b \in Nat /\ c \in Nat /\ Len(s) = a + b + c + 6
    BY <1>1, <1>2
  <2>8. \/ j \in 1..1 + a + 1 \/ j \in a + 3..(a + 3) + b + 1
        \/ j \in a + b + 5..(a + b + 5) + c + 1
    BY <2>7
  <2> QED
    BY <2>4, <2>5, <2>6, <2>8
<1>5. Terminated(s) = s
  BY <1>2, <1>4, FirstOfNone DEF Terminated, UpTo
<1>6. 1 \in 1..Len(s) /\ a + 3 \in 1..Len(s) /\ a + b + 5 \in 1..Len(s)
  BY <1>1, <1>2
<1>7. s[1] = KeyOf["prompt"] /\ s[a + 3] = KeyOf["instruction"] /\ s[a + b + 5] = KeyOf["role"]
  BY <1>2 DEF LineAt
<1>8. \A f \in FieldNames : \E j \in 1..Len(s) : s[j] = KeyOf[f]
  BY <1>6, <1>7 DEF FieldNames
<1>9. \A f \in FieldNames : FirstOf(s, KeyOf[f]) # 0
  BY <1>2, <1>8, FirstOfSome
<1> QED
  BY <1>2, <1>3, <1>5, <1>9 DEF s

\* The prompt of a message is read up to its first newline.
LEMMA PromptRead ==
  ASSUME NEW m, Fits(m)
  PROVE  Extract(Lines(m), "prompt") = UpTo(m["prompt"], Newline)
<1> DEFINE u == m["prompt"]
           a == Len(u)
           s == Lines(m)
<1>0. "prompt" \in FieldNames
  BY DEF FieldNames
<1>1. a \in Nat /\ u \in Seq(Tokens) /\ a < FieldSize["prompt"]
  BY <1>0, MessageIs
<1>2. s \in Seq(Tokens) /\ a + 2 <= Len(s) /\ LineAt(s, 1, "prompt", u)
  <2> DEFINE b == Len(m["instruction"])
             c == Len(m["role"])
  <2>1. /\ s \in Seq(Tokens) /\ Len(s) = a + b + c + 6 /\ b \in Nat /\ c \in Nat
        /\ LineAt(s, 1, "prompt", u)
    BY MessageIs
  <2> HIDE DEF u, s, b, c
  <2> QED
    BY <1>1, <2>1
<1> HIDE DEF u, s
<1>3. Len(s) \in Nat
  BY <1>2, LenProperties
<1>4. 1 \in 1..Len(s) /\ 1 + a + 1 <= Len(s) /\ \A j \in 1..1 - 1 : FALSE
  BY <1>1, <1>2, <1>3
<1> QED
  BY <1>0, <1>1, <1>2, <1>4, ExtractLine DEF LineAt, u, s

\* A text that has no newline is read whole.
LEMMA UpToWhole ==
  ASSUME NEW v, FirstOf(v, Newline) = 0
  PROVE  UpTo(v, Newline) = v
BY DEF UpTo

\* A clean message is read whole: the keys of the later fields are first found
\* at their own lines.
LEMMA CleanRead ==
  ASSUME NEW m, Fits(m), Clean(m), NEW f \in FieldNames
  PROVE  Extract(Lines(m), f) = m[f]
<1> DEFINE u == m["prompt"]
           v == m["instruction"]
           w == m["role"]
           a == Len(u)
           b == Len(v)
           c == Len(w)
           s == Lines(m)
<1>0. "prompt" \in FieldNames /\ "instruction" \in FieldNames /\ "role" \in FieldNames
  BY DEF FieldNames
<1>1. /\ a \in Nat /\ b \in Nat /\ c \in Nat
      /\ u \in Seq(Tokens) /\ v \in Seq(Tokens) /\ w \in Seq(Tokens)
      /\ b < FieldSize["instruction"] /\ c < FieldSize["role"]
  BY <1>0, MessageIs
<1>2. /\ s \in Seq(Tokens) /\ Len(s) = a + b + c + 6
      /\ LineAt(s, 1, "prompt", u)
      /\ LineAt(s, a + 3, "instruction", v)
      /\ LineAt(s, a + b + 5, "role", w)
  BY MessageIs
<1>3. /\ FirstOf(u, Newline) = 0 /\ FirstOf(v, Newline) = 0 /\ FirstOf(w, Newline) = 0
      /\ FirstOf(u, KeyOf["instruction"]) = 0 /\ FirstOf(u, KeyOf["role"]) = 0
      /\ FirstOf(v, KeyOf["role"]) = 0
  BY <1>0, KeysDiffer DEF Clean
<1>4. /\ \A j \in 1..a : u[j] # KeyOf["instruction"] /\ u[j] # KeyOf["role"]
      /\ \A j \in 1..b : v[j] # KeyOf["role"]
  <2> HIDE DEF u, v, w
  <2> QED
    BY <1>1, <1>3, FirstOfSome
<1>5. /\ KeyOf["prompt"] # KeyOf["instruction"] /\ KeyOf["prompt"] # KeyOf["role"]
      /\ KeyOf["instruction"] # KeyOf["role"]
      /\ KeyOf["instruction"] # Newline /\ KeyOf["role"] # Newline
  BY <1>0, KeysDiffer
<1>6. CASE f = "prompt"
  BY <1>3, <1>6, PromptRead, UpToWhole
<1>7. CASE f = "instruction"
  <2> HIDE DEF u, v, w, s
  <2>1. /\ a + 3 \in 1..Len(s) /\ (a + 3) + b + 1 <= Len(s)
    BY <1>1, <1>2
  <2>2. \A j \in 1..1 + a + 1 : s[j] # KeyOf["instruction"]
    BY <1>0, <1>1, <1>2, <1>4, <1>5, NotInLine
  <2>3. \A j \in 1..(a + 3) - 1 : s[j] # KeyOf["instruction"]
    BY <1>1, <2>2
  <2>4. Extract(s, "instruction") = UpTo(v, Newline)
    BY <1>0, <1>1, <1>2, <2>1, <2>3, ExtractLine DEF LineAt
  <2> QED
    BY <1>3, <1>7, <2>4, UpToWhole DEF v, s
<1>8. CASE f = "role"
  <2> HIDE DEF u, v, w, s
  <2>1. /\ a + b + 5 \in 1..Len(s) /\ (a + b + 5) + c + 1 <= Len(s)
    BY <1>1, <1>2
  <2>2. \A j \in 1..1 + a + 1 : s[j] # KeyOf["role"]
    BY <1>0, <1>1, <1>2, <1>4, <1>5, NotInLine
  <2>3. a + 3 \in Nat
    BY <1>1
  <2>4. \A j \in a + 3..(a + 3) + b + 1 : s[j] # KeyOf["role"]
    BY <1>0, <1>1, <1>2, <1>4, <1>5, <2>3, NotInLine
  <2>5. \A j \in 1..(a + b + 5) - 1 : j \in 1..1 + a + 1 \/ j \in a + 3..(a + 3) + b + 1
    BY <1>1
  <2>6. \A j \in 1..(a + b + 5) - 1 : s[j] # KeyOf["role"]
    BY <2>2, <2>4, <2>5
  <2>7. Extract(s, "role") = UpTo(w, Newline)
    BY <1>0, <1>1, <1>2, <2>1, <2>6, ExtractLine DEF LineAt
  <2> QED
    BY <1>3, <1>8, <2>7, UpToWhole DEF w, s
<1> QED
  BY <1>6, <1>7, <1>8 DEF FieldNames

-----------------------------------------------------------------------------
(* The invariant                                                           *)

\* The values of an empty message fit.
LEMMA EmptyFits == \A f \in FieldNames : Empty[f] \in FieldStrings(f)
<1> SUFFICES ASSUME NEW f \in FieldNames PROVE <<>> \in FieldStrings(f)
  BY DEF Empty
<1>1. 0 \in 0..FieldSize[f] - 1
  BY FieldSizeAssumption
<1>2. <<>> \in [1..0 -> Tokens \ {Nul}]
  OBVIOUS
<1> QED
  BY <1>1, <1>2 DEF FieldStrings

\* A client begins with nothing filled in, sent or parsed.
LEMMA TextInitially == TextInit => TextInv
<1> SUFFICES ASSUME TextInit PROVE TextInv
  OBVIOUS
<1>1. message = Empty /\ parsed = Empty /\ returned = "none" /\ own = FALSE
  BY DEF TextInit, Empty
<1>2. Empty \in [FieldNames -> Seq(Tokens)]
  BY DEF Empty
<1>3. \A f \in FieldNames : Empty[f] \in FieldStrings(f)
  BY EmptyFits
<1>4. MessageOK
  BY <1>1, <1>2, <1>3 DEF MessageOK
<1>5. PayloadOK
  BY <1>1 DEF PayloadOK
<1>6. \A f \in FieldNames : Len(Empty[f]) < FieldSize[f]
  BY EmptyFits, FieldString
<1>7. ParsedOK
  BY <1>1, <1>2, <1>6 DEF ParsedOK, FieldsFit, Answered
<1> QED
  BY <1>4, <1>5, <1>7 DEF TextInv

\* Filling in a field.
LEMMA FillInKeeps ==
  ASSUME TextInv, NEW f \in FieldNames, FillIn(f)
  PROVE  TextInv'
<1>1. PICK v \in FieldStrings(f) : message' = [message EXCEPT ![f] = v]
  BY DEF FillIn
<1>2. v \in Seq(Tokens)
  BY FieldString
<1>3. MessageOK'
  BY <1>1, <1>2 DEF TextInv, MessageOK
<1>4. returned = "none" /\ returned' = "none" /\ own' = own /\ parsed' = parsed
  BY DEF FillIn
<1>5. PayloadOK'
  BY <1>4 DEF TextInv, PayloadOK
<1>6. ParsedOK'
  BY <1>4 DEF TextInv, ParsedOK, FieldsFit, Answered
<1> QED
  BY <1>3, <1>5, <1>6 DEF TextInv

\* Building the text: it always fits.
LEMMA BuildMessageKeeps ==
  ASSUME TextInv, BuildMessage
  PROVE  TextInv'
<1>1. Fits(message)
  BY DEF TextInv, MessageOK, Fits
<1>2. Lines(message) \in Seq(Tokens) /\ Len(Lines(message)) < MessageSize
  BY <1>1, LinesWhole
<1>3. Len(Lines(message)) \in Nat /\ MessageSize \in Nat
  BY <1>2, LenProperties, BuffersAssumption
<1>4. ~ (Len(Lines(message)) >= MessageSize)
  BY <1>2, <1>3
<1>5. /\ returned' = "ok" /\ payload' = Lines(message) /\ own' = TRUE
      /\ message' = message /\ parsed' = parsed
  BY <1>4 DEF BuildMessage
<1>6. MessageOK'
  BY <1>5 DEF TextInv, MessageOK
<1>7. PayloadOK'
  BY <1>2, <1>5 DEF PayloadOK
<1>8. ParsedOK'
  BY <1>5 DEF TextInv, ParsedOK, FieldsFit, Answered
<1> QED
  BY <1>6, <1>7, <1>8 DEF TextInv

\* A text of another program arrives.
LEMMA ReplyKeeps ==
  ASSUME TextInv, NEW r \in Replies, Reply(r)
  PROVE  TextInv'
<1>1. /\ message' = message /\ parsed' = parsed /\ message = Empty
      /\ payload' = r /\ own' = FALSE /\ returned' = "ok"
  BY DEF Reply
<1>2. r \in Seq(Tokens)
  BY RepliesAssumption
<1>3. MessageOK'
  BY <1>1 DEF TextInv, MessageOK
<1>4. PayloadOK'
  BY <1>1, <1>2 DEF PayloadOK, Empty
<1>5. ParsedOK'
  BY <1>1 DEF TextInv, ParsedOK, FieldsFit, Answered
<1> QED
  BY <1>3, <1>4, <1>5 DEF TextInv

\* Parsing: the client's own text gives every field; any text gives fields that
\* fit.
LEMMA ParseMessageKeeps ==
  ASSUME TextInv, ParseMessage
  PROVE  TextInv'
<1> DEFINE s == Terminated(payload)
           missing == {i \in 1..3 : FirstOf(s, KeyOf[Fields[i]]) = 0}
           Read(f) == \E i \in 1..3 : Fields[i] = f /\ \A k \in missing : i < k
           given == [f \in FieldNames |-> IF Read(f) THEN Extract(s, f) ELSE parsed[f]]
<1>1. /\ returned = "ok" /\ message' = message /\ own' = own
      /\ \/ Len(payload) >= LocalSize /\ returned' = "failed" /\ parsed' = parsed
         \/ /\ ~ (Len(payload) >= LocalSize) /\ parsed' = given
            /\ returned' = IF missing = {} THEN "parsed" ELSE "failed"
  BY DEF ParseMessage
<1>2. payload \in Seq(Tokens) /\ (own => payload = Lines(message))
  BY <1>1 DEF TextInv, PayloadOK
<1>3. s \in Seq(Tokens)
  BY <1>2, UpToBegins DEF Terminated
<1>4. Fits(message)
  BY DEF TextInv, MessageOK, Fits
<1>5. parsed \in [FieldNames -> Seq(Tokens)] /\ FieldsFit
  BY DEF TextInv, ParsedOK
<1>6. \A f \in FieldNames : Extract(s, f) \in Seq(Tokens) /\ Len(Extract(s, f)) < FieldSize[f]
  BY <1>3, ExtractFits
<1>7. ASSUME own
      PROVE  /\ returned' = "parsed"
             /\ \A f \in FieldNames : parsed'[f] = Extract(Lines(message), f)
  <2>1. payload = Lines(message)
    BY <1>2, <1>7
  <2>2. /\ Lines(message) \in Seq(Tokens)
        /\ Len(Lines(message)) < LocalSize /\ Terminated(Lines(message)) = Lines(message)
        /\ \A f \in FieldNames : FirstOf(Lines(message), KeyOf[f]) # 0
    BY <1>4, LinesWhole
  <2>3. Len(Lines(message)) \in Nat /\ LocalSize \in Nat
    BY <2>2, LenProperties, BuffersAssumption
  <2>4. ~ (Len(payload) >= LocalSize)
    BY <2>1, <2>2, <2>3
  <2>5. s = Lines(message)
    BY <2>1, <2>2
  <2>6. \A i \in 1..3 : Fields[i] \in FieldNames
    BY DEF Fields, FieldNames
  <2>7. missing = {}
    BY <2>2, <2>5, <2>6
  <2> HIDE DEF missing, s
  <2>8. returned' = "parsed" /\ parsed' = given
    BY <1>1, <2>4, <2>7
  <2>9. \A f \in FieldNames : \E i \in 1..3 : Fields[i] = f
    BY DEF Fields, FieldNames
  <2>10. \A f \in FieldNames : Read(f)
    BY <2>7, <2>9
  <2> HIDE DEF Read
  <2> QED
    BY <2>5, <2>8, <2>10
<1>8. given \in [FieldNames -> Seq(Tokens)] /\ \A f \in FieldNames : Len(given[f]) < FieldSize[f]
  <2> HIDE DEF s, Read
  <2> QED
    BY <1>5, <1>6 DEF FieldsFit
<1> HIDE DEF given, missing, s, Read
<1>9. parsed' \in [FieldNames -> Seq(Tokens)] /\ FieldsFit'
  BY <1>1, <1>5, <1>8 DEF FieldsFit
<1>10. returned' \in {"parsed", "failed"}
  BY <1>1
<1>11. MessageOK'
  BY <1>1 DEF TextInv, MessageOK
<1>12. PayloadOK'
  BY <1>1, <1>10 DEF TextInv, PayloadOK
<1>13. ParsedOK'
  BY <1>1, <1>7, <1>9 DEF ParsedOK
<1> QED
  BY <1>11, <1>12, <1>13 DEF TextInv

\* The client starts over.
LEMMA AgainKeeps ==
  ASSUME TextInv, Again
  PROVE  TextInv'
<1>1. message' = Empty /\ parsed' = Empty /\ returned' = "none" /\ own' = FALSE
  BY DEF Again
<1>2. Empty \in [FieldNames -> Seq(Tokens)]
  BY DEF Empty
<1>3. MessageOK'
  BY <1>1, <1>2, EmptyFits DEF MessageOK
<1>4. PayloadOK'
  BY <1>1 DEF PayloadOK
<1>5. \A f \in FieldNames : Len(Empty[f]) < FieldSize[f]
  BY EmptyFits, FieldString
<1>6. ParsedOK'
  BY <1>1, <1>2, <1>5 DEF ParsedOK, FieldsFit, Answered
<1> QED
  BY <1>3, <1>4, <1>6 DEF TextInv

\* A step that changes nothing.
LEMMA TextStutters ==
  ASSUME TextInv, UNCHANGED textVars
  PROVE  TextInv'
BY DEF TextInv, MessageOK, PayloadOK, ParsedOK, FieldsFit, Answered, textVars

\* Every step keeps the invariant.
LEMMA TextStep == TextInv /\ [TextNext]_textVars => TextInv'
<1> SUFFICES ASSUME TextInv, [TextNext]_textVars PROVE TextInv'
  OBVIOUS
<1>1. ASSUME NEW f \in FieldNames, FillIn(f) PROVE TextInv'
  BY <1>1, FillInKeeps
<1>2. CASE BuildMessage
  BY <1>2, BuildMessageKeeps
<1>3. CASE ParseMessage
  BY <1>3, ParseMessageKeeps
<1>4. CASE Again
  BY <1>4, AgainKeeps
<1>5. ASSUME NEW r \in Replies, Reply(r) PROVE TextInv'
  BY <1>5, ReplyKeeps
<1>6. CASE UNCHANGED textVars
  BY <1>6, TextStutters
<1> QED
  BY <1>1, <1>2, <1>3, <1>4, <1>5, <1>6 DEF TextNext

\* The invariant holds in every reachable state of the message client.
THEOREM TextInvariant == TextSpec => []TextInv
<1>1. TextInit => TextInv
  BY TextInitially
<1>2. TextInv /\ [TextNext]_textVars => TextInv'
  BY TextStep
<1> QED
  BY <1>1, <1>2, PTL DEF TextSpec

-----------------------------------------------------------------------------
(* What follows                                                            *)

\* A clean message that was parsed is what was sent.
LEMMA InvClean == TextInv => CleanArrives
<1> SUFFICES ASSUME TextInv, own, Answered, Clean(message) PROVE parsed = message
  BY DEF CleanArrives
<1>1. Fits(message)
  BY DEF TextInv, MessageOK, Fits
<1>2. \A f \in FieldNames : parsed[f] = message[f]
  BY <1>1, CleanRead DEF TextInv, ParsedOK
<1>3. parsed \in [FieldNames -> Seq(Tokens)] /\ message \in [FieldNames -> Seq(Tokens)]
  BY DEF TextInv, ParsedOK, MessageOK
<1> QED
  BY <1>2, <1>3

\* A message that was answered is the client's own unless it is empty, and its
\* prompt is what was sent up to the newline.
LEMMA InvPrompt == TextInv => PromptArrives
<1> SUFFICES ASSUME TextInv, Answered
             PROVE  /\ message # Empty => own /\ returned = "parsed"
                    /\ own => parsed["prompt"] = UpTo(message["prompt"], Newline)
  BY DEF PromptArrives
<1>1. Fits(message)
  BY DEF TextInv, MessageOK, Fits
<1>2. "prompt" \in FieldNames
  BY DEF FieldNames
<1>3. message # Empty => own
  BY DEF TextInv, PayloadOK, Answered
<1>4. own => returned = "parsed" /\ parsed["prompt"] = Extract(Lines(message), "prompt")
  BY <1>2 DEF TextInv, ParsedOK
<1> QED
  BY <1>1, <1>3, <1>4, PromptRead

\* iw_ws_build_message and iw_ws_parse_message: a message whose values have no
\* newline and no key of a later line arrives as it was sent.
THEOREM CleanTheorem == TextSpec => []CleanArrives
BY TextInvariant, InvClean, PTL

\* iw_ws_build_message and iw_ws_parse_message: every message that fits its
\* arrays is built and understood, and its prompt arrives up to its newline.
THEOREM PromptTheorem == TextSpec => []PromptArrives
BY TextInvariant, InvPrompt, PTL

\* iw_ws_extract_field: no text that comes in overfills a field.
THEOREM FieldsTheorem == TextSpec => []FieldsFit
<1>1. TextInv => FieldsFit
  BY DEF TextInv, ParsedOK
<1> QED
  BY <1>1, TextInvariant, PTL
=============================================================================
