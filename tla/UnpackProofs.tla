---------------------------- MODULE UnpackProofs ----------------------------
(* Theorems about Unpack, for every set of lines and every bound. *)
EXTENDS Unpack, NaturalSets, SequenceTheorems, FiniteSetTheorems

\* The machine with its types.
Inv == UnpackTypeOK /\ OpenWhileReading

\* Nothing is read and no file is open at the start.
LEMMA InvInit == UnpackInit => Inv
  BY NothingAssumption, BoundAssumption
  DEF UnpackInit, Inv, UnpackTypeOK, OpenWhileReading, Targets, AnswerLines

\* A line that is read makes the text longer by one.
LEMMA ReadLine ==
  ASSUME Inv, NEW line \in AnswerLines, Read(line)
  PROVE  answer' \in Seq(AnswerLines) /\ Len(answer') <= MaxLines
<1>1. answer \in Seq(AnswerLines) /\ Len(answer) \in Nat /\ Len(answer) < MaxLines
  BY DEF Inv, UnpackTypeOK, Read
<1>2. answer' \in Seq(AnswerLines) /\ Len(answer') = Len(answer) + 1
  BY <1>1, AppendProperties DEF Read
<1> QED
  BY <1>1, <1>2, BoundAssumption

\* Looking for a path or its fence opens nothing, but for OpenTarget.
LEMMA SeekStep ==
  ASSUME Inv, NEW line \in AnswerLines,
         SkipLine(line) \/ TakePath(line) \/ RetakePath(line) \/ SkipBlankLine
  PROVE  Inv'
<1>1. Blank \in AnswerLines /\ Texts \subseteq Targets /\ Nothing \notin Targets
  BY NothingAssumption DEF AnswerLines, Targets
<1>2. answer' \in Seq(AnswerLines) /\ Len(answer') <= MaxLines
  BY <1>1, ReadLine DEF SkipLine, TakePath, RetakePath, SkipBlankLine
<1>3. UnpackTypeOK'
  BY <1>1, <1>2 DEF Inv, UnpackTypeOK, SkipLine, TakePath, RetakePath, SkipBlankLine
<1>4. OpenWhileReading'
  BY <1>1
  DEF Inv, UnpackTypeOK, OpenWhileReading, SkipLine, TakePath, RetakePath, SkipBlankLine
<1> QED
  BY <1>3, <1>4 DEF Inv

\* A fence opens the target of the path before it, or gives the path up.
LEMMA OpenStep ==
  ASSUME Inv, OpenTarget \/ OpenFails
  PROVE  Inv'
<1>1. Fence \in AnswerLines /\ Nothing \notin Targets /\ Nothing \notin Seq(AnswerLines)
  BY NothingAssumption DEF AnswerLines
<1>2. answer' \in Seq(AnswerLines) /\ Len(answer') <= MaxLines
  BY <1>1, ReadLine DEF OpenTarget, OpenFails
<1>3. path \in Targets
  BY DEF Inv, UnpackTypeOK, OpenWhileReading, OpenTarget, OpenFails
<1>4. <<>> \in Seq(AnswerLines) /\ <<>> # Nothing
  <2>1. <<>> \in Seq(AnswerLines)
    BY EmptySeq
  <2> QED
    BY <1>1, <2>1
<1>5. CASE OpenTarget
  <2>1. disk' \in [Targets -> Seq(AnswerLines) \cup {Nothing}] /\ disk'[path] = <<>>
    BY <1>3, <1>4, <1>5 DEF Inv, UnpackTypeOK, OpenTarget
  <2>2. UnpackTypeOK'
    BY <1>2, <1>3, <1>5, <2>1 DEF Inv, UnpackTypeOK, OpenTarget
  <2>3. OpenWhileReading'
    BY <1>1, <1>3, <1>4, <1>5, <2>1 DEF OpenWhileReading, OpenTarget
  <2> QED
    BY <2>2, <2>3 DEF Inv
<1>6. CASE OpenFails
  <2>1. faults' \in 0..MaxFaults
    BY <1>6, BoundAssumption DEF Inv, UnpackTypeOK, OpenFails
  <2>2. UnpackTypeOK'
    BY <1>2, <1>6, <2>1 DEF Inv, UnpackTypeOK, OpenFails
  <2>3. OpenWhileReading'
    BY <1>6 DEF Inv, OpenWhileReading, OpenFails
  <2> QED
    BY <2>2, <2>3 DEF Inv
<1> QED
  BY <1>5, <1>6

\* A line of content goes to the open file.
LEMMA WriteStep ==
  ASSUME Inv, NEW line \in AnswerLines, WriteLine(line)
  PROVE  Inv'
<1>1. answer' \in Seq(AnswerLines) /\ Len(answer') <= MaxLines
  BY ReadLine DEF WriteLine
<1>2. /\ out \in Targets /\ disk[out] \in Seq(AnswerLines)
      /\ Nothing \notin Seq(AnswerLines)
  BY NothingAssumption DEF Inv, UnpackTypeOK, OpenWhileReading, WriteLine
<1>3. Append(disk[out], line) \in Seq(AnswerLines)
  BY <1>2, AppendProperties
<1>4. /\ disk' \in [Targets -> Seq(AnswerLines) \cup {Nothing}]
      /\ disk'[out] # Nothing
  BY <1>2, <1>3, NothingAssumption DEF Inv, UnpackTypeOK, WriteLine
<1>5. UnpackTypeOK'
  BY <1>1, <1>4 DEF Inv, UnpackTypeOK, WriteLine
<1>6. OpenWhileReading'
  BY <1>4 DEF Inv, OpenWhileReading, WriteLine
<1> QED
  BY <1>5, <1>6 DEF Inv

\* A file that is closed, by its fence or at the end, is no longer open.
LEMMA CloseStep ==
  ASSUME Inv, CloseTarget \/ EndOfInput
  PROVE  Inv'
<1>1. answer' \in Seq(AnswerLines) /\ Len(answer') <= MaxLines
  <2>1. CASE CloseTarget
    BY <2>1, ReadLine DEF CloseTarget, AnswerLines
  <2>2. CASE EndOfInput
    BY <2>2 DEF EndOfInput, Inv, UnpackTypeOK
  <2> QED
    BY <2>1, <2>2
<1>2. generated' \in Nat
  BY DEF Inv, UnpackTypeOK, CloseTarget, EndOfInput
<1>3. UnpackTypeOK'
  BY <1>1, <1>2 DEF Inv, UnpackTypeOK, CloseTarget, EndOfInput
<1>4. OpenWhileReading'
  BY DEF Inv, OpenWhileReading, CloseTarget, EndOfInput
<1> QED
  BY <1>3, <1>4 DEF Inv

\* Every step keeps the types and the open file in step with the machine.
LEMMA InvStep == Inv /\ [UnpackNext]_unpackVars => Inv'
<1> SUFFICES ASSUME Inv, [UnpackNext]_unpackVars
             PROVE  Inv'
  OBVIOUS
<1>1. CASE \E line \in AnswerLines :
             SkipLine(line) \/ TakePath(line) \/ RetakePath(line)
  BY <1>1, SeekStep
<1>2. CASE SkipBlankLine
  BY <1>2, SeekStep DEF AnswerLines
<1>3. CASE OpenTarget \/ OpenFails
  BY <1>3, OpenStep
<1>4. CASE \E line \in AnswerLines : WriteLine(line)
  BY <1>4, WriteStep
<1>5. CASE CloseTarget \/ EndOfInput
  BY <1>5, CloseStep
<1>6. CASE UNCHANGED unpackVars
  BY <1>6 DEF unpackVars, Inv, UnpackTypeOK, OpenWhileReading
<1> QED
  BY <1>1, <1>2, <1>3, <1>4, <1>5, <1>6 DEF UnpackNext

\* Every variable keeps its type, whatever is read and whichever target fails.
THEOREM TypeCorrect == UnpackSpec => []UnpackTypeOK
<1>1. Inv => UnpackTypeOK
  BY DEF Inv
<1> QED
  BY <1>1, InvInit, InvStep, PTL DEF UnpackSpec

\* A file is open exactly while content is read, also after targets that could
\* not be created: content is never read into nowhere, and no file stays open
\* behind a path that is looked for or behind the end.
THEOREM FileOpenWhileReading == UnpackSpec => []OpenWhileReading
<1>1. Inv => OpenWhileReading
  BY DEF Inv
<1> QED
  BY <1>1, InvInit, InvStep, PTL DEF UnpackSpec

-----------------------------------------------------------------------------
(* One line more                                                           *)

\* What a line appended to t leaves of it.
LEMMA Longer ==
  ASSUME NEW t \in Seq(AnswerLines), NEW l \in AnswerLines, NEW u, u = Append(t, l)
  PROVE  /\ u \in Seq(AnswerLines) /\ Len(t) \in Nat /\ Len(u) = Len(t) + 1
         /\ DOMAIN t = 1..Len(t) /\ DOMAIN u = 1..(Len(t) + 1)
         /\ \A i \in 1..Len(t) : u[i] = t[i]
         /\ u[Len(t) + 1] = l
  BY AppendProperties, LenProperties

\* The fences of a text are finitely many places in it.
LEMMA FencesFinite ==
  ASSUME NEW t \in Seq(AnswerLines)
  PROVE  /\ Fences(t) \subseteq 1..Len(t) /\ IsFiniteSet(Fences(t))
         /\ Cardinality(Fences(t)) \in Nat
         /\ Openings(t) \subseteq Fences(t) /\ IsFiniteSet(Openings(t))
         /\ Cardinality(Openings(t)) \in Nat
<1>1. Len(t) \in Nat /\ Fences(t) \in SUBSET (1..Len(t))
  BY LenProperties DEF Fences
<1>2. IsFiniteSet(1..Len(t))
  BY <1>1, FS_Interval
<1>3. IsFiniteSet(Fences(t)) /\ Openings(t) \in SUBSET Fences(t)
  BY <1>1, <1>2, FS_Subset DEF Openings
<1>4. IsFiniteSet(Openings(t))
  BY <1>3, FS_Subset
<1> QED
  BY <1>1, <1>3, <1>4, FS_CardinalityType

\* A fence more is one fence more, behind the others.
LEMMA FencesLonger ==
  ASSUME NEW t \in Seq(AnswerLines), NEW l \in AnswerLines, NEW u, u = Append(t, l)
  PROVE  /\ Fences(u) = Fences(t) \cup (IF l = Fence THEN {Len(t) + 1} ELSE {})
         /\ Before(t, Len(t) + 1) = Fences(t)
         /\ FencesAfter(u, Len(t) + 1) = {}
<1>1. /\ Len(t) \in Nat
      /\ DOMAIN t = 1..Len(t) /\ DOMAIN u = 1..(Len(t) + 1)
      /\ \A i \in 1..Len(t) : u[i] = t[i]
      /\ u[Len(t) + 1] = l
  BY Longer
<1>2. Fences(u) = Fences(t) \cup (IF l = Fence THEN {Len(t) + 1} ELSE {})
  BY <1>1 DEF Fences
<1>3. Fences(t) \subseteq 1..Len(t)
  BY FencesFinite
<1>4. Before(t, Len(t) + 1) = Fences(t)
  BY <1>1, <1>3 DEF Before
<1>5. FencesAfter(u, Len(t) + 1) = {}
  BY <1>1, <1>2, <1>3 DEF FencesAfter
<1> QED
  BY <1>2, <1>4, <1>5

\* So nothing changes before a place in the text or right behind it.
LEMMA BeforeLonger ==
  ASSUME NEW t \in Seq(AnswerLines), NEW l \in AnswerLines, NEW u, u = Append(t, l),
         NEW i \in 1..(Len(t) + 1)
  PROVE  Before(u, i) = Before(t, i)
<1>1. Len(t) \in Nat
  BY Longer
<1>2. Fences(u) = Fences(t) \cup (IF l = Fence THEN {Len(t) + 1} ELSE {})
  BY FencesLonger, Zenon
<1> QED
  BY <1>1, <1>2 DEF Before

\* It changes the parity of their number.
LEMMA ParityLonger ==
  ASSUME NEW t \in Seq(AnswerLines), NEW l \in AnswerLines, NEW u, u = Append(t, l)
  PROVE  /\ Cardinality(Fences(t)) % 2 \in {0, 1}
         /\ l # Fence => Cardinality(Fences(u)) = Cardinality(Fences(t))
         /\ l = Fence => Cardinality(Fences(u)) % 2
                           = 1 - (Cardinality(Fences(t)) % 2)
<1>1. /\ Fences(t) \subseteq 1..Len(t) /\ IsFiniteSet(Fences(t))
      /\ Cardinality(Fences(t)) \in Nat /\ Len(t) \in Nat
  BY FencesFinite, Longer
<1>2. Fences(u) = Fences(t) \cup (IF l = Fence THEN {Len(t) + 1} ELSE {})
  BY FencesLonger, Zenon
<1>3. l # Fence => Fences(u) = Fences(t)
  BY <1>2
<1>4. CASE l = Fence
  <2>1. Fences(u) = Fences(t) \cup {Len(t) + 1} /\ Len(t) + 1 \notin Fences(t)
    BY <1>1, <1>4, <1>2
  <2>2. Cardinality(Fences(u)) = Cardinality(Fences(t)) + 1
    BY <1>1, <2>1, FS_AddElement
  <2>3. ASSUME NEW c \in Nat, NEW d, d = c + 1
        PROVE  d % 2 = 1 - (c % 2)
    BY <2>3
  <2> QED
    BY <1>1, <1>4, <2>2, <2>3
<1> QED
  <2>1. Cardinality(Fences(t)) % 2 \in {0, 1}
    BY <1>1
  <2> QED
    BY <1>3, <1>4, <2>1

\* Every block that was open has been opened still; a fence opens another one
\* if the fences before it are paired.
LEMMA OpeningsLonger ==
  ASSUME NEW t \in Seq(AnswerLines), NEW l \in AnswerLines, NEW u, u = Append(t, l)
  PROVE  Openings(u) = Openings(t)
           \cup (IF l = Fence /\ Cardinality(Fences(t)) % 2 = 0
                 THEN {Len(t) + 1} ELSE {})
<1>1. /\ Fences(u) = Fences(t) \cup (IF l = Fence THEN {Len(t) + 1} ELSE {})
      /\ Before(t, Len(t) + 1) = Fences(t)
  BY FencesLonger, Zenon
<1>2. Fences(t) \subseteq 1..Len(t) /\ Len(t) \in Nat
  BY FencesFinite, Longer
<1>5. ASSUME NEW i \in 1..(Len(t) + 1)
      PROVE  Before(u, i) = Before(t, i)
  BY BeforeLonger, Zenon
<1>3. \A i \in Fences(t) : Before(u, i) = Before(t, i)
  BY <1>2, <1>5
<1>4. Len(t) + 1 \notin Fences(t) /\ Before(u, Len(t) + 1) = Fences(t)
  BY <1>1, <1>2, <1>5
<1> QED
  BY <1>1, <1>3, <1>4 DEF Openings

\* Headings stay where they are.
LEMMA HeadingsLonger ==
  ASSUME NEW t \in Seq(AnswerLines), NEW l \in AnswerLines, NEW u, u = Append(t, l),
         NEW i \in 1..(Len(t) + 1)
  PROVE  /\ Headings(u, i) = Headings(t, i)
         /\ Headings(t, i) \subseteq 1..Len(t)
         /\ Headings(t, i) # {}
              => /\ Max(Headings(t, i)) \in Headings(t, i)
                 /\ PathAt(u, i) = PathAt(t, i)
<1>1. /\ Len(t) \in Nat
      /\ \A j \in 1..Len(t) : u[j] = t[j]
  BY Longer
<1>2. Before(u, i) = Before(t, i)
  BY BeforeLonger
<1>3. 1..(i - 1) \subseteq 1..Len(t)
  BY <1>1
<1>4. /\ Headings(u, i) = Headings(t, i)
      /\ Headings(t, i) \subseteq 1..Len(t)
  BY <1>1, <1>2, <1>3 DEF Headings
<1>5. ASSUME Headings(t, i) # {}
      PROVE  /\ Max(Headings(t, i)) \in Headings(t, i)
             /\ PathAt(u, i) = PathAt(t, i)
  <2>1. Headings(t, i) \in SUBSET (0..Len(t))
    BY <1>1, <1>4
  <2>2. Max(Headings(t, i)) \in Headings(t, i)
    BY <1>1, <1>5, <2>1, MaxOfNaturals
  <2> QED
    BY <1>1, <1>4, <2>2 DEF PathAt
<1> QED
  BY <1>4, <1>5

\* The headings a next block may have: none behind a fence, the line itself
\* among them unless it is blank.
LEMMA HeadingsAtEnd ==
  ASSUME NEW t \in Seq(AnswerLines), NEW l \in AnswerLines, NEW u, u = Append(t, l)
  PROVE  Headings(u, Len(t) + 2) =
           IF l = Fence THEN {}
           ELSE Headings(t, Len(t) + 1)
                  \cup (IF l = Blank THEN {} ELSE {Len(t) + 1})
<1> DEFINE n == Len(t)
<1>1. /\ n \in Nat
      /\ \A j \in 1..n : u[j] = t[j]
      /\ u[n + 1] = l
  BY Longer
<1>2. /\ Fences(u) = Fences(t) \cup (IF l = Fence THEN {n + 1} ELSE {})
      /\ Fences(t) \subseteq 1..n
  BY FencesLonger, FencesFinite
<1>3. Before(u, n + 2) = Fences(u) /\ Before(t, n + 1) = Fences(t)
  BY <1>1, <1>2 DEF Before
<1>4. /\ Headings(u, n + 2)
           = {j \in 1..(n + 1) : u[j] # Blank /\ \A k \in Fences(u) : k < j}
      /\ Headings(t, n + 1)
           = {j \in 1..n : t[j] # Blank /\ \A k \in Fences(t) : k < j}
  BY <1>1, <1>3 DEF Headings
<1>5. CASE l = Fence
  <2>1. n + 1 \in Fences(u)
    BY <1>2, <1>5
  <2> QED
    BY <1>1, <1>4, <1>5, <2>1
<1>6. CASE l # Fence
  <2>1. Fences(u) = Fences(t) /\ \A k \in Fences(t) : k < n + 1
    BY <1>1, <1>2, <1>6
  <2> QED
    BY <1>1, <1>4, <1>6, <2>1
<1> QED
  BY <1>5, <1>6

\* A well-formed text was so without its last line, and if that opens a block
\* the block has a path.
LEMMA WellFormedLonger ==
  ASSUME NEW t \in Seq(AnswerLines), NEW l \in AnswerLines, NEW u, u = Append(t, l),
         AnswerOK(u)
  PROVE  /\ AnswerOK(t)
         /\ l = Fence /\ Cardinality(Fences(t)) % 2 = 0
              => /\ Headings(t, Len(t) + 1) # {}
                 /\ PathAt(t, Len(t) + 1) \in Texts
<1>1. Len(t) \in Nat /\ Len(t) + 1 \in 1..(Len(t) + 1)
  BY Longer
<1>2. Openings(t) \subseteq 1..(Len(t) + 1)
  BY <1>1, FencesFinite
<1>3. ASSUME NEW i \in 1..(Len(t) + 1), i \in Openings(u)
      PROVE  Headings(t, i) # {} /\ PathAt(t, i) \in Texts
  <2>1. Headings(u, i) # {} /\ PathAt(u, i) \in Texts
    BY <1>3 DEF AnswerOK, PathAt
  <2>2. Headings(u, i) = Headings(t, i)
    BY HeadingsLonger
  <2>3. PathAt(u, i) = PathAt(t, i)
    BY <2>1, <2>2, HeadingsLonger
  <2> QED
    BY <2>1, <2>2, <2>3
<1>4. Openings(t) \subseteq Openings(u)
  <2>1. Openings(u) = Openings(t)
          \cup (IF l = Fence /\ Cardinality(Fences(t)) % 2 = 0
                THEN {Len(t) + 1} ELSE {})
    BY OpeningsLonger, Zenon
  <2> QED
    BY <2>1
<1>5. AnswerOK(t)
  BY <1>2, <1>3, <1>4 DEF AnswerOK, PathAt
<1>6. l = Fence /\ Cardinality(Fences(t)) % 2 = 0 => Len(t) + 1 \in Openings(u)
  BY OpeningsLonger
<1> QED
  BY <1>1, <1>3, <1>5, <1>6

-----------------------------------------------------------------------------
(* Blocks                                                                  *)

\* A part of a text is the same when a line is added behind it.
LEMMA PartLonger ==
  ASSUME NEW t \in Seq(AnswerLines), NEW l \in AnswerLines, NEW u, u = Append(t, l),
         NEW a \in 1..(Len(t) + 1), NEW b \in 0..Len(t)
  PROVE  SubSeq(u, a, b) = SubSeq(t, a, b) /\ SubSeq(t, a, b) \in Seq(AnswerLines)
<1>1. /\ Len(t) \in Nat /\ u \in Seq(AnswerLines) /\ Len(u) = Len(t) + 1
      /\ \A i \in 1..Len(t) : u[i] = t[i]
  BY Longer
<1>2. \A i \in a..b : t[i] \in AnswerLines /\ u[i] = t[i]
  BY <1>1, ElementOfSeq
<1>3. a \in Int /\ b \in Int
  BY <1>1
<1>4. /\ SubSeq(t, a, b) \in Seq(AnswerLines)
      /\ Len(SubSeq(t, a, b)) = IF a <= b THEN b - a + 1 ELSE 0
      /\ \A i \in 1..(b - a + 1) : SubSeq(t, a, b)[i] = t[a + i - 1]
  BY <1>2, <1>3, SubSeqProperties
<1>5. /\ SubSeq(u, a, b) \in Seq(AnswerLines)
      /\ Len(SubSeq(u, a, b)) = IF a <= b THEN b - a + 1 ELSE 0
      /\ \A i \in 1..(b - a + 1) : SubSeq(u, a, b)[i] = u[a + i - 1]
  BY <1>2, <1>3, SubSeqProperties
<1>6. \A i \in 1..(b - a + 1) : a + i - 1 \in a..b
  BY <1>3
<1>7. \A i \in 1..Len(SubSeq(u, a, b)) : SubSeq(u, a, b)[i] = SubSeq(t, a, b)[i]
  BY <1>2, <1>3, <1>4, <1>5, <1>6
<1> QED
  BY <1>4, <1>5, <1>7, SeqEqual

\* The block opened at i ends at the next fence, or has not ended.
LEMMA BlockEnd ==
  ASSUME NEW t \in Seq(AnswerLines), NEW i \in 1..Len(t)
  PROVE  /\ FencesAfter(t, i) = {} => ContentAt(t, i) = SubSeq(t, i + 1, Len(t))
         /\ FencesAfter(t, i) # {}
              => /\ Min(FencesAfter(t, i)) \in FencesAfter(t, i)
                 /\ \A j \in FencesAfter(t, i) : Min(FencesAfter(t, i)) <= j
                 /\ Min(FencesAfter(t, i)) \in (i + 1)..Len(t)
                 /\ ContentAt(t, i) = SubSeq(t, i + 1, Min(FencesAfter(t, i)) - 1)
<1> DEFINE n == Len(t)  A == FencesAfter(t, i)  E == A \cup {n + 1}
<1>1. n \in Nat /\ i \in Nat
  BY LenProperties
<1>2. A \subseteq (i + 1)..n
  BY <1>1, FencesFinite DEF FencesAfter
<1>3. E \in SUBSET Nat /\ E # {}
  BY <1>1, <1>2
<1>4. Min(E) \in E /\ \A j \in E : Min(E) <= j
  BY <1>3, MinOfNaturals
<1>5. ContentAt(t, i) = SubSeq(t, i + 1, Min(E) - 1)
  BY DEF ContentAt
<1> HIDE DEF E
<1>6. CASE A = {}
  <2>1. Min(E) = n + 1
    BY <1>4, <1>6 DEF E
  <2>2. Min(E) - 1 = n
    BY <1>1, <2>1
  <2> QED
    BY <1>5, <1>6, <2>2
<1>7. CASE A # {}
  <2>1. A \in SUBSET Nat
    BY <1>1, <1>2
  <2> HIDE DEF A
  <2>2. Min(A) \in A /\ \A j \in A : Min(A) <= j
    BY <1>7, <2>1, MinOfNaturals
  <2>3. Min(A) \in E /\ Min(A) \in (i + 1)..n
    BY <1>2, <2>2 DEF E
  <2>4. Min(E) <= Min(A) /\ Min(E) \in Nat /\ Min(A) \in Nat /\ Min(A) <= n
    <3>1. Min(E) \in Nat /\ Min(E) <= Min(A)
      BY <1>3, <1>4, <2>3
    <3>2. Min(A) \in Nat /\ Min(A) <= n
      BY <1>1, <2>3
    <3> QED
      BY <3>1, <3>2
  <2>5. Min(E) \in A
    BY <1>1, <1>4, <2>4 DEF E
  <2>6. Min(A) <= Min(E)
    BY <2>2, <2>5
  <2>7. Min(E) = Min(A)
    BY <2>4, <2>6
  <2> QED
    BY <1>5, <1>7, <2>2, <2>3, <2>7 DEF A
<1> QED
  BY <1>6, <1>7

\* A line more changes no block that has ended.
LEMMA ClosedBlock ==
  ASSUME NEW t \in Seq(AnswerLines), NEW l \in AnswerLines, NEW u, u = Append(t, l),
         NEW i \in 1..Len(t), FencesAfter(t, i) # {}
  PROVE  ContentAt(u, i) = ContentAt(t, i)
<1> DEFINE e == Min(FencesAfter(t, i))
<1>1. /\ Len(t) \in Nat /\ u \in Seq(AnswerLines) /\ Len(u) = Len(t) + 1
      /\ i \in 1..Len(u)
  BY Longer
<1>2. /\ l = Fence => FencesAfter(u, i) = FencesAfter(t, i) \cup {Len(t) + 1}
      /\ l # Fence => FencesAfter(u, i) = FencesAfter(t, i)
  <2>1. Fences(u) = Fences(t) \cup (IF l = Fence THEN {Len(t) + 1} ELSE {})
    BY FencesLonger, Zenon
  <2> QED
    BY <1>1, <2>1 DEF FencesAfter
<1>3. /\ e \in FencesAfter(t, i) /\ \A j \in FencesAfter(t, i) : e <= j
      /\ e \in (i + 1)..Len(t)
      /\ ContentAt(t, i) = SubSeq(t, i + 1, e - 1)
  BY BlockEnd
<1>4. /\ Min(FencesAfter(u, i)) \in FencesAfter(u, i)
      /\ \A j \in FencesAfter(u, i) : Min(FencesAfter(u, i)) <= j
      /\ Min(FencesAfter(u, i)) \in (i + 1)..Len(u)
      /\ ContentAt(u, i) = SubSeq(u, i + 1, Min(FencesAfter(u, i)) - 1)
  BY <1>1, <1>2, BlockEnd
<1> HIDE DEF e
<1>5. Min(FencesAfter(u, i)) = e
  <2> DEFINE f == Min(FencesAfter(u, i))
  <2>1. e \in FencesAfter(u, i) /\ e \in Nat /\ e <= Len(t)
    BY <1>1, <1>2, <1>3
  <2>2. f <= e /\ f \in Nat /\ f \in FencesAfter(u, i)
    BY <1>1, <1>4, <2>1
  <2> HIDE DEF f
  <2>3. f \in FencesAfter(t, i)
    BY <1>1, <1>2, <2>1, <2>2
  <2>4. e <= f
    BY <1>3, <2>3
  <2> QED
    BY <2>1, <2>2, <2>4 DEF f
<1>6. i + 1 \in 1..(Len(t) + 1) /\ e - 1 \in 0..Len(t)
  BY <1>1, <1>3
<1>7. SubSeq(u, i + 1, e - 1) = SubSeq(t, i + 1, e - 1)
  BY <1>6, PartLonger
<1> QED
  BY <1>3, <1>4, <1>5, <1>7

\* It ends the block that had not ended, or is its last line.
LEMMA OpenBlock ==
  ASSUME NEW t \in Seq(AnswerLines), NEW l \in AnswerLines, NEW u, u = Append(t, l),
         NEW i \in 1..Len(t), FencesAfter(t, i) = {}
  PROVE  ContentAt(u, i) = IF l = Fence THEN ContentAt(t, i)
                           ELSE Append(ContentAt(t, i), l)
<1> DEFINE n == Len(t)
<1>1. /\ n \in Nat /\ u \in Seq(AnswerLines) /\ Len(u) = n + 1
      /\ i \in 1..Len(u) /\ u[n + 1] = l /\ i + 1 \in 1..(n + 1)
      /\ n \in 0..n
  BY Longer
<1>2. /\ l = Fence => FencesAfter(u, i) = FencesAfter(t, i) \cup {n + 1}
      /\ l # Fence => FencesAfter(u, i) = FencesAfter(t, i)
  <2>1. Fences(u) = Fences(t) \cup (IF l = Fence THEN {Len(t) + 1} ELSE {})
    BY FencesLonger, Zenon
  <2> QED
    BY <1>1, <2>1 DEF FencesAfter
<1>3. ContentAt(t, i) = SubSeq(t, i + 1, n)
  BY BlockEnd
<1>4. SubSeq(u, i + 1, n) = SubSeq(t, i + 1, n) /\ SubSeq(t, i + 1, n) \in Seq(AnswerLines)
  BY <1>1, PartLonger
<1>5. CASE l = Fence
  <2>1. FencesAfter(u, i) = {n + 1}
    BY <1>2, <1>5
  <2>2. Min(FencesAfter(u, i)) = n + 1
    BY <1>1, <2>1, BlockEnd
  <2>3. ContentAt(u, i) = SubSeq(u, i + 1, (n + 1) - 1)
    BY <1>1, <2>1, <2>2, BlockEnd
  <2>4. (n + 1) - 1 = n
    BY <1>1
  <2> QED
    BY <1>3, <1>4, <1>5, <2>3, <2>4
<1>6. CASE l # Fence
  <2>1. ContentAt(u, i) = SubSeq(u, i + 1, n + 1)
    BY <1>1, <1>2, <1>6, BlockEnd
  <2>2. /\ i + 1 \in 1..Len(u) /\ n + 1 \in (i + 1)..Len(u)
        /\ (n + 1) - 1 = n
    BY <1>1
  <2>3. SubSeq(u, i + 1, n + 1) = SubSeq(u, i + 1, (n + 1) - 1) \o <<u[n + 1]>>
    BY <1>1, <2>2, SubSeqRecursiveSecond
  <2>4. SubSeq(u, i + 1, n + 1) = SubSeq(t, i + 1, n) \o <<l>>
    BY <1>1, <1>4, <2>2, <2>3
  <2>5. Append(SubSeq(t, i + 1, n), l) = SubSeq(t, i + 1, n) \o <<l>>
    BY <1>4, AppendIsConcat
  <2> QED
    BY <1>3, <1>6, <2>1, <2>4, <2>5
<1> QED
  BY <1>5, <1>6

\* A block that a fence opens is empty.
LEMMA NewBlock ==
  ASSUME NEW t \in Seq(AnswerLines), NEW u, u = Append(t, Fence)
  PROVE  ContentAt(u, Len(t) + 1) = <<>>
<1>1. Fence \in AnswerLines
  BY DEF AnswerLines
<1>2. Len(t) \in Nat /\ u \in Seq(AnswerLines) /\ Len(u) = Len(t) + 1
  BY <1>1, Longer
<1>3. FencesAfter(u, Len(t) + 1) = {}
  BY <1>1, FencesLonger
<1>4. Len(t) + 1 \in 1..Len(u)
  BY <1>2
<1>5. ContentAt(u, Len(t) + 1) = SubSeq(u, (Len(t) + 1) + 1, Len(u))
  BY <1>2, <1>3, <1>4, BlockEnd, Zenon
<1>6. Len(u) \in Int /\ (Len(t) + 1) + 1 \in Int /\ Len(u) < (Len(t) + 1) + 1
  BY <1>2
<1> QED
  BY <1>5, <1>6, SubSeqEmpty

\* Behind an even number of fences every block has ended.
LEMMA EvenClosed ==
  ASSUME NEW t \in Seq(AnswerLines), Cardinality(Fences(t)) % 2 = 0,
         NEW i \in Openings(t)
  PROVE  FencesAfter(t, i) # {}
<1> SUFFICES ASSUME FencesAfter(t, i) = {} PROVE FALSE
  OBVIOUS
<1>1. /\ i \in Fences(t) /\ Cardinality(Before(t, i)) % 2 = 0
      /\ Fences(t) \subseteq 1..Len(t) /\ IsFiniteSet(Fences(t))
      /\ Len(t) \in Nat
  BY FencesFinite, LenProperties DEF Openings
<1>2. Fences(t) = Before(t, i) \cup {i} /\ i \notin Before(t, i)
  BY <1>1 DEF Before, FencesAfter
<1>3. Before(t, i) \in SUBSET Fences(t)
  BY DEF Before
<1>4. IsFiniteSet(Before(t, i)) /\ Cardinality(Before(t, i)) \in Nat
  BY <1>1, <1>3, FS_Subset, FS_CardinalityType
<1>5. Cardinality(Fences(t)) = Cardinality(Before(t, i)) + 1
  BY <1>2, <1>4, FS_AddElement
<1> QED
  BY <1>1, <1>4, <1>5

\* The blocks of a path are among those opened; if there is one, there is a
\* last one.
LEMMA BlocksBounded ==
  ASSUME NEW t \in Seq(AnswerLines), NEW p
  PROVE  /\ BlocksOf(t, p) \subseteq Openings(t)
         /\ Openings(t) \subseteq 1..Len(t)
         /\ BlocksOf(t, p) # {}
              => /\ Max(BlocksOf(t, p)) \in BlocksOf(t, p)
                 /\ \A i \in BlocksOf(t, p) : i <= Max(BlocksOf(t, p))
<1>1. Len(t) \in Nat /\ Openings(t) \subseteq 1..Len(t)
  BY FencesFinite, LenProperties
<1>2. BlocksOf(t, p) \subseteq Openings(t)
  BY DEF BlocksOf
<1>3. BlocksOf(t, p) \in SUBSET (0..Len(t))
  BY <1>1, <1>2
<1> QED
  BY <1>1, <1>2, <1>3, MaxOfNaturals

\* A fence that opens a block adds it to those of its path.
LEMMA BlocksLonger ==
  ASSUME NEW t \in Seq(AnswerLines), NEW l \in AnswerLines, NEW u, u = Append(t, l),
         AnswerOK(u), NEW p
  PROVE  \A i : i \in BlocksOf(u, p) <=>
           \/ i \in BlocksOf(t, p)
           \/ /\ l = Fence /\ Cardinality(Fences(t)) % 2 = 0
              /\ PathAt(t, Len(t) + 1) = p /\ i = Len(t) + 1
<1> DEFINE opens == l = Fence /\ Cardinality(Fences(t)) % 2 = 0
<1>1. /\ AnswerOK(t)
      /\ opens => Headings(t, Len(t) + 1) # {}
  BY WellFormedLonger
<1>2. Len(t) \in Nat /\ Openings(t) \subseteq 1..Len(t)
  BY FencesFinite, Longer
<1>3. ASSUME NEW i \in 1..(Len(t) + 1), Headings(t, i) # {}
      PROVE  PathAt(u, i) = PathAt(t, i)
  BY <1>3, HeadingsLonger, Zenon
<1>4. \A i \in Openings(t) : PathAt(u, i) = PathAt(t, i)
  BY <1>1, <1>2, <1>3 DEF AnswerOK
<1>5. opens => PathAt(u, Len(t) + 1) = PathAt(t, Len(t) + 1)
  BY <1>1, <1>2, <1>3
<1>6. Openings(u) = Openings(t) \cup (IF opens THEN {Len(t) + 1} ELSE {})
  BY OpeningsLonger, Zenon
<1> HIDE DEF opens
<1>7. BlocksOf(u, p) = BlocksOf(t, p)
        \cup (IF opens /\ PathAt(t, Len(t) + 1) = p THEN {Len(t) + 1} ELSE {})
  BY <1>4, <1>5, <1>6 DEF BlocksOf
<1> QED
  BY <1>7 DEF opens

\* The same, with the text written out.
LEMMA BlocksEnd ==
  ASSUME NEW t \in Seq(AnswerLines), NEW l \in AnswerLines, AnswerOK(Append(t, l)), NEW p
  PROVE  \A i : i \in BlocksOf(Append(t, l), p) <=>
           \/ i \in BlocksOf(t, p)
           \/ /\ l = Fence /\ Cardinality(Fences(t)) % 2 = 0
              /\ PathAt(t, Len(t) + 1) = p /\ i = Len(t) + 1
  BY BlocksLonger, Zenon

\* Between blocks a line that opens no block of p brings p nothing.
LEMMA RestoredSame ==
  ASSUME NEW t \in Seq(AnswerLines), NEW l \in AnswerLines, AnswerOK(Append(t, l)),
         Cardinality(Fences(t)) % 2 = 0, NEW p,
         l # Fence \/ PathAt(t, Len(t) + 1) # p
  PROVE  Restored(Append(t, l), p) = Restored(t, p)
<1> DEFINE B == BlocksOf(t, p)  n == Len(t)  u == Append(t, l)
<1>1. BlocksOf(u, p) = B
  <2>1. \A i : i \in BlocksOf(u, p) <=>
          \/ i \in B
          \/ /\ l = Fence /\ Cardinality(Fences(t)) % 2 = 0
             /\ PathAt(t, n + 1) = p /\ i = n + 1
    BY BlocksEnd
  <2> QED
    BY <2>1 DEF BlocksOf
<1>2. CASE B = {}
  BY <1>1, <1>2 DEF Restored
<1>3. CASE B # {}
  <2>1. Max(B) \in 1..n /\ Max(B) \in Openings(t)
    BY <1>3, BlocksBounded
  <2>2. FencesAfter(t, Max(B)) # {}
    BY <2>1, EvenClosed
  <2>3. ContentAt(u, Max(B)) = ContentAt(t, Max(B))
    BY <2>1, <2>2, ClosedBlock
  <2> QED
    BY <1>1, <1>3, <2>3 DEF Restored
<1> QED
  BY <1>2, <1>3

\* A fence that opens a block of p empties p.
LEMMA RestoredEmpty ==
  ASSUME NEW t \in Seq(AnswerLines), NEW l \in AnswerLines, l = Fence,
         AnswerOK(Append(t, l)), Cardinality(Fences(t)) % 2 = 0,
         NEW p, PathAt(t, Len(t) + 1) = p
  PROVE  Restored(Append(t, l), p) = <<>>
<1> DEFINE n == Len(t)  B == BlocksOf(t, p)
           u == Append(t, l)
<1>1. n \in Nat /\ \A i \in 1..n : i < n + 1
  BY Longer
<1>2. BlocksOf(u, p) = B \cup {n + 1}
  <2>1. \A i : i \in BlocksOf(u, p) <=>
          \/ i \in B
          \/ /\ l = Fence /\ Cardinality(Fences(t)) % 2 = 0
             /\ PathAt(t, n + 1) = p /\ i = n + 1
    BY BlocksEnd
  <2>2. \A i : i \in BlocksOf(u, p) <=> i \in B \/ i = n + 1
    BY <2>1
  <2> HIDE DEF B, n, u
  <2> QED
    BY <2>2
<1>3. B \subseteq 1..n
  BY BlocksBounded
<1>4. \A x \in BlocksOf(u, p) : x \in Nat /\ n + 1 >= x
  BY <1>1, <1>2, <1>3
<1>5. Max(BlocksOf(u, p)) = n + 1
  BY <1>1, <1>2, <1>4 DEF Max
<1>6. ContentAt(u, n + 1) = <<>>
  BY <1>1, NewBlock
<1> QED
  BY <1>2, <1>5, <1>6 DEF Restored

\* Inside the block opened at o a line goes to its path and to no other, and
\* a fence to none.
LEMMA RestoredInside ==
  ASSUME NEW t \in Seq(AnswerLines), NEW l \in AnswerLines, AnswerOK(Append(t, l)),
         Cardinality(Fences(t)) % 2 = 1,
         NEW o \in Openings(t), FencesAfter(t, o) = {}, NEW p
  PROVE  Restored(Append(t, l), p) =
           IF l # Fence /\ PathAt(t, o) = p THEN Append(Restored(t, p), l)
           ELSE Restored(t, p)
<1> DEFINE B == BlocksOf(t, p)  n == Len(t)  u == Append(t, l)
<1>1. /\ BlocksOf(u, p) = B \cup (IF /\ l = Fence /\ Cardinality(Fences(t)) % 2 = 0
                                     /\ PathAt(t, n + 1) = p
                                  THEN {n + 1} ELSE {})
      /\ B \subseteq 1..n /\ B \subseteq Openings(t) /\ Openings(t) \subseteq 1..n
      /\ B # {} => Max(B) \in B /\ \A i \in B : i <= Max(B)
  <2>1. \A i : i \in BlocksOf(u, p) <=>
          \/ i \in B
          \/ /\ l = Fence /\ Cardinality(Fences(t)) % 2 = 0
             /\ PathAt(t, n + 1) = p /\ i = n + 1
    BY BlocksEnd
  <2>2. /\ B \subseteq 1..n /\ B \subseteq Openings(t) /\ Openings(t) \subseteq 1..n
        /\ B # {} => Max(B) \in B /\ \A i \in B : i <= Max(B)
    BY BlocksBounded
  <2> QED
    BY <2>1, <2>2
<1>2. BlocksOf(u, p) = B
  BY <1>1
<1>3. n \in Nat /\ o \in 1..n /\ Openings(t) \subseteq Fences(t)
  BY <1>1, FencesFinite, Longer
<1>4. \A i \in Openings(t) : i # o => FencesAfter(t, i) # {}
  <2> SUFFICES ASSUME NEW i \in Openings(t), i # o PROVE FencesAfter(t, i) # {}
    OBVIOUS
  <2>1. i \in Fences(t) /\ o \in Fences(t) /\ i \in Nat /\ o \in Nat
    BY <1>1, <1>3
  <2>2. i < o
    BY <2>1 DEF FencesAfter
  <2> QED
    BY <2>1, <2>2 DEF FencesAfter
<1>5. \A i \in Openings(t) : i <= o
  BY <1>1, <1>3 DEF FencesAfter
<1>6. CASE B = {}
  <2>1. PathAt(t, o) # p
    BY <1>6 DEF BlocksOf
  <2> QED
    BY <1>2, <1>6, <2>1 DEF Restored
<1>7. CASE B # {} /\ Max(B) = o
  <2>1. PathAt(t, o) = p
    BY <1>1, <1>7 DEF BlocksOf
  <2>2. ContentAt(u, o) = IF l = Fence THEN ContentAt(t, o)
                          ELSE Append(ContentAt(t, o), l)
    BY <1>3, OpenBlock
  <2> QED
    BY <1>2, <1>7, <2>1, <2>2 DEF Restored
<1>8. CASE B # {} /\ Max(B) # o
  <2>1. Max(B) \in Openings(t) /\ Max(B) \in 1..n /\ Max(B) \in B
    BY <1>1, <1>8
  <2>2. o \notin B
    <3>1. o \in B => o <= Max(B)
      BY <1>1, <1>8
    <3>2. Max(B) <= o /\ Max(B) \in Nat /\ o \in Nat
      BY <1>3, <1>5, <2>1
    <3> HIDE DEF B
    <3> QED
      BY <1>8, <3>1, <3>2
  <2>3. PathAt(t, o) # p
    BY <2>2 DEF BlocksOf
  <2>4. FencesAfter(t, Max(B)) # {}
    BY <1>4, <1>8, <2>1
  <2>5. ContentAt(u, Max(B)) = ContentAt(t, Max(B))
    BY <2>1, <2>4, ClosedBlock
  <2> QED
    BY <1>2, <1>8, <2>3, <2>5 DEF Restored
<1> QED
  BY <1>6, <1>7, <1>8

-----------------------------------------------------------------------------
(* The machine and the answer                                              *)

BlockInv == PlaceInv /\ TotalInv /\ BlocksRestored

\* Of no text nothing is restored.
LEMMA BlockInit == UnpackInit => BlockInv
<1> SUFFICES ASSUME UnpackInit PROVE BlockInv
  OBVIOUS
<1>1. answer = <<>> /\ Fences(<<>>) = {} /\ Len(<<>>) = 0
  BY DEF UnpackInit, Fences
<1>2. Openings(<<>>) = {} /\ \A p : BlocksOf(<<>>, p) = {}
  BY <1>1 DEF Openings, BlocksOf
<1>3. Cardinality({}) = 0
  BY FS_EmptySet
<1>4. Headings(<<>>, 1) = {}
  BY DEF Headings
<1>5. state = "SEEK_PATH" /\ ~Reading /\ generated = 0
  BY DEF UnpackInit, Reading
<1>6. PlaceInv
  <2>1. Cardinality(Fences(answer)) % 2 # 1
    <3>1. Cardinality(Fences(answer)) = 0
      BY <1>1, <1>3
    <3> QED
      BY <3>1
  <2>2. Headings(answer, Len(answer) + 1) = {}
    <3>1. Len(answer) + 1 = 1
      BY <1>1
    <3> QED
      BY <1>1, <1>4, <3>1
  <2> QED
    BY <1>5, <2>1, <2>2 DEF PlaceInv
<1>7. TotalInv
  <2>1. Cardinality(Openings(answer)) = 0
    BY <1>1, <1>2, <1>3
  <2> QED
    BY <1>5, <2>1 DEF TotalInv
<1>8. BlocksRestored
  BY <1>1, <1>2 DEF BlocksRestored, Restored, UnpackInit
<1> QED
  BY <1>6, <1>7, <1>8 DEF BlockInv

\* What is known when a line of a well-formed answer has been read.
LEMMA LineFacts ==
  ASSUME Inv, NEW line \in AnswerLines, Read(line), AnswerOK(answer')
  PROVE  /\ answer \in Seq(AnswerLines) /\ answer' = Append(answer, line)
         /\ AnswerOK(answer)
         /\ Len(answer) \in Nat /\ Len(answer') = Len(answer) + 1
<1>1. answer \in Seq(AnswerLines) /\ answer' = Append(answer, line)
  BY DEF Inv, UnpackTypeOK, Read
<1>2. AnswerOK(answer)
  BY <1>1, WellFormedLonger
<1> QED
  BY <1>1, <1>2, Longer

\* Between blocks: a line that is no fence leaves the blocks alone.
LEMMA BlocksLeftAlone ==
  ASSUME Inv, BlockInv, NEW line \in AnswerLines \ {Fence},
         SkipLine(line) \/ TakePath(line) \/ RetakePath(line)
           \/ (SkipBlankLine /\ line = Blank)
  PROVE  BlockInv'
<1>1. /\ Read(line) /\ state \in {"SEEK_PATH", "SEEK_FENCE"}
      /\ state' \in {"SEEK_PATH", "SEEK_FENCE"}
      /\ UNCHANGED <<out, generated, disk, faults>>
  BY DEF SkipLine, TakePath, RetakePath, SkipBlankLine
<1> SUFFICES ASSUME AnswerOK(answer'), faults = 0
             PROVE  BlockInv'
  BY <1>1 DEF BlockInv, PlaceInv, TotalInv, BlocksRestored
<1> DEFINE n == Len(answer)
<1>2. /\ answer \in Seq(AnswerLines) /\ answer' = Append(answer, line)
      /\ AnswerOK(answer)
      /\ n \in Nat /\ Len(answer') = n + 1
  BY <1>1, LineFacts
<1>3. ~Reading /\ ~Reading' /\ Cardinality(Fences(answer)) % 2 = 0
  BY <1>1, <1>2, ParityLonger DEF BlockInv, PlaceInv, Reading
<1>4. Cardinality(Fences(answer')) = Cardinality(Fences(answer))
  BY <1>2, ParityLonger
<1>5. Openings(answer') = Openings(answer)
  <2>1. \A i : i \in Openings(answer') <=> i \in Openings(answer)
    BY <1>2, OpeningsLonger
  <2> QED
    BY <2>1 DEF Openings
<1>6. Headings(answer', n + 2) = Headings(answer, n + 1)
        \cup (IF line = Blank THEN {} ELSE {n + 1})
  BY <1>2, HeadingsAtEnd
<1>7. /\ Headings(answer, n + 1) \subseteq 1..n
      /\ \A i \in 1..n : answer'[i] = answer[i]
      /\ answer'[n + 1] = line
  BY <1>2, HeadingsLonger, Longer
<1>8. PlaceInv'
  <2>1. CASE state = "SEEK_PATH" /\ state' = "SEEK_PATH"
    <3>1. line \in {Blank, Dashes}
      BY <2>1 DEF SkipLine, TakePath, RetakePath, SkipBlankLine
    <3>2. \A j \in Headings(answer, n + 1) : answer[j] = Dashes
      BY <1>2, <2>1 DEF BlockInv, PlaceInv
    <3>3. \A j \in Headings(answer', n + 2) : answer'[j] = Dashes
      BY <1>2, <1>6, <1>7, <3>1, <3>2
    <3>4. Len(answer') + 1 = n + 2
      BY <1>2
    <3>5. \A j \in Headings(answer', Len(answer') + 1) : answer'[j] = Dashes
      BY <3>3, <3>4
    <3>6. Cardinality(Fences(answer')) % 2 # 1
      BY <1>3, <1>4
    <3> HIDE DEF n
    <3> QED
      BY <1>3, <2>1, <3>5, <3>6 DEF PlaceInv
  <2>2. CASE line \notin {Blank} /\ state' = "SEEK_FENCE"
    <3>1. path' = line
      BY <2>2 DEF SkipLine, TakePath, RetakePath, SkipBlankLine
    <3>2. Headings(answer', n + 2) = Headings(answer, n + 1) \cup {n + 1}
      BY <1>6, <2>2
    <3>3. \A j \in Headings(answer', n + 2) : j \in Nat /\ n + 1 >= j
      BY <1>2, <1>7, <3>2
    <3>4. Max(Headings(answer', n + 2)) = n + 1
      BY <1>2, <3>2, <3>3 DEF Max
    <3>5. PathAt(answer', n + 2) = line
      BY <1>7, <3>4 DEF PathAt
    <3>6. Len(answer') + 1 = n + 2 /\ Headings(answer', n + 2) # {}
      BY <1>2, <3>2
    <3>7. /\ Headings(answer', Len(answer') + 1) # {}
          /\ path' = PathAt(answer', Len(answer') + 1)
      BY <3>1, <3>5, <3>6
    <3>8. Cardinality(Fences(answer')) % 2 # 1
      BY <1>3, <1>4
    <3> HIDE DEF n
    <3> QED
      BY <1>3, <2>2, <3>6, <3>7, <3>8 DEF PlaceInv
  <2>3. CASE line = Blank /\ state' = "SEEK_FENCE"
    <3>1. state = "SEEK_FENCE" /\ path' = path
      BY <2>3, TextsAssumption
      DEF SkipLine, TakePath, RetakePath, SkipBlankLine, Targets, Blank, Dashes, Fence
    <3>2. /\ Headings(answer, n + 1) # {}
          /\ path = PathAt(answer, n + 1)
      BY <1>2, <3>1 DEF BlockInv, PlaceInv
    <3>3. Headings(answer', n + 2) = Headings(answer, n + 1)
      BY <1>6, <2>3
    <3>4. Max(Headings(answer, n + 1)) \in 1..n
      BY <1>2, <1>7, <3>2, HeadingsLonger
    <3>5. PathAt(answer', n + 2) = PathAt(answer, n + 1)
      BY <1>7, <3>3, <3>4 DEF PathAt
    <3> QED
      BY <1>2, <1>3, <1>4, <2>3, <3>1, <3>2, <3>3, <3>5 DEF PlaceInv
  <2> QED
    BY <1>1, <2>1, <2>2, <2>3 DEF SkipLine, TakePath, RetakePath, SkipBlankLine
<1>9. TotalInv'
  BY <1>1, <1>2, <1>3, <1>5 DEF BlockInv, TotalInv
<1>10. BlocksRestored'
  <2>1. ASSUME NEW p \in Targets
        PROVE  Restored(answer', p) = Restored(answer, p)
    <3>1. line \in AnswerLines /\ line # Fence
      OBVIOUS
    <3>2. AnswerOK(Append(answer, line))
      BY <1>2
    <3>3. Restored(Append(answer, line), p) = Restored(answer, p)
      BY <1>2, <1>3, <3>1, <3>2, RestoredSame
    <3> QED
      BY <1>2, <3>3
  <2> QED
    BY <1>1, <1>2, <2>1 DEF BlockInv, BlocksRestored
<1> QED
  BY <1>8, <1>9, <1>10 DEF BlockInv

\* A fence where a path is sought would open a block that has none.
LEMMA FenceNotSkipped ==
  ASSUME Inv, BlockInv, SkipLine(Fence)
  PROVE  BlockInv'
<1>1. /\ Read(Fence) /\ state = "SEEK_PATH" /\ Fence \in AnswerLines
      /\ UNCHANGED <<state, path, out, generated, disk, faults>>
  BY DEF SkipLine, AnswerLines
<1> SUFFICES ASSUME AnswerOK(answer'), faults = 0
             PROVE  FALSE
  BY <1>1 DEF BlockInv, PlaceInv, TotalInv, BlocksRestored
<1>2. /\ answer \in Seq(AnswerLines) /\ answer' = Append(answer, Fence)
      /\ AnswerOK(answer) /\ Len(answer) \in Nat
  BY <1>1, LineFacts
<1>3. /\ Cardinality(Fences(answer)) % 2 = 0
      /\ \A j \in Headings(answer, Len(answer) + 1) : answer[j] = Dashes
  <2>1. Cardinality(Fences(answer)) % 2 \in {0, 1}
    BY <1>1, <1>2, ParityLonger
  <2> QED
    BY <1>1, <1>2, <2>1 DEF BlockInv, PlaceInv, Reading
<1>4. /\ Headings(answer, Len(answer) + 1) # {}
      /\ PathAt(answer, Len(answer) + 1) \in Texts
  BY <1>1, <1>2, <1>3, WellFormedLonger
<1>5. Max(Headings(answer, Len(answer) + 1)) \in Headings(answer, Len(answer) + 1)
  <2>1. Len(answer) + 1 \in 1..(Len(answer) + 1)
    BY <1>2
  <2> QED
    BY <1>1, <1>2, <1>4, <2>1, HeadingsLonger
<1>6. PathAt(answer, Len(answer) + 1) = Dashes
  BY <1>3, <1>5 DEF PathAt
<1> QED
  BY <1>4, <1>6, TextsAssumption

\* The fence behind a path opens a block of that path.
LEMMA BlockOpened ==
  ASSUME Inv, BlockInv, OpenTarget
  PROVE  BlockInv'
<1>1. /\ Read(Fence) /\ state = "SEEK_FENCE" /\ Fence \in AnswerLines
      /\ state' = "READ_CONTENT" /\ out' = path
      /\ disk' = [disk EXCEPT ![path] = <<>>]
      /\ UNCHANGED <<path, generated, faults>>
  BY DEF OpenTarget, AnswerLines
<1> SUFFICES ASSUME AnswerOK(answer'), faults = 0
             PROVE  BlockInv'
  BY <1>1 DEF BlockInv, PlaceInv, TotalInv, BlocksRestored
<1> DEFINE n == Len(answer)
<1>2. /\ answer \in Seq(AnswerLines) /\ answer' = Append(answer, Fence)
      /\ AnswerOK(answer) /\ AnswerOK(Append(answer, Fence))
      /\ n \in Nat /\ n + 1 \in 1..(n + 1)
  <2>1. /\ answer \in Seq(AnswerLines) /\ answer' = Append(answer, Fence)
        /\ AnswerOK(answer) /\ n \in Nat
    BY <1>1, LineFacts
  <2> QED
    BY <2>1
<1>3. ~Reading /\ Reading'
  BY <1>1 DEF Reading
<1>4. /\ Cardinality(Fences(answer)) % 2 = 0
      /\ Cardinality(Fences(answer')) % 2 = 1
  <2>1. Cardinality(Fences(answer)) % 2 \in {0, 1}
    BY <1>1, <1>2, ParityLonger
  <2>2. Cardinality(Fences(answer)) % 2 = 0
    BY <1>1, <1>2, <1>3, <2>1 DEF BlockInv, PlaceInv
  <2>3. Cardinality(Fences(answer')) % 2 = 1 - (Cardinality(Fences(answer)) % 2)
    BY <1>1, <1>2, ParityLonger
  <2> QED
    BY <2>2, <2>3
<1>5. Headings(answer, n + 1) # {} /\ path = PathAt(answer, n + 1)
  BY <1>1, <1>2 DEF BlockInv, PlaceInv
<1>6. path \in Targets /\ disk \in [Targets -> Seq(AnswerLines) \cup {Nothing}]
  BY <1>1 DEF Inv, UnpackTypeOK, OpenWhileReading
<1>7. Openings(answer') = Openings(answer) \cup {n + 1} /\ n + 1 \notin Openings(answer)
  <2>1. Openings(answer') = Openings(answer)
          \cup (IF Fence = Fence /\ Cardinality(Fences(answer)) % 2 = 0
                THEN {n + 1} ELSE {})
    BY <1>1, <1>2, OpeningsLonger
  <2>2. Openings(answer) \subseteq Fences(answer) /\ Fences(answer) \subseteq 1..n
    BY <1>2, FencesFinite
  <2> QED
    BY <1>2, <1>4, <2>1, <2>2
<1>8. PlaceInv'
  <2>1. FencesAfter(answer', n + 1) = {}
    <3>1. Fences(answer') \subseteq 1..(n + 1)
      BY <1>1, <1>2, FencesFinite, Longer
    <3> QED
      BY <1>2, <3>1 DEF FencesAfter
  <2>2. PathAt(answer', n + 1) = out'
    BY <1>1, <1>2, <1>5, HeadingsLonger
  <2> QED
    BY <1>1, <1>3, <1>4, <1>7, <2>1, <2>2 DEF PlaceInv
<1>9. TotalInv'
  <2>1. IsFiniteSet(Openings(answer)) /\ Cardinality(Openings(answer)) \in Nat
    BY <1>2, FencesFinite
  <2>2. Cardinality(Openings(answer')) = Cardinality(Openings(answer)) + 1
    BY <1>7, <2>1, FS_AddElement
  <2>3. Cardinality(Openings(answer)) = generated + 0 /\ generated \in Nat
    BY <1>2, <1>3 DEF BlockInv, TotalInv, Inv, UnpackTypeOK
  <2> QED
    BY <1>1, <1>3, <2>2, <2>3 DEF TotalInv
<1>10. BlocksRestored'
  <2> SUFFICES ASSUME NEW p \in Targets
               PROVE  disk'[p] = Restored(Append(answer, Fence), p)
    BY <1>1, <1>2 DEF BlocksRestored
  <2>1. CASE p = path
    <3>1. Restored(Append(answer, Fence), p) = <<>>
      BY <1>1, <1>2, <1>4, <1>5, <2>1, RestoredEmpty
    <3> QED
      BY <1>1, <1>6, <2>1, <3>1
  <2>2. CASE p # path
    <3>1. Restored(Append(answer, Fence), p) = Restored(answer, p)
      BY <1>1, <1>2, <1>4, <1>5, <2>2, RestoredSame
    <3>2. disk[p] = Restored(answer, p)
      BY <1>2 DEF BlockInv, BlocksRestored
    <3> QED
      BY <1>1, <1>6, <2>2, <3>1, <3>2
  <2> QED
    BY <2>1, <2>2
<1> QED
  BY <1>8, <1>9, <1>10 DEF BlockInv

\* What the open file and the block behind the last opening fence share.
LEMMA InsideFacts ==
  ASSUME Inv, BlockInv, NEW line \in AnswerLines, Read(line), Reading,
         AnswerOK(answer'), faults = 0
  PROVE  /\ out \in Targets /\ disk[out] # Nothing
         /\ disk \in [Targets -> Seq(AnswerLines) \cup {Nothing}]
         /\ Cardinality(Fences(answer)) % 2 = 1
         /\ Openings(answer') = Openings(answer)
         /\ \E o \in Openings(answer) :
              FencesAfter(answer, o) = {} /\ PathAt(answer, o) = out
         /\ \A p \in Targets :
              /\ disk[p] = Restored(answer, p)
              /\ Restored(answer', p) =
                   IF line # Fence /\ p = out THEN Append(disk[p], line)
                   ELSE disk[p]
<1>1. /\ answer \in Seq(AnswerLines) /\ answer' = Append(answer, line)
      /\ AnswerOK(answer) /\ AnswerOK(Append(answer, line))
      /\ Len(answer) \in Nat
  BY LineFacts
<1>2. /\ out \in Targets /\ disk[out] # Nothing
      /\ disk \in [Targets -> Seq(AnswerLines) \cup {Nothing}]
  BY DEF Inv, UnpackTypeOK, OpenWhileReading, Reading
<1>3. /\ Cardinality(Fences(answer)) % 2 = 1
      /\ \E o \in Openings(answer) : FencesAfter(answer, o) = {} /\ PathAt(answer, o) = out
  BY <1>1 DEF BlockInv, PlaceInv, Reading
<1>4. Openings(answer') = Openings(answer)
  <2>1. ~(line = Fence /\ Cardinality(Fences(answer)) % 2 = 0)
    BY <1>3
  <2>2. Openings(answer') = Openings(answer)
          \cup (IF line = Fence /\ Cardinality(Fences(answer)) % 2 = 0
                THEN {Len(answer) + 1} ELSE {})
    BY <1>1, OpeningsLonger, Zenon
  <2> QED
    BY <2>1, <2>2
<1>5. ASSUME NEW p \in Targets
      PROVE  /\ disk[p] = Restored(answer, p)
             /\ Restored(answer', p) =
                  IF line # Fence /\ p = out THEN Append(disk[p], line)
                  ELSE disk[p]
  <2>1. disk[p] = Restored(answer, p)
    BY <1>1 DEF BlockInv, BlocksRestored
  <2>2. PICK o \in Openings(answer) : FencesAfter(answer, o) = {} /\ PathAt(answer, o) = out
    BY <1>3
  <2>3. Restored(Append(answer, line), p) =
          IF line # Fence /\ PathAt(answer, o) = p THEN Append(Restored(answer, p), line)
          ELSE Restored(answer, p)
    BY <1>1, <1>3, <2>2, RestoredInside
  <2> QED
    BY <1>1, <2>1, <2>2, <2>3
<1> QED
  BY <1>2, <1>3, <1>4, <1>5

\* A line of content is added to the block that is read.
LEMMA BlockWritten ==
  ASSUME Inv, BlockInv, NEW line \in AnswerLines, WriteLine(line)
  PROVE  BlockInv'
<1>1. /\ Read(line) /\ Reading /\ Reading' /\ line # Fence
      /\ UNCHANGED <<state, path, out, generated, faults>>
  BY DEF WriteLine, Reading
<1> SUFFICES ASSUME AnswerOK(answer'), faults = 0
             PROVE  BlockInv'
  BY <1>1 DEF BlockInv, PlaceInv, TotalInv, BlocksRestored
<1>2. /\ answer \in Seq(AnswerLines) /\ answer' = Append(answer, line)
      /\ AnswerOK(answer) /\ Len(answer) \in Nat
  BY <1>1, LineFacts
<1>3. PlaceInv'
  <2>1. Cardinality(Fences(answer')) % 2 = 1
    <3>1. Cardinality(Fences(answer')) = Cardinality(Fences(answer))
      BY <1>1, <1>2, ParityLonger
    <3>2. Cardinality(Fences(answer)) % 2 = 1
      BY <1>1, InsideFacts
    <3> QED
      BY <3>1, <3>2
  <2>2. PICK o \in Openings(answer) : FencesAfter(answer, o) = {} /\ PathAt(answer, o) = out
    BY <1>1, InsideFacts
  <2>3. o \in Openings(answer')
    BY <1>1, InsideFacts
  <2>4. FencesAfter(answer', o) = {}
    <3>1. Fences(answer') = Fences(answer)
      BY <1>1, <1>2, FencesLonger
    <3> QED
      BY <2>2, <3>1 DEF FencesAfter
  <2>5. PathAt(answer', o) = out
    <3>1. o \in 1..(Len(answer) + 1) /\ Headings(answer, o) # {}
      BY <1>2, FencesFinite DEF AnswerOK
    <3>2. PathAt(answer', o) = PathAt(answer, o)
      BY <1>2, <3>1, HeadingsLonger
    <3> QED
      BY <2>2, <3>2
  <2> QED
    BY <1>1, <2>1, <2>3, <2>4, <2>5 DEF PlaceInv, Reading
<1>4. TotalInv'
  <2>1. Openings(answer') = Openings(answer)
    BY <1>1, InsideFacts
  <2> QED
    BY <1>1, <1>2, <2>1 DEF BlockInv, TotalInv
<1>5. BlocksRestored'
  <2>1. /\ out \in Targets
        /\ disk \in [Targets -> Seq(AnswerLines) \cup {Nothing}]
        /\ \A p \in Targets :
             Restored(answer', p) =
               IF line # Fence /\ p = out THEN Append(disk[p], line) ELSE disk[p]
    BY <1>1, InsideFacts
  <2>2. disk' = [disk EXCEPT ![out] = Append(@, line)]
    <3>1. out # Nothing
      BY <2>1, NothingAssumption
    <3> QED
      BY <3>1 DEF WriteLine
  <2> QED
    BY <1>1, <2>1, <2>2 DEF BlocksRestored
<1> QED
  BY <1>3, <1>4, <1>5 DEF BlockInv

\* The fence that ends a block counts it and leaves every file as it is.
LEMMA BlockClosed ==
  ASSUME Inv, BlockInv, CloseTarget
  PROVE  BlockInv'
<1>1. /\ Read(Fence) /\ Fence \in AnswerLines /\ Reading /\ ~Reading'
      /\ state' = "SEEK_PATH"
      /\ UNCHANGED <<disk, faults>>
  BY DEF CloseTarget, Reading, AnswerLines
<1> SUFFICES ASSUME AnswerOK(answer'), faults = 0
             PROVE  BlockInv'
  BY <1>1 DEF BlockInv, PlaceInv, TotalInv, BlocksRestored
<1> DEFINE n == Len(answer)
<1>2. /\ answer \in Seq(AnswerLines) /\ answer' = Append(answer, Fence)
      /\ AnswerOK(answer) /\ n \in Nat /\ Len(answer') = n + 1
  BY <1>1, LineFacts
<1>3. PlaceInv'
  <2>1. Cardinality(Fences(answer')) % 2 = 0
    <3>1. Cardinality(Fences(answer)) % 2 = 1
      BY <1>1, InsideFacts
    <3>2. Cardinality(Fences(answer')) % 2 = 1 - (Cardinality(Fences(answer)) % 2)
      BY <1>1, <1>2, ParityLonger
    <3> QED
      BY <3>1, <3>2
  <2>2. Headings(answer', n + 2) = {}
    BY <1>1, <1>2, HeadingsAtEnd
  <2>3. Len(answer') + 1 = n + 2
    BY <1>2
  <2>4. \A j \in Headings(answer', Len(answer') + 1) : answer'[j] = Dashes
    BY <2>2, <2>3
  <2> HIDE DEF n
  <2> QED
    BY <1>1, <2>1, <2>4 DEF PlaceInv
<1>4. TotalInv'
  <2>1. Openings(answer') = Openings(answer) /\ out # Nothing
    BY <1>1, InsideFacts, NothingAssumption
  <2>2. generated' = generated + 1
    BY <2>1 DEF CloseTarget
  <2>3. Cardinality(Openings(answer)) = generated + 1 /\ generated \in Nat
    BY <1>1, <1>2 DEF BlockInv, TotalInv, Inv, UnpackTypeOK
  <2> QED
    BY <1>1, <2>1, <2>2, <2>3 DEF TotalInv
<1>5. BlocksRestored'
  <2>1. \A p \in Targets : Restored(answer', p) = disk[p]
    BY <1>1, InsideFacts
  <2> QED
    BY <1>1, <2>1 DEF BlocksRestored
<1> QED
  BY <1>3, <1>4, <1>5 DEF BlockInv

\* The end of the answer counts the block that is read.
LEMMA AnswerEnds ==
  ASSUME Inv, BlockInv, EndOfInput
  PROVE  BlockInv'
<1>1. state' = "DONE" /\ ~Reading' /\ UNCHANGED <<answer, disk, faults>>
  BY DEF EndOfInput, Reading
<1>2. PlaceInv'
  BY <1>1 DEF PlaceInv
<1>3. TotalInv'
  <2>1. generated \in Nat /\ (Reading <=> out # Nothing)
    BY DEF Inv, UnpackTypeOK, OpenWhileReading, Reading
  <2> QED
    BY <1>1, <2>1 DEF BlockInv, TotalInv, EndOfInput
<1>4. BlocksRestored'
  BY <1>1 DEF BlockInv, BlocksRestored
<1> QED
  BY <1>2, <1>3, <1>4 DEF BlockInv

\* Every step keeps the files and the answer together.
LEMMA BlockStep == Inv /\ BlockInv /\ [UnpackNext]_unpackVars => BlockInv'
<1> SUFFICES ASSUME Inv, BlockInv, [UnpackNext]_unpackVars
             PROVE  BlockInv'
  OBVIOUS
<1>1. ASSUME NEW line \in AnswerLines,
             SkipLine(line) \/ TakePath(line) \/ RetakePath(line)
      PROVE  BlockInv'
  <2>1. CASE line # Fence
    BY <1>1, <2>1, BlocksLeftAlone
  <2>2. CASE line = Fence
    <3>1. SkipLine(Fence)
      BY <1>1, <2>2, TextsAssumption
      DEF TakePath, RetakePath, Targets, Dashes, Fence
    <3> QED
      BY <3>1, FenceNotSkipped
  <2> QED
    BY <2>1, <2>2
<1>2. CASE SkipBlankLine
  <2>1. Blank \in AnswerLines \ {Fence}
    BY DEF AnswerLines, Blank, Fence
  <2> QED
    BY <1>2, <2>1, BlocksLeftAlone
<1>3. CASE OpenTarget
  BY <1>3, BlockOpened
<1>4. CASE OpenFails
  <2>1. faults' # 0
    BY <1>4 DEF OpenFails, Inv, UnpackTypeOK
  <2> QED
    BY <2>1 DEF BlockInv, PlaceInv, TotalInv, BlocksRestored
<1>5. ASSUME NEW line \in AnswerLines, WriteLine(line) PROVE BlockInv'
  BY <1>5, BlockWritten
<1>6. CASE CloseTarget
  BY <1>6, BlockClosed
<1>7. CASE EndOfInput
  BY <1>7, AnswerEnds
<1>8. CASE UNCHANGED unpackVars
  BY <1>8
  DEF unpackVars, BlockInv, PlaceInv, TotalInv, BlocksRestored, Reading
<1> QED
  BY <1>1, <1>2, <1>3, <1>4, <1>5, <1>6, <1>7, <1>8 DEF UnpackNext

\* The machine always stands where the answer says, whatever is read.
LEMMA BlocksFollowed == UnpackSpec => [](Inv /\ BlockInv)
<1>1. UnpackInit => Inv /\ BlockInv
  BY InvInit, BlockInit
<1>2. Inv /\ BlockInv /\ [UnpackNext]_unpackVars => (Inv /\ BlockInv)'
  BY InvStep, BlockStep
<1> QED
  BY <1>1, <1>2, PTL DEF UnpackSpec

\* For answers of any length, over any texts: at every moment each target
\* holds what the last block of its path has brought, and no other target is
\* touched (the line by line writing of iw-unpack).
THEOREM FilesRestored == UnpackSpec => []BlocksRestored
<1>1. Inv /\ BlockInv => BlocksRestored
  BY DEF BlockInv
<1> QED
  BY <1>1, BlocksFollowed, PTL

\* The total that iw-unpack prints is the number of blocks of the answer.
THEOREM BlocksCounted == UnpackSpec => []TotalPrinted
<1>1. Inv /\ BlockInv => TotalPrinted
  <2> SUFFICES ASSUME Inv, BlockInv, AnswerOK(answer), faults = 0,
                      state = "DONE"
               PROVE  generated = Cardinality(Openings(answer))
    BY DEF TotalPrinted
  <2>1. ~Reading /\ generated \in Nat
    BY DEF Reading, Inv, UnpackTypeOK
  <2> QED
    BY <2>1 DEF BlockInv, TotalInv
<1> QED
  BY <1>1, BlocksFollowed, PTL
=============================================================================
