--------------------------- MODULE SqlImportProofs ---------------------------
(* Theorems about SqlImport, for scripts of any length. *)
EXTENDS SqlImport, NaturalSets, SequenceTheorems, FiniteSetTheorems

-----------------------------------------------------------------------------
(* Types                                                                   *)

\* A script is a sequence of characters.
LEMMA ScriptFacts ==
  ASSUME ImportTypeOK
  PROVE  /\ Len(script) \in Nat
         /\ DOMAIN script = 1..Len(script) /\ DOMAIN script \subseteq Nat
<1>1. PICK n \in 0..MaxLength : script \in [1..n -> Characters]
  BY DEF ImportTypeOK, Scripts
<1>2. n \in Nat
  BY LengthAssumption
<1>3. script \in Seq(Characters)
  BY <1>1, <1>2, SeqDef
<1> QED
  BY <1>3, LenProperties

\* A comment ends inside the script or right behind it.
LEMMA BehindLineInside ==
  ASSUME ImportTypeOK, NEW i \in Nat \ {0}
  PROVE  BehindLine(i) \in 1..(Len(script) + 1)
<1>1. Len(script) \in Nat
  BY ScriptFacts
<1>2. CASE Newlines(i) = {}
  BY <1>1, <1>2 DEF BehindLine
<1>3. CASE Newlines(i) # {}
  <2>1. /\ Newlines(i) \in SUBSET Nat
        /\ \A j \in Newlines(i) : i <= j /\ j <= Len(script)
    BY <1>1 DEF Newlines
  <2>2. Min(Newlines(i)) \in Newlines(i)
    BY <1>3, <2>1, MinOfNaturals
  <2>3. Min(Newlines(i)) \in Nat /\ Min(Newlines(i)) <= Len(script)
    BY <2>1, <2>2
  <2> QED
    BY <1>1, <1>3, <2>3 DEF BehindLine
<1> QED
  BY <1>2, <1>3

\* iw_buf_trim leaves a part of what the buffer holds.
LEMMA TrimmedTyped ==
  ASSUME NEW S, NEW b \in Seq(S)
  PROVE  Trimmed(b) \in Seq(S)
<1> DEFINE kept == {k \in DOMAIN b : script[b[k]] \notin Blanks}
<1>1. Len(b) \in Nat /\ DOMAIN b = 1..Len(b)
  BY LenProperties
<1>2. CASE kept = {}
  BY <1>2, EmptySeq DEF Trimmed
<1>3. CASE kept # {}
  <2>1. kept \in SUBSET (0..Len(b)) /\ kept \subseteq 1..Len(b)
    BY <1>1
  <2>2. Max(kept) \in kept
    BY <1>1, <1>3, <2>1, MaxOfNaturals
  <2>3. Max(kept) \in 1..Len(b)
    BY <2>1, <2>2
  <2>4. \A i \in 1..Max(kept) : b[i] \in S
    BY <1>1, <2>3, ElementOfSeq
  <2>5. SubSeq(b, 1, Max(kept)) \in Seq(S)
    BY <2>3, <2>4, SubSeqProperties
  <2> QED
    BY <1>3, <2>5 DEF Trimmed
<1> QED
  BY <1>2, <1>3

\* What a statement is made of when it is run.
LEMMA CutTyped ==
  ASSUME ImportTypeOK, Cut, script' = script
  PROVE  /\ buffer' \in Seq(DOMAIN script) /\ sent' \in Seq(Seq(DOMAIN script))
         /\ pc' \in {pc, "begin"}
<1>1. Trimmed(buffer) \in Seq(DOMAIN script)
  BY TrimmedTyped DEF ImportTypeOK
<1>2. Append(sent, Trimmed(buffer)) \in Seq(Seq(DOMAIN script))
  BY <1>1, AppendProperties DEF ImportTypeOK
<1>3. <<>> \in Seq(DOMAIN script)
  BY EmptySeq
<1> QED
  BY <1>1, <1>2, <1>3 DEF Cut, ImportTypeOK

\* Nothing is read or run at the start.
LEMMA TypeInit == ImportInit => ImportTypeOK
<1> SUFFICES ASSUME ImportInit PROVE ImportTypeOK
  OBVIOUS
<1>1. PICK n \in 0..MaxLength : script \in [1..n -> Characters]
  BY DEF ImportInit, Scripts
<1>2. Len(script) \in Nat
  <2>1. n \in Nat
    BY LengthAssumption
  <2>2. script \in Seq(Characters)
    BY <1>1, <2>1, SeqDef
  <2> QED
    BY <2>2, LenProperties
<1>3. <<>> \in Seq(DOMAIN script)
  BY EmptySeq
<1>4. <<>> \in Seq(Seq(DOMAIN script))
  BY EmptySeq
<1>5. pos \in 1..(Len(script) + 1)
  BY <1>2 DEF ImportInit
<1>6. buffer \in Seq(DOMAIN script) /\ sent \in Seq(Seq(DOMAIN script))
  BY <1>3, <1>4 DEF ImportInit
<1> QED
  BY <1>5, <1>6 DEF ImportInit, ImportTypeOK

\* Every turn of the loop over the script keeps the types.
LEMMA TypeStream == ImportTypeOK /\ Stream => ImportTypeOK'
<1> SUFFICES ASSUME ImportTypeOK, Stream PROVE ImportTypeOK'
  OBVIOUS
<1>1. /\ Len(script) \in Nat /\ pos \in Nat \ {0}
      /\ DOMAIN script = 1..Len(script) /\ buffer \in Seq(DOMAIN script)
  BY ScriptFacts DEF ImportTypeOK
<1>2. \A c : Gets(c) => pos \in DOMAIN script /\ pos + 1 \in 1..(Len(script) + 1)
  BY <1>1 DEF Gets, AtEnd
<1>3. pos \in DOMAIN script => Append(buffer, pos) \in Seq(DOMAIN script)
  BY <1>1, AppendProperties
<1>4. CASE SkipSpace
  BY <1>2, <1>4 DEF SkipSpace, ImportTypeOK, dbVars
<1>5. CASE SkipComment
  <2>1. pos' \in 1..(Len(script) + 1)
    BY <1>1, <1>5, BehindLineInside DEF SkipComment
  <2> QED
    BY <1>5, <2>1 DEF SkipComment, ImportTypeOK, dbVars
<1>6. CASE OpenQuote
  BY <1>2, <1>3, <1>6 DEF OpenQuote, ImportTypeOK, dbVars
<1>7. CASE QuoteInQuote
  <2>1. pos \in DOMAIN script /\ pos + 1 \in 1..(Len(script) + 1)
    BY <1>2, <1>7 DEF QuoteInQuote
  <2>2. CASE NextIs("quote")
    <3>1. pos + 1 \in DOMAIN script /\ pos + 2 \in 1..(Len(script) + 1)
      BY <1>1, <2>2 DEF NextIs
    <3>2. <<pos, pos + 1>> \in Seq(DOMAIN script)
      BY <2>1, <3>1
    <3>3. buffer \o <<pos, pos + 1>> \in Seq(DOMAIN script)
      BY <1>1, <3>2, ConcatProperties
    <3> QED
      BY <1>7, <2>2, <3>1, <3>3 DEF QuoteInQuote, ImportTypeOK, dbVars
  <2>3. CASE ~NextIs("quote")
    BY <1>3, <1>7, <2>1, <2>3 DEF QuoteInQuote, ImportTypeOK, dbVars
  <2> QED
    BY <2>2, <2>3
<1>8. CASE EndStatement
  <2>1. script' = script /\ Cut /\ pos' \in 1..(Len(script) + 1)
    BY <1>2, <1>8 DEF EndStatement
  <2> QED
    BY <1>8, <2>1, CutTyped DEF EndStatement, ImportTypeOK, dbVars
<1>9. CASE AddChar
  BY <1>2, <1>3, <1>9 DEF AddChar, ImportTypeOK, dbVars
<1>10. CASE RunRest
  <2>1. script' = script /\ Cut
    BY <1>10 DEF RunRest
  <2> QED
    BY <1>10, <2>1, CutTyped DEF RunRest, ImportTypeOK, dbVars
<1>11. CASE Summary
  BY <1>11 DEF Summary, ImportTypeOK, scanVars, dbVars
<1> QED
  BY <1>4, <1>5, <1>6, <1>7, <1>8, <1>9, <1>10, <1>11 DEF Stream

\* Every step of a transaction keeps them.
LEMMA TypeTransaction == ImportTypeOK /\ Transaction => ImportTypeOK'
<1> SUFFICES ASSUME ImportTypeOK, Transaction PROVE ImportTypeOK'
  OBVIOUS
<1>1. Id \in Nat
  BY LenProperties DEF ImportTypeOK, Id
<1>2. <<>> \in Seq(DOMAIN script)
  BY EmptySeq
<1> USE DEF ImportTypeOK, Return, Continue, scanVars, dbVars
<1>3. CASE DryRun
  BY <1>1, <1>2, <1>3 DEF DryRun
<1>4. CASE BeginTransaction
  BY <1>4 DEF BeginTransaction
<1>5. CASE BeginFails
  BY <1>1, <1>2, <1>5 DEF BeginFails
<1>6. CASE Execute
  BY <1>1, <1>6 DEF Execute
<1>7. CASE ExecuteControl
  BY <1>1, <1>7 DEF ExecuteControl
<1>8. CASE ExecuteFails
  BY <1>8 DEF ExecuteFails
<1>9. CASE Rollback
  BY <1>1, <1>2, <1>9 DEF Rollback
<1>10. CASE Commit
  BY <1>1, <1>2, <1>10 DEF Commit
<1>11. CASE CommitFails
  BY <1>1, <1>2, <1>11 DEF CommitFails
<1> QED
  BY <1>3, <1>4, <1>5, <1>6, <1>7, <1>8, <1>9, <1>10, <1>11 DEF Transaction

\* Every step keeps the types.
LEMMA TypeStep == ImportTypeOK /\ [ImportNext]_importVars => ImportTypeOK'
<1>1. ImportTypeOK /\ UNCHANGED importVars => ImportTypeOK'
  BY DEF importVars, scanVars, dbVars, ImportTypeOK
<1> QED
  BY <1>1, TypeStream, TypeTransaction DEF ImportNext

\* Every variable keeps its type: no read leaves the script, and what is run
\* is made of its characters.
THEOREM TypeCorrect == ImportSpec => []ImportTypeOK
  BY TypeInit, TypeStep, PTL DEF ImportSpec

-----------------------------------------------------------------------------
(* Transactions                                                            *)

TxInv == SessionInv /\ IdInv /\ ReportsTrue

\* Nothing is run, reported or committed at the start.
LEMMA TxInit == ImportInit => TxInv
  BY DEF ImportInit, TxInv, SessionInv, IdInv, ReportsTrue, Id

\* Reading the script touches no transaction; a new statement has a new id.
LEMMA TxStream == ImportTypeOK /\ TxInv /\ Stream => TxInv'
<1> SUFFICES ASSUME ImportTypeOK, TxInv, Stream PROVE TxInv'
  OBVIOUS
<1>1. pc = "read" /\ UNCHANGED <<succeeded, failed, session, work, db, control>>
  BY DEF Stream, SkipSpace, SkipComment, OpenQuote, QuoteInQuote, EndStatement,
         AddChar, RunRest, Summary, Gets, dbVars
<1>2. \/ pc' \in {"read", "done"} /\ sent' = sent
      \/ pc' = "begin" /\ sent' = Append(sent, Trimmed(buffer))
  BY DEF Stream, SkipSpace, SkipComment, OpenQuote, QuoteInQuote, EndStatement,
         AddChar, RunRest, Summary, Gets, Cut
<1>3. Id \in Nat
  BY LenProperties DEF ImportTypeOK, Id
<1>4. \/ pc' \in {"read", "done"} /\ Id' = Id
      \/ pc' = "begin" /\ Id' = Id + 1
  <2>1. Trimmed(buffer) \in Seq(DOMAIN script)
    BY TrimmedTyped DEF ImportTypeOK
  <2>2. Len(Append(sent, Trimmed(buffer))) = Len(sent) + 1
    BY <2>1, AppendProperties DEF ImportTypeOK
  <2> QED
    BY <1>2, <2>2 DEF Id
<1>5. SessionInv'
  BY <1>1, <1>4 DEF TxInv, SessionInv
<1>6. IdInv'
  BY <1>1, <1>3, <1>4 DEF TxInv, IdInv
<1>7. ReportsTrue'
  BY <1>1 DEF TxInv, ReportsTrue
<1> QED
  BY <1>5, <1>6, <1>7 DEF TxInv

\* Every step of a transaction keeps the session in step with the code, and
\* reports what has happened.
LEMMA TxTransaction == ImportTypeOK /\ TxInv /\ Transaction => TxInv'
<1> SUFFICES ASSUME ImportTypeOK, TxInv, Transaction PROVE TxInv'
  OBVIOUS
<1>1. Id \in Nat /\ Id \in 0..Id
  BY LenProperties DEF ImportTypeOK, Id
<1>2. Id' = Id
  BY DEF Transaction, DryRun, BeginTransaction, BeginFails, Execute, ExecuteControl,
         ExecuteFails, Rollback, Commit, CommitFails, Return, Continue, Id
<1> USE DEF TxInv, Return, Continue, dbVars
<1>3. CASE DryRun
  BY <1>1, <1>2, <1>3 DEF DryRun, SessionInv, IdInv, ReportsTrue
<1>4. CASE BeginTransaction
  BY <1>1, <1>2, <1>4 DEF BeginTransaction, SessionInv, IdInv, ReportsTrue
<1>5. CASE BeginFails
  BY <1>1, <1>2, <1>5 DEF BeginFails, SessionInv, IdInv, ReportsTrue
<1>6. CASE Execute
  BY <1>1, <1>2, <1>6 DEF Execute, SessionInv, IdInv, ReportsTrue
<1>7. CASE ExecuteControl
  BY <1>1, <1>2, <1>7 DEF ExecuteControl, SessionInv, IdInv, ReportsTrue
<1>8. CASE ExecuteFails
  BY <1>1, <1>2, <1>8 DEF ExecuteFails, SessionInv, IdInv, ReportsTrue
<1>9. CASE Rollback
  BY <1>1, <1>2, <1>9 DEF Rollback, SessionInv, IdInv, ReportsTrue
<1>10. CASE Commit
  BY <1>1, <1>2, <1>10 DEF Commit, SessionInv, IdInv, ReportsTrue
<1>11. CASE CommitFails
  BY <1>1, <1>2, <1>11 DEF CommitFails, SessionInv, IdInv, ReportsTrue
<1> QED
  BY <1>3, <1>4, <1>5, <1>6, <1>7, <1>8, <1>9, <1>10, <1>11 DEF Transaction

\* Every step keeps the invariant.
LEMMA TxStep == ImportTypeOK /\ TxInv /\ [ImportNext]_importVars => TxInv'
<1>1. TxInv /\ UNCHANGED importVars => TxInv'
  BY DEF importVars, scanVars, dbVars, TxInv, SessionInv, IdInv, ReportsTrue, Id
<1> QED
  BY <1>1, TxStream, TxTransaction DEF ImportNext

\* Every statement runs in a transaction of its own: whatever failed before,
\* none is open or aborted when the next statement begins.
THEOREM Isolated == ImportSpec => []StatementsIsolated
<1>1. TxInv => StatementsIsolated
  BY DEF TxInv, SessionInv, StatementsIsolated
<1> QED
  BY <1>1, TypeInit, TypeStep, TxInit, TxStep, PTL DEF ImportSpec

\* What is counted as successful was committed; of what is counted as failed
\* only one statement may have been, the one whose answer was lost.
THEOREM ReportsAreTrue == ImportSpec => []ReportsTrue
<1>1. TxInv => ReportsTrue
  BY DEF TxInv
<1> QED
  BY <1>1, TypeInit, TypeStep, TxInit, TxStep, PTL DEF ImportSpec

-----------------------------------------------------------------------------
(* What SQL says of a character                                            *)

\* The function Mode defines exists.
LEMMA ModeExists ==
  ASSUME NEW t, Len(t) \in Nat
  PROVE  \E f : f = [i \in 1..(Len(t) + 1) |->
                       IF i = 1 THEN "plain" ELSE ModeAfter(t, i - 1, f[i - 1])]
<1> DEFINE H(n) == \E f : f = [i \in 1..n |->
                                 IF i = 1 THEN "plain" ELSE ModeAfter(t, i - 1, f[i - 1])]
           S == {n \in Nat \ {0} : ~H(n)}
<1>1. SUFFICES ASSUME S # {} PROVE FALSE
  <2>1. Len(t) + 1 \in Nat \ {0}
    OBVIOUS
  <2> QED
    BY <2>1
<1> HIDE DEF H
<1>2. S \in SUBSET Nat
  OBVIOUS
<1>3. Min(S) \in S /\ \A y \in S : Min(S) <= y
  BY <1>1, <1>2, MinOfNaturals
<1> DEFINE m == Min(S)
<1> HIDE DEF m
<1>4. m \in Nat \ {0} /\ ~H(m) /\ \A y \in S : m <= y
  BY <1>3 DEF m
<1>5. CASE m = 1
  <2> DEFINE g == [i \in 1..1 |-> "plain"]
  <2>1. g = [i \in 1..1 |-> IF i = 1 THEN "plain" ELSE ModeAfter(t, i - 1, g[i - 1])]
    OBVIOUS
  <2> QED
    BY <1>4, <1>5, <2>1 DEF H
<1>6. CASE m # 1
  <2>1. m - 1 \in Nat \ {0} /\ ~(m <= m - 1)
    BY <1>4, <1>6
  <2>2. H(m - 1)
    BY <1>4, <2>1
  <2>3. PICK f : f = [i \in 1..m - 1 |->
                        IF i = 1 THEN "plain" ELSE ModeAfter(t, i - 1, f[i - 1])]
    BY <2>2 DEF H
  <2> DEFINE e(i, h) == IF i = 1 THEN "plain" ELSE ModeAfter(t, i - 1, h[i - 1])
             g == [i \in 1..m |-> e(i, f)]
  <2>4. \A i \in 1..m - 1 : g[i] = f[i]
    <3> SUFFICES ASSUME NEW i \in 1..m - 1 PROVE g[i] = f[i]
      OBVIOUS
    <3>1. i \in 1..m
      BY <1>4
    <3>2. g[i] = e(i, f)
      BY <3>1
    <3>3. f[i] = e(i, f)
      BY <2>3
    <3> QED
      BY <3>2, <3>3
  <2>5. \A i \in 1..m : e(i, f) = e(i, g)
    <3> HIDE DEF g
    <3> SUFFICES ASSUME NEW i \in 1..m, i # 1 PROVE f[i - 1] = g[i - 1]
      OBVIOUS
    <3>1. i - 1 \in 1..m - 1
      BY <1>4
    <3> QED
      BY <2>4, <3>1
  <2>6. g = [i \in 1..m |-> e(i, g)]
    <3> DEFINE k == g
    <3>1. \A i \in 1..m : e(i, f) = e(i, k)
      BY <2>5
    <3>2. k = [i \in 1..m |-> e(i, f)]
      OBVIOUS
    <3> HIDE DEF k
    <3> HIDE DEF e
    <3>3. k = [i \in 1..m |-> e(i, k)]
      BY <3>1, <3>2
    <3> QED
      BY <3>3 DEF k
  <2>7. H(m)
    <3> DEFINE k == g
    <3>1. k = [i \in 1..m |-> IF i = 1 THEN "plain" ELSE ModeAfter(t, i - 1, k[i - 1])]
      BY <2>6
    <3> HIDE DEF k
    <3> QED
      BY <3>1 DEF H
  <2> QED
    BY <1>4, <2>7
<1> QED
  BY <1>5, <1>6

\* Mode is what its definition says.
LEMMA ModeIs ==
  ASSUME NEW t, Len(t) \in Nat
  PROVE  /\ Mode(t)[1] = "plain"
         /\ \A i \in 1..Len(t) : Mode(t)[i + 1] = ModeAfter(t, i, Mode(t)[i])
<1> DEFINE D(f) == f = [i \in 1..(Len(t) + 1) |->
                          IF i = 1 THEN "plain" ELSE ModeAfter(t, i - 1, f[i - 1])]
<1>1. Mode(t) = CHOOSE f : D(f)
  BY DEF Mode
<1>2. \E f : D(f)
  BY ModeExists
<1>3. D(Mode(t))
  <2> HIDE DEF D
  <2> QED
    BY <1>1, <1>2
<1> DEFINE m == Mode(t)
<1>4. m = [i \in 1..(Len(t) + 1) |->
             IF i = 1 THEN "plain" ELSE ModeAfter(t, i - 1, m[i - 1])]
  BY <1>3
<1> HIDE DEF m
<1>5. m[1] = "plain"
  BY <1>4
<1>6. ASSUME NEW i \in 1..Len(t) PROVE m[i + 1] = ModeAfter(t, i, m[i])
  <2>1. i + 1 \in 1..(Len(t) + 1) /\ i + 1 # 1 /\ (i + 1) - 1 = i
    OBVIOUS
  <2> QED
    BY <1>4, <2>1
<1> QED
  BY <1>5, <1>6 DEF m

Modes == {"plain", "literal", "comment"}

\* Behind every character stands text, a literal or a comment.
LEMMA ModeTyped ==
  ASSUME NEW t, Len(t) \in Nat
  PROVE  \A i \in 1..Len(t) + 1 : Mode(t)[i] \in Modes
<1> DEFINE m == Mode(t)
           S == {i \in 1..Len(t) + 1 : m[i] \notin Modes}
<1>1. /\ m[1] = "plain"
      /\ \A i \in 1..Len(t) : m[i + 1] = ModeAfter(t, i, m[i])
  BY ModeIs
<1> HIDE DEF m
<1>2. SUFFICES ASSUME S # {} PROVE FALSE
  BY DEF m
<1>3. S \in SUBSET Nat
  OBVIOUS
<1>4. Min(S) \in S /\ \A y \in S : Min(S) <= y
  BY <1>2, <1>3, MinOfNaturals
<1> DEFINE k == Min(S)
<1> HIDE DEF k
<1>5. k \in 1..Len(t) + 1 /\ m[k] \notin Modes /\ \A y \in S : k <= y
  BY <1>4 DEF k
<1>6. k # 1
  BY <1>1, <1>5 DEF Modes
<1>7. k - 1 \in 1..Len(t) /\ k - 1 \in 1..Len(t) + 1 /\ ~(k <= k - 1) /\ (k - 1) + 1 = k
  BY <1>5, <1>6
<1>8. m[k - 1] \in Modes
  BY <1>5, <1>7
<1>9. m[k] = ModeAfter(t, k - 1, m[k - 1])
  BY <1>1, <1>7
<1>10. \A i, x : x \in Modes => ModeAfter(t, i, x) \in Modes
  BY DEF ModeAfter, Modes
<1> QED
  BY <1>5, <1>8, <1>9, <1>10

\* What one character does to what stands behind it.
LEMMA ModeFacts ==
  ASSUME ImportTypeOK, NEW i \in 1..Len(script)
  PROVE  LET m == Mode(script)[i]
             n == Mode(script)[i + 1]
             c == script[i]
             twoDashes == c = "dash" /\ i < Len(script) /\ script[i + 1] = "dash"
         IN /\ m \in Modes /\ n \in Modes
            /\ m = "plain" /\ c = "quote" => n = "literal"
            /\ m = "plain" /\ c # "quote" /\ ~twoDashes => n = "plain"
            /\ m = "plain" /\ twoDashes => n = "comment"
            /\ m = "literal" /\ c = "quote" => n = "plain"
            /\ m = "literal" /\ c # "quote" => n = "literal"
            /\ m = "comment" /\ c = "newline" => n = "plain"
            /\ m = "comment" /\ c # "newline" => n = "comment"
<1> DEFINE m == Mode(script)[i]
           n == Mode(script)[i + 1]
<1>1. Len(script) \in Nat
  BY ScriptFacts
<1>2. i \in 1..Len(script) + 1 /\ i + 1 \in 1..Len(script) + 1
  BY <1>1
<1>3. m \in Modes /\ n \in Modes
  BY <1>1, <1>2, ModeTyped
<1>4. n = ModeAfter(script, i, m)
  BY <1>1, ModeIs
<1> HIDE DEF m, n
<1>5. m = "plain" \/ m = "literal" \/ m = "comment"
  BY <1>3 DEF Modes
<1>6. /\ m = "plain" /\ script[i] = "quote" => n = "literal"
      /\ m = "literal" /\ script[i] = "quote" => n = "plain"
      /\ m = "literal" /\ script[i] # "quote" => n = "literal"
      /\ m = "comment" /\ script[i] = "newline" => n = "plain"
      /\ m = "comment" /\ script[i] # "newline" => n = "comment"
  BY <1>4 DEF ModeAfter
<1>7. m = "plain" /\ script[i] # "quote"
        /\ ~(script[i] = "dash" /\ i < Len(script) /\ script[i + 1] = "dash") => n = "plain"
  BY <1>4 DEF ModeAfter
<1>8. m = "plain" /\ script[i] = "dash" /\ i < Len(script) /\ script[i + 1] = "dash"
        => n = "comment"
  BY <1>4 DEF ModeAfter
<1> QED
  BY <1>3, <1>6, <1>7, <1>8 DEF m, n

\* A comment lasts as long as there is no newline.
LEMMA CommentLasts ==
  ASSUME ImportTypeOK, NEW a \in 1..Len(script), Mode(script)[a] = "comment",
         NEW e \in a..Len(script) + 1, \A j \in a..e - 1 : script[j] # "newline"
  PROVE  \A j \in a..e : Mode(script)[j] = "comment"
<1> DEFINE m == Mode(script)
           S == {j \in a..e : m[j] # "comment"}
<1>0. Len(script) \in Nat
  BY ScriptFacts
<1>1. SUFFICES ASSUME S # {} PROVE FALSE
  OBVIOUS
<1>2. S \in SUBSET Nat
  BY <1>0
<1>3. Min(S) \in S /\ \A y \in S : Min(S) <= y
  BY <1>1, <1>2, MinOfNaturals
<1> DEFINE k == Min(S)
<1> HIDE DEF k
<1>4. k \in a..e /\ m[k] # "comment" /\ \A y \in S : k <= y
  BY <1>3 DEF k
<1>5. k # a
  BY <1>4
<1>6. /\ k - 1 \in a..e - 1 /\ k - 1 \in a..e /\ ~(k <= k - 1)
      /\ k - 1 \in 1..Len(script) /\ (k - 1) + 1 = k
  BY <1>0, <1>4, <1>5
<1>7. m[k - 1] = "comment"
  BY <1>4, <1>6
<1>8. script[k - 1] # "newline"
  BY <1>6
<1>9. m[(k - 1) + 1] = "comment"
  <2> HIDE DEF m
  <2>1. k - 1 \in 1..Len(script)
    BY <1>6
  <2> QED
    BY <1>7, <1>8, <2>1, ModeFacts DEF m
<1> QED
  BY <1>4, <1>6, <1>9

\* Two dashes in plain text start a comment that reaches as far as the code
\* skips.
LEMMA CommentSkipped ==
  ASSUME ImportTypeOK, NEW p \in 1..Len(script), Mode(script)[p] = "plain", script[p] = "dash",
         p < Len(script), script[p + 1] = "dash"
  PROVE  LET b == BehindLine(p + 2)
         IN /\ b \in p + 1..Len(script) + 1
            /\ \A j \in p + 1..b - 1 : Mode(script)[j] = "comment"
            /\ Mode(script)[b] # "literal"
            /\ b <= Len(script) => Mode(script)[b] = "plain"
<1> DEFINE m == Mode(script)
<1>0. Len(script) \in Nat
  BY ScriptFacts
<1>1. m[p + 1] = "comment"
  BY ModeFacts
<1> HIDE DEF m
<1>2. CASE Newlines(p + 2) = {}
  <2>1. BehindLine(p + 2) = Len(script) + 1
    BY <1>2 DEF BehindLine
  <2>2. \A j \in p + 2..Len(script) : script[j] # "newline"
    BY <1>2 DEF Newlines
  <2>3. \A j \in p + 1..(Len(script) + 1) - 1 : script[j] # "newline"
    BY <1>0, <2>2
  <2>4. p + 1 \in 1..Len(script) /\ Len(script) + 1 \in p + 1..Len(script) + 1
    BY <1>0
  <2>5. \A j \in p + 1..Len(script) + 1 : m[j] = "comment"
    BY <1>1, <2>3, <2>4, CommentLasts DEF m
  <2> QED
    BY <1>0, <2>1, <2>4, <2>5 DEF m
<1>3. CASE Newlines(p + 2) # {}
  <2> DEFINE n == Min(Newlines(p + 2))
  <2>1. Newlines(p + 2) \in SUBSET Nat
    BY <1>0 DEF Newlines
  <2>2. n \in Newlines(p + 2) /\ \A y \in Newlines(p + 2) : n <= y
    BY <1>3, <2>1, MinOfNaturals
  <2>3. BehindLine(p + 2) = n + 1
    BY <1>3 DEF BehindLine
  <2> HIDE DEF n
  <2>4. n \in p + 2..Len(script) /\ script[n] = "newline"
    BY <2>2 DEF Newlines
  <2>5. \A j \in p + 2..n - 1 : script[j] # "newline"
    BY <1>0, <2>2, <2>4 DEF Newlines
  <2>6. \A j \in p + 1..n - 1 : script[j] # "newline"
    BY <1>0, <2>4, <2>5
  <2>7. p + 1 \in 1..Len(script) /\ n \in p + 1..Len(script) + 1 /\ n \in 1..Len(script)
    BY <1>0, <2>4
  <2>8. \A j \in p + 1..n : m[j] = "comment"
    BY <1>1, <2>6, <2>7, CommentLasts DEF m
  <2>9. m[n] = "comment"
    BY <2>7, <2>8
  <2>10. m[n + 1] = "plain"
    BY <2>4, <2>7, <2>9, ModeFacts DEF m
  <2>11. n + 1 \in p + 1..Len(script) + 1 /\ (n + 1) - 1 = n
    BY <1>0, <2>4
  <2> QED
    BY <2>3, <2>8, <2>10, <2>11 DEF m
<1> QED
  BY <1>2, <1>3

-----------------------------------------------------------------------------
(* Pieces                                                                  *)

\* The places that count, and those that separate, are places of the script.
LEMMA PlacesIn ==
  ASSUME ImportTypeOK
  PROVE  /\ Len(script) \in Nat /\ DOMAIN script = 1..Len(script)
         /\ Significant(script) \subseteq 1..Len(script)
         /\ Separators(script) \subseteq 1..Len(script)
         /\ Cuts(script) \subseteq 1..Len(script) + 1
<1>1. Len(script) \in Nat /\ DOMAIN script = 1..Len(script)
  BY ScriptFacts
<1>2. Significant(script) \subseteq 1..Len(script) /\ Separators(script) \subseteq 1..Len(script)
  BY <1>1 DEF Significant, Separators
<1>3. Cuts(script) \subseteq 1..Len(script) + 1
  BY <1>1, <1>2 DEF Cuts
<1> QED
  BY <1>1, <1>2, <1>3

\* Which places count.
LEMMA SignificantIs ==
  ASSUME ImportTypeOK, NEW i \in 1..Len(script)
  PROVE  i \in Significant(script) <=>
           \/ Mode(script)[i] = "literal"
           \/ /\ Mode(script)[i] = "plain" /\ Mode(script)[i + 1] # "comment"
              /\ script[i] \notin Blanks /\ script[i] # "semicolon"
<1>1. i \in DOMAIN script
  BY ScriptFacts
<1> QED
  BY <1>1 DEF Significant

\* The statements that end before p.
Before(p) == {c \in Cuts(script) : c < p}

\* Without a separator from p to q the piece grows by what counts there, and no
\* statement ends.
LEMMA Advance ==
  ASSUME ImportTypeOK, NEW p \in 1..Len(script) + 1, NEW q \in p..Len(script) + 1,
         \A j \in p..q - 1 : j \notin Separators(script)
  PROVE  /\ Piece(script, q) = Piece(script, p) \cup {j \in Significant(script) : p <= j /\ j < q}
         /\ Before(q) = Before(p)
<1> DEFINE T == Separators(script)
           G == Significant(script)
<1>1. Len(script) \in Nat /\ G \subseteq Nat /\ T \subseteq 1..Len(script)
  BY PlacesIn
<1>2. \A j \in p..q - 1 : j \notin T
  OBVIOUS
<1>3. /\ Piece(script, p) = {j \in G : j < p /\ \A x \in T : x < p => x < j}
      /\ Piece(script, q) = {j \in G : j < q /\ \A x \in T : x < q => x < j}
      /\ Before(p) = {c \in T \cup {Len(script) + 1} : Piece(script, c) # {} /\ c < p}
      /\ Before(q) = {c \in T \cup {Len(script) + 1} : Piece(script, c) # {} /\ c < q}
  BY DEF Piece, Before, Cuts
<1> HIDE DEF T, G
<1>4. \A x \in T : x < q <=> x < p
  <2> SUFFICES ASSUME NEW x \in T PROVE x < q <=> x < p
    OBVIOUS
  <2>1. x \in Nat /\ p \in Nat /\ q \in Nat /\ p <= q
    BY <1>1
  <2>2. ~(p <= x /\ x < q)
    BY <1>2, <2>1
  <2> QED
    BY <2>1, <2>2
<1>5. ~(Len(script) + 1 < p) /\ ~(Len(script) + 1 < q)
  BY <1>1
<1>6. Before(q) = Before(p)
  BY <1>3, <1>4, <1>5
<1>7. ASSUME NEW j \in G
      PROVE  (j < q /\ \A x \in T : x < q => x < j)
               <=> \/ j < p /\ \A x \in T : x < p => x < j
                   \/ p <= j /\ j < q
  <2>1. j \in Nat /\ p \in Nat /\ q \in Nat /\ p <= q /\ \A x \in T : x \in Nat
    BY <1>1
  <2> QED
    BY <1>4, <2>1
<1>8. Piece(script, q) = Piece(script, p) \cup {j \in G : p <= j /\ j < q}
  BY <1>3, <1>7
<1> QED
  BY <1>6, <1>8 DEF G

\* Behind a separator a new piece begins, and the statement before it, if there
\* is one, has ended.
LEMMA SeparatorEnds ==
  ASSUME ImportTypeOK, NEW p \in Separators(script)
  PROVE  /\ Piece(script, p + 1) = {}
         /\ Before(p + 1) = IF Piece(script, p) = {} THEN Before(p) ELSE Before(p) \cup {p}
<1>1. Len(script) \in Nat /\ Significant(script) \subseteq Nat /\ p \in 1..Len(script)
      /\ Cuts(script) \subseteq 1..Len(script) + 1
  BY PlacesIn
<1>2. ASSUME NEW j \in Piece(script, p + 1) PROVE FALSE
  <2>1. j \in Nat /\ j < p + 1 /\ (p < p + 1 => p < j)
    BY <1>1 DEF Piece
  <2> QED
    BY <1>1, <2>1
<1>3. \A c \in Cuts(script) : c < p + 1 <=> c < p \/ c = p
  BY <1>1
<1>4. p \in Cuts(script) <=> Piece(script, p) # {}
  BY DEF Cuts
<1>5. Before(p + 1) = IF Piece(script, p) = {} THEN Before(p) ELSE Before(p) \cup {p}
  BY <1>3, <1>4 DEF Before
<1> QED
  BY <1>2, <1>5

\* The buffer holds the piece up to p, and no place from p on.
Held(b, p) == AsWritten(b, p) /\ \A j \in Range(b) : j < p

\* Blanks that count are followed by something else.
Solid(b) ==
  \A k \in DOMAIN b : b[k] \in Significant(script) =>
    \E l \in k..Len(b) : script[b[l]] \notin Blanks

\* iw_buf_add: the places of a longer buffer.
LEMMA PushRange ==
  ASSUME NEW S, NEW b \in Seq(S), NEW e \in S
  PROVE  /\ Append(b, e) \in Seq(S) /\ Len(Append(b, e)) = Len(b) + 1 /\ Len(b) \in Nat
         /\ DOMAIN b = 1..Len(b) /\ DOMAIN Append(b, e) = 1..Len(b) + 1
         /\ \A k \in 1..Len(b) : Append(b, e)[k] = b[k]
         /\ Append(b, e)[Len(b) + 1] = e
         /\ Range(Append(b, e)) = Range(b) \cup {e}
<1>1. /\ Append(b, e) \in Seq(S) /\ Len(Append(b, e)) = Len(b) + 1 /\ Len(b) \in Nat
      /\ DOMAIN b = 1..Len(b) /\ DOMAIN Append(b, e) = 1..Len(b) + 1
      /\ \A k \in 1..Len(b) : Append(b, e)[k] = b[k]
      /\ Append(b, e)[Len(b) + 1] = e
  BY AppendProperties, LenProperties
<1> DEFINE c == Append(b, e)
<1> HIDE DEF c
<1>2. \A k \in 1..Len(b) + 1 : k \in 1..Len(b) \/ k = Len(b) + 1
  BY <1>1
<1>3. \A k \in 1..Len(b) : k \in 1..Len(b) + 1
  BY <1>1
<1>4. Len(b) + 1 \in 1..Len(b) + 1
  BY <1>1
<1>5. Range(c) = Range(b) \cup {e}
  BY <1>1, <1>2, <1>3, <1>4 DEF Range, c
<1> QED
  BY <1>1, <1>5 DEF c

\* A place that counts or is blank, and is no separator, goes to the piece.
LEMMA PushHeld ==
  ASSUME ImportTypeOK, NEW b \in Seq(DOMAIN script), NEW p \in 1..Len(script), Held(b, p),
         p \notin Separators(script), p \in Significant(script) \/ script[p] \in Blanks
  PROVE  Held(Append(b, p), p + 1)
<1> DEFINE c == Append(b, p)
           G == Significant(script)
<1>0. Len(script) \in Nat /\ DOMAIN script = 1..Len(script) /\ G \subseteq Nat
  BY PlacesIn
<1>1. /\ Len(c) = Len(b) + 1 /\ Len(b) \in Nat /\ DOMAIN b = 1..Len(b)
      /\ \A k \in 1..Len(b) : c[k] = b[k]
      /\ c[Len(b) + 1] = p /\ Range(c) = Range(b) \cup {p}
  BY <1>0, PushRange
<1> HIDE DEF c
<1>2. /\ \A k \in 1..(Len(b) - 1) : b[k] < b[k + 1]
      /\ Range(b) \cap G = Piece(script, p)
      /\ \A j \in Range(b) \ G : script[j] \in Blanks
      /\ \A j \in Range(b) : j < p
  BY DEF Held, AsWritten
<1>3. \A k \in 1..Len(b) : b[k] \in Range(b) /\ b[k] < p
  BY <1>1, <1>2 DEF Range
<1>4. ASSUME NEW k \in 1..(Len(c) - 1) PROVE c[k] < c[k + 1]
  <2>1. CASE k = Len(b)
    <3>1. k \in 1..Len(b) /\ k + 1 = Len(b) + 1
      BY <1>1, <2>1
    <3> QED
      BY <1>1, <1>3, <3>1
  <2>2. CASE k # Len(b)
    <3>0. Len(c) = Len(b) + 1 /\ Len(b) \in Nat
      BY <1>1
    <3>1. k \in 1..(Len(b) - 1) /\ k \in 1..Len(b) /\ k + 1 \in 1..Len(b)
      BY <2>2, <3>0
    <3> QED
      BY <1>1, <1>2, <3>1
  <2> QED
    BY <2>1, <2>2
<1>5. /\ p \in 1..Len(script) + 1 /\ p + 1 \in p..Len(script) + 1
      /\ \A j \in p..(p + 1) - 1 : j = p
      /\ \A j \in G : (p <= j /\ j < p + 1) <=> j = p
  BY <1>0
<1>6. Piece(script, p + 1) = Piece(script, p) \cup {j \in G : p <= j /\ j < p + 1}
  BY <1>5, Advance
<1>7. Range(c) \cap G = Piece(script, p + 1)
  BY <1>1, <1>2, <1>5, <1>6
<1>8. \A j \in Range(c) \ G : script[j] \in Blanks
  BY <1>1, <1>2
<1>9. \A j \in Range(c) : j < p + 1
  <2>1. Range(b) \subseteq Nat
    BY <1>0, <1>1, ElementOfSeq DEF Range
  <2> QED
    BY <1>1, <1>2, <2>1
<1> QED
  BY <1>4, <1>7, <1>8, <1>9 DEF Held, AsWritten, c

\* What is passed over without counting changes nothing.
LEMMA SkipHeld ==
  ASSUME ImportTypeOK, NEW b \in Seq(DOMAIN script), NEW p \in 1..Len(script), Held(b, p),
         NEW q \in p..Len(script) + 1,
         \A j \in p..q - 1 : j \notin Separators(script) /\ j \notin Significant(script)
  PROVE  Held(b, q)
<1>0. /\ Len(script) \in Nat /\ DOMAIN script = 1..Len(script)
      /\ Significant(script) \subseteq Nat
  BY PlacesIn
<1>1. p \in 1..Len(script) + 1
  BY <1>0
<1>2. Piece(script, q) = Piece(script, p) \cup {j \in Significant(script) : p <= j /\ j < q}
  BY <1>1, Advance
<1>3. {j \in Significant(script) : p <= j /\ j < q} = {}
  BY <1>0
<1>4. \A j \in Range(b) : j < q
  <2>1. Range(b) \subseteq Nat
    <3>1. DOMAIN b = 1..Len(b)
      BY LenProperties
    <3> QED
      BY <1>0, <3>1, ElementOfSeq DEF Range
  <2> QED
    BY <1>0, <2>1 DEF Held
<1> QED
  BY <1>2, <1>3, <1>4 DEF Held, AsWritten

\* A place that is not blank makes the buffer solid, and one that does not count
\* keeps it so.
LEMMA PushSolid ==
  ASSUME ImportTypeOK, NEW b \in Seq(DOMAIN script), NEW p \in DOMAIN script,
         script[p] \notin Blanks \/ (p \notin Significant(script) /\ Solid(b))
  PROVE  Solid(Append(b, p))
<1> DEFINE c == Append(b, p)
<1>1. /\ Len(c) = Len(b) + 1 /\ Len(b) \in Nat /\ DOMAIN b = 1..Len(b)
      /\ DOMAIN c = 1..Len(b) + 1
      /\ \A k \in 1..Len(b) : c[k] = b[k]
      /\ c[Len(b) + 1] = p
  BY PushRange
<1> HIDE DEF c
<1>2. SUFFICES ASSUME NEW k \in 1..Len(b) + 1, c[k] \in Significant(script)
               PROVE  \E l \in k..Len(b) + 1 : script[c[l]] \notin Blanks
  BY <1>1 DEF Solid, c
<1>3. CASE script[p] \notin Blanks
  <2>1. Len(b) + 1 \in k..Len(b) + 1
    BY <1>1
  <2> QED
    BY <1>1, <1>3, <2>1
<1>4. CASE p \notin Significant(script) /\ Solid(b)
  <2>1. k \in 1..Len(b)
    BY <1>1, <1>2, <1>4
  <2>2. PICK l \in k..Len(b) : script[b[l]] \notin Blanks
    BY <1>1, <1>2, <1>4, <2>1 DEF Solid
  <2>3. l \in 1..Len(b) /\ l \in k..Len(b) + 1
    BY <1>1, <2>1
  <2> QED
    BY <1>1, <2>2, <2>3
<1> QED
  BY <1>3, <1>4

\* iw_buf_trim takes nothing that counts from a solid buffer, and leaves nothing
\* only of a piece that is empty.
LEMMA TrimHeld ==
  ASSUME ImportTypeOK, NEW b \in Seq(DOMAIN script), NEW p \in Nat, AsWritten(b, p), Solid(b)
  PROVE  /\ AsWritten(Trimmed(b), p)
         /\ Trimmed(b) = <<>> <=> Piece(script, p) = {}
<1> DEFINE kept == {k \in DOMAIN b : script[b[k]] \notin Blanks}
           G == Significant(script)
<1>1. Len(b) \in Nat /\ DOMAIN b = 1..Len(b)
  BY LenProperties
<1>2. /\ \A k \in 1..(Len(b) - 1) : b[k] < b[k + 1]
      /\ Range(b) \cap G = Piece(script, p)
      /\ \A j \in Range(b) \ G : script[j] \in Blanks
  BY DEF AsWritten
<1>3. ASSUME NEW k \in 1..Len(b), b[k] \in G
      PROVE  \E l \in k..Len(b) : l \in kept
  <2>1. PICK l \in k..Len(b) : script[b[l]] \notin Blanks
    BY <1>1, <1>3 DEF Solid
  <2>2. l \in 1..Len(b)
    BY <1>1
  <2> QED
    BY <1>1, <2>1, <2>2
<1>4. CASE kept = {}
  <2>1. Trimmed(b) = <<>>
    BY <1>4 DEF Trimmed
  <2>2. \A k \in 1..Len(b) : b[k] \notin G
    BY <1>3, <1>4
  <2>3. Range(b) \cap G = {}
    BY <1>1, <2>2 DEF Range
  <2>4. Piece(script, p) = {}
    BY <1>2, <2>3
  <2>5. Range(<<>>) = {}
    BY DEF Range
  <2>6. Len(<<>>) = 0
    OBVIOUS
  <2>7. AsWritten(<<>>, p)
    BY <2>4, <2>5, <2>6 DEF AsWritten
  <2> QED
    BY <2>1, <2>4, <2>7
<1>5. CASE kept # {}
  <2> DEFINE m == Max(kept)
             s == SubSeq(b, 1, m)
  <2>1. kept \in SUBSET (0..Len(b)) /\ kept \subseteq 1..Len(b)
    BY <1>1
  <2>2. m \in kept /\ \A y \in kept : y <= m
    BY <1>1, <1>5, <2>1, MaxOfNaturals
  <2>3. Trimmed(b) = s
    BY <1>5 DEF Trimmed
  <2>4. m \in 1..Len(b) /\ script[b[m]] \notin Blanks
    BY <1>1, <2>1, <2>2
  <2> HIDE DEF m
  <2>5. /\ s \in Seq(DOMAIN script) /\ Len(s) = m /\ DOMAIN s = 1..m
        /\ \A k \in 1..m : s[k] = b[k]
    <3>1. SubSeq(b, 1, m) \in Seq(DOMAIN script) /\ Len(SubSeq(b, 1, m)) = m
      BY <1>1, <2>4
    <3>2. \A k \in 1..m : SubSeq(b, 1, m)[k] = b[k]
      BY <1>1, <2>4
    <3> QED
      BY <3>1, <3>2, LenProperties
  <2> HIDE DEF s
  <2>6. \A k \in 1..m : k \in 1..Len(b)
    BY <1>1, <2>4
  <2>7. Range(s) \subseteq Range(b)
    BY <1>1, <2>5, <2>6 DEF Range
  <2>8. ASSUME NEW k \in 1..Len(b), b[k] \in G PROVE b[k] \in Range(s)
    <3>1. PICK l \in k..Len(b) : l \in kept
      BY <1>3, <2>8
    <3>2. l \in Nat /\ k <= l /\ l <= m
      BY <1>1, <2>2, <3>1
    <3>3. k \in 1..m
      BY <1>1, <2>4, <3>2
    <3> QED
      BY <2>5, <3>3 DEF Range
  <2>9. Range(s) \cap G = Piece(script, p)
    <3>1. Range(b) \cap G \subseteq Range(s)
      BY <1>1, <2>8 DEF Range
    <3> QED
      BY <1>2, <2>7, <3>1
  <2>10. \A k \in 1..(Len(s) - 1) : s[k] < s[k + 1]
    <3> SUFFICES ASSUME NEW k \in 1..m - 1 PROVE s[k] < s[k + 1]
      BY <2>5
    <3>1. k \in 1..m /\ k + 1 \in 1..m /\ k \in 1..(Len(b) - 1)
      BY <1>1, <2>4
    <3> QED
      BY <1>2, <2>5, <3>1
  <2>11. AsWritten(s, p)
    BY <1>2, <2>7, <2>9, <2>10 DEF AsWritten
  <2>12. b[m] \in Piece(script, p)
    <3>1. b[m] \in Range(b)
      BY <1>1, <2>4 DEF Range
    <3>2. b[m] \in G
      BY <1>2, <2>4, <3>1
    <3> QED
      BY <1>2, <3>1, <3>2
  <2>13. s # <<>>
    BY <2>4, <2>5
  <2> QED
    BY <2>3, <2>11, <2>12, <2>13
<1> QED
  BY <1>4, <1>5

-----------------------------------------------------------------------------
(* Statements                                                              *)

\* The statements that end before p are finitely many.
LEMMA BeforeFinite ==
  ASSUME ImportTypeOK, NEW p
  PROVE  /\ Before(p) \subseteq Nat /\ IsFiniteSet(Before(p))
         /\ Cuts(script) \subseteq Nat /\ IsFiniteSet(Cuts(script))
<1>1. Len(script) \in Nat /\ Cuts(script) \subseteq 1..Len(script) + 1
  BY PlacesIn
<1>2. IsFiniteSet(1..Len(script) + 1)
  BY <1>1, FS_Interval
<1>3. IsFiniteSet(Cuts(script)) /\ IsFiniteSet(Before(p))
  BY <1>1, <1>2, FS_Subset DEF Before
<1> QED
  BY <1>1, <1>3 DEF Before

\* A place behind all others has the last number, and changes no other.
LEMMA RankMore ==
  ASSUME NEW C, IsFiniteSet(C), C \subseteq Nat, NEW c \in Nat, \A d \in C : d < c
  PROVE  /\ Cardinality(C) \in Nat /\ Cardinality(C \cup {c}) = Cardinality(C) + 1
         /\ Rank(C \cup {c}, c) = Cardinality(C) + 1
         /\ \A d \in C : /\ Rank(C \cup {c}, d) = Rank(C, d)
                        /\ Rank(C, d) \in 1..Cardinality(C)
<1>1. c \notin C
  OBVIOUS
<1>2. Cardinality(C) \in Nat /\ Cardinality(C \cup {c}) = Cardinality(C) + 1
  BY <1>1, FS_AddElement, FS_CardinalityType
<1>3. {d \in C \cup {c} : d <= c} = C \cup {c}
  <2>1. \A d \in C \cup {c} : d <= c
    OBVIOUS
  <2> QED
    BY <2>1
<1>4. ASSUME NEW d \in C
      PROVE  /\ Rank(C \cup {c}, d) = Rank(C, d)
             /\ Rank(C, d) \in 1..Cardinality(C)
  <2> DEFINE U == {e \in C : e <= d}
  <2>1. {e \in C \cup {c} : e <= d} = U
    <3>1. ~(c <= d)
      OBVIOUS
    <3> QED
      BY <3>1
  <2>2. U \subseteq C /\ d \in U
    OBVIOUS
  <2>3. IsFiniteSet(U) /\ Cardinality(U) <= Cardinality(C)
    BY <2>2, FS_Subset
  <2> HIDE DEF U
  <2>4. Cardinality(U) \in Nat /\ Cardinality(U) # 0
    BY <2>2, <2>3, FS_CardinalityType, FS_EmptySet
  <2>5. Rank(C \cup {c}, d) = Cardinality(U) /\ Rank(C, d) = Cardinality(U)
    BY <2>1 DEF Rank, U
  <2> QED
    BY <1>2, <2>3, <2>4, <2>5
<1> QED
  BY <1>2, <1>3, <1>4 DEF Rank

\* One statement more is run.
LEMMA SentMore ==
  ASSUME ImportTypeOK, NEW C, IsFiniteSet(C), C \subseteq Nat, NEW c \in Nat,
         \A d \in C : d < c, SentUpTo(C), NEW s \in Seq(DOMAIN script),
         sent' = Append(sent, s), AsWritten(s, c), script' = script
  PROVE  SentUpTo(C \cup {c})'
<1>1. /\ Cardinality(C) \in Nat /\ Cardinality(C \cup {c}) = Cardinality(C) + 1
      /\ Rank(C \cup {c}, c) = Cardinality(C) + 1
      /\ \A d \in C : /\ Rank(C \cup {c}, d) = Rank(C, d)
                     /\ Rank(C, d) \in 1..Cardinality(C)
  BY RankMore
<1>2. /\ Len(sent) = Cardinality(C)
      /\ \A d \in C : AsWritten(sent[Rank(C, d)], d)
  BY DEF SentUpTo
<1>3. /\ Len(sent') = Len(sent) + 1
      /\ \A k \in 1..Len(sent) : sent'[k] = sent[k]
      /\ sent'[Len(sent) + 1] = s
  BY AppendProperties DEF ImportTypeOK
<1>4. ASSUME NEW d \in C \cup {c} PROVE AsWritten(sent'[Rank(C \cup {c}, d)], d)
  <2>1. CASE d \in C
    BY <1>1, <1>2, <1>3, <2>1
  <2>2. CASE d = c
    BY <1>1, <1>2, <1>3, <2>2
  <2> QED
    BY <2>1, <2>2
<1>5. \A b, d : AsWritten(b, d)' = AsWritten(b, d)
  BY DEF AsWritten
<1>6. Len(sent') = Cardinality(C \cup {c})
  BY <1>1, <1>2, <1>3
<1> QED
  BY <1>4, <1>6 DEF SentUpTo, AsWritten

\* What holds while a character is there to be read.
LEMMA Reading ==
  ASSUME ImportTypeOK, ScanInv, pc = "read", ~AtEnd
  PROVE  /\ pos \in 1..Len(script) /\ Len(script) \in Nat
         /\ SentUpTo(Before(pos)) /\ Held(buffer, pos)
         /\ buffer \in Seq(DOMAIN script)
         /\ inQuote => buffer # <<>> /\ Mode(script)[pos] = "literal"
         /\ ~inQuote => Solid(buffer) /\ Mode(script)[pos] = "plain"
<1>1. Len(script) \in Nat /\ pos \in 1..Len(script)
  BY ScriptFacts DEF ImportTypeOK, AtEnd
<1>2. SentUpTo({c \in Cuts(script) : c < pos}) /\ BufferOK /\ ModeOK
  BY DEF ScanInv
<1>3. Mode(script)[pos] \in Modes
  BY <1>1, ModeFacts
<1>4. Mode(script)[pos] = IF inQuote THEN "literal" ELSE "plain"
  BY <1>2, <1>3 DEF ModeOK, Modes, ImportTypeOK
<1> QED
  BY <1>1, <1>2, <1>4 DEF Before, BufferOK, Held, Solid, ImportTypeOK

\* What has to hold behind the characters that were read.
LEMMA Goes ==
  ASSUME ImportTypeOK, pos \in 1..Len(script), SentUpTo(Before(pos)),
         script' = script, sent' = sent, pc' = "read", pos' \in pos..Len(script) + 1,
         \A j \in pos..pos' - 1 : j \notin Separators(script),
         Held(buffer', pos'), inQuote' => buffer' # <<>>, ~inQuote' => Solid(buffer'),
         inQuote' = (Mode(script)[pos'] = "literal"),
         pos' <= Len(script) => Mode(script)[pos'] # "comment"
  PROVE  ScanInv'
<1>1. Len(script) \in Nat /\ pos \in 1..Len(script) + 1
  BY ScriptFacts
<1>2. Before(pos') = Before(pos)
  BY <1>1, Advance
<1>3. ModeOK'
  BY <1>1 DEF ModeOK, AtEnd
<1>4. BufferOK'
  BY DEF BufferOK, Held, Solid, AsWritten
<1>5. SentUpTo({c \in Cuts(script) : c < pos})'
  BY <1>2 DEF SentUpTo, AsWritten, Before
<1> QED
  BY <1>3, <1>4, <1>5 DEF ScanInv

-----------------------------------------------------------------------------
(* The loop over the script                                                *)

\* At the start nothing is held and nothing has ended.
LEMMA ScanInitially == ImportInit => ScanInv
<1> SUFFICES ASSUME ImportInit PROVE ScanInv
  OBVIOUS
<1>1. ImportTypeOK
  BY TypeInit
<1>2. /\ pos = 1 /\ buffer = <<>> /\ inQuote = FALSE /\ pc = "read" /\ sent = <<>>
  BY DEF ImportInit
<1>3. Len(script) \in Nat /\ Mode(script)[1] = "plain"
  BY <1>1, ScriptFacts, ModeIs
<1>4. ModeOK
  BY <1>2, <1>3 DEF ModeOK
<1>5. Piece(script, 1) = {}
  <2>1. Significant(script) \subseteq 1..Len(script)
    BY <1>1, PlacesIn
  <2>2. \A j \in Significant(script) : ~(j < 1)
    BY <1>3, <2>1
  <2> QED
    BY <2>2 DEF Piece
<1>6. {c \in Cuts(script) : c < pos} = {}
  <2>1. Cuts(script) \subseteq 1..Len(script) + 1
    BY <1>1, PlacesIn
  <2>2. \A c \in Cuts(script) : ~(c < 1)
    BY <1>3, <2>1
  <2> QED
    BY <1>2, <2>2
<1>7. SentUpTo({})
  <2>1. Cardinality({}) = 0
    BY FS_EmptySet
  <2> QED
    BY <1>2, <2>1 DEF SentUpTo
<1>8. Range(buffer) = {} /\ Len(buffer) = 0 /\ DOMAIN buffer = {}
  BY <1>2 DEF Range
<1>9. BufferOK
  BY <1>2, <1>5, <1>8 DEF BufferOK, AsWritten
<1> QED
  BY <1>2, <1>4, <1>6, <1>7, <1>9 DEF ScanInv

\* A place counts or separates only where SQL reads a statement.
LEMMA PlaceFacts ==
  ASSUME ImportTypeOK, NEW p \in 1..Len(script)
  PROVE  /\ p \in Separators(script) <=> script[p] = "semicolon" /\ Mode(script)[p] = "plain"
         /\ Mode(script)[p] = "literal" => p \in Significant(script)
         /\ Mode(script)[p] = "comment" => p \notin Significant(script)
         /\ Mode(script)[p] = "plain" /\ Mode(script)[p + 1] = "comment"
              => p \notin Significant(script)
         /\ Mode(script)[p] = "plain" /\ script[p] \in Blanks
              => p \notin Significant(script)
         /\ Mode(script)[p] = "plain" /\ Mode(script)[p + 1] # "comment"
              /\ script[p] \notin Blanks /\ script[p] # "semicolon" => p \in Significant(script)
<1>1. p \in DOMAIN script
  BY ScriptFacts
<1>2. p \in Separators(script) <=> script[p] = "semicolon" /\ Mode(script)[p] = "plain"
  BY <1>1 DEF Separators
<1> QED
  BY <1>2, SignificantIs

\* A buffer that is empty is solid.
LEMMA EmptySolid == Solid(<<>>)
<1>1. DOMAIN <<>> = {}
  OBVIOUS
<1> QED
  BY <1>1 DEF Solid

\* Blanks before a statement are passed over.
LEMMA ScanBlank ==
  ASSUME ImportTypeOK, ScanInv, SkipSpace
  PROVE  ScanInv'
<1>1. /\ pc = "read" /\ ~AtEnd /\ script[pos] \in Blanks /\ buffer = <<>>
      /\ pos' = pos + 1 /\ buffer' = buffer /\ inQuote' = inQuote
      /\ script' = script /\ sent' = sent /\ pc' = "read"
  BY DEF SkipSpace, Gets
<1>2. /\ pos \in 1..Len(script) /\ Len(script) \in Nat
      /\ SentUpTo(Before(pos)) /\ Held(buffer, pos) /\ buffer \in Seq(DOMAIN script)
      /\ ~inQuote /\ Mode(script)[pos] = "plain"
  BY <1>1, Reading
<1>3. script[pos] # "quote" /\ script[pos] # "dash" /\ script[pos] # "semicolon"
  BY <1>1 DEF Blanks
<1>4. Mode(script)[pos + 1] = "plain"
  BY <1>2, <1>3, ModeFacts
<1>5. pos \notin Separators(script) /\ pos \notin Significant(script)
  BY <1>1, <1>2, <1>3, PlaceFacts
<1>6. pos + 1 \in pos..Len(script) + 1 /\ \A j \in pos..(pos + 1) - 1 : j = pos
  BY <1>2
<1>7. Held(buffer, pos + 1)
  BY <1>2, <1>5, <1>6, SkipHeld
<1>8. Solid(buffer')
  BY <1>1, EmptySolid
<1>9. \A j \in pos..pos' - 1 : j \notin Separators(script)
  BY <1>1, <1>5, <1>6
<1>10. inQuote' = FALSE
  BY <1>1, <1>2 DEF ImportTypeOK
<1>11. inQuote' = (Mode(script)[pos'] = "literal") /\ Mode(script)[pos'] # "comment"
  BY <1>1, <1>4, <1>10
<1>12. Held(buffer', pos') /\ pos' \in pos..Len(script) + 1
  BY <1>1, <1>6, <1>7
<1> QED
  BY <1>1, <1>2, <1>8, <1>9, <1>10, <1>11, <1>12, Goes

\* So are comments, and no separator or literal in them is seen.
LEMMA ScanComment ==
  ASSUME ImportTypeOK, ScanInv, SkipComment
  PROVE  ScanInv'
<1> DEFINE b == BehindLine(pos + 2)
<1>1. /\ pc = "read" /\ ~AtEnd /\ script[pos] = "dash" /\ pos < Len(script)
      /\ script[pos + 1] = "dash" /\ ~inQuote
      /\ pos' = b /\ buffer' = buffer /\ inQuote' = inQuote
      /\ script' = script /\ sent' = sent /\ pc' = "read"
  BY DEF SkipComment, Gets, NextIs
<1>2. /\ pos \in 1..Len(script) /\ Len(script) \in Nat
      /\ SentUpTo(Before(pos)) /\ Held(buffer, pos) /\ buffer \in Seq(DOMAIN script)
      /\ Solid(buffer) /\ Mode(script)[pos] = "plain"
  BY <1>1, Reading
<1>3. /\ b \in pos + 1..Len(script) + 1
      /\ \A j \in pos + 1..b - 1 : Mode(script)[j] = "comment"
      /\ Mode(script)[b] # "literal"
      /\ b <= Len(script) => Mode(script)[b] = "plain"
  BY <1>1, <1>2, CommentSkipped
<1>4. Mode(script)[pos + 1] = "comment"
  BY <1>1, <1>2, ModeFacts
<1> HIDE DEF b
<1>5. pos \notin Separators(script) /\ pos \notin Significant(script)
  BY <1>1, <1>2, <1>4, PlaceFacts
<1>6. ASSUME NEW j \in pos..b - 1
      PROVE  j \notin Separators(script) /\ j \notin Significant(script)
  <2>1. CASE j = pos
    BY <1>5, <2>1
  <2>2. CASE j # pos
    <3>1. j \in pos + 1..b - 1 /\ j \in 1..Len(script)
      BY <1>2, <1>3, <2>2
    <3>2. Mode(script)[j] = "comment"
      BY <1>3, <3>1
    <3> QED
      BY <3>1, <3>2, PlaceFacts
  <2> QED
    BY <2>1, <2>2
<1>7. b \in pos..Len(script) + 1
  BY <1>2, <1>3
<1>8. Held(buffer, b)
  BY <1>2, <1>6, <1>7, SkipHeld
<1>9. /\ b <= Len(script) => Mode(script)[b] # "comment"
      /\ \A j \in pos..b - 1 : j \notin Separators(script)
  BY <1>3, <1>6
<1>10. inQuote' = FALSE
  BY <1>1 DEF ImportTypeOK
<1>11. inQuote' = (Mode(script)[pos'] = "literal")
  BY <1>1, <1>3, <1>10
<1>12. Held(buffer', pos') /\ pos' \in pos..Len(script) + 1 /\ Solid(buffer')
  BY <1>1, <1>2, <1>7, <1>8
<1>13. /\ pos' <= Len(script) => Mode(script)[pos'] # "comment"
       /\ \A j \in pos..pos' - 1 : j \notin Separators(script)
  BY <1>1, <1>9
<1> QED
  BY <1>1, <1>2, <1>10, <1>11, <1>12, <1>13, Goes

\* One character that counts, or a blank, joins the buffer.
LEMMA ScanOne ==
  ASSUME ImportTypeOK, ScanInv, pc = "read", ~AtEnd,
         pos' = pos + 1, buffer' = Append(buffer, pos), script' = script, sent' = sent,
         pc' = "read", pos \notin Separators(script),
         pos \in Significant(script) \/ script[pos] \in Blanks,
         ~inQuote' => script[pos] \notin Blanks \/ (pos \notin Significant(script) /\ ~inQuote),
         inQuote' = (Mode(script)[pos + 1] = "literal"), Mode(script)[pos + 1] # "comment"
  PROVE  ScanInv'
<1>2. /\ pos \in 1..Len(script) /\ Len(script) \in Nat
      /\ SentUpTo(Before(pos)) /\ Held(buffer, pos) /\ buffer \in Seq(DOMAIN script)
      /\ ~inQuote => Solid(buffer)
  BY Reading
<1>3. pos \in DOMAIN script
  BY <1>2, ScriptFacts
<1>4. Held(buffer', pos')
  BY <1>2, PushHeld
<1>5. ~inQuote' => Solid(buffer')
  BY <1>2, <1>3, PushSolid
<1>6. buffer' # <<>>
  <2>1. Len(buffer') = Len(buffer) + 1 /\ Len(buffer) \in Nat
    BY <1>2, <1>3, PushRange
  <2> QED
    BY <2>1
<1>7. pos' \in pos..Len(script) + 1 /\ \A j \in pos..pos' - 1 : j \notin Separators(script)
  BY <1>2
<1> QED
  BY <1>2, <1>4, <1>5, <1>6, <1>7, Goes

\* A quote opens a literal.
LEMMA ScanOpen ==
  ASSUME ImportTypeOK, ScanInv, OpenQuote
  PROVE  ScanInv'
<1>1. /\ pc = "read" /\ ~AtEnd /\ script[pos] = "quote" /\ ~inQuote
      /\ pos' = pos + 1 /\ buffer' = Append(buffer, pos) /\ inQuote' = TRUE
      /\ script' = script /\ sent' = sent /\ pc' = "read"
  BY DEF OpenQuote, Gets
<1>2. pos \in 1..Len(script) /\ Mode(script)[pos] = "plain"
  BY <1>1, Reading
<1>3. Mode(script)[pos + 1] = "literal"
  BY <1>1, <1>2, ModeFacts
<1>4. pos \notin Separators(script) /\ pos \in Significant(script)
  BY <1>1, <1>2, <1>3, PlaceFacts DEF Blanks
<1> QED
  BY <1>1, <1>3, <1>4, ScanOne

\* A character that is no separator joins the buffer.
LEMMA ScanChar ==
  ASSUME ImportTypeOK, ScanInv, AddChar
  PROVE  ScanInv'
<1>1. /\ pc = "read" /\ ~AtEnd
      /\ pos' = pos + 1 /\ buffer' = Append(buffer, pos) /\ inQuote' = inQuote
      /\ script' = script /\ sent' = sent /\ pc' = "read"
  BY DEF AddChar, Gets
<1>2. /\ script[pos] # "quote"
      /\ script[pos] = "semicolon" => inQuote
      /\ script[pos] = "dash" => inQuote \/ ~NextIs("dash")
  BY DEF AddChar, Gets, Blanks
<1>3. /\ pos \in 1..Len(script)
      /\ inQuote => Mode(script)[pos] = "literal"
      /\ ~inQuote => Mode(script)[pos] = "plain"
  BY <1>1, Reading
<1>4. ~(script[pos] = "dash" /\ pos < Len(script) /\ script[pos + 1] = "dash") \/ inQuote
  BY <1>2 DEF NextIs
<1>5. /\ inQuote => Mode(script)[pos + 1] = "literal"
      /\ ~inQuote => Mode(script)[pos + 1] = "plain"
  BY <1>2, <1>3, <1>4, ModeFacts
<1>6. inQuote \in BOOLEAN
  BY DEF ImportTypeOK
<1>7. inQuote' = (Mode(script)[pos + 1] = "literal") /\ Mode(script)[pos + 1] # "comment"
  BY <1>1, <1>5, <1>6
<1>8. CASE inQuote
  <2>1. pos \notin Separators(script) /\ pos \in Significant(script)
    BY <1>3, <1>8, PlaceFacts
  <2> QED
    BY <1>1, <1>7, <1>8, <2>1, ScanOne
<1>9. CASE ~inQuote
  <2>1. pos \notin Separators(script)
    BY <1>2, <1>3, <1>9, PlaceFacts
  <2>2. IF script[pos] \in Blanks THEN pos \notin Significant(script)
                                ELSE pos \in Significant(script)
    BY <1>2, <1>3, <1>5, <1>9, PlaceFacts
  <2> QED
    BY <1>1, <1>7, <1>9, <2>1, <2>2, ScanOne
<1> QED
  BY <1>8, <1>9

\* A quote in a literal closes it; two of them are part of it.
LEMMA ScanClose ==
  ASSUME ImportTypeOK, ScanInv, QuoteInQuote
  PROVE  ScanInv'
<1>1. /\ pc = "read" /\ ~AtEnd /\ script[pos] = "quote" /\ inQuote
      /\ script' = script /\ sent' = sent /\ pc' = "read"
  BY DEF QuoteInQuote, Gets
<1>2. /\ pos \in 1..Len(script) /\ Len(script) \in Nat /\ Mode(script)[pos] = "literal"
      /\ SentUpTo(Before(pos)) /\ Held(buffer, pos) /\ buffer \in Seq(DOMAIN script)
  BY <1>1, Reading
<1>3. Mode(script)[pos + 1] = "plain"
  BY <1>1, <1>2, ModeFacts
<1>4. pos \notin Separators(script) /\ pos \in Significant(script)
  BY <1>2, PlaceFacts
<1>5. CASE ~NextIs("quote")
  <2>1. buffer' = Append(buffer, pos) /\ pos' = pos + 1 /\ inQuote' = FALSE
    BY <1>5 DEF QuoteInQuote
  <2>2. script[pos] \notin Blanks
    BY <1>1 DEF Blanks
  <2> QED
    BY <1>1, <1>3, <1>4, <2>1, <2>2, ScanOne
<1>6. CASE NextIs("quote")
  <2> DEFINE c == Append(buffer, pos)
             d == Append(c, pos + 1)
  <2>1. buffer' = buffer \o <<pos, pos + 1>> /\ pos' = pos + 2 /\ inQuote' = TRUE
    BY <1>6 DEF QuoteInQuote
  <2>2. pos + 1 \in 1..Len(script) /\ script[pos + 1] = "quote"
    BY <1>2, <1>6 DEF NextIs
  <2>3. pos \in DOMAIN script /\ pos + 1 \in DOMAIN script
    BY <1>2, <2>2, ScriptFacts
  <2>4. buffer \o <<pos, pos + 1>> = d
    BY <1>2, <2>3
  <2>5. Mode(script)[pos + 2] = "literal"
    <3>1. Mode(script)[(pos + 1) + 1] = "literal"
      BY <1>3, <2>2, ModeFacts
    <3>2. (pos + 1) + 1 = pos + 2
      BY <1>2
    <3> QED
      BY <3>1, <3>2
  <2>6. c \in Seq(DOMAIN script) /\ Held(c, pos + 1)
    BY <1>2, <1>4, <2>3, PushHeld, PushRange
  <2>7. pos + 1 \notin Separators(script) /\ pos + 1 \in Significant(script)
    <3>1. Mode(script)[(pos + 1) + 1] # "comment"
      <4>1. (pos + 1) + 1 = pos + 2
        BY <1>2
      <4> QED
        BY <2>5, <4>1
    <3> QED
      BY <1>3, <2>2, <3>1, PlaceFacts DEF Blanks
  <2>8. Held(d, (pos + 1) + 1) /\ Len(d) = Len(c) + 1 /\ Len(c) \in Nat
    <3> HIDE DEF c
    <3>1. Held(d, (pos + 1) + 1)
      BY <2>2, <2>6, <2>7, PushHeld
    <3>2. Len(d) = Len(c) + 1 /\ Len(c) \in Nat
      BY <2>3, <2>6, PushRange
    <3> QED
      BY <3>1, <3>2
  <2> HIDE DEF c, d
  <2>9. (pos + 1) + 1 = pos + 2 /\ d # <<>>
    BY <1>2, <2>8
  <2>10. Held(buffer', pos') /\ buffer' # <<>>
    BY <2>1, <2>4, <2>8, <2>9
  <2>11. /\ pos + 2 \in pos..Len(script) + 1
         /\ \A j \in pos..(pos + 2) - 1 : j = pos \/ j = pos + 1
    BY <1>2, <2>2
  <2>12. \A j \in pos..(pos + 2) - 1 : j \notin Separators(script)
    BY <1>4, <2>7, <2>11
  <2> QED
    BY <1>1, <1>2, <2>1, <2>5, <2>10, <2>11, <2>12, Goes
<1> QED
  BY <1>5, <1>6

\* A separator ends the statement before it, if there is one.
LEMMA ScanEnd ==
  ASSUME ImportTypeOK, ScanInv, EndStatement
  PROVE  ScanInv'
<1>1. /\ pc = "read" /\ ~AtEnd /\ script[pos] = "semicolon" /\ ~inQuote
      /\ pos' = pos + 1 /\ inQuote' = inQuote /\ script' = script /\ Cut
  BY DEF EndStatement, Gets
<1>2. /\ pos \in 1..Len(script) /\ Len(script) \in Nat /\ Mode(script)[pos] = "plain"
      /\ SentUpTo(Before(pos)) /\ Held(buffer, pos) /\ buffer \in Seq(DOMAIN script)
      /\ Solid(buffer)
  BY <1>1, Reading
<1>3. Mode(script)[pos + 1] = "plain"
  BY <1>1, <1>2, ModeFacts
<1>4. ModeOK'
  BY <1>1, <1>3 DEF ModeOK, ImportTypeOK
<1>5. pos \in Separators(script)
  BY <1>1, <1>2, PlaceFacts
<1>6. /\ Piece(script, pos + 1) = {}
      /\ Before(pos + 1) = IF Piece(script, pos) = {} THEN Before(pos) ELSE Before(pos) \cup {pos}
  BY <1>5, SeparatorEnds
<1>7. AsWritten(Trimmed(buffer), pos) /\ (Trimmed(buffer) = <<>> <=> Piece(script, pos) = {})
  <2>1. AsWritten(buffer, pos) /\ pos \in Nat
    BY <1>2 DEF Held
  <2> QED
    BY <1>2, <2>1, TrimHeld
<1>8. /\ {c \in Cuts(script) : c < pos}' = Before(pos + 1)
      /\ Piece(script, pos)' = {}
  BY <1>1, <1>6 DEF Before
<1> PICK C : C = Before(pos)
  OBVIOUS
<1>9. CASE Trimmed(buffer) = <<>>
  <2>1. buffer' = <<>> /\ pc' = "read" /\ sent' = sent
    BY <1>1, <1>9 DEF Cut
  <2>2. Before(pos + 1) = C
    BY <1>6, <1>7, <1>9
  <2>3. SentUpTo(C)'
    BY <1>1, <1>2, <2>1 DEF SentUpTo, AsWritten
  <2>4. Range(<<>>) = {} /\ Len(<<>>) = 0 /\ DOMAIN <<>> = {}
    BY DEF Range
  <2>5. BufferOK'
    BY <1>1, <1>8, <2>1, <2>4 DEF BufferOK, AsWritten
  <2>6. SentUpTo({c \in Cuts(script) : c < pos})'
    BY <1>8, <2>2, <2>3
  <2> QED
    BY <1>4, <2>1, <2>5, <2>6 DEF ScanInv
<1>10. CASE Trimmed(buffer) # <<>>
  <2>1. sent' = Append(sent, Trimmed(buffer)) /\ pc' = "begin"
    BY <1>1, <1>10 DEF Cut
  <2> PICK p, s : p = pos /\ s = Trimmed(buffer)
    OBVIOUS
  <2>2. Before(pos + 1) = C \cup {p}
    BY <1>6, <1>7, <1>10
  <2>3. s \in Seq(DOMAIN script)
    BY <1>2, TrimmedTyped
  <2>4. C \subseteq Nat /\ IsFiniteSet(C) /\ p \in Nat
    BY <1>2, BeforeFinite
  <2>5. \A d \in C : d < p
    BY DEF Before
  <2>6. SentUpTo(C \cup {p})'
    BY <1>1, <1>2, <1>7, <2>1, <2>3, <2>4, <2>5, SentMore
  <2>7. SentUpTo({c \in Cuts(script) : c < pos})'
    BY <1>8, <2>2, <2>6
  <2> QED
    BY <1>1, <1>4, <1>8, <2>1, <2>7 DEF ScanInv
<1> QED
  BY <1>9, <1>10

\* Behind the last character: what the buffer holds is the last statement, which
\* has no separator.
LEMMA ScanAtEnd ==
  ASSUME ImportTypeOK, ScanInv, pc = "read", AtEnd, Closed(script)
  PROVE  \/ SentUpTo(Cuts(script)) /\ buffer = <<>>
         \/ /\ SentUpTo(Before(pos)) /\ AsWritten(Trimmed(buffer), pos)
            /\ Cuts(script) = IF Trimmed(buffer) = <<>> THEN Before(pos)
                                                      ELSE Before(pos) \cup {pos}
<1>1. /\ Len(script) \in Nat /\ pos = Len(script) + 1 /\ buffer \in Seq(DOMAIN script)
      /\ Cuts(script) \subseteq 1..Len(script) + 1
  BY PlacesIn DEF ImportTypeOK, AtEnd
<1>2. ~inQuote
  BY <1>1 DEF ScanInv, ModeOK, Closed
<1>3. CASE SentUpTo({c \in Cuts(script) : c < pos}) /\ BufferOK
  <2>1. SentUpTo(Before(pos)) /\ AsWritten(buffer, pos) /\ Solid(buffer)
    BY <1>2, <1>3 DEF BufferOK, Before, Solid
  <2>2. pos \in Nat
    BY <1>1
  <2>3. AsWritten(Trimmed(buffer), pos) /\ (Trimmed(buffer) = <<>> <=> Piece(script, pos) = {})
    BY <1>1, <2>1, <2>2, TrimHeld
  <2>4. pos \in Cuts(script) <=> Piece(script, pos) # {}
    BY <1>1 DEF Cuts
  <2>5. \A c \in Cuts(script) : c < pos \/ c = pos
    BY <1>1
  <2>6. Cuts(script) = IF Trimmed(buffer) = <<>> THEN Before(pos) ELSE Before(pos) \cup {pos}
    BY <2>3, <2>4, <2>5 DEF Before
  <2> QED
    BY <2>1, <2>3, <2>6
<1>4. CASE buffer = <<>> /\ (Closed(script) => SentUpTo(Cuts(script)))
  BY <1>4
<1> QED
  BY <1>3, <1>4 DEF ScanInv

\* Nothing is left of an empty buffer.
LEMMA TrimmedEmpty == Trimmed(<<>>) = <<>>
<1>1. DOMAIN <<>> = {}
  OBVIOUS
<1> QED
  BY <1>1 DEF Trimmed

\* The end of the script ends the last statement.
LEMMA ScanRest ==
  ASSUME ImportTypeOK, ScanInv, RunRest
  PROVE  ScanInv'
<1>1. /\ pc = "read" /\ AtEnd /\ script' = script /\ pos' = pos /\ inQuote' = inQuote
      /\ sent' = Append(sent, Trimmed(buffer)) /\ pc' = "begin"
      /\ Trimmed(buffer) # <<>>
  BY DEF RunRest, Cut
<1>2. ModeOK' /\ AtEnd'
  BY <1>1 DEF ScanInv, ModeOK, AtEnd
<1>3. ASSUME Closed(script) PROVE SentUpTo(Cuts(script))'
  <2> PICK C, p, s : C = Before(pos) /\ p = pos /\ s = Trimmed(buffer)
    OBVIOUS
  <2>1. SentUpTo(C) /\ AsWritten(s, p) /\ Cuts(script) = C \cup {p}
    BY <1>1, <1>3, ScanAtEnd, TrimmedEmpty
  <2>2. s \in Seq(DOMAIN script)
    BY TrimmedTyped DEF ImportTypeOK
  <2>3. C \subseteq Nat /\ IsFiniteSet(C) /\ p \in Nat
    <3>1. pos \in Nat
      BY ScriptFacts DEF ImportTypeOK
    <3> QED
      BY <3>1, BeforeFinite
  <2>4. \A d \in C : d < p
    BY DEF Before
  <2>5. SentUpTo(C \cup {p})'
    BY <1>1, <2>1, <2>2, <2>3, <2>4, SentMore
  <2>6. Cuts(script)' = C \cup {p}
    BY <1>1, <2>1
  <2> QED
    BY <2>5, <2>6
<1>4. Closed(script)' => Closed(script)
  BY <1>1
<1> QED
  BY <1>1, <1>2, <1>3, <1>4 DEF ScanInv

\* When nothing is left every statement has been run.
LEMMA ScanSummary ==
  ASSUME ImportTypeOK, ScanInv, Summary
  PROVE  ScanInv'
<1>1. /\ pc = "read" /\ AtEnd /\ script' = script /\ pos' = pos /\ inQuote' = inQuote
      /\ sent' = sent /\ pc' = "done" /\ Trimmed(buffer) = <<>>
  BY DEF Summary, scanVars
<1>2. ModeOK' /\ AtEnd'
  BY <1>1 DEF ScanInv, ModeOK, AtEnd
<1>3. Closed(script) => SentUpTo(Cuts(script))
  BY <1>1, ScanAtEnd
<1>4. (Closed(script) => SentUpTo(Cuts(script)))'
  BY <1>1, <1>3 DEF SentUpTo, AsWritten
<1> QED
  BY <1>1, <1>2, <1>4 DEF ScanInv

\* Every turn of the loop keeps the invariant.
LEMMA ScanStream == ImportTypeOK /\ ScanInv /\ Stream => ScanInv'
  BY ScanBlank, ScanComment, ScanOpen, ScanClose, ScanEnd, ScanChar, ScanRest,
     ScanSummary DEF Stream

\* A transaction reads nothing; when it is over the buffer is empty.
LEMMA ScanTransaction == ImportTypeOK /\ ScanInv /\ Transaction => ScanInv'
<1> SUFFICES ASSUME ImportTypeOK, ScanInv, Transaction PROVE ScanInv'
  OBVIOUS
<1>1. pc \in {"begin", "execute", "rollback", "commit"}
  BY DEF Transaction, DryRun, BeginTransaction, BeginFails, Execute, ExecuteControl,
         ExecuteFails, Rollback, Commit, CommitFails
<1>2. /\ script' = script /\ pos' = pos /\ inQuote' = inQuote /\ sent' = sent
      /\ pc' \in {"read", "execute", "rollback", "commit"}
      /\ pc' = "read" => buffer' = <<>>
  BY DEF Transaction, DryRun, BeginTransaction, BeginFails, Execute, ExecuteControl,
         ExecuteFails, Rollback, Commit, CommitFails, Return, Continue, scanVars
<1>3. ModeOK'
  BY <1>2 DEF ScanInv, ModeOK, AtEnd
<1>4. CASE /\ SentUpTo({c \in Cuts(script) : c < pos})
           /\ Piece(script, pos) = {} /\ ~inQuote
  <2>1. SentUpTo({c \in Cuts(script) : c < pos})'
    BY <1>2, <1>4 DEF SentUpTo, AsWritten
  <2>2. Piece(script, pos)' = {} /\ ~inQuote'
    BY <1>2, <1>4
  <2>3. ASSUME pc' = "read" PROVE BufferOK'
    <3>1. Range(<<>>) = {} /\ Len(<<>>) = 0 /\ DOMAIN <<>> = {}
      BY DEF Range
    <3> QED
      BY <1>2, <2>2, <2>3, <3>1 DEF BufferOK, AsWritten
  <2> QED
    BY <1>2, <1>3, <2>1, <2>2, <2>3 DEF ScanInv
<1>5. CASE AtEnd /\ (Closed(script) => SentUpTo(Cuts(script)))
  <2>1. AtEnd' /\ (Closed(script) => SentUpTo(Cuts(script)))'
    BY <1>2, <1>5 DEF AtEnd, SentUpTo, AsWritten
  <2> QED
    BY <1>2, <1>3, <2>1 DEF ScanInv
<1> QED
  BY <1>1, <1>4, <1>5 DEF ScanInv

\* Every step keeps the invariant.
LEMMA ScanStep == ImportTypeOK /\ ScanInv /\ [ImportNext]_importVars => ScanInv'
<1>1. ASSUME ScanInv, UNCHANGED importVars PROVE ScanInv'
  <2>1. UNCHANGED <<script, pos, buffer, inQuote, pc, sent>>
    BY <1>1 DEF importVars, scanVars
  <2>2. ModeOK' /\ (AtEnd => AtEnd') /\ (BufferOK => BufferOK')
    BY <1>1, <2>1 DEF ScanInv, ModeOK, AtEnd, BufferOK, AsWritten
  <2>3. /\ SentUpTo({c \in Cuts(script) : c < pos}) => SentUpTo({c \in Cuts(script) : c < pos})'
        /\ SentUpTo(Cuts(script)) => SentUpTo(Cuts(script))'
    BY <2>1 DEF SentUpTo, AsWritten
  <2> QED
    BY <1>1, <2>1, <2>2, <2>3 DEF ScanInv
<1> QED
  BY <1>1, ScanStream, ScanTransaction DEF ImportNext

\* iw_exec_stream: a script whose literals are closed is run statement by
\* statement as SQL cuts it, whatever its comments and literals hold: for
\* scripts of any length.
THEOREM AsWrittenTheorem == ImportSpec => []StatementsAsWritten
<1>1. ScanInv => StatementsAsWritten
  BY DEF ScanInv, StatementsAsWritten
<1> QED
  BY <1>1, TypeInit, TypeStep, ScanInitially, ScanStep, PTL DEF ImportSpec
=============================================================================
