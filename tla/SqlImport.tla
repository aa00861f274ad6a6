----------------------------- MODULE SqlImport -----------------------------
(***************************************************************************)
(* iw-gaussdbimp: a script is cut into statements while it is read, and    *)
(* every statement is run at once in a transaction of its own.  What a     *)
(* character is matters only as far as the cutting looks at it.  The       *)
(* database session is external: it answers as PQexec lets the code see.   *)
(***************************************************************************)
EXTENDS Integers, Sequences, FiniteSetsExt, Functions

CONSTANT MaxLength    \* bound: characters of a script

ASSUME LengthAssumption == MaxLength \in Nat

Blanks     == {"space", "newline"}
Characters == Blanks \cup {"char", "quote", "dash", "semicolon"}

VARIABLES
  script,     \* the script
  pos,        \* the place of the character fgetc reads next
  buffer,     \* iw_buf: the places of the characters it holds
  inQuote,    \* in_quote
  pc,         \* where iw_exec_stream or iw_exec_tx stands
  sent,       \* the statements run so far; count is their number
  succeeded,  \* those counted in succ
  failed,     \* those counted in fail
  session,    \* external: the session, "none" without DB_CONNINFO
  work,       \* external: statements the open transaction has run
  db,         \* external: statements that were committed
  control     \* history: statements that ended the transaction themselves

scanVars == <<script, pos, buffer, inQuote>>
dbVars   == <<session, work, db, control>>
importVars == <<scanVars, pc, sent, succeeded, failed, dbVars>>

Scripts == UNION {[1..n -> Characters] : n \in 0..MaxLength}

ImportInit ==
  /\ script \in Scripts
  /\ pos = 1 /\ buffer = <<>> /\ inQuote = FALSE
  /\ pc = "read"
  /\ sent = <<>> /\ succeeded = {} /\ failed = {}
  /\ session \in {"none", "idle"}
  /\ work = {} /\ db = {} /\ control = {}

-----------------------------------------------------------------------------
(* iw_exec_stream: one turn of the loop                                    *)

AtEnd == pos > Len(script)

\* The character fgetc returns is c.
Gets(c) == pc = "read" /\ ~AtEnd /\ script[pos] = c

\* The one after it, read and put back, is c.
NextIs(c) == pos < Len(script) /\ script[pos + 1] = c

Newlines(i) == {j \in i..Len(script) : script[j] = "newline"}

\* Mutant: the end of the file is read as one more character of a comment.
BehindLineOrMore(i) ==
  IF Newlines(i) = {} THEN Len(script) + 2 ELSE Min(Newlines(i)) + 1

\* The place behind the first newline from i on, or the end.
BehindLine(i) ==
  IF Newlines(i) = {} THEN Len(script) + 1 ELSE Min(Newlines(i)) + 1

SkipSpace ==
  /\ \E c \in Blanks : Gets(c)
  /\ buffer = <<>>
  /\ pos' = pos + 1
  /\ UNCHANGED <<script, buffer, inQuote, pc, sent, succeeded, failed, dbVars>>

\* Mutant: two dashes start a comment inside quotes too.
SkipCommentAnywhere ==
  /\ Gets("dash") /\ NextIs("dash")
  /\ pos' = BehindLine(pos + 2)
  /\ UNCHANGED <<script, buffer, inQuote, pc, sent, succeeded, failed, dbVars>>

\* A comment goes, with the newline that ends it.
SkipComment ==
  /\ Gets("dash") /\ NextIs("dash") /\ ~inQuote
  /\ pos' = BehindLine(pos + 2)
  /\ UNCHANGED <<script, buffer, inQuote, pc, sent, succeeded, failed, dbVars>>

OpenQuote ==
  /\ Gets("quote") /\ ~inQuote
  /\ buffer' = Append(buffer, pos)
  /\ pos' = pos + 1
  /\ inQuote' = TRUE
  /\ UNCHANGED <<script, pc, sent, succeeded, failed, dbVars>>

\* Inside quotes a quote ends them, unless another one follows.
QuoteInQuote ==
  /\ Gets("quote") /\ inQuote
  /\ IF NextIs("quote")
       THEN /\ buffer' = buffer \o <<pos, pos + 1>>
            /\ pos' = pos + 2
            /\ inQuote' = TRUE
       ELSE /\ buffer' = Append(buffer, pos)
            /\ pos' = pos + 1
            /\ inQuote' = FALSE
  /\ UNCHANGED <<script, pc, sent, succeeded, failed, dbVars>>

\* iw_buf_trim
Trimmed(b) ==
  LET kept == {k \in DOMAIN b : script[b[k]] \notin Blanks}
  IN  IF kept = {} THEN <<>> ELSE SubSeq(b, 1, Max(kept))

\* What the buffer holds is run, if it holds anything but blanks.
Cut ==
  IF Trimmed(buffer) = <<>>
    THEN buffer' = <<>> /\ UNCHANGED <<pc, sent>>
    ELSE /\ buffer' = Trimmed(buffer)
         /\ sent' = Append(sent, Trimmed(buffer))
         /\ pc' = "begin"

EndStatement ==
  /\ Gets("semicolon") /\ ~inQuote
  /\ pos' = pos + 1
  /\ Cut
  /\ UNCHANGED <<script, inQuote, succeeded, failed, dbVars>>

AddChar ==
  /\ \/ \E c \in Blanks : Gets(c) /\ buffer # <<>>
     \/ Gets("char")
     \/ Gets("dash") /\ (inQuote \/ ~NextIs("dash"))
     \/ Gets("semicolon") /\ inQuote
  /\ buffer' = Append(buffer, pos)
  /\ pos' = pos + 1
  /\ UNCHANGED <<script, inQuote, pc, sent, succeeded, failed, dbVars>>

\* The end of the file: a last statement may lack its semicolon.
RunRest ==
  /\ pc = "read" /\ AtEnd /\ Trimmed(buffer) # <<>>
  /\ Cut
  /\ UNCHANGED <<script, pos, inQuote, succeeded, failed, dbVars>>

Summary ==
  /\ pc = "read" /\ AtEnd /\ Trimmed(buffer) = <<>>
  /\ pc' = "done"
  /\ UNCHANGED <<scanVars, sent, succeeded, failed, dbVars>>

-----------------------------------------------------------------------------
(* iw_exec_tx                                                              *)

Id == Len(sent)

Return(good) ==
  /\ succeeded' = IF good THEN succeeded \cup {Id} ELSE succeeded
  /\ failed' = IF good THEN failed ELSE failed \cup {Id}
  /\ buffer' = <<>>
  /\ pc' = "read"
  /\ UNCHANGED <<script, pos, inQuote, sent>>

Continue(next) ==
  /\ pc' = next
  /\ UNCHANGED <<scanVars, sent, succeeded, failed>>

DryRun ==
  /\ pc = "begin" /\ session = "none"
  /\ Return(TRUE)
  /\ UNCHANGED dbVars

\* PostgreSQL lets BEGIN pass inside a transaction, with a warning.
BeginTransaction ==
  /\ pc = "begin" /\ session \in {"idle", "open"}
  /\ session' = "open"
  /\ Continue("execute")
  /\ UNCHANGED <<work, db, control>>

BeginFails ==
  /\ pc = "begin" /\ session \in {"idle", "aborted", "lost"}
  /\ session' \in {session, "lost"}
  /\ Return(FALSE)
  /\ UNCHANGED <<work, db, control>>

Execute ==
  /\ pc = "execute" /\ session = "open"
  /\ work' = work \cup {Id}
  /\ Continue("commit")
  /\ UNCHANGED <<session, db, control>>

\* The statement is itself a COMMIT or a ROLLBACK.
ExecuteControl ==
  /\ pc = "execute" /\ session = "open"
  /\ session' = "idle"
  /\ db' \in {db, db \cup work}
  /\ work' = {}
  /\ control' = control \cup {Id}
  /\ Continue("commit")

\* Mutant: the status of the statement is not looked at.
ExecuteUnchecked ==
  /\ pc = "execute"
  /\ session' \in {"open", "aborted", "lost"}
  /\ work' = {}
  /\ Continue("commit")
  /\ UNCHANGED <<db, control>>

\* The statement fails, and the transaction with it, or the connection is lost
\* and the database drops the transaction; or the statement does nothing and
\* has a status the code does not take for success (an empty query, a COPY).
ExecuteFails ==
  /\ pc = "execute"
  /\ session' \in {"open", "aborted", "lost"}
  /\ work' = {}
  /\ Continue("rollback")
  /\ UNCHANGED <<db, control>>

\* Mutant: a failed statement is not rolled back.
RollbackLeftOut ==
  /\ pc = "rollback"
  /\ Return(FALSE)
  /\ UNCHANGED dbVars

Rollback ==
  /\ pc = "rollback"
  /\ session' \in (IF session = "lost" THEN {"lost"} ELSE {"idle", "lost"})
  /\ work' = {}
  /\ Return(FALSE)
  /\ UNCHANGED <<db, control>>

\* COMMIT of an aborted transaction rolls it back and reports no error; COMMIT
\* outside a transaction is a warning.
Commit ==
  /\ pc = "commit" /\ session \in {"open", "aborted", "idle"}
  /\ session' = "idle"
  /\ db' = db \cup work
  /\ work' = {}
  /\ Return(TRUE)
  /\ UNCHANGED control

\* Refused by a deferred constraint, or the connection is lost: before the
\* database has committed, or after that and before the answer.
CommitFails ==
  /\ pc = "commit"
  /\ \/ session = "open" /\ session' = "idle" /\ db' = db
     \/ session' = "lost" /\ db' \in (IF session = "lost" THEN {db}
                                      ELSE {db, db \cup work})
  /\ work' = {}
  /\ Return(FALSE)
  /\ UNCHANGED control

Stream ==
  \/ SkipSpace \/ SkipComment \/ OpenQuote \/ QuoteInQuote
  \/ EndStatement \/ AddChar \/ RunRest \/ Summary

Transaction ==
  \/ DryRun \/ BeginTransaction \/ BeginFails
  \/ Execute \/ ExecuteControl \/ ExecuteFails
  \/ Rollback \/ Commit \/ CommitFails

ImportNext == Stream \/ Transaction

ImportSpec == ImportInit /\ [][ImportNext]_importVars

-----------------------------------------------------------------------------
(* What SQL says a script is                                               *)

\* What stands behind the i-th character when m stands before it.  A doubled
\* quote closes a literal and opens it again.
ModeAfter(t, i, m) ==
  CASE m = "plain" /\ t[i] = "quote" -> "literal"
    [] m = "literal" /\ t[i] = "quote" -> "plain"
    [] m = "comment" /\ t[i] = "newline" -> "plain"
    [] /\ m = "plain" /\ t[i] = "dash"
       /\ i < Len(t) /\ t[i + 1] = "dash" -> "comment"
    [] OTHER -> m

\* Mode(t)[i]: what stands before the i-th character, after the last one at
\* Len(t) + 1.
Mode(t) ==
  LET mode[i \in 1..(Len(t) + 1)] ==
        IF i = 1 THEN "plain" ELSE ModeAfter(t, i - 1, mode[i - 1])
  IN  mode

Separators(t) ==
  {i \in DOMAIN t : t[i] = "semicolon" /\ Mode(t)[i] = "plain"}

\* The characters that make up statements: blanks count in literals only, and
\* comments not at all.
Significant(t) ==
  LET mode == Mode(t)
  IN  {i \in DOMAIN t :
         \/ mode[i] = "literal"
         \/ /\ mode[i] = "plain" /\ mode[i + 1] # "comment"
            /\ t[i] \notin Blanks \cup {"semicolon"}}

\* The significant characters up to the separator or the end at i.
Piece(t, i) ==
  {j \in Significant(t) : j < i /\ \A s \in Separators(t) : s < i => s < j}

\* The places where a statement ends: separators, or the end, with a piece
\* before them that is not empty; and the number of the statement that ends at c.
Cuts(t) == {i \in Separators(t) \cup {Len(t) + 1} : Piece(t, i) # {}}
Rank(cuts, c) == Cardinality({d \in cuts : d <= c})

Closed(t) == Mode(t)[Len(t) + 1] # "literal"

-----------------------------------------------------------------------------
(* What must hold                                                          *)

\* Every variable has its type.
ImportTypeOK ==
  /\ script \in Scripts
  /\ pos \in 1..(Len(script) + 1) /\ inQuote \in BOOLEAN
  /\ buffer \in Seq(DOMAIN script)
  /\ pc \in {"read", "begin", "execute", "rollback", "commit", "done"}
  /\ sent \in Seq(Seq(DOMAIN script))
  /\ succeeded \subseteq Nat /\ failed \subseteq Nat
  /\ session \in {"none", "idle", "open", "aborted", "lost"}
  /\ work \subseteq Nat /\ db \subseteq Nat /\ control \subseteq Nat

\* The places b holds are the piece that ends at i, in order, and blanks.
AsWritten(b, i) ==
  /\ \A k \in 1..(Len(b) - 1) : b[k] < b[k + 1]
  /\ Range(b) \cap Significant(script) = Piece(script, i)
  /\ \A j \in Range(b) \ Significant(script) : script[j] \in Blanks

\* The statements run are those that end at the given places.
SentUpTo(cuts) ==
  /\ Len(sent) = Cardinality(cuts)
  /\ \A c \in cuts : AsWritten(sent[Rank(cuts, c)], c)

\* A script whose literals are closed is run statement by statement, as SQL
\* cuts it, with every significant character in its place; a comment or a
\* literal may hold separators, quotes and dashes, and the last statement may
\* lack its semicolon.
StatementsAsWritten == pc = "done" /\ Closed(script) => SentUpTo(Cuts(script))

\* "inside its own isolated transaction": no transaction is open or aborted
\* when a statement begins, whatever became of those before it, and none
\* holds the work of two statements.
StatementsIsolated ==
  /\ pc \in {"read", "begin", "done"} => session \notin {"open", "aborted"}
  /\ work \subseteq {Id}

\* What is reported is so: a statement counted as successful was committed,
\* unless it ended the transaction itself.  One counted as failed was not,
\* but for a single one whose COMMIT had its answer lost with the connection.
ReportsTrue ==
  /\ session # "none" => succeeded \ control \subseteq db
  /\ failed \cap db # {} => session = "lost"
  /\ \A i, j \in failed \cap db : i = j

-----------------------------------------------------------------------------
(* Why it holds: the inductive invariant of SqlImportProofs                *)

\* At each place of iw_exec_tx the session stands where its calls so far have
\* brought it, and the transaction holds the statement once it has run.
SessionInv ==
  /\ pc \in {"read", "begin", "done"} => session \notin {"open", "aborted"}
  /\ pc = "execute" => session = "open"
  /\ pc = "rollback" => session \in {"open", "aborted", "lost"}
  /\ pc = "commit" => session \in {"open", "idle"}
  /\ pc = "commit" /\ session = "idle" => Id \in control
  /\ work = IF pc = "commit" /\ session = "open" THEN {Id} ELSE {}

\* The statement that runs has neither been reported nor committed, and none
\* has that is still to come.
IdInv ==
  /\ succeeded \cup failed \cup db \subseteq 0..Id
  /\ pc \in {"begin", "execute", "rollback", "commit"}
       => Id \notin succeeded \cup failed \cup db

\* in_quote says what SQL says of the place that is read next, and no character
\* is read inside a comment.
ModeOK ==
  /\ inQuote = (Mode(script)[pos] = "literal")
  /\ ~AtEnd => Mode(script)[pos] # "comment"

\* The buffer holds the piece under way; blanks at its end that iw_buf_trim
\* would take are never part of a literal, unless the literal is still open.
BufferOK ==
  /\ AsWritten(buffer, pos)
  /\ \A j \in Range(buffer) : j < pos
  /\ inQuote => buffer # <<>>
  /\ ~inQuote =>
       \A k \in DOMAIN buffer : buffer[k] \in Significant(script) =>
         \E l \in k..Len(buffer) : script[buffer[l]] \notin Blanks

\* The statements that end before pos have been run; in the end all have, the
\* one that lacks its semicolon included.
ScanInv ==
  /\ ModeOK
  /\ \/ /\ pc # "done"
        /\ SentUpTo({c \in Cuts(script) : c < pos})
        /\ IF pc = "read" THEN BufferOK ELSE Piece(script, pos) = {} /\ ~inQuote
     \/ /\ AtEnd /\ (pc = "read" => buffer = <<>>)
        /\ Closed(script) => SentUpTo(Cuts(script))
=============================================================================
