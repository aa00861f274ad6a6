------------------------------- MODULE Unpack -------------------------------
(***************************************************************************)
(* iw-unpack: files are cut out of a markdown answer.  A line is looked at *)
(* after trimming: blank, a separator "---", a code fence, or any other    *)
(* text, which may be the path of a file or a line of one.  A block is a   *)
(* path, a fence, the lines of the file and a fence.                       *)
(***************************************************************************)
EXTENDS Integers, Sequences, FiniteSetsExt

CONSTANTS
  Texts,      \* lines that are neither blank nor separator nor fence
  Nothing,    \* no path, no file
  MaxLines,   \* bound: lines of an answer
  MaxFaults   \* bound: targets that cannot be created

Blank  == "blank"
Dashes == "dashes"
Fence  == "fence"
AnswerLines == Texts \cup {Blank, Dashes, Fence}
Targets == Texts \cup {Dashes}

ASSUME TextsAssumption == Texts \cap {Blank, Dashes, Fence} = {}
ASSUME NothingAssumption ==
  Nothing \notin Targets /\ Nothing \notin Seq(AnswerLines)
ASSUME BoundAssumption == MaxLines \in Nat /\ MaxFaults \in Nat

VARIABLES
  state,      \* parse_state_t, "DONE" once main has returned
  path,       \* relative_path, and the final_path made of it
  out,        \* the target out_file writes to
  generated,  \* generated_count
  disk,       \* what the run has made of each target
  answer,     \* history: the lines read so far
  faults      \* history: targets that could not be created

unpackVars == <<state, path, out, generated, disk, answer, faults>>

UnpackInit ==
  /\ state = "SEEK_PATH" /\ path = Nothing /\ out = Nothing
  /\ generated = 0
  /\ disk = [p \in Targets |-> Nothing]
  /\ answer = <<>> /\ faults = 0

\* fgets has read line.
Read(line) ==
  /\ state # "DONE" /\ Len(answer) < MaxLines
  /\ answer' = Append(answer, line)

-----------------------------------------------------------------------------
(* The cases of the switch                                                 *)

SkipLine(line) ==
  /\ Read(line)
  /\ state = "SEEK_PATH" /\ line \in {Blank, Dashes, Fence}
  /\ UNCHANGED <<state, path, out, generated, disk, faults>>

TakePath(line) ==
  /\ Read(line)
  /\ state = "SEEK_PATH" /\ line \in Texts
  /\ path' = line
  /\ state' = "SEEK_FENCE"
  /\ UNCHANGED <<out, generated, disk, faults>>

SkipBlankLine ==
  /\ Read(Blank)
  /\ state = "SEEK_FENCE"
  /\ UNCHANGED <<state, path, out, generated, disk, faults>>

\* Mutant: a blank line between a path and its fence is taken for a path.
RetakeAny(line) ==
  /\ Read(line)
  /\ state = "SEEK_FENCE" /\ line # Fence
  /\ path' = line
  /\ UNCHANGED <<state, out, generated, disk, faults>>

\* A line between a path and its fence is the path instead.
RetakePath(line) ==
  /\ Read(line)
  /\ state = "SEEK_FENCE" /\ line \in Targets
  /\ path' = line
  /\ UNCHANGED <<state, out, generated, disk, faults>>

\* Mutant: the target is opened for appending.
OpenToAppend ==
  /\ Read(Fence)
  /\ state = "SEEK_FENCE"
  /\ out' = path
  /\ disk' = [disk EXCEPT ![path] = IF @ = Nothing THEN <<>> ELSE @]
  /\ state' = "READ_CONTENT"
  /\ UNCHANGED <<path, generated, faults>>

\* The directories of the path are made and the target is created or emptied.
OpenTarget ==
  /\ Read(Fence)
  /\ state = "SEEK_FENCE"
  /\ out' = path
  /\ disk' = [disk EXCEPT ![path] = <<>>]
  /\ state' = "READ_CONTENT"
  /\ UNCHANGED <<path, generated, faults>>

\* Mutant: the machine goes on to the content as if the target were there.
OpenFailsUnseen ==
  /\ Read(Fence)
  /\ state = "SEEK_FENCE" /\ faults < MaxFaults
  /\ faults' = faults + 1
  /\ state' = "READ_CONTENT"
  /\ UNCHANGED <<path, out, generated, disk>>

\* fopen fails: the machine looks for a path again, before the content.
OpenFails ==
  /\ Read(Fence)
  /\ state = "SEEK_FENCE" /\ faults < MaxFaults
  /\ faults' = faults + 1
  /\ path' = Nothing
  /\ state' = "SEEK_PATH"
  /\ UNCHANGED <<out, generated, disk>>

WriteLine(line) ==
  /\ Read(line)
  /\ state = "READ_CONTENT" /\ line # Fence
  /\ disk' = IF out = Nothing THEN disk
             ELSE [disk EXCEPT ![out] = Append(@, line)]
  /\ UNCHANGED <<state, path, out, generated, faults>>

CloseTarget ==
  /\ Read(Fence)
  /\ state = "READ_CONTENT"
  /\ generated' = generated + (IF out = Nothing THEN 0 ELSE 1)
  /\ out' = Nothing /\ path' = Nothing
  /\ state' = "SEEK_PATH"
  /\ UNCHANGED <<disk, faults>>

\* Mutant: a file that is open at the end of the answer is not counted.
EndUncounted ==
  /\ state # "DONE"
  /\ out' = Nothing
  /\ state' = "DONE"
  /\ UNCHANGED <<path, generated, disk, answer, faults>>

\* The end of the answer closes a file that is open, and counts it.
EndOfInput ==
  /\ state # "DONE"
  /\ generated' = generated + (IF out = Nothing THEN 0 ELSE 1)
  /\ out' = Nothing
  /\ state' = "DONE"
  /\ UNCHANGED <<path, disk, answer, faults>>

UnpackNext ==
  \/ \E line \in AnswerLines :
       \/ SkipLine(line) \/ TakePath(line) \/ RetakePath(line)
       \/ WriteLine(line)
  \/ SkipBlankLine \/ OpenTarget \/ OpenFails \/ CloseTarget \/ EndOfInput

UnpackSpec == UnpackInit /\ [][UnpackNext]_unpackVars

-----------------------------------------------------------------------------
(* What an answer says: its fences in pairs, a path before each pair       *)

Fences(t) == {i \in DOMAIN t : t[i] = Fence}
Before(t, i) == {j \in Fences(t) : j < i}
FencesAfter(t, i) == {j \in Fences(t) : j > i}
Openings(t)  == {i \in Fences(t) : Cardinality(Before(t, i)) % 2 = 0}

\* The lines a path of the block opened at i may stand in.
Headings(t, i) ==
  {j \in 1..(i - 1) : t[j] # Blank /\ \A k \in Before(t, i) : k < j}

\* Every block has a path, right before its fence but for blank lines.
AnswerOK(t) ==
  \A i \in Openings(t) :
    Headings(t, i) # {} /\ t[Max(Headings(t, i))] \in Texts

PathAt(t, i) == t[Max(Headings(t, i))]

ContentAt(t, i) ==
  SubSeq(t, i + 1, Min(FencesAfter(t, i) \cup {Len(t) + 1}) - 1)

BlocksOf(t, p) == {i \in Openings(t) : PathAt(t, i) = p}

\* What the last block of p brings.
Restored(t, p) ==
  IF BlocksOf(t, p) = {} THEN Nothing ELSE ContentAt(t, Max(BlocksOf(t, p)))

-----------------------------------------------------------------------------
(* What must hold                                                          *)

\* Every variable has its type and every bound is kept.
UnpackTypeOK ==
  /\ state \in {"SEEK_PATH", "SEEK_FENCE", "READ_CONTENT", "DONE"}
  /\ path \in Targets \cup {Nothing} /\ out \in Targets \cup {Nothing}
  /\ generated \in Nat
  /\ disk \in [Targets -> Seq(AnswerLines) \cup {Nothing}]
  /\ answer \in Seq(AnswerLines) /\ Len(answer) <= MaxLines
  /\ faults \in 0..MaxFaults

\* Whatever the answer is and whichever targets fail: a file is open exactly
\* while content is read, it is the one whose path was found, and it exists.
\* So no content is read into nowhere and no open file is forgotten.
OpenWhileReading ==
  /\ state = "READ_CONTENT" <=> out # Nothing
  /\ state = "SEEK_FENCE" => path # Nothing
  /\ out # Nothing => out = path /\ disk[out] # Nothing

\* The answer's files, and nothing else, are on the disk at every moment: each
\* target holds what the last block of its path has brought so far.
BlocksRestored ==
  AnswerOK(answer) /\ faults = 0 =>
    \A p \in Targets : disk[p] = Restored(answer, p)

\* The total that is printed is the number of blocks, the last one counted
\* although the answer breaks off inside it.
TotalPrinted ==
  AnswerOK(answer) /\ faults = 0 /\ state = "DONE" =>
    generated = Cardinality(Openings(answer))

-----------------------------------------------------------------------------
(* Why it holds: the inductive invariant of UnpackProofs                   *)

Reading == state = "READ_CONTENT"

\* Where the machine stands in a well-formed answer: behind an odd number of
\* fences it reads the block opened last, whose path is that of the open file;
\* behind an even one it has found the last heading, or none but separators.
PlaceInv ==
  AnswerOK(answer) /\ faults = 0 /\ state # "DONE" =>
    /\ Reading <=> Cardinality(Fences(answer)) % 2 = 1
    /\ state = "SEEK_PATH"
         => \A j \in Headings(answer, Len(answer) + 1) : answer[j] = Dashes
    /\ state = "SEEK_FENCE"
         => /\ Headings(answer, Len(answer) + 1) # {}
            /\ path = PathAt(answer, Len(answer) + 1)
    /\ Reading
         => \E i \in Openings(answer) : FencesAfter(answer, i) = {} /\ PathAt(answer, i) = out

\* The blocks opened are those counted and the one that is read.
TotalInv ==
  AnswerOK(answer) /\ faults = 0 =>
    Cardinality(Openings(answer)) = generated + (IF Reading THEN 1 ELSE 0)
=============================================================================
