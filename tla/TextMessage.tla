---------------------------- MODULE TextMessage ----------------------------
(***************************************************************************)
(* src/iw-ws.c as src/iw-client.c uses it: a message of three strings is   *)
(* built into one text, "key=value" lines, sent, and whatever comes back   *)
(* is searched for the same keys.                                          *)
(*                                                                         *)
(* A text is a sequence of tokens: a newline, a NUL, one of the three keys *)
(* or a word, of length one each; sizes count tokens.                      *)
(***************************************************************************)
EXTENDS Naturals, Sequences

CONSTANTS
  Words,        \* text without keys, newlines and NULs
  FieldSize,    \* FieldSize[f]: the array of field f, its NUL included
  MessageSize,  \* the client's buffer: 768 for fields of 256, 256 and 32
  LocalSize,    \* the parser's buffer: 1024
  Replies       \* texts that others may send to the client

Fields == <<"prompt", "instruction", "role">>
FieldNames == {"prompt", "instruction", "role"}
Keys   == {"prompt=", "instruction=", "role="}
KeyOf  == [f \in FieldNames |-> CASE f = "prompt" -> "prompt="
                                  [] f = "instruction" -> "instruction="
                                  [] f = "role" -> "role="]
Newline == "newline"
Nul     == "nul"
Tokens  == Words \cup Keys \cup {Newline, Nul}

ASSUME FieldSizeAssumption == FieldSize \in [FieldNames -> Nat \ {0}]
ASSUME RepliesAssumption == Replies \subseteq Seq(Tokens)
\* The sizes of the source, 256 + 256 + 32 and the keys in 768, and 768 in
\* 1024, in tokens: every message that fits its arrays fits the buffers.
ASSUME BuffersAssumption ==
  /\ MessageSize \in Nat /\ LocalSize \in Nat
  /\ FieldSize["prompt"] + FieldSize["instruction"] + FieldSize["role"] + 3
       < MessageSize
  /\ MessageSize <= LocalSize

VARIABLES
  message,      \* the message to send, as the client filled it in
  payload,      \* what is under way, or "none"
  own,          \* the text under way is the message
  parsed,       \* the struct the answer is parsed into
  returned        \* what the last call returned: "none", "ok", "failed"

textVars == <<message, payload, own, parsed, returned>>

NoText == <<"none">>
Empty  == [f \in FieldNames |-> <<>>]

\* strstr and strchr: the first place of a token in a text, 0 without one; and
\* the text up to there.
FirstOf(s, t) ==
  IF \E i \in 1..Len(s) : s[i] = t
  THEN CHOOSE i \in 1..Len(s) : s[i] = t /\ \A k \in 1..i - 1 : s[k] # t
  ELSE 0
UpTo(s, t) == IF FirstOf(s, t) = 0 THEN s ELSE SubSeq(s, 1, FirstOf(s, t) - 1)

\* A C string ends at its first NUL.
Terminated(s) == UpTo(s, Nul)

\* What fits an array of a field
FieldStrings(f) == UNION {[1..n -> Tokens \ {Nul}] : n \in 0..FieldSize[f] - 1}

TextInit ==
  /\ message \in [FieldNames -> {<<>>}]
  /\ payload = NoText /\ own = FALSE /\ parsed = Empty /\ returned = "none"

\* The client's snprintf of one field after the other.
FillIn(f) ==
  /\ returned = "none" /\ message[f] = <<>>
  /\ \E s \in FieldStrings(f) : message' = [message EXCEPT ![f] = s]
  /\ UNCHANGED <<payload, own, parsed, returned>>

\* The lines of a message
Line(f, v) == <<KeyOf[f]>> \o v \o <<Newline>>
Lines(m) == Line("prompt", m["prompt"]) \o
              (Line("instruction", m["instruction"]) \o Line("role", m["role"]))

\* iw_ws_build_message: fails when the text and its NUL do not fit.
BuildMessage ==
  /\ returned = "none"
  /\ IF Len(Lines(message)) >= MessageSize
     THEN returned' = "failed" /\ UNCHANGED <<payload, own>>
     ELSE returned' = "ok" /\ payload' = Lines(message) /\ own' = TRUE
  /\ UNCHANGED <<message, parsed>>

\* Another program's text comes, perhaps a packet of the server.
Reply(r) ==
  /\ returned = "none" /\ message = Empty
  /\ payload' = r /\ own' = FALSE /\ returned' = "ok"
  /\ UNCHANGED <<message, parsed>>

\* Mutant: the last place of the key.
ExtractLast(s, f) ==
  LET at   == CHOOSE i \in 0..Len(s) :
                /\ i = 0 \/ s[i] = KeyOf[f]
                /\ \A k \in i + 1..Len(s) : s[k] # KeyOf[f]
      line == UpTo(SubSeq(s, at + 1, Len(s)), Newline)
  IN IF Len(line) >= FieldSize[f] THEN SubSeq(line, 1, FieldSize[f] - 1) ELSE line

\* Mutant: a field runs to the end of the text.
ExtractAll(s, f) ==
  LET line == SubSeq(s, FirstOf(s, KeyOf[f]) + 1, Len(s))
  IN IF Len(line) >= FieldSize[f] THEN SubSeq(line, 1, FieldSize[f] - 1) ELSE line

\* Mutant: no room is kept for the NUL.
ExtractFull(s, f) ==
  LET line == UpTo(SubSeq(s, FirstOf(s, KeyOf[f]) + 1, Len(s)), Newline)
  IN IF Len(line) > FieldSize[f] THEN SubSeq(line, 1, FieldSize[f]) ELSE line

\* iw_ws_extract_field of a key that is there: what follows its first place,
\* up to the end of its line, cut to the array.
Extract(s, f) ==
  LET line == UpTo(SubSeq(s, FirstOf(s, KeyOf[f]) + 1, Len(s)), Newline)
  IN IF Len(line) >= FieldSize[f] THEN SubSeq(line, 1, FieldSize[f] - 1) ELSE line

\* iw_ws_parse_message: the fields in order, up to the first without its key.
ParseMessage ==
  LET s == Terminated(payload)
      missing == {i \in 1..3 : FirstOf(s, KeyOf[Fields[i]]) = 0}
  IN /\ returned = "ok" /\ payload # NoText
     /\ payload' = NoText
     /\ IF Len(payload) >= LocalSize
        THEN returned' = "failed" /\ UNCHANGED parsed
        ELSE /\ parsed' = [f \in FieldNames |->
                  IF \E i \in 1..3 : Fields[i] = f /\ \A k \in missing : i < k
                  THEN Extract(s, f) ELSE parsed[f]]
             /\ returned' = IF missing = {} THEN "parsed" ELSE "failed"
     /\ UNCHANGED <<message, own>>

\* The client prints the answer and makes another message.
Again ==
  /\ returned \in {"parsed", "failed"}
  /\ message' = Empty /\ payload' = NoText /\ own' = FALSE
  /\ parsed' = Empty /\ returned' = "none"

TextNext ==
  \/ \E f \in FieldNames : FillIn(f)
  \/ BuildMessage \/ ParseMessage \/ Again
  \/ \E r \in Replies : Reply(r)

TextSpec == TextInit /\ [][TextNext]_textVars

-----------------------------------------------------------------------------
(* What must hold                                                          *)

Answered == returned \in {"parsed", "failed"}

\* No value has a newline, or the key of a line that comes after its own.
Clean(m) ==
  /\ \A f \in FieldNames : FirstOf(m[f], Newline) = 0
  /\ FirstOf(m["prompt"], "instruction=") = 0
  /\ FirstOf(m["prompt"], "role=") = 0 /\ FirstOf(m["instruction"], "role=") = 0

\* A clean message arrives whole, also when a value contains its own key or
\* an earlier one.
CleanArrives == own /\ Answered /\ Clean(message) => parsed = message

\* Every message that fits its arrays can be sent and is understood, and its
\* prompt arrives up to the first newline in it, whatever keys the values
\* contain.
PromptArrives ==
  /\ Answered /\ message # Empty => own /\ returned = "parsed"
  /\ Answered /\ own => parsed["prompt"] = UpTo(message["prompt"], Newline)

\* No text makes a field longer than its array, the NUL included: not a value
\* found at a key inside another value, not a reply of another program.
FieldsFit == \A f \in FieldNames : Len(parsed[f]) < FieldSize[f]

-----------------------------------------------------------------------------
(* Why it holds: the inductive invariant of TextMessageProofs              *)

\* The message fits its arrays; what is under way is the message or a text of
\* another program, and what was parsed is what the text says.
MessageOK == message \in [FieldNames -> Seq(Tokens)]
             /\ \A f \in FieldNames : message[f] \in FieldStrings(f)

PayloadOK ==
  /\ returned \in {"none", "ok", "parsed", "failed"} /\ own \in BOOLEAN
  /\ returned = "none" => ~own
  /\ returned = "ok" =>
       payload \in Seq(Tokens) /\ (own => payload = Lines(message))
  /\ returned # "none" /\ ~own => message = Empty

ParsedOK ==
  /\ parsed \in [FieldNames -> Seq(Tokens)] /\ FieldsFit
  /\ own /\ Answered =>
       /\ returned = "parsed"
       /\ \A f \in FieldNames : parsed[f] = Extract(Lines(message), f)

TextInv == MessageOK /\ PayloadOK /\ ParsedOK
=============================================================================
