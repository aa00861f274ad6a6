---------------------------- MODULE MCSequential ----------------------------
(* The parts of the system in which nothing runs concurrently: small       *)
(* packets of every kind for PacketExchange, small messages for            *)
(* TextMessage, answers for Unpack, scripts for SqlImport.  They share no  *)
(* state, and a behaviour is one of one part: the others stay at rest.     *)
EXTENDS PacketExchange, TextMessage, Unpack, SqlImport

Request == <<7, 0, 0, 0, 0, 0, 0, 0>>
Zeros   == <<0, 0, 0, 0, 0, 0, 0, 0>>

\* The prompt and ping clients write 1769947755 for the magic number.
OtherMagic == 1769947755

PromptOf(magic, t, lens, files) ==
  [kind |-> "prompt",
   fields |-> [magic |-> magic, type |-> <<80, 84>>, version |-> <<48, 49>>,
               request |-> Request, text_length |-> Len(t), text |-> t,
               file_count |-> Len(lens), file_lens |-> lens, files |-> files]]

CodingOf(magic, t) ==
  [kind |-> "coding",
   fields |-> [magic |-> magic, type |-> <<67, 68>>, version |-> <<48, 49>>,
               request |-> Request, text_length |-> Len(t), text |-> t]]

\* Without a text the client does not call the setter.
EmptyCoding ==
  [kind |-> "coding",
   fields |-> [magic |-> Magic, type |-> <<67, 68>>, version |-> <<48, 49>>,
               request |-> Request, text_length |-> 0]]

CompilationOf(source) ==
  [kind |-> "compilation",
   fields |-> [magic |-> Magic, type |-> <<67, 77>>, language |-> <<67, 32>>,
               src_len |-> Len(source), source |-> source]]

\* A path shorter than its array leaves what was behind it.
BuildOf(directory) ==
  [kind |-> "build",
   fields |-> [magic |-> OtherMagic, type |-> <<66, 68>>,
               build_tool |-> <<77, 32>>, project_path |-> directory]]

PreviewOf(source) ==
  [kind |-> "preview",
   fields |-> [magic |-> Magic, type |-> <<80, 86>>, file_type |-> <<72, 32>>,
               source |-> source]]

GenerationOf(request, code, t) ==
  [kind |-> "generation",
   fields |-> [magic |-> Magic, request |-> request, status |-> code,
               text_length |-> Len(t), text |-> t]]

MCWanted ==
  {PromptOf(Magic, <<104>>, <<1, 2>>, <<97, 98, 99>>),
   PromptOf(Magic, <<104, 105>>, <<0>>, <<>>),
   PromptOf(OtherMagic, <<112>>, <<>>, <<>>),
   CodingOf(Magic, <<104, 105>>), CodingOf(OtherMagic, <<>>), EmptyCoding,
   CompilationOf(<<59, 10>>), BuildOf(<<47>>), PreviewOf(<<47, 97, 0>>),
   GenerationOf(Zeros, <<66, 83>>, <<>>),
   GenerationOf(Request, <<83, 67>>, <<104, 105>>)}

\* The packets of gen/test/iw-pkt-codec-test.c whose decoders look at the
\* magic number, all bytes of which are 0xAA, and the one of the local round
\* trip in test/iw-server-prompt-test.c.
TestMagic == -1431655766

MCTestPackets ==
  {PromptOf(TestMagic, <<187>>, <<1>>, <<204>>), CodingOf(TestMagic, <<187>>),
   [CompilationOf(<<187>>) EXCEPT !.fields.magic = TestMagic],
   [GenerationOf(Request, <<170, 170>>, <<187>>) EXCEPT !.fields.magic = TestMagic],
   PromptOf(OtherMagic, <<112>>, <<>>, <<>>)}

CONSTANT word

\* The server's reply that it is busy; a text of the prompt alone; a long one.
MCReplies ==
  {<<word, Nul, word>>, <<"prompt=", word, Newline>>,
   <<"prompt=", word, word, word, Newline, "instruction=", Nul, "role=">>,
   [i \in 1..20 |-> IF i = 10 THEN "role=" ELSE word]}

MCFieldSize == [prompt |-> 4, instruction |-> 3, role |-> 2]

NoPackets == made = 0
NoMessage == message = Empty /\ returned = "none"
NoAnswer  == answer = <<>> /\ state = "SEEK_PATH"
NoScript  == script = <<>> /\ session = "none" /\ pc = "read"

MCInit == Init /\ TextInit /\ UnpackInit /\ ImportInit
MCNext ==
  \/ /\ NoMessage /\ NoAnswer /\ NoScript
     /\ Next /\ UNCHANGED <<textVars, unpackVars, importVars>>
  \/ /\ NoPackets /\ NoAnswer /\ NoScript
     /\ TextNext /\ UNCHANGED <<vars, unpackVars, importVars>>
  \/ /\ NoPackets /\ NoMessage /\ NoScript
     /\ UnpackNext /\ UNCHANGED <<vars, textVars, importVars>>
  \/ /\ NoPackets /\ NoMessage /\ NoAnswer
     /\ ImportNext /\ UNCHANGED <<vars, textVars, unpackVars>>

MCVars == <<vars, textVars, unpackVars, importVars>>
MCSpec == MCInit /\ [][MCNext]_MCVars
=============================================================================
