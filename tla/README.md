# iWork-collab in TLA+

Models of the programs of iWork-collab, model-checked with TLC on small
instances, and theorems about them checked by TLAPS for every value of the
constants.  Paths below are relative to the repository.

## The system

iWork-collab is a set of small C programs around a websocket server that lets
clients ask a machine to generate code, and tools that move what was generated.

| part | source | state it keeps | operations | talks to |
|---|---|---|---|---|
| websocket server | `src/iw-server.c` | busy flag, dump counter, connections, the uv loop | one libwebsockets callback: established, received (busy / bad magic / prompt / coding / other type), closed; SIGINT | clients by frames; a shell command by fork, exec and waitpid |
| clients | `src/iw-client.c`, `test/iw-test-coding.c`, `test/iw-server-ping-test.c`, `test/iw-server-prompt-test.c` | done and sent flags | connect, send once when writable, stop at a reply, a loss or a signal | the server |
| text message codec | `src/iw-ws.c` | none | build and parse `prompt=`, `instruction=`, `role=` lines | the text client |
| packet codec | `gen/src/iw-pkt-codec.c`, `gen/src/iw-pkt.c` | the packets others hold | init, setters, free, encode and decode of six packets | server and clients |
| mail monitor | `src/tool/iw-mailmon.c` | list of recorded paths, run flag, one hash and counter per thread | scan, sweep, start a monitor; sample, mail, remove | the file system and its other users, a mail server, signals |
| unpacker | `src/iw-unpack.c`, and the same program again in `src/tool/iw-unpack.c` | parse state, current path, open file | one step per line of a markdown answer | the file system |
| SQL importer | `src/tool/iw-gaussdbimp.c` | statement buffer, quote flag, three counters | split a stream into statements, run each in a transaction | a database session |
| together node | `src/iw-node.c` | none | run one fixed command per request | an external network library |
| agent prompts | `src/agent/iw-prompt.h` | none | look a text up by name | nothing |
| load generator | `test/perf.c` | worker threads, counters, stop flags | connect, write, read, stop after a duration | a websocket server |

What is hard in them: in the server, one callback runs a command of any length
while the frames of every peer wait, connections end from either side with
frames under way, and a flag must go down again; in the mail monitor, a
scanner and any number of detached threads look at files that other programs
create, rewrite, lock and delete meanwhile, and the process may be stopped or
killed at any step; in the packets, every offset depends on the lengths before
it, sizes are added up in one pass and used in another, no decoder knows where
its buffer ends, and what a callback gets need not be a whole frame; in the
unpacker and the importer, one state machine must stay in step with its input
after an error.  `PROJECT.json` lists each hazard at its line with the
properties that cover it.

## Modules

| module | what it is |
|---|---|
| `MailMonitor` | the mail monitor: scanner, monitor threads, other users of the files, signals, kills, restarts; its properties and the parts of its inductive invariant |
| `MailDelivery` | what the mail monitor promises, without scans, records and threads; `MailMonitor` implements it |
| `MCMailMonitor` | symmetry for its instances |
| `MailMonitorProofs` | six theorems about `MailMonitor` |
| `CollabServer` | the websocket server with peers that do whatever the protocol lets them |
| `CollabService` | what the server promises, without connections and a loop; `CollabServer` implements it |
| `MCCollabServer` | the frames of its instances |
| `CollabServerProofs` | five theorems about `CollabServer`, the refinement of `CollabService` among them |
| `CollabClients` | the server composed with the repository's own clients, or any others, as its peers |
| `MCCollabClients` | which program runs at which peer |
| `CollabClientsProofs` | four theorems about `CollabClients`, one of them that it refines `CollabServer` |
| `PacketCodec` | the six packets: what setters leave in them, the bytes they are encoded to, what a decoder takes from memory |
| `PacketExchange` | a packet's life: filled in, encoded, freed, sent whole or in two pieces, decoded by a test, the server or the prompt client, freed |
| `PacketProofs` | the round trip of every kind of packet and six theorems about `PacketExchange` |
| `TextMessage` | the text client's messages, built, sent and parsed |
| `TextMessageProofs` | four theorems about `TextMessage` |
| `MCSequential` | small packets, messages, answers and scripts: the parts in which nothing runs concurrently, one at a time |
| `Unpack` | the unpacker over the lines of an answer, and what an answer says |
| `UnpackProofs` | four theorems about `Unpack` |
| `SqlImport` | the importer over the characters of a script, and what SQL says a script is |
| `SqlImportProofs` | four theorems about `SqlImport` |
| `NaturalSets` | least and greatest elements of sets of naturals, for the proofs |

What makes each part correct: the mail monitor mails every file that is left
alone when it has stopped changing, and starts one monitor for it; a file that
was there alone is mailed once, and a file that takes the name of one deleted
unmailed once more for each monitor that is still at work under that name; the
server answers every frame at most once, to the peer that sent it,
and runs one command in a life; the clients end; a packet or message that is
decoded is the one that was encoded, from its own bytes, in buffers it fits,
and is freed; the unpacker leaves on the
disk what the answer says; the importer runs the statements of the script, each
by itself, and reports what became of them.

Definitions marked *Mutant* are plausible slips of the code.  Nothing uses
them; each stands beside the definition it would replace, and some property
fails when it does.

### MailMonitor

State and code: `running` is `g_running`; `tracked` the paths in
`g_tracked_list`; `scanner` where `main` stands; `pending` the directory
entries or records a pass has still to look at; `pc`, `file`, `last` and
`matches` the place and the locals of each `verify_and_process`.  `disk` and
`unreadable` are the file system; `mailed` what the mail server has got.
Actions follow the code's points of interference: one entry of a directory is
one step (`SkipEntry`, `SpawnMonitor`), one record of the sweep is one step
(`Sweep`), and a monitor's round is the access check (`TestFile`), the hash
(`HashFile`), the sleep (`Wake`); then `SendMail` and `RemoveFile`, with the
whole world free to move between any two of them.  Only the main thread touches
the record list, so the mutex needs no step of its own.

`SpawnMonitor` covers the failures of its two allocations and of
`pthread_create`: a record without a thread and a thread without a record.
`Monitors` bounds the threads the host lets run; when all are taken the record
is made and no thread starts.  One existing file given on the command line is
verified by `main` itself (`StartModes`, "inline").

Abstractions: the MD5 is the content (injective on an instance); a sample is
one read, so a file rewritten in the middle of a read counts as rewritten
before or after; directory recursion is the set `Paths`; a path shorter than
PATH_MAX is not cut.

A file does not always get one mail only.  When a file is deleted unmailed
while its monitor sleeps, the record is swept, and a file of the same name
appears, that file gets a monitor of its own, and the old monitor, which knows
only the path, goes on with it as well: both may reach `SendMail`.  So does a
monitor whose record was lost.  `MailedOncePerFile` says exactly how far this
goes: `copies[p]` counts the mails of the file that is at `p` now, `extra[p]`
the monitors of earlier files of the name that were still in their loops when
it appeared, and the records of it that were lost since; mails made and
monitors that may still send (`Unsent`) are never more than one and that
many.  `OneMonitorPerFile` counts the monitors started over a whole life; it
does not say that only one is alive.

`Delivery` is the refinement: `Owed(p)` is the number of monitors that may
still send what is at `p`, and one more while the scanner has yet to start one
for the file that is there.  The record list, the sweep and the samples do not
raise it.  `MailDelivery` promises that a file that appears adds at most one
mail to those owed under its name, that a lost record adds one, a new process
starts from at most one for every file it finds, and that every mail was owed
and carries what the file holds at that moment.

History variables (`born`, `spawned`, `unrecorded`, `unstarted`, `copies`,
`extra`, `seen`) count what the current process did and are read by properties
only.

### CollabServer and CollabClients

A connection is two FIFO channels, `up[c]` and `down[c]`; `link[c]` is the
server's side, `peer[c]` the other.  Each branch of `LWS_CALLBACK_RECEIVE` is an
action that takes one frame off the connection; a frame is the record of what
the callback looks at (binary, magic, type, request).  `StartCoding` and
`FinishCoding` are the two ends of the command inside the callback: between
them no action of the server is enabled (`Free`), while peers send, close and
go away, and SIGINT or death may come.  `iw_uv_work` and `iw_uv_done` are never
queued, so no step lowers the flag but `Restart`.

`CollabClients` says which program runs at each peer (`program`): a client of
the repository sends its one frame, stops at the first reply, close or failed
connection, and destroys its context, which is what its peer sees as a close;
any other program is as free as the peers of `CollabServer`.

`Service` is the refinement to `CollabService`: the replies given to a peer are
those it has read and those on their way; a request is taken when its command
starts; a server that goes away may take the latest replies of a peer with it.

Abstractions: replies reach the wire at once (`lws_write` inside the callback);
a frame comes in one call (pieces of frames are in `PacketExchange`); memory
does not run out; the keep-alive ping is left out.  `iw_capture_shell` is called
with no buffer, so its loop only waits for the end of the output, and whatever
it returns is dropped.
`held` counts packets that were decoded or built and never freed.

### PacketCodec and PacketExchange

A byte is 0..255; an int is its four bytes, the lowest first, with its sign; a
long is only copied and is its eight bytes.  A block behind a pointer is its
content, `<<>>` for NULL.  `..._Init` leaves in an array what malloc found
there, but for its first byte; a setter of an array copies over its beginning.
`...Encode` gives the size added up for malloc and the bytes then copied, so the
two can be compared.  A decoder reads a `Memory`: a buffer and a byte that fills
the place behind it, of which `Slack` bytes can be read; its result is a packet
and the offset up to which it read, NULL, or a fault.  No decoder looks at the
size of its buffer, as in the code.

One action of `PacketExchange` is one call: `Begin` (init), `SetField` (one
setter, in any order), `EncodeAndSend`, one of the readers, and `Forget` (free).
`Split` is libwebsockets handing a frame on in two calls.  `ServerReads` is the
callback from the magic number to the decoder of the type, `ReadSelf` the round
trips of the tests, `PromptClientReads` the prompt client, which takes the
server's generations for prompts.  `heap` knows each block by who holds it.

`file_lens` takes its size in bytes; nothing in the repository calls its
setter, and the model fills the block in whole.  `iw_prompt_get_file` and its
length are declared and not defined.  `run_local_round_trip` of
`test/iw-test-coding.c` asserts the type "GN" (line 195) of a packet it made
with "CD"; the model decodes what was made.

### TextMessage

A text is a sequence of tokens, each of length one: a newline, a NUL, one of the
three keys, or a word.  `BuildMessage` is the snprintf into the client's buffer,
`Extract` the search for a key, and `ParseMessage` the three searches up to the
first that fails, in a copy that ends at the first NUL.  Sizes count tokens and
keep the order of the source's: three arrays, a buffer that takes every message
that fits them (`BuffersAssumption`), a copy at least as large.

### Unpack

One action is one turn of the `fgets` loop in one branch of the `switch`;
`EndOfInput` is what follows the loop.  `state`, `path`, `out` and `generated`
are the variables of `main`; `disk` holds, for every target, `Nothing` or the
lines written to it; `answer` and `faults` remember what was read and which
targets could not be created, for the properties only.

A line is what the machine tells apart: `Blank`, `Dashes`, `Fence`, or one of
`Texts`, which may be a path or content.  A separator between a path and its
fence is taken for the path, as the code does, so `Dashes` is among the
`Targets`.  Different texts are different files, and a line of the model is
what one `fgets` returns.

The reference reads the answer as a whole: its fences in pairs (`Openings`),
the last heading before each opening (`PathAt`), the lines between the pair
(`ContentAt`), and for each path its last block (`Restored`).  It is stated
for every prefix, so the disk is compared at every line and not at the end
only.  `AnswerOK` says that every block has a path.  What happens after a
target could not be created is not compared: the code then reads the content of
that block as paths, and its closing fence as an opening one.

### SqlImport

`pos` is the place of the file, `buffer` the places of the characters in
`iw_buf`, so that what is run can be compared with where it stood.  One action
is one turn of the `fgetc` loop, the character it reads ahead included, or one
call of `PQexec`.  `sent` holds the statements, the last one being the one that
runs; `succeeded` and `failed` are the ids behind `succ` and `fail`.

The session is external: `session`, `work` (what the open transaction has run)
and `db` (what was committed) change as the answers of PostgreSQL let the code
see.  A BEGIN inside a transaction passes; a failed statement aborts the
transaction; COMMIT of an aborted one rolls back and reports no error; COMMIT
may be refused; a lost connection loses the transaction, or only the answer to
the COMMIT; a lost connection stays lost.  `control` remembers statements that
are a COMMIT or a ROLLBACK themselves.

The reference reads the script by SQL's rules for literals and line comments
(`Mode`), character by character from the left, and cuts it at its separators:
`Piece` is what counts between two of them, `Cuts` are the ends of the pieces
that are not empty, and `StatementsAsWritten` says that the statements run are
as many as the cuts and that each holds its piece, in order, and blanks
(`AsWritten`).  It knows no block comments, dollar quotes or quoted
identifiers, as the code knows none.  Statements are compared without the
blanks outside literals: the code drops the newline that ends a comment, so
that two words on its sides may be glued, and the comparison does not see that.

## Runs

| run | asks | instance |
|---|---|---|
| `MailSafety` | types; no more monitors started than files were there and records lost; a file mailed once, and once more for each monitor left from an earlier one or lost record; three equal samples before a mail; a recorded file that was not mailed has a monitor that will; the monitor implements `MailDelivery` | one path, two contents, two threads; three outside events of every kind but kill, one failure; directory or single file |
| `MailLiveness` | no readable file stays; a signal ends the program | the same without failures, fair |
| `MailRestart` | what is put there and left alone is mailed, through a kill or a signal anywhere | two paths, two threads, one event, one restart, supervised |
| `MailRecreated` | violated: a file of a deleted name triggers again | one create |
| `MailSendFails` | violated: what is removed was mailed | one failure, single file |
| `ServerSafety` | types; replies to the peer and request they belong to; one reply to a frame; one command in a life; the server implements `CollabService` | two peers, two frames each out of five kinds, one restart |
| `ServerBusyForever` | violated: BS is said only while at work | one peer, two frames |
| `ServerFailedCommand` | violated: SC means the command succeeded | one peer, one frame |
| `Sequential` | a packet with the system's magic number comes back whole from the bytes of its frame; buffers are filled to the byte; no piece of a frame passes for a packet; the prompt client survives the busy reply; clients free what they take; messages that keep to their lines arrive, prompts always do, fields fit their arrays; a target is open exactly while content is read and holds what the last block of its path brought, and the total is the number of blocks; the importer runs what is written, with no transaction open between statements, and reports what is so; types | eleven packets of all kinds, made one or two in a row, setters in any order, every cut; every message over one word that fits arrays of 4, 3 and 2; every answer of up to seven lines over two texts and the three marks, one target that cannot be created; every script of up to five characters out of six kinds, any answer of the session at any call |
| `RoundTrips` | violated: a program that decodes what it has encoded gets a packet | the packets the tests make of the four kinds whose decoders look at the magic number |
| `Clients` | coding clients are told something; commands run, and are reported as done, for coding clients only; every client ends; waiting frames are handled or the connection ends; SIGINT stops the server | two coding clients and the ping client, or two other programs with two frames each out of three kinds; fair |
| `PingAcknowledged` | violated: the ping client is told something else than that the server is busy | the same, one frame each |

Why the bounds are enough: with two monitor slots an old monitor and a new one
meet on a path; three events make the longest interesting sequence (delete,
create, and a third during the overlap); one failure is each single point of
failure.  Seven lines hold a path, its block and a second block of the same or
another path that is broken off; five characters hold three statements, a
comment with a separator in it, or a literal with a doubled quote.  A packet of
`Sequential` has texts of no, one and two bytes, files of no, one, two and
three bytes, and paths shorter than and as long as their array (`PathSize` is
3); memory that nobody has written to holds 0, 1 or 255 everywhere, which
makes a length read from it zero, large or negative; `Slack` of 8 makes reads
behind a buffer both succeed and fault; the second packet is decoded while the
server still holds the first.  `Sequential` is one run for four parts that
share no state: a behaviour is one of a packet, a message, an answer or a
script, and each part is explored as far as if it were alone.  The arrays of
`TextMessage` hold up to three tokens: a value, a key inside a value, and what
is cut.  On the server two peers give one that works and one that waits, two
frames give a request and a refusal, and one restart lowers the flag once.  The
theorems cover the safety properties for all sizes.

Deadlock is not checked: the programs end, and the bounds on events and frames
end the world around them, and the tools stop at the end of their input.

### Fairness

`FairSpec` of `MailMonitor` is weak fairness of the scanner and of each
monitor: the host runs every thread that can run, and every call of theirs
returns.  Other programs, signals and failures have none.  `SupervisedSpec`
adds that whoever keeps the program running starts it again.  On the server,
libwebsockets serves every connection that has something to read and a stopped
loop returns; `FinishCoding` is weakly fair because the command is assumed to
end, which the code needs and does not enforce.  Peers read what has arrived;
that they send or close is not assumed.  A client's own loop runs.

### What the violated runs show

- `MailRecreated`: a file deleted and created again before the next sweep keeps
  the old record; no monitor is ever started for it.
- `MailSendFails`: the file is removed although the mail failed.
- `ServerBusyForever`: after the first coding request every frame gets BS until
  the process is started again.
- `ServerFailedCommand`: the exit code of the command is dropped and SC sent.
- `RoundTrips`: the tests of the packet codec fill the magic number with 0xAA
  bytes, and the prompt test's local round trip sets 1769947755; both assert
  that the decoder returns a packet (`gen/test/iw-pkt-codec-test.c:90`, 233,
  351, 676; `test/iw-server-prompt-test.c:255`).  The decoders of prompt,
  coding, compilation and generation return NULL for any number but 287454020,
  so these assertions fail.  The decoders of build and preview do not look.
- `PingAcknowledged`: the ping and the prompt test wait for a reply that begins
  with "ACK:" (`test/iw-server-ping-test.c:137`, `test/iw-server-prompt-test.c:118`
  and 323).  No line of the server writes one: it closes the connection for
  their magic number, or says that it is busy.

What the code does with a file whose mail failed is explored with no other
program at work; that a rewrite between the mail and the removal is lost as well
follows from the same two steps (`SendMail`, `RemoveFile`), between which any
program may move.

## Proofs

All theorems are about `Spec` (`ClientsSpec`, `TextSpec`, `UnpackSpec`,
`ImportSpec`) for any sets of paths,
contents, monitors, peers, programs and frames and any bounds, under the
assumptions named in the modules (finitely many monitors; `Nothing` and `Nobody`
outside the sets they are told from; frames of `FrameType`; no text that is a
mark; packets that are well formed; text buffers that take what fits the arrays,
as the sizes of the source do; bounds natural numbers).  Every safety property
that a passing run checks is stated by a theorem.

`MailMonitorProofs`:

- `TypeCorrect`: `TypeOK`, inductive with `CountInv`.
- `MonitorImplementsDelivery`: `ImplementsDelivery`, step by step, from the
  types alone: `Owed` counts the monitors that may still send, so a mail that is
  sent was owed, and every step but the birth of a file, the loss of a record
  and the start of a process leaves `Owed` as it is or smaller (`QuietOwes`).
- `SendsAreStable`: `StableWhenMailed`, from `CountInv` (how many samples each
  place of the loop has counted) and `SampleInv` (the counted samples are the
  latest and agree): the property alone speaks of the last step of the loop
  only and says nothing of the rounds before.
- `MonitorsMatchFiles`: `OneMonitorPerFile`, from `RecordInv`: while scanning,
  a file without a record is one monitor short of the files born there, so the
  monitor that the next pass starts is accounted for.
- `RecordedFilesAreMonitored`: `TrackedMeansMonitored`, from `BornInv` and
  the types.
- `MailedOnce`: `MailedOncePerFile`, from `MailInv`, which counts the monitor
  that is still to be started for an unrecorded file among those that may send
  it: the property alone would not survive `SpawnMonitor`.

`CollabServerProofs`:

- `TypeCorrect`: `TypeOK` and `ChannelInv`, proved together: that a step of a
  peer finds the server's side as it expects (a close in a channel means the
  connection is over) is what keeps the types of both sides in step.
- `CommandsAreAlone`: `OneCommandPerLife`, inductive over `TypeCorrect`.
- `RepliesNeedFrames`: `OneReplyPerFrame`, by the balance of each connection:
  frames sent against replies read, replies and frames under way, the command
  that runs and the frame that ends the connection.

- `ServerImplementsService`: `ImplementsService`, step by step, from `TypeOK`,
  `ChannelInv` and `OneReplyPerFrame`: a reply is given only for a frame that
  has none because replies and frames together never outnumber what was sent,
  and a channel ends with at most one close, so that what is appended and read
  at its ends is appended to and read from the replies.
- `NoReplyAstray`: `RepliesBelong`, from `AnswersInv`.  The property compares
  the replies of a connection with the requests accepted from it and does not
  say what is owed: `AnswersInv` adds that, until the connection has ended,
  the requests accepted are those answered and the one the command runs for,
  which is the latest.  A death or a hangup takes replies from the end only.

`CollabClientsProofs`:

- `ClientsArePeers`: `ClientsSpec => Spec`.  Every step of a client of the
  repository, its exit included, is a step its peer may take, so what is proved
  of the server holds of the server with its clients.
- `ClientsInvariant`: the types, the channels and `ClientsInv`.  For a client that
  sends no coding request, `StrangerOK`: only its own frame and refusals are ever
  under way.  For a coding client, `CodingOK`: as long as the server's first life
  lasts, its one frame is still to be sent, waits, is worked at or is answered
  (`FrameOwed`), which is what `CodingClientsTold` leaves unsaid of a client that
  is still at it.
- `OnlyCodingTheorem` and `CodingClientsTheorem`: `OnlyCodingRuns` and
  `CodingClientsTold`, from it.

`PacketProofs`:

- `ExchangeInvariant`: `ExchangeInv`, four parts: a packet being made is a
  fresh one but for the fields set so far (`MakingOK`), a piece is a frame or a
  part of one (`WireOK`), what was read came from its piece (`ReadingOK`),
  whoever holds a block is at work on it (`HeapOK`).  The lemmas before it give,
  for each kind, where each field stands in the encoded bytes (the `...Layout`
  lemmas) and that the decoder finds it there (`...Back`); `IntBack` is the
  round trip of an int with its sign.
- `ArriveTheorem`, `FitsTheorem`, `ShorterTheorem`, `BusyTheorem` and
  `FreeTheorem`: `PacketsArrive`, `BufferFits`, `NoShorterPacket`,
  `BusyReplyReadable` and `ClientsFreeAll`, from the invariant.
  `PacketsArrive` is about packets that carry the system's magic number where
  the decoder looks at it; of the others see `RoundTrips`.  The theorems hold for
  every set of well-formed packets (`WantedAssumption`, which asks of a busy
  reply what `iw_respond_busy` puts into it: `BusyOK`), any memory and any cut.
  `BusyTheorem` follows the prompt decoder byte by byte over the bytes of a
  generation and the zeros behind them.

`TextMessageProofs`:

- `TextInvariant`: `TextInv`: the message fits its arrays (`MessageOK`), what is
  under way is the message or a text of another program (`PayloadOK`), and what
  was parsed is what `Extract` finds in the lines of the message (`ParsedOK`).
- `CleanTheorem`, `PromptTheorem` and `FieldsTheorem`: `CleanArrives`,
  `PromptArrives` and `FieldsFit`.  The lemmas before them say where the first
  occurrence of a token stands in texts put together, which key is found first
  in the lines of a message, and what is left of a value when it is cut.

`UnpackProofs`:

- `TypeCorrect` and `FileOpenWhileReading`: `UnpackTypeOK` and `OpenWhileReading`,
  inductive together.
- `FilesRestored` and `BlocksCounted`: `BlocksRestored` and `TotalPrinted`,
  from `PlaceInv` and `TotalInv`.  The disk alone does not say where the
  machine stands in the answer: `PlaceInv` ties the state to the parity of the
  fences read, the path to the last heading and the open file to the block
  opened last; `TotalInv` counts.  The lemmas before them say what one more
  line does to the fences, openings, headings, paths and contents of an
  answer; no induction over the answer is needed, as the run itself grows it
  line by line.

`SqlImportProofs`:

- `TypeCorrect`: `ImportTypeOK`, inductive by itself.
- `Isolated` and `ReportsAreTrue`: `StatementsIsolated` and `ReportsTrue`, from
  `SessionInv` (where the session stands at each place of `iw_exec_tx`, which
  is what makes an open transaction impossible when the next statement begins)
  and `IdInv` (the statement that runs has not been counted or committed yet).
- `AsWrittenTheorem`: `StatementsAsWritten`, from `ScanInv`.  The property
  speaks of the end only; the invariant compares the code with the reference at
  every character: `in_quote` is what `Mode` says of the place read next and no
  character of a comment is ever read (`ModeOK`), the buffer holds the piece
  under way (`BufferOK`), and the statements that end before that place have
  been run.  `BufferOK` also says that blanks inside a literal are followed by
  something else once it is closed, which is why `iw_buf_trim` takes nothing
  that counts; a script that ends in an open literal may lose some, so the
  property asks for closed ones.  `Mode` is a recursive function; that it exists
  and what it is of one more character is proved from a least counterexample
  (`ModeExists`, `ModeIs`), and so is how far a comment reaches
  (`CommentLasts`).

`NaturalSets` proves that a non-empty set of naturals has a least element, and
a bounded one a greatest, from the well-foundedness of `<`.

Model-checked only, because liveness is out of the prover's reach: what needs
fairness (`NothingLingers`, `SignalEnds`, `MailedDespiteKills`, `ClientsEnd`,
`FramesHandled`, `InterruptStops`).  The six properties the code violates are
refuted by TLC's counterexamples.

## Not modelled, and the plan

Order of work:

1. `MailMonitor` with its proofs, `CollabServer` with its proofs,
   `CollabClients` with its proofs (done).
2. `Unpack` with its proofs (done).
3. `SqlImport` with its proofs (done).
4. `MailDelivery` and `CollabService`, the abstract specifications of the mail
   monitor and of the server, with their refinements proved (done).
5. `PacketCodec`, `PacketExchange` and `TextMessage`, with their proofs (done).

Not modelled, and why:

- the server's keep-alive: a timer per connection that writes an empty ping and
  arms itself again; nothing else reads or waits for it;
- failed allocations in the server, the clients and the codec, which the code
  does not look for; `iw_capture_shell` with a buffer, which nobody calls;
- `test/perf.c`, a benchmark for any websocket server with its own frame
  parser, and the other tests: they are beside the system, and were read for
  what they expect of it;
- the together node keeps no state and calls a library that is not in the
  repository; the agent prompts are constants; the build and the generator
  script do not run as part of the system.
