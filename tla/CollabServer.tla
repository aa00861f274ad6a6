---------------------------- MODULE CollabServer ----------------------------
(***************************************************************************)
(* src/iw-server.c: one thread runs the libwebsockets callback             *)
(* iw_request_process on a libuv loop.  A coding request runs a shell      *)
(* command inside the callback, so nothing else happens in the server      *)
(* until the command ends.  iw_uv_work and iw_uv_done, which would run it  *)
(* on a worker and clear the busy flag, are never queued and have no       *)
(* action here.  A frame reaches the callback in one piece and is the      *)
(* record of what the callback looks at.  The keep-alive ping of the timer *)
(* changes nothing a peer's program sees and is left out.                  *)
(*                                                                         *)
(* A connection is two FIFO channels.  Peers are the programs at the other *)
(* end: here they do whatever the protocol lets them; CollabClients puts   *)
(* the repository's own clients there.                                     *)
(***************************************************************************)
EXTENDS Naturals, Sequences, FiniteSets

CONSTANTS
  Peers,        \* programs that may connect
  Nobody,       \* no peer
  Frames,       \* frames a peer may send: see FrameType
  MaxFrames,    \* bound: frames a peer sends on its connection
  MaxStarts     \* bound: times the server is started again

\* Whether the frame is binary, whether its first four bytes are the magic
\* number, its type, and its request identifier.
FrameType == [binary : BOOLEAN, magic : BOOLEAN, type : {"PT", "CD", "other"},
              request : Nat]

ASSUME FramesAssumption == Frames \subseteq FrameType
ASSUME NobodyAssumption == Nobody \notin Peers
ASSUME MaxAssumption    == MaxFrames \in Nat /\ MaxStarts \in Nat

\* What ends a channel: a close frame, or a connection found broken.
Close == [status |-> "end", request |-> 0]

VARIABLES
  loop,       \* the uv loop: "running", "stopping" (SIGINT came), "stopped"
  busy,       \* g_server_busy
  working,    \* the peer whose coding command runs, or Nobody
  request,    \* coding->request of that command
  dumps,      \* seq of iw_dump_packet: files written to recv/
  held,       \* packets decoded or built and never freed
  link,       \* link[c]: the server's side of c's connection
  peer,       \* peer[c]: c's side of it
  up, down,   \* up[c], down[c]: frames on their way to and from the server
  starts,     \* how much of the bound is used
  \* history, read by properties only
  asked,      \* asked[c]: how many frames c has sent
  got,        \* got[c]: replies c has read, in order
  accepted,   \* accepted[c]: requests of c whose command was started, in order
  commands,   \* commands started, in all lives of the server
  failed      \* requests whose command did not exit with 0

serverVars  == <<loop, busy, working, request, dumps, held>>
wireVars    == <<link, peer, up, down>>
historyVars == <<asked, got, accepted, commands, failed>>
vars == <<serverVars, wireVars, starts, historyVars>>

\* The loop can call back: it is not gone, and no callback is under way.
Free == loop # "stopped" /\ working = Nobody

Everywhere(v) == [c \in Peers |-> v]

Init ==
  /\ loop = "running" /\ busy = FALSE
  /\ working = Nobody /\ request = 0
  /\ dumps = 0 /\ held = 0 /\ starts = 0
  /\ link = Everywhere("none") /\ peer = Everywhere("new")
  /\ up = Everywhere(<<>>) /\ down = Everywhere(<<>>)
  /\ asked = Everywhere(0) /\ got = Everywhere(<<>>)
  /\ accepted = Everywhere(<<>>)
  /\ commands = 0 /\ failed = {}

-----------------------------------------------------------------------------
(* The server                                                              *)

\* LWS_CALLBACK_ESTABLISHED
Establish(c) ==
  /\ Free
  /\ peer[c] = "connecting"
  /\ peer' = [peer EXCEPT ![c] = "open"]
  /\ link' = [link EXCEPT ![c] = "open"]
  /\ UNCHANGED <<serverVars, up, down, starts, historyVars>>

\* LWS_CALLBACK_RECEIVE of f from c: the frame is taken off the connection,
\* and dumped when it is binary, before anything else is looked at.
Receive(c, f) ==
  /\ Free
  /\ link[c] = "open" /\ up[c] # <<>> /\ Head(up[c]) = f /\ f # Close
  /\ dumps' = IF f.binary THEN dumps + 1 ELSE dumps
  /\ UNCHANGED <<loop, peer, starts>>

\* Mutant: the status of the reply is not set.
RespondUnset(c, status, id) ==
  /\ down' = [down EXCEPT ![c] = Append(@, [status |-> "", request |-> id])]
  /\ held' = held + 1

\* iw_respond_busy and iw_respond_generation: the packet they build is never
\* freed.
Respond(c, status, id) ==
  /\ down' = [down EXCEPT ![c] =
                Append(@, [status |-> status, request |-> id])]
  /\ held' = held + 1

Consume(c) == up' = [up EXCEPT ![c] = Tail(@)]

\* Mutant: the connection is closed with its frames left waiting.
HangupKeepsFrames(c) ==
  /\ link' = [link EXCEPT ![c] = "closed"]
  /\ down' = [down EXCEPT ![c] = Append(@, Close)]
  /\ UNCHANGED up

\* The callback returns -1: libwebsockets closes the connection.
Hangup(c) ==
  /\ link' = [link EXCEPT ![c] = "closed"]
  /\ up' = [up EXCEPT ![c] = <<>>]
  /\ down' = [down EXCEPT ![c] = Append(@, Close)]

\* Mutant: the frame is answered and stays.
RejectAgain(c, f) ==
  /\ Receive(c, f)
  /\ busy
  /\ Respond(c, "BS", 0)
  /\ UNCHANGED <<busy, working, request, link, up, historyVars>>

\* Mutant: a busy server closes the connection in place of an answer.
HangupBusy(c, f) ==
  /\ Receive(c, f)
  /\ busy
  /\ Hangup(c)
  /\ UNCHANGED <<busy, working, request, held, historyVars>>

RejectBusy(c, f) ==
  /\ Receive(c, f)
  /\ busy
  /\ Respond(c, "BS", 0)
  /\ Consume(c)
  /\ UNCHANGED <<busy, working, request, link, historyVars>>

\* Mutant: a frame without the magic number is passed over.
IgnoreMagic(c, f) ==
  /\ Receive(c, f)
  /\ ~busy /\ ~f.magic
  /\ Consume(c)
  /\ UNCHANGED <<busy, working, request, held, link, down, historyVars>>

CloseOnMagic(c, f) ==
  /\ Receive(c, f)
  /\ ~busy /\ ~f.magic
  /\ Hangup(c)
  /\ UNCHANGED <<busy, working, request, held, historyVars>>

\* The prompt is decoded and kept; calling the language model is a comment.
TakePrompt(c, f) ==
  /\ Receive(c, f)
  /\ ~busy /\ f.magic /\ f.type = "PT"
  /\ held' = held + 1
  /\ Consume(c)
  /\ UNCHANGED <<busy, working, request, link, down, historyVars>>

\* Mutant: the command starts with the flag down.
StartCodingIdle(c, f) ==
  /\ Receive(c, f)
  /\ ~busy /\ f.magic /\ f.type = "CD"
  /\ working' = c /\ request' = f.request
  /\ held' = held + 1
  /\ Consume(c)
  /\ accepted' = [accepted EXCEPT ![c] = Append(@, f.request)]
  /\ commands' = commands + 1
  /\ UNCHANGED <<busy, link, down, asked, got, failed>>

\* Mutant: neither the magic number nor the type is looked at.
StartCodingAny(c, f) ==
  /\ Receive(c, f)
  /\ ~busy
  /\ busy' = TRUE
  /\ working' = c /\ request' = f.request
  /\ held' = held + 1
  /\ Consume(c)
  /\ accepted' = [accepted EXCEPT ![c] = Append(@, f.request)]
  /\ commands' = commands + 1
  /\ UNCHANGED <<link, down, asked, got, failed>>

\* The flag goes up and the command starts, inside the callback.
StartCoding(c, f) ==
  /\ Receive(c, f)
  /\ ~busy /\ f.magic /\ f.type = "CD"
  /\ busy' = TRUE
  /\ working' = c /\ request' = f.request
  /\ held' = held + 1
  /\ Consume(c)
  /\ accepted' = [accepted EXCEPT ![c] = Append(@, f.request)]
  /\ commands' = commands + 1
  /\ UNCHANGED <<link, down, asked, got, failed>>

CloseOnType(c, f) ==
  /\ Receive(c, f)
  /\ ~busy /\ f.magic /\ f.type \notin {"PT", "CD"}
  /\ Hangup(c)
  /\ UNCHANGED <<busy, working, request, held, historyVars>>

\* Mutant: the reply goes to any connection that is open.
FinishCodingAnywhere ==
  /\ working # Nobody
  /\ \E c \in Peers : link[c] = "open" /\ Respond(c, "SC", request)
  /\ working' = Nobody /\ request' = 0
  /\ UNCHANGED <<loop, busy, dumps, link, peer, up, starts, historyVars>>

\* iw_capture_shell returns; whatever it returns, the reply is a success.
\* The flag stays up.
FinishCoding ==
  /\ working # Nobody
  /\ Respond(working, "SC", request)
  /\ working' = Nobody /\ request' = 0
  /\ \/ UNCHANGED failed
     \/ failed' = failed \cup {request}
  /\ UNCHANGED <<loop, busy, dumps, link, peer, up, starts,
                 asked, got, accepted, commands>>

\* LWS_CALLBACK_WS_PEER_INITIATED_CLOSE, then LWS_CALLBACK_CLOSED
PeerInitiatedClose(c) ==
  /\ Free
  /\ link[c] = "open" /\ up[c] # <<>> /\ Head(up[c]) = Close
  /\ Hangup(c)
  /\ UNCHANGED <<serverVars, peer, starts, historyVars>>

\* Every connection ends at once; what was under way to the peers arrives
\* or, when the process dies, may be lost.
DropAll(arrives) ==
  /\ loop' = "stopped"
  /\ link' = [c \in Peers |-> IF link[c] = "open" THEN "closed" ELSE link[c]]
  /\ up' = Everywhere(<<>>)
  /\ down' = [c \in Peers |->
               IF link[c] # "open" THEN down[c]
               ELSE Append(IF arrives THEN down[c] ELSE <<>>, Close)]

\* Mutant: the loop stops once the server is no longer busy.
StopLoopWhenIdle ==
  /\ loop = "stopping" /\ working = Nobody /\ ~busy
  /\ DropAll(TRUE)
  /\ UNCHANGED <<busy, working, request, dumps, held, peer, starts, historyVars>>

\* uv_run returns after iw_server_single called uv_stop; the context is
\* destroyed and main returns.
StopLoop ==
  /\ loop = "stopping" /\ working = Nobody
  /\ DropAll(TRUE)
  /\ UNCHANGED <<busy, working, request, dumps, held, peer, starts, historyVars>>

HandlePeer(c) ==
  \/ Establish(c)
  \/ PeerInitiatedClose(c)
  \/ \E f \in Frames :
       \/ RejectBusy(c, f) \/ CloseOnMagic(c, f) \/ TakePrompt(c, f)
       \/ StartCoding(c, f) \/ CloseOnType(c, f)

-----------------------------------------------------------------------------
(* What happens to the server                                              *)

\* SIGINT comes, perhaps during a callback; its handler stops the loop once
\* the callback has returned.
Interrupt ==
  /\ loop = "running"
  /\ loop' = "stopping"
  /\ UNCHANGED <<busy, working, request, dumps, held, wireVars, starts,
                 historyVars>>

\* The process dies, perhaps inside a callback.
Kill ==
  /\ loop # "stopped"
  /\ \E arrives \in BOOLEAN : DropAll(arrives)
  /\ working' = Nobody /\ request' = 0
  /\ UNCHANGED <<busy, dumps, held, peer, starts, historyVars>>

\* main, from the start: the only step that lowers the flag.
Restart ==
  /\ loop = "stopped" /\ starts < MaxStarts
  /\ starts' = starts + 1
  /\ loop' = "running" /\ busy' = FALSE
  /\ dumps' = 0 /\ held' = 0
  /\ UNCHANGED <<working, request, wireVars, historyVars>>

-----------------------------------------------------------------------------
(* Peers                                                                   *)

PeerConnect(c) ==
  /\ peer[c] = "new"
  /\ peer' = [peer EXCEPT ![c] = "connecting"]
  /\ UNCHANGED <<serverVars, link, up, down, starts, historyVars>>

\* Nothing listens any more.
ConnectFails(c) ==
  /\ peer[c] = "connecting" /\ loop = "stopped"
  /\ peer' = [peer EXCEPT ![c] = "closed"]
  /\ UNCHANGED <<serverVars, link, up, down, starts, historyVars>>

\* A frame sent to a server that has closed is lost.
PeerSend(c, f) ==
  /\ peer[c] = "open" /\ asked[c] < MaxFrames
  /\ up' = IF link[c] = "open" THEN [up EXCEPT ![c] = Append(@, f)] ELSE up
  /\ asked' = [asked EXCEPT ![c] = @ + 1]
  /\ UNCHANGED <<serverVars, link, peer, down, starts, got, accepted,
                 commands, failed>>

PeerReceive(c) ==
  /\ peer[c] = "open" /\ down[c] # <<>> /\ Head(down[c]) # Close
  /\ got' = [got EXCEPT ![c] = Append(@, Head(down[c]))]
  /\ down' = [down EXCEPT ![c] = Tail(@)]
  /\ UNCHANGED <<serverVars, link, peer, up, starts, asked, accepted,
                 commands, failed>>

PeerFindsClosed(c) ==
  /\ peer[c] = "open" /\ down[c] # <<>> /\ Head(down[c]) = Close
  /\ peer' = [peer EXCEPT ![c] = "closed"]
  /\ UNCHANGED <<serverVars, link, up, down, starts, historyVars>>

\* A peer closes, or goes away and takes its last frames with it.
PeerClose(c) ==
  /\ peer[c] = "open"
  /\ peer' = [peer EXCEPT ![c] = "closed"]
  /\ \E n \in 0..Len(up[c]) :
       up' = IF link[c] # "open" THEN up
             ELSE [up EXCEPT ![c] = Append(SubSeq(@, 1, n), Close)]
  /\ UNCHANGED <<serverVars, link, down, starts, historyVars>>

PeerReads(c) == ConnectFails(c) \/ PeerReceive(c) \/ PeerFindsClosed(c)

Peer(c) ==
  \/ PeerConnect(c) \/ PeerClose(c) \/ PeerReads(c)
  \/ \E f \in Frames : PeerSend(c, f)

Server == StopLoop \/ FinishCoding \/ \E c \in Peers : HandlePeer(c)
Host   == Interrupt \/ Kill \/ Restart

Next == Server \/ Host \/ \E c \in Peers : Peer(c)

Spec == Init /\ [][Next]_vars

\* libwebsockets serves every connection; the shell command ends; a loop that
\* was told to stop stops; a peer reads what has arrived.
ServerFairness ==
  /\ \A c \in Peers : WF_vars(HandlePeer(c)) /\ WF_vars(PeerReads(c))
  /\ WF_vars(FinishCoding) /\ WF_vars(StopLoop)

FairSpec == Spec /\ ServerFairness

-----------------------------------------------------------------------------
(* What must hold                                                          *)

Items == Frames \cup {Close}
Answers == [status : {"SC", "BS", "end"}, request : Nat]

\* Every variable has its type.
TypeOK ==
  /\ loop \in {"running", "stopping", "stopped"} /\ busy \in BOOLEAN
  /\ working \in Peers \cup {Nobody} /\ request \in Nat
  /\ dumps \in Nat /\ held \in Nat /\ starts \in 0..MaxStarts
  /\ link \in [Peers -> {"none", "open", "closed"}]
  /\ peer \in [Peers -> {"new", "connecting", "open", "closed"}]
  /\ up \in [Peers -> Seq(Items)] /\ down \in [Peers -> Seq(Answers)]
  /\ asked \in [Peers -> 0..MaxFrames] /\ got \in [Peers -> Seq(Answers)]
  /\ accepted \in [Peers -> Seq(Nat)] /\ commands \in Nat
  /\ failed \subseteq Nat

\* Replies on a channel, without the end; all replies given to a peer, read or
\* not; the successes among the first i of a sequence of them.
Replies(s) == IF s # <<>> /\ s[Len(s)] = Close THEN SubSeq(s, 1, Len(s) - 1) ELSE s
Given == [c \in Peers |-> got[c] \o Replies(down[c])]
SuccessesTo(s, i) == {k \in 1..i : s[k].status = "SC"}

\* No reply goes astray: the success replies given to a connection are, in
\* order, for the coding requests accepted from that same connection, also
\* when other peers connect, close and send while a command runs.
RepliesBelong ==
  \A c \in Peers : \A i \in DOMAIN Given[c] :
    LET n == Cardinality(SuccessesTo(Given[c], i))
    IN  Given[c][i].status = "SC"
          => n <= Len(accepted[c]) /\ Given[c][i].request = accepted[c][n]

\* What c has read or will read, and what is on its way from c; the command
\* that runs for c; the frame that ends its connection.  (The server ends
\* down[c] with Close when it closes, a peer that closes first ends up[c]
\* with it.)
Traffic(c) == Len(got[c]) + Len(down[c]) + Len(up[c])
Work(c) == IF working = c THEN 1 ELSE 0
Ends(c) ==
  IF link[c] = "closed" \/ (link[c] = "open" /\ peer[c] = "closed") THEN 1 ELSE 0

\* A frame gets at most one reply: replies the peer has read or that are on
\* their way, frames on theirs, and the command being run never outnumber the
\* frames sent.
OneReplyPerFrame ==
  \A c \in Peers : Traffic(c) + Work(c) <= asked[c] + Ends(c)

\* Never two commands: between two starts of the server at most one coding
\* request is accepted, whatever the peers send and however connections end.
OneCommandPerLife ==
  /\ commands <= starts + 1
  /\ ~busy /\ loop # "stopped" => commands <= starts

\* Callbacks, channels, the flag and the loop come to the one promise of
\* CollabService, for every interleaving of peers, crashes and restarts.
Service == INSTANCE CollabService
  WITH answers   <- Given,
       delivered <- got, serving <- working, spent <- busy
ImplementsService == Service!ServiceSpec

\* A frame that reached the server is handled, or its connection ends.
FramesHandled ==
  \A c \in Peers : (up[c] # <<>>) ~> (up[c] = <<>>)

\* SIGINT ends the server once the command it runs, if any, has ended.
InterruptStops == loop = "stopping" ~> loop = "stopped"

\* "busy: reject new request": a peer is told that the server is busy only
\* while the server is at work on a request.
BusyMeansWorking ==
  [][\A c \in Peers :
       Len(down'[c]) > Len(down[c]) /\ down'[c][Len(down'[c])].status = "BS"
         => working # Nobody]_vars

\* The status SC of a generation is SUCCESS: a command that failed is not
\* reported as one.
SuccessMeansSucceeded ==
  \A c \in Peers : \A i \in DOMAIN got[c] :
    got[c][i].status = "SC" => got[c][i].request \notin failed

-----------------------------------------------------------------------------
(* Why it holds: the inductive invariant of CollabServerProofs             *)

\* Channels end with Close where the other side has closed, connections are
\* the server's only while it lives, and it answers only whom it knows.
ChannelOK(c) ==
  /\ link[c] = "none" => peer[c] # "open" /\ down[c] = <<>>
  /\ peer[c] \in {"new", "connecting"} => link[c] = "none"
  /\ link[c] = "open" => loop # "stopped"
  /\ link[c] = "open" => \A i \in 1..Len(down[c]) : down[c][i] # Close
  /\ link[c] = "open" /\ peer[c] = "closed"
       => up[c] # <<>> /\ up[c][Len(up[c])] = Close
  /\ link[c] # "open" => up[c] = <<>>
  /\ working = c => link[c] = "open"

ChannelInv == \A c \in Peers : ChannelOK(c)

\* Until its connection has ended, every request accepted from c is answered
\* or being worked at; what is worked at is the latest.
Settled(c) == Cardinality(SuccessesTo(Given[c], Len(Given[c])))

AnswersOK(c) ==
  /\ link[c] # "closed" => Settled(c) + Work(c) = Len(accepted[c])
  /\ working = c => request = accepted[c][Len(accepted[c])]

AnswersInv == \A c \in Peers : AnswersOK(c)
=============================================================================
