------------------------ MODULE CollabClientsProofs ------------------------
(***************************************************************************)
(* The server with the repository's clients is the server of CollabServer; *)
(* no client but a coding client has a command run for it; and a coding    *)
(* client is told what became of its request.                              *)
(***************************************************************************)
EXTENDS CollabClients, CollabServerProofs

-----------------------------------------------------------------------------
(* The clients are peers of the server                                     *)

\* The programs at the peers stay what they are.
LEMMA ProgramStays == [ClientsNext]_allVars => program' = program
BY DEF ClientsNext, allVars, clientVars, ClientConnects, ClientSignal, Client,
       ClientWriteable, ClientReceive, ClientLoses, ClientExits

\* Every step of the server with its clients is a step of the server with its
\* peers.
LEMMA ClientsStep == program \in Casts /\ [ClientsNext]_allVars => [Next]_vars
<1> SUFFICES ASSUME program \in Casts, [ClientsNext]_allVars PROVE [Next]_vars
  OBVIOUS
<1>1. CASE (Server \/ Host) /\ UNCHANGED clientVars
  BY <1>1 DEF Next
<1>2. ASSUME NEW c \in Clients, ClientConnects(c) PROVE [Next]_vars
  <2>1. c \in Peers /\ Peer(c)
    BY <1>2 DEF Clients, ClientConnects, Peer
  <2> QED
    BY <2>1 DEF Next
<1>3. ASSUME NEW c \in Clients, ClientSignal(c) PROVE [Next]_vars
  BY <1>3 DEF ClientSignal
<1>4. ASSUME NEW c \in Clients, Client(c) PROVE [Next]_vars
  <2>1. c \in Peers /\ FrameOf(program[c]) \in Frames
    BY CastsAssumption DEF Clients
  <2>2. Peer(c)
    BY <1>4, <2>1 DEF Client, ClientWriteable, ClientReceive, ClientLoses,
                      ClientExits, Peer, PeerReads
  <2> QED
    BY <2>1, <2>2 DEF Next
<1>5. ASSUME NEW c \in Others, Peer(c) PROVE [Next]_vars
  BY <1>5 DEF Others, Next
<1>6. CASE UNCHANGED allVars
  BY <1>6 DEF allVars
<1> QED
  BY <1>1, <1>2, <1>3, <1>4, <1>5, <1>6 DEF ClientsNext

\* The server with the repository's own clients at its peers is the server of
\* CollabServer, so whatever holds for every peer holds for them.
THEOREM ClientsArePeers == ClientsSpec => Spec
<1>1. ClientsInit => program \in Casts
  BY DEF ClientsInit
<1>2. program \in Casts /\ [ClientsNext]_allVars => (program \in Casts)'
  BY ProgramStays
<1>3. ClientsInit => Init
  BY DEF ClientsInit
<1> QED
  BY <1>1, <1>2, <1>3, ClientsStep, PTL DEF ClientsSpec, Spec

-----------------------------------------------------------------------------
(* What does not concern a client                                          *)

\* A step leaves a peer's connection and its command alone.
Quiet(c) ==
  /\ UNCHANGED <<link[c], peer[c], up[c], down[c], asked[c], got[c], accepted[c]>>
  /\ (working' = c) = (working = c)
  /\ working = c => request' = request

\* What the server does for one peer, and what a peer does, is nothing to the
\* others.
LEMMA OthersQuiet ==
  ASSUME TypeAndChannels, NEW c \in Peers, NEW d \in Peers, d # c,
         HandlePeer(d) \/ Peer(d)
  PROVE  Quiet(c) /\ loop' = loop /\ starts' = starts
<1> USE DEF TypeAndChannels
<1>1. CASE HandlePeer(d)
  <2>1. working = Nobody /\ working # c /\ got' = got /\ asked' = asked
    BY <1>1, NobodyAssumption
    DEF HandlePeer, Establish, PeerInitiatedClose, RejectBusy, CloseOnMagic,
        TakePrompt, StartCoding, CloseOnType, Receive, Free, historyVars
  <2>2. down'[c] = down[c] /\ link'[c] = link[c] /\ up'[c] = up[c]
    BY <1>1, <2>1
    DEF HandlePeer, Establish, PeerInitiatedClose, RejectBusy, CloseOnMagic,
        TakePrompt, StartCoding, CloseOnType, Receive, Respond, Hangup, Consume,
        TypeOK, historyVars, serverVars
  <2>3. accepted'[c] = accepted[c] /\ peer'[c] = peer[c] /\ working' # c
    BY <1>1, <2>1
    DEF HandlePeer, Establish, PeerInitiatedClose, RejectBusy, CloseOnMagic,
        TakePrompt, StartCoding, CloseOnType, Receive, TypeOK, historyVars, serverVars
  <2>4. loop' = loop /\ starts' = starts
    BY <1>1, <2>1
    DEF HandlePeer, Establish, PeerInitiatedClose, RejectBusy, CloseOnMagic,
        TakePrompt, StartCoding, CloseOnType, Receive, TypeOK, historyVars, serverVars
  <2> QED
    BY <2>1, <2>2, <2>3, <2>4 DEF Quiet
<1>2. CASE Peer(d)
  <2>1. UNCHANGED <<serverVars, link, starts, accepted>>
    BY <1>2 DEF Peer, PeerReads, PeerConnect, ConnectFails, PeerSend, PeerReceive,
                PeerFindsClosed, PeerClose, historyVars
  <2>2. /\ peer'[c] = peer[c] /\ up'[c] = up[c] /\ down'[c] = down[c]
        /\ asked'[c] = asked[c] /\ got'[c] = got[c]
    BY <1>2 DEF Peer, PeerReads, PeerConnect, ConnectFails, PeerSend, PeerReceive,
                PeerFindsClosed, PeerClose, historyVars, TypeOK
  <2> QED
    BY <2>1, <2>2 DEF Quiet, serverVars
<1> QED
  BY <1>1, <1>2

\* The end of another peer's command.
LEMMA FinishQuiet ==
  ASSUME TypeAndChannels, NEW c \in Peers, FinishCoding, working # c
  PROVE  Quiet(c) /\ loop' = loop /\ starts' = starts
<1>1. down'[c] = down[c]
  BY DEF FinishCoding, Respond, TypeAndChannels, TypeOK
<1>2. working' # c
  BY NobodyAssumption DEF FinishCoding
<1> QED
  BY <1>1, <1>2 DEF FinishCoding, Quiet

-----------------------------------------------------------------------------
(* Clients that are not coding clients                                     *)

Busy    == [status |-> "BS", request |-> 0]
Strange(c) == c \in Clients /\ program[c] # "coding"

\* Their frames have no magic number.
LEMMA StrangeFrame ==
  ASSUME NEW c \in Peers, Strange(c)
  PROVE  FrameOf(program[c]).magic = FALSE
BY DEF Strange, Clients, Programs, FrameOf

\* What does not concern them changes nothing for them.
LEMMA StrangerQuiet ==
  ASSUME NEW c \in Peers, StrangerOK(c), Quiet(c), program' = program
  PROVE  StrangerOK(c)'
BY DEF StrangerOK, Quiet

\* The callback sends them refusals and closes, and runs nothing for them.
LEMMA StrangerHandle ==
  ASSUME TypeAndChannels, NEW c \in Peers, Strange(c), StrangerOK(c),
         HandlePeer(c), program' = program
  PROVE  StrangerOK(c)'
<1> DEFINE F == {FrameOf(program[c]), Close}
           A == {Busy, Close}
<1> USE DEF TypeAndChannels
<1>1. /\ up[c] \in Seq(F) /\ down[c] \in Seq(A) /\ accepted[c] = <<>>
      /\ got[c] \in Seq({Busy}) /\ working # c
  BY DEF StrangerOK, Busy
<1>2. /\ Append(down[c], Busy) \in Seq(A) /\ Append(down[c], Close) \in Seq(A)
  <2> HIDE DEF Busy, Close
  <2> QED
    BY <1>1, ChannelAppend
<1>3. up[c] # <<>> => Head(up[c]) \in F /\ Tail(up[c]) \in Seq(F)
  <2> HIDE DEF F
  <2> QED
    BY <1>1, ChannelTail
<1>4. \A f \in Frames : Receive(c, f) => ~f.magic
  <2>1. \A f \in Frames : Receive(c, f) => f = FrameOf(program[c])
    BY <1>3 DEF Receive
  <2> QED
    BY <2>1, StrangeFrame
<1>5. <<>> \in Seq(F)
  BY EmptySeq
<1>6. got' = got /\ accepted'[c] = accepted[c] /\ working' = working
  BY <1>4 DEF HandlePeer, Establish, PeerInitiatedClose, RejectBusy, CloseOnMagic,
     TakePrompt, StartCoding, CloseOnType, historyVars, serverVars
<1>7. up'[c] \in {up[c], Tail(up[c]), <<>>} /\ (up[c] = <<>> => up'[c] = <<>>)
  BY DEF HandlePeer, Establish, PeerInitiatedClose, RejectBusy, CloseOnMagic,
     TakePrompt, StartCoding, CloseOnType, Receive, Consume, Hangup, TypeOK
<1>8. down'[c] \in {down[c], Append(down[c], Busy), Append(down[c], Close)}
  BY DEF HandlePeer, Establish, PeerInitiatedClose, RejectBusy, CloseOnMagic,
     TakePrompt, StartCoding, CloseOnType, Respond, Hangup, TypeOK, Busy
<1>9. up'[c] \in Seq(F) /\ down'[c] \in Seq(A)
  BY <1>1, <1>2, <1>3, <1>5, <1>7, <1>8
<1> QED
  BY <1>1, <1>6, <1>9 DEF StrangerOK, Busy

\* The end of the process ends their connection.
LEMMA StrangerDrop ==
  ASSUME TypeAndChannels, NEW c \in Peers, StrangerOK(c),
         StopLoop \/ Kill, program' = program
  PROVE  StrangerOK(c)'
<1> DEFINE F == {FrameOf(program[c]), Close}
           A == {Busy, Close}
<1>1. /\ up[c] \in Seq(F) /\ down[c] \in Seq(A) /\ accepted[c] = <<>>
      /\ got[c] \in Seq({Busy}) /\ working # c
  BY DEF StrangerOK, Busy
<1>2. PICK arrives \in BOOLEAN : DropAll(arrives)
  BY DEF StopLoop, Kill
<1>3. got' = got /\ accepted' = accepted /\ working' # c
  BY <1>1, NobodyAssumption DEF StopLoop, Kill, historyVars
<1>4. up'[c] = <<>>
  BY <1>2 DEF DropAll, Everywhere
<1>5. down'[c] \in {down[c], Append(down[c], Close), Append(<<>>, Close)}
  BY <1>2 DEF DropAll
<1>6. Append(down[c], Close) \in Seq(A) /\ Append(<<>>, Close) \in Seq(A)
  <2>1. <<>> \in Seq(A)
    BY EmptySeq
  <2> HIDE DEF Busy, Close
  <2> QED
    BY <1>1, <2>1, ChannelAppend
<1>7. up'[c] \in Seq(F) /\ down'[c] \in Seq(A)
  BY <1>1, <1>4, <1>5, <1>6, EmptySeq
<1> QED
  BY <1>1, <1>3, <1>7 DEF StrangerOK, Busy

\* They send their one frame, read refusals and close.
LEMMA StrangerClient ==
  ASSUME TypeAndChannels, NEW c \in Peers, Strange(c), StrangerOK(c),
         ClientConnects(c) \/ Client(c), program' = program
  PROVE  StrangerOK(c)'
<1> DEFINE F == {FrameOf(program[c]), Close}
           A == {Busy, Close}
<1> USE DEF TypeAndChannels
<1>1. /\ up[c] \in Seq(F) /\ down[c] \in Seq(A) /\ accepted[c] = <<>>
      /\ got[c] \in Seq({Busy}) /\ working # c
  BY DEF StrangerOK, Busy
<1>2. CASE ClientConnects(c) \/ ClientLoses(c)
  BY <1>1, <1>2 DEF ClientConnects, PeerConnect, ClientLoses, PeerFindsClosed,
                    ConnectFails, StrangerOK, serverVars, historyVars
<1>3. CASE ClientWriteable(c)
  <2>1. PeerSend(c, FrameOf(program[c]))
    BY <1>3 DEF ClientWriteable
  <2>2. Append(up[c], FrameOf(program[c])) \in Seq(F)
    <3>1. FrameOf(program[c]) \in F
      OBVIOUS
    <3> HIDE DEF F
    <3> QED
      BY <1>1, <3>1, ChannelAppend
  <2>3. up'[c] \in Seq(F)
    BY <1>1, <2>1, <2>2 DEF PeerSend, TypeOK
  <2>4. UNCHANGED <<down, got, accepted, working>>
    BY <2>1 DEF PeerSend, serverVars
  <2> QED
    BY <1>1, <2>3, <2>4 DEF StrangerOK, Busy
<1>4. CASE ClientReceive(c)
  <2>1. PeerReceive(c)
    BY <1>4 DEF ClientReceive
  <2>2. Head(down[c]) \in A /\ Tail(down[c]) \in Seq(A)
    <3>1. down[c] # <<>>
      BY <2>1 DEF PeerReceive
    <3> HIDE DEF A
    <3> QED
      BY <1>1, <3>1, ChannelTail
  <2>3. Head(down[c]) = Busy
    BY <2>1, <2>2 DEF PeerReceive
  <2>4. Append(got[c], Busy) \in Seq({Busy})
    <3> HIDE DEF Busy
    <3> QED
      BY <1>1, ChannelAppend
  <2>5. got'[c] \in Seq({Busy}) /\ down'[c] \in Seq(A)
    BY <2>1, <2>2, <2>3, <2>4 DEF PeerReceive, TypeOK
  <2>6. UNCHANGED <<up, accepted, working>>
    BY <2>1 DEF PeerReceive, serverVars
  <2> QED
    BY <1>1, <2>5, <2>6 DEF StrangerOK, Busy
<1>5. CASE ClientExits(c)
  <2>1. PICK n \in 0..Len(up[c]) :
          up' = IF link[c] # "open" THEN up
                ELSE [up EXCEPT ![c] = Append(SubSeq(@, 1, n), Close)]
    BY <1>5 DEF ClientExits, PeerClose
  <2>2. SubSeq(up[c], 1, n) \in Seq(F)
    <3> HIDE DEF F
    <3> QED
      BY <1>1, ChannelPrefix
  <2>3. Append(SubSeq(up[c], 1, n), Close) \in Seq(F)
    <3>1. Close \in F
      OBVIOUS
    <3> DEFINE r == SubSeq(up[c], 1, n)
    <3>2. r \in Seq(F)
      BY <2>2
    <3> HIDE DEF F, Close, r
    <3>3. Append(r, Close) \in Seq(F)
      BY <3>1, <3>2, ChannelAppend
    <3> QED
      BY <3>3 DEF r
  <2>4. up'[c] \in Seq(F)
    BY <1>1, <2>1, <2>3 DEF TypeOK
  <2>5. UNCHANGED <<down, got, accepted, working>>
    BY <1>5 DEF ClientExits, PeerClose, serverVars, historyVars
  <2> QED
    BY <1>1, <2>4, <2>5 DEF StrangerOK, Busy
<1> QED
  BY <1>2, <1>3, <1>4, <1>5 DEF Client

-----------------------------------------------------------------------------
(* Coding clients                                                          *)

\* The server was not started again and has not stopped.
FirstLife == loop # "stopped" /\ starts = 0

\* What does not concern a coding client changes nothing for it.
LEMMA CodingQuiet ==
  ASSUME NEW c \in Peers, CodingOK(c), Quiet(c),
         (c \in done') = (c \in done), (c \in interrupted') = (c \in interrupted),
         FirstLife' => FirstLife
  PROVE  CodingOK(c)'
<1>1. FrameOwed(c) => FrameOwed(c)'
  BY DEF FrameOwed, Quiet
<1> QED
  BY <1>1 DEF CodingOK, Quiet, FirstLife

\* Once its first life has ended, the server owes a client nothing.
LEMMA CodingLate ==
  ASSUME NEW c \in Peers, CodingOK(c), got' = got, peer' = peer, done' = done, ~FirstLife'
  PROVE  CodingOK(c)'
BY DEF CodingOK, FirstLife

\* The callback refuses the one frame of a coding client, or starts its command.
LEMMA CodingHandle ==
  ASSUME TypeAndChannels, NEW c \in Peers, CodingOK(c), HandlePeer(c),
         done' = done, interrupted' = interrupted
  PROVE  CodingOK(c)'
<1> USE DEF TypeAndChannels
<1>1. got' = got /\ asked' = asked /\ loop' = loop /\ starts' = starts
  BY DEF HandlePeer, Establish, PeerInitiatedClose, RejectBusy, CloseOnMagic,
     TakePrompt, StartCoding, CloseOnType, Receive, historyVars, serverVars
<1>2. peer[c] # "closed" => peer'[c] # "closed"
  BY DEF HandlePeer, Establish, PeerInitiatedClose, RejectBusy, CloseOnMagic,
     TakePrompt, StartCoding, CloseOnType, Receive, TypeOK
<1>3. SUFFICES ASSUME c \notin done, loop # "stopped", starts = 0
               PROVE  link'[c] # "closed" /\ FrameOwed(c)'
  BY <1>1, <1>2 DEF CodingOK
<1>4. link[c] # "closed" /\ FrameOwed(c)
  BY <1>3 DEF CodingOK
<1> DEFINE F == FrameOf("coding")
<1>5. F # Close /\ F.magic /\ F.type = "CD" /\ F.request = 7
  BY DEF FrameOf, Close
<1> HIDE DEF F
<1>6. /\ Head(<<F>>) = F /\ Tail(<<F>>) = <<>> /\ <<F>> # <<>>
      /\ \A a : Append(<<>>, a) = <<a>>
  OBVIOUS
<1>7. CASE Establish(c)
  <2>1. link'[c] = "open" /\ UNCHANGED <<up, down, working, request>>
    BY <1>7 DEF Establish, serverVars, TypeOK
  <2> QED
    BY <1>1, <1>4, <2>1 DEF FrameOwed
<1>8. CASE ~Establish(c)
  <2>1. up[c] # <<>>
    BY <1>8 DEF HandlePeer, PeerInitiatedClose, RejectBusy, CloseOnMagic,
       TakePrompt, StartCoding, CloseOnType, Receive
  <2>2. asked[c] # 0 /\ up[c] = <<F>> /\ down[c] = <<>> /\ working # c
    BY <1>4, <2>1 DEF FrameOwed, F
  <2>3. Head(up[c]) = F /\ Tail(up[c]) = <<>>
    BY <1>6, <2>2
  <2>4. RejectBusy(c, F) \/ StartCoding(c, F)
    BY <1>5, <1>8, <2>3 DEF HandlePeer, PeerInitiatedClose, RejectBusy, CloseOnMagic,
       TakePrompt, StartCoding, CloseOnType, Receive
  <2>5. up'[c] = <<>> /\ link' = link
    BY <2>3, <2>4 DEF RejectBusy, StartCoding, Consume, TypeOK
  <2>6. CASE RejectBusy(c, F)
    <3>1. down'[c] = Append(down[c], Busy) /\ working' = working
      BY <2>6 DEF RejectBusy, Respond, Busy, TypeOK
    <3>2. down'[c] = <<Busy>> /\ Busy \in ClientAnswers
      BY <1>6, <2>2, <3>1 DEF ClientAnswers, Busy
    <3> QED
      BY <1>1, <1>4, <2>2, <2>5, <3>1, <3>2 DEF FrameOwed
  <2>7. CASE StartCoding(c, F)
    <3>1. down'[c] = <<>> /\ working' = c /\ request' = 7
      BY <1>5, <2>2, <2>7 DEF StartCoding
    <3> QED
      BY <1>1, <1>4, <2>2, <2>5, <3>1 DEF FrameOwed
  <2> QED
    BY <2>4, <2>6, <2>7
<1> QED
  BY <1>7, <1>8

\* The end of its command answers a coding client.
LEMMA CodingFinish ==
  ASSUME TypeAndChannels, NEW c \in Peers, CodingOK(c), FinishCoding, working = c,
         done' = done, interrupted' = interrupted
  PROVE  CodingOK(c)'
<1> USE DEF TypeAndChannels
<1>1. UNCHANGED <<loop, link, peer, up, starts, asked, got, accepted>>
  BY DEF FinishCoding
<1>2. SUFFICES ASSUME c \notin done, loop # "stopped", starts = 0
               PROVE  FrameOwed(c)'
  BY <1>1 DEF CodingOK
<1>3. /\ asked[c] # 0 /\ up[c] = <<>> /\ down[c] = <<>> /\ request = 7
  BY <1>2 DEF CodingOK, FrameOwed
<1> DEFINE e == [status |-> "SC", request |-> 7]
<1>4. down'[c] = Append(<<>>, e) /\ working' # c
  BY <1>3, NobodyAssumption DEF FinishCoding, Respond, TypeOK
<1>5. e \in ClientAnswers
  BY DEF ClientAnswers
<1> HIDE DEF e
<1>6. down'[c] = <<e>>
  BY <1>4
<1> QED
  BY <1>1, <1>3, <1>4, <1>5, <1>6 DEF FrameOwed

\* A coding client sends its one frame, and ends with the answer it reads.
LEMMA CodingClient ==
  ASSUME TypeAndChannels, NEW c \in Peers, program[c] = "coding", CodingOK(c),
         ClientConnects(c) \/ ClientSignal(c) \/ Client(c)
  PROVE  CodingOK(c)'
<1> USE DEF TypeAndChannels
<1>1. loop' = loop /\ starts' = starts /\ working' = working /\ request' = request
      /\ link' = link
  BY DEF ClientConnects, PeerConnect, ClientSignal, vars, wireVars, Client,
         ClientWriteable, ClientReceive, ClientLoses, ClientExits, PeerSend,
         PeerReceive, PeerFindsClosed, ConnectFails, PeerClose, serverVars
<1>2. CASE ClientConnects(c)
  <2>1. /\ UNCHANGED <<up, down, asked, got, done, interrupted>>
        /\ peer'[c] = "connecting"
    BY <1>2 DEF ClientConnects, PeerConnect, historyVars, clientVars, TypeOK
  <2>2. FrameOwed(c) => FrameOwed(c)'
    BY <1>1, <2>1 DEF FrameOwed
  <2> QED
    BY <1>1, <2>1, <2>2 DEF CodingOK
<1>3. CASE ClientSignal(c)
  BY <1>3 DEF ClientSignal, CodingOK
<1>4. CASE ClientWriteable(c)
  <2> DEFINE F == FrameOf("coding")
  <2>1. /\ PeerSend(c, F) /\ c \notin done /\ asked[c] = 0
        /\ UNCHANGED <<done, interrupted>>
    BY <1>4 DEF ClientWriteable, clientVars
  <2> HIDE DEF F
  <2>2. UNCHANGED <<peer, down, got>> /\ peer[c] = "open"
    BY <2>1 DEF PeerSend
  <2>3. SUFFICES ASSUME loop # "stopped", starts = 0 PROVE FrameOwed(c)'
    BY <1>1, <2>1, <2>2 DEF CodingOK
  <2>4. up[c] = <<>> /\ down[c] = <<>> /\ working # c /\ link[c] # "closed"
    BY <2>1, <2>3 DEF CodingOK, FrameOwed
  <2>5. link[c] = "open"
    BY <2>2, <2>4 DEF TypeOK, ChannelInv, ChannelOK
  <2>6. up'[c] = Append(<<>>, F)
    BY <2>1, <2>4, <2>5 DEF PeerSend, TypeOK
  <2>7. asked'[c] # 0
    BY <2>1, MaxAssumption DEF PeerSend, TypeOK
  <2>8. up'[c] = <<F>>
    BY <2>6
  <2> QED
    BY <1>1, <2>2, <2>4, <2>7, <2>8 DEF FrameOwed, F
<1>5. CASE ClientReceive(c)
  <2>1. PeerReceive(c) /\ c \notin done /\ done' = done \cup {c}
    BY <1>5 DEF ClientReceive
  <2>2. SUFFICES ASSUME loop # "stopped", starts = 0
                 PROVE  \E a \in ClientAnswers : got'[c] = <<a>>
    BY <1>1, <2>1 DEF CodingOK
  <2>3. down[c] # <<>> /\ got[c] = <<>> /\ FrameOwed(c)
    BY <2>1, <2>2 DEF PeerReceive, CodingOK
  <2>4. PICK a \in ClientAnswers : down[c] = <<a>>
    BY <2>3 DEF FrameOwed
  <2>5. got'[c] = Append(<<>>, Head(<<a>>))
    BY <2>1, <2>3, <2>4 DEF PeerReceive, TypeOK
  <2> HIDE DEF ClientAnswers
  <2>6. got'[c] = <<a>>
    BY <2>5
  <2> QED
    BY <2>4, <2>6
<1>6. CASE ClientLoses(c)
  <2>1. /\ PeerFindsClosed(c) \/ ConnectFails(c)
        /\ c \notin done /\ done' = done \cup {c}
    BY <1>6 DEF ClientLoses
  <2>2. SUFFICES ASSUME loop # "stopped", starts = 0 PROVE FALSE
    BY <1>1, <2>1 DEF CodingOK
  <2>3. FrameOwed(c) /\ down[c] # <<>> /\ Head(down[c]) = Close
    BY <2>1, <2>2 DEF CodingOK, PeerFindsClosed, ConnectFails
  <2>4. PICK a \in ClientAnswers : down[c] = <<a>>
    BY <2>3 DEF FrameOwed
  <2>5. a = Close
    BY <2>3, <2>4
  <2> QED
    BY <2>5 DEF ClientAnswers, Close
<1>7. CASE ClientExits(c)
  <2>1. c \in done /\ UNCHANGED <<got, done, interrupted>>
    BY <1>7 DEF ClientExits, PeerClose, historyVars, clientVars
  <2> QED
    BY <1>1, <2>1 DEF CodingOK
<1> QED
  BY <1>2, <1>3, <1>4, <1>5, <1>6, <1>7 DEF Client

-----------------------------------------------------------------------------
(* The invariant                                                           *)

ClientOK(c) == IF program[c] = "coding" THEN CodingOK(c) ELSE StrangerOK(c)

\* Nothing is sent, owed or read at the start.
LEMMA ClientsInitially == ClientsInit => ClientsInv
<1> SUFFICES ASSUME ClientsInit, NEW c \in Clients PROVE ClientOK(c)
  BY DEF ClientsInit, ClientsInv, ClientOK
<1>1. /\ c \in Peers /\ link[c] = "none" /\ peer[c] = "new" /\ up[c] = <<>>
      /\ down[c] = <<>> /\ asked[c] = 0 /\ got[c] = <<>> /\ accepted[c] = <<>>
      /\ working # c /\ c \notin done
  BY NobodyAssumption DEF ClientsInit, Init, Everywhere, Clients
<1>2. CodingOK(c)
  BY <1>1 DEF CodingOK, FrameOwed
<1>3. StrangerOK(c)
  BY <1>1, EmptySeq DEF StrangerOK
<1> QED
  BY <1>2, <1>3 DEF ClientOK

\* What the server and its host do.
LEMMA ClientServer ==
  ASSUME TypeAndChannels, NEW c \in Clients, ClientOK(c), Server \/ Host,
         UNCHANGED clientVars
  PROVE  ClientOK(c)'
<1>0. c \in Peers /\ UNCHANGED <<program, done, interrupted>>
  BY DEF Clients, clientVars
<1>1. CASE \E d \in Peers : HandlePeer(d)
  <2>1. PICK d \in Peers : HandlePeer(d)
    BY <1>1
  <2>2. CASE d = c
    BY <1>0, <2>1, <2>2, CodingHandle, StrangerHandle DEF ClientOK, Strange
  <2>3. CASE d # c
    <3>1. Quiet(c) /\ loop' = loop /\ starts' = starts
      BY <1>0, <2>1, <2>3, OthersQuiet
    <3> QED
      BY <1>0, <3>1, CodingQuiet, StrangerQuiet DEF ClientOK, FirstLife
  <2> QED
    BY <2>2, <2>3
<1>2. CASE FinishCoding
  <2>1. CASE working = c
    <3>1. program[c] = "coding"
      BY <2>1 DEF ClientOK, StrangerOK
    <3> QED
      BY <1>0, <1>2, <2>1, <3>1, CodingFinish DEF ClientOK
  <2>2. CASE working # c
    <3>1. Quiet(c) /\ loop' = loop /\ starts' = starts
      BY <1>0, <1>2, <2>2, FinishQuiet
    <3> QED
      BY <1>0, <3>1, CodingQuiet, StrangerQuiet DEF ClientOK, FirstLife
  <2> QED
    BY <2>1, <2>2
<1>3. CASE StopLoop \/ Kill
  <2>1. got' = got /\ peer' = peer /\ ~FirstLife'
    BY <1>3 DEF StopLoop, Kill, DropAll, historyVars, FirstLife
  <2> QED
    BY <1>0, <1>3, <2>1, CodingLate, StrangerDrop DEF ClientOK
<1>4. CASE Interrupt
  <2>1. Quiet(c) /\ (FirstLife' => FirstLife)
    BY <1>4 DEF Interrupt, wireVars, historyVars, Quiet, FirstLife
  <2> QED
    BY <1>0, <2>1, CodingQuiet, StrangerQuiet DEF ClientOK
<1>5. CASE Restart
  <2>1. Quiet(c) /\ got' = got /\ peer' = peer
    BY <1>5 DEF Restart, wireVars, historyVars, Quiet
  <2>2. ~FirstLife'
    BY <1>5, MaxAssumption DEF Restart, FirstLife, TypeAndChannels, TypeOK
  <2> QED
    BY <1>0, <2>1, <2>2, CodingLate, StrangerQuiet DEF ClientOK
<1> QED
  BY <1>1, <1>2, <1>3, <1>4, <1>5 DEF Server, Host

\* What the clients and the other programs do.
LEMMA ClientPeer ==
  ASSUME TypeAndChannels, program \in Casts, NEW c \in Clients, ClientOK(c),
         NEW d \in Peers, program' = program,
         \/ d \in Clients /\ (ClientConnects(d) \/ ClientSignal(d) \/ Client(d))
         \/ d \in Others /\ Peer(d) /\ UNCHANGED clientVars
  PROVE  ClientOK(c)'
<1>0. c \in Peers
  BY DEF Clients
<1>1. CASE d = c
  <2>1. c \notin Others
    BY DEF Others, Clients, Programs
  <2>2. ClientConnects(c) \/ ClientSignal(c) \/ Client(c)
    BY <1>1, <2>1
  <2>3. CASE program[c] = "coding"
    BY <1>0, <2>2, <2>3, CodingClient DEF ClientOK
  <2>4. CASE program[c] # "coding"
    <3>1. CASE ClientSignal(c)
      BY <1>0, <2>4, <3>1, StrangerQuiet
      DEF ClientSignal, ClientOK, Quiet, vars, serverVars, wireVars, historyVars
    <3> QED
      BY <1>0, <2>2, <2>4, <3>1, StrangerClient DEF ClientOK, Strange
  <2> QED
    BY <2>3, <2>4
<1>2. CASE d # c
  <2>1. Peer(d) \/ UNCHANGED vars
    <3>1. d \in Clients => FrameOf(program[d]) \in Frames
      BY CastsAssumption DEF Clients
    <3> QED
      BY <3>1 DEF ClientConnects, ClientSignal, Client, ClientWriteable,
         ClientReceive, ClientLoses, ClientExits, Peer, PeerReads
  <2>2. Quiet(c) /\ loop' = loop /\ starts' = starts
    <3>1. CASE Peer(d)
      BY <1>0, <1>2, <3>1, OthersQuiet
    <3>2. CASE UNCHANGED vars
      BY <3>2 DEF vars, serverVars, wireVars, historyVars, Quiet
    <3> QED
      BY <2>1, <3>1, <3>2
  <2>3. /\ (c \in done') = (c \in done)
        /\ (c \in interrupted') = (c \in interrupted)
    BY <1>2 DEF ClientConnects, ClientSignal, Client, ClientWriteable,
       ClientReceive, ClientLoses, ClientExits, clientVars
  <2> QED
    BY <1>0, <2>2, <2>3, CodingQuiet, StrangerQuiet DEF ClientOK, FirstLife
<1> QED
  BY <1>1, <1>2

\* Only a client's loop comes to its end.
LEMMA DoneClients ==
  done \subseteq Clients /\ [ClientsNext]_allVars => done' \subseteq Clients
BY DEF ClientsNext, allVars, clientVars, ClientConnects, ClientSignal, Client,
       ClientWriteable, ClientReceive, ClientLoses, ClientExits

\* Every step keeps what is known of every client.
LEMMA ClientsKeep ==
  TypeAndChannels /\ ClientsInv /\ [ClientsNext]_allVars => ClientsInv'
<1> SUFFICES ASSUME TypeAndChannels, ClientsInv, [ClientsNext]_allVars
             PROVE  ClientsInv'
  OBVIOUS
<1>1. program' = program /\ program \in Casts
  BY ProgramStays DEF ClientsInv
<1>2. Clients' = Clients
  BY <1>1 DEF Clients
<1>3. ASSUME NEW c \in Clients PROVE ClientOK(c)'
  <2>1. ClientOK(c) /\ c \in Peers
    BY DEF ClientsInv, ClientOK, Clients
  <2>2. CASE (Server \/ Host) /\ UNCHANGED clientVars
    BY <2>1, <2>2, ClientServer
  <2>3. ASSUME NEW d \in Clients, ClientConnects(d) \/ ClientSignal(d) \/ Client(d)
        PROVE  ClientOK(c)'
    BY <1>1, <2>1, <2>3, ClientPeer DEF Clients
  <2>4. ASSUME NEW d \in Others, Peer(d), UNCHANGED clientVars
        PROVE  ClientOK(c)'
    BY <1>1, <2>1, <2>4, ClientPeer DEF Others
  <2>5. CASE UNCHANGED allVars
    <3>1. Quiet(c) /\ loop' = loop /\ starts' = starts
      BY <2>5 DEF allVars, vars, serverVars, wireVars, historyVars, Quiet
    <3>2. UNCHANGED <<done, interrupted>>
      BY <2>5 DEF allVars, clientVars
    <3> QED
      BY <1>1, <2>1, <3>1, <3>2, CodingQuiet, StrangerQuiet DEF ClientOK, FirstLife
  <2> QED
    BY <2>2, <2>3, <2>4, <2>5 DEF ClientsNext
<1>4. done' \subseteq Clients
  BY DoneClients DEF ClientsInv
<1> QED
  BY <1>1, <1>2, <1>3, <1>4 DEF ClientsInv, ClientOK

\* The invariant holds in every reachable state of the server and its clients.
THEOREM ClientsInvariant == ClientsSpec => [](TypeAndChannels /\ ClientsInv)
<1>1. ClientsInit => TypeAndChannels /\ ClientsInv
  BY TypeInit, ClientsInitially DEF ClientsInit
<1>2. TypeAndChannels /\ ClientsInv /\ [ClientsNext]_allVars
        => (TypeAndChannels /\ ClientsInv)'
  <2>1. ClientsInv => program \in Casts
    BY DEF ClientsInv
  <2> QED
    BY <2>1, ClientsStep, TypeStep, ClientsKeep
<1> QED
  BY <1>1, <1>2, PTL DEF ClientsSpec

-----------------------------------------------------------------------------
(* What follows                                                            *)

\* In the callback of src/iw-server.c nothing but the magic number and the type
\* of a coding request starts a command, and its reply goes where the request
\* came from: no other client of the repository has one run for it, or is told
\* that one was done.
THEOREM OnlyCodingTheorem == ClientsSpec => []OnlyCodingRuns
<1>1. ClientsInv => OnlyCodingRuns
  <2> SUFFICES ASSUME ClientsInv, NEW c \in Clients, program[c] # "coding"
               PROVE  /\ accepted[c] = <<>> /\ working # c
                      /\ \A i \in DOMAIN got[c] : got[c][i].status # "SC"
    BY DEF OnlyCodingRuns
  <2>1. StrangerOK(c)
    BY DEF ClientsInv
  <2>2. got[c] \in Seq({Busy}) /\ accepted[c] = <<>> /\ working # c
    BY <2>1 DEF StrangerOK, Busy
  <2>3. \A i \in DOMAIN got[c] : got[c][i] = Busy
    <3> HIDE DEF Busy
    <3> QED
      BY <2>2, ElementOfSeq, LenProperties
  <2> QED
    BY <2>2, <2>3 DEF Busy
<1> QED
  BY <1>1, ClientsInvariant, PTL

\* A coding client (test/iw-test-coding.c) that ends by itself while the server
\* is in its first life was told that its command succeeded, or that the server
\* is busy.
THEOREM CodingClientsTheorem == ClientsSpec => []CodingClientsTold
<1>1. TypeAndChannels /\ ClientsInv => CodingClientsTold
  <2> SUFFICES ASSUME ClientsInv, NEW c \in done \ interrupted,
                      program[c] = "coding", loop # "stopped", starts = 0,
                      link[c] # "none"
               PROVE  \E a \in ClientAnswers : got[c] = <<a>>
    BY DEF CodingClientsTold
  <2>1. c \in Clients
    BY DEF ClientsInv
  <2>2. CodingOK(c)
    BY <2>1 DEF ClientsInv
  <2> QED
    BY <2>2 DEF CodingOK
<1> QED
  BY <1>1, ClientsInvariant, PTL
=============================================================================
