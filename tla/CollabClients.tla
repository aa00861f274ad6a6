---------------------------- MODULE CollabClients ----------------------------
(***************************************************************************)
(* The server of CollabServer with the repository's own clients as its     *)
(* peers.  Each client is a libwebsockets callback and a loop that runs    *)
(* until g_done: it connects, sends one frame once the connection is       *)
(* writable, and stops at the first reply, at the close of the connection, *)
(* at a failed connection, or at SIGINT; then its context is destroyed.    *)
(*   "coding"  test/iw-test-coding.c                                       *)
(*   "ping"    test/iw-server-ping-test.c, and test/iw-server-prompt-test.c*)
(*             when its own assertions are compiled out                    *)
(*   "text"    src/iw-client.c                                             *)
(*   "other"   any other program, free as the peers of CollabServer are    *)
(*   "none"    nothing                                                     *)
(***************************************************************************)
EXTENDS CollabServer

CONSTANT Casts        \* which programs may run, one at each peer

Programs == {"coding", "ping", "text"}

\* The frame a client sends.  The ping client writes 1769947755 where the
\* server wants its magic number, and the text client writes "prompt=...".
FrameOf(program) ==
  CASE program = "coding" ->
         [binary |-> TRUE, magic |-> TRUE, type |-> "CD", request |-> 7]
    [] program = "ping" ->
         [binary |-> TRUE, magic |-> FALSE, type |-> "PT", request |-> 1]
    [] program = "text" ->
         [binary |-> FALSE, magic |-> FALSE, type |-> "other", request |-> 0]

ASSUME CastsAssumption ==
  \A cast \in Casts :
    /\ cast \in [Peers -> Programs \cup {"other", "none"}]
    /\ \A c \in Peers : cast[c] \in Programs => FrameOf(cast[c]) \in Frames

VARIABLES
  program,      \* program[c]: what runs at c
  done,         \* peers whose g_done is set
  interrupted   \* those that got SIGINT

clientVars == <<program, done, interrupted>>
allVars == <<vars, clientVars>>

Clients == {c \in Peers : program[c] \in Programs}
Others  == {c \in Peers : program[c] = "other"}

ClientsInit ==
  /\ Init
  /\ program \in Casts
  /\ done = {} /\ interrupted = {}

ClientConnects(c) == PeerConnect(c) /\ UNCHANGED clientVars

\* LWS_CALLBACK_CLIENT_WRITEABLE, asked for once, when the connection opens.
ClientWriteable(c) ==
  /\ c \notin done /\ asked[c] = 0
  /\ PeerSend(c, FrameOf(program[c]))
  /\ UNCHANGED clientVars

\* LWS_CALLBACK_CLIENT_RECEIVE: any reply stops the client.
ClientReceive(c) ==
  /\ c \notin done
  /\ PeerReceive(c)
  /\ done' = done \cup {c}
  /\ UNCHANGED <<program, interrupted>>

\* LWS_CALLBACK_CLIENT_CLOSED and LWS_CALLBACK_CLIENT_CONNECTION_ERROR
ClientLoses(c) ==
  /\ c \notin done
  /\ PeerFindsClosed(c) \/ ConnectFails(c)
  /\ done' = done \cup {c}
  /\ UNCHANGED <<program, interrupted>>

\* signal_cb
ClientSignal(c) ==
  /\ peer[c] # "new" /\ c \notin done
  /\ done' = done \cup {c}
  /\ interrupted' = interrupted \cup {c}
  /\ UNCHANGED <<vars, program>>

\* The loop ends: lws_context_destroy, and main returns.
ClientExits(c) ==
  /\ c \in done
  /\ PeerClose(c)
  /\ UNCHANGED clientVars

Client(c) ==
  /\ c \in Clients
  /\ ClientWriteable(c) \/ ClientReceive(c) \/ ClientLoses(c) \/ ClientExits(c)

ClientsNext ==
  \/ (Server \/ Host) /\ UNCHANGED clientVars
  \/ \E c \in Clients : ClientConnects(c) \/ ClientSignal(c) \/ Client(c)
  \/ \E c \in Others : Peer(c) /\ UNCHANGED clientVars

ClientsSpec == ClientsInit /\ [][ClientsNext]_allVars

\* As for the server and the other programs; and a client's loop runs.
ClientsFairSpec ==
  /\ ClientsSpec
  /\ \A c \in Peers :
       /\ WF_allVars(HandlePeer(c) /\ UNCHANGED clientVars)
       /\ WF_allVars(Client(c))
       /\ WF_allVars(c \in Others /\ PeerReads(c) /\ UNCHANGED clientVars)
  /\ WF_allVars(FinishCoding /\ UNCHANGED clientVars)
  /\ WF_allVars(StopLoop /\ UNCHANGED clientVars)

-----------------------------------------------------------------------------
(* What must hold                                                          *)

\* Every client the repository has comes to an end by itself: the server
\* answers it, closes its connection, or goes away, though a prompt is never
\* answered and another client's command may come first.
ClientsEnd ==
  \A c \in Peers : (c \in Clients /\ peer[c] # "new") ~> (c \in done /\ peer[c] # "open")

\* The two answers to a coding client: success of its request, or busy.
ClientAnswers ==
  {[status |-> "SC", request |-> 7], [status |-> "BS", request |-> 0]}

\* A coding client that ran to its end against a server that stayed up was
\* told something: success of its own request, or that the server is busy.
CodingClientsTold ==
  \A c \in done \ interrupted :
    program[c] = "coding" /\ loop # "stopped" /\ starts = 0 /\ link[c] # "none"
      => \E a \in ClientAnswers : got[c] = <<a>>

\* A command runs for a coding client only: none is started by what another
\* client sends, and none is reported as done to another client, whatever the
\* coding clients have sent, accepted or refused, by then.
OnlyCodingRuns ==
  \A c \in Clients : program[c] # "coding" =>
    /\ accepted[c] = <<>> /\ working # c
    /\ \A i \in DOMAIN got[c] : got[c][i].status # "SC"

\* The ping test and the prompt test fail without an answer that begins with
\* "ACK:" (test/iw-server-ping-test.c:137, test/iw-server-prompt-test.c:323).
\* So one that ran to its end against a server that stayed up was told
\* something else than that the server is busy.
PingsAcknowledged ==
  \A c \in done \ interrupted :
    program[c] = "ping" /\ loop # "stopped" /\ starts = 0 /\ link[c] # "none"
      => \E i \in DOMAIN got[c] : got[c][i].status # "BS"

-----------------------------------------------------------------------------
(* Why it holds: the inductive invariant of CollabClientsProofs            *)

\* A client that is not a coding client sends its one frame at most and reads
\* refusals at most, and nothing is run for it.
StrangerOK(c) ==
  /\ up[c] \in Seq({FrameOf(program[c]), Close})
  /\ down[c] \in Seq({[status |-> "BS", request |-> 0], Close})
  /\ got[c] \in Seq({[status |-> "BS", request |-> 0]})
  /\ accepted[c] = <<>> /\ working # c

\* While the first life of the server lasts, the one frame of a coding client is
\* still to be sent, waits, is worked at, or is answered.
FrameOwed(c) ==
  \/ asked[c] = 0 /\ up[c] = <<>> /\ down[c] = <<>> /\ working # c
  \/ /\ asked[c] # 0
     /\ \/ up[c] = <<FrameOf("coding")>> /\ down[c] = <<>> /\ working # c
        \/ up[c] = <<>> /\ down[c] = <<>> /\ working = c /\ request = 7
        \/ /\ up[c] = <<>> /\ working # c
           /\ \E a \in ClientAnswers : down[c] = <<a>>

CodingOK(c) ==
  /\ c \notin done => got[c] = <<>> /\ peer[c] # "closed"
  /\ loop # "stopped" /\ starts = 0 =>
       /\ c \notin done => link[c] # "closed" /\ FrameOwed(c)
       /\ c \in done \ interrupted => \E a \in ClientAnswers : got[c] = <<a>>

ClientsInv ==
  /\ program \in Casts /\ done \subseteq Clients
  /\ \A c \in Clients :
       IF program[c] = "coding" THEN CodingOK(c) ELSE StrangerOK(c)
=============================================================================
