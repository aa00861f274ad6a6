---------------------------- MODULE CollabService ----------------------------
(***************************************************************************)
(* What src/iw-server.c promises a peer, without connections, channels and *)
(* a loop: it serves one request at a time and one in all until it is      *)
(* started anew; its replies stay in the order it gave them, the success   *)
(* of a request goes to the peer it came from and bears its identifier,    *)
(* nobody is refused before a request was taken, and nobody gets more      *)
(* replies than it sent frames.                                            *)
(***************************************************************************)
EXTENDS Naturals, Sequences

CONSTANTS Peers, Nobody

VARIABLES
  asked,        \* asked[c]: frames c has sent
  answers,      \* answers[c]: replies given to c, in order
  delivered,    \* delivered[c]: those c has read
  serving,      \* the peer whose request is served, or Nobody
  request,      \* the identifier of that request, or 0
  spent         \* a request was taken since the server was started

serviceVars == <<asked, answers, delivered, serving, request, spent>>

\* c has a frame that nothing was made of yet.
Unanswered(c) == Len(answers[c]) < asked[c]

ServiceInit ==
  /\ asked = [c \in Peers |-> 0]
  /\ answers = [c \in Peers |-> <<>>] /\ delivered = [c \in Peers |-> <<>>]
  /\ serving = Nobody /\ request = 0 /\ spent = FALSE

Ask(c) ==
  /\ asked' = [asked EXCEPT ![c] = @ + 1]
  /\ UNCHANGED <<answers, delivered, serving, request, spent>>

Take(c) ==
  /\ serving = Nobody /\ ~spent /\ Unanswered(c)
  /\ serving' = c /\ request' \in Nat /\ spent' = TRUE
  /\ UNCHANGED <<asked, answers, delivered>>

Refuse(c) ==
  /\ serving = Nobody /\ spent /\ Unanswered(c)
  /\ answers' = [answers EXCEPT ![c] =
                   Append(@, [status |-> "BS", request |-> 0])]
  /\ UNCHANGED <<asked, delivered, serving, request, spent>>

Answer ==
  /\ serving # Nobody /\ Unanswered(serving)
  /\ answers' = [answers EXCEPT ![serving] =
                   Append(@, [status |-> "SC", request |-> request])]
  /\ serving' = Nobody /\ request' = 0
  /\ UNCHANGED <<asked, delivered, spent>>

Deliver(c) ==
  /\ Len(delivered[c]) < Len(answers[c])
  /\ delivered' = [delivered EXCEPT ![c] =
                     Append(@, answers[c][Len(delivered[c]) + 1])]
  /\ UNCHANGED <<asked, answers, serving, request, spent>>

\* The server goes away: what it was at is given up, and the latest replies
\* of a peer may be lost, but not one before another that arrives.
GoAway ==
  /\ serving' = Nobody /\ request' = 0
  /\ \A c \in Peers :
       \E n \in Len(delivered[c])..Len(answers[c]) :
         answers'[c] = SubSeq(answers[c], 1, n)
  /\ UNCHANGED <<asked, delivered, spent>>

StartAgain ==
  /\ serving = Nobody /\ spent' = FALSE
  /\ UNCHANGED <<asked, answers, delivered, serving, request>>

ServiceNext ==
  \/ \E c \in Peers : Ask(c) \/ Take(c) \/ Refuse(c) \/ Deliver(c)
  \/ Answer \/ GoAway \/ StartAgain

ServiceSpec == ServiceInit /\ [][ServiceNext]_serviceVars
==============================================================================
