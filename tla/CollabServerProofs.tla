------------------------- MODULE CollabServerProofs -------------------------
(***************************************************************************)
(* Proofs about CollabServer for every set of peers and frames and for     *)
(* every bound: types, the shape of the channels, that a frame gets at     *)
(* most one reply, that a life of the server runs at most one command,     *)
(* that the server implements CollabService, and that no reply goes        *)
(* astray.                                                                 *)
(***************************************************************************)
EXTENDS CollabServer, SequenceTheorems, FiniteSetTheorems, TLAPS

TypeAndChannels == TypeOK /\ ChannelInv

-----------------------------------------------------------------------------
(* Channels                                                                *)

\* What Append does to the length, the last element and the type.
LEMMA ChannelAppend ==
  ASSUME NEW S, NEW s \in Seq(S), NEW e \in S
  PROVE  /\ Append(s, e) \in Seq(S)
         /\ Len(Append(s, e)) = Len(s) + 1
         /\ Append(s, e)[Len(Append(s, e))] = e
         /\ Append(s, e) # <<>>
         /\ \A i \in 1..Len(s) : Append(s, e)[i] = s[i]
<1>1. /\ Append(s, e) \in Seq(S)
      /\ Len(Append(s, e)) = Len(s) + 1
      /\ Append(s, e)[Len(s) + 1] = e
      /\ \A i \in 1..Len(s) : Append(s, e)[i] = s[i]
  OBVIOUS
<1>2. Append(s, e) # <<>>
  BY <1>1, EmptySeq, LenProperties
<1> QED
  BY <1>1, <1>2

\* What Tail does to them, when the last element is not the head.
LEMMA ChannelTail ==
  ASSUME NEW S, NEW s \in Seq(S), s # <<>>
  PROVE  /\ Head(s) \in S /\ Head(s) = s[1]
         /\ Tail(s) \in Seq(S)
         /\ Len(s) \in Nat \ {0}
         /\ Len(Tail(s)) = Len(s) - 1
         /\ \A i \in 1..Len(Tail(s)) : Tail(s)[i] = s[i + 1]
         /\ s[Len(s)] # Head(s)
              => Tail(s) # <<>> /\ Tail(s)[Len(Tail(s))] = s[Len(s)]
<1>1. /\ Head(s) \in S /\ Head(s) = s[1]
      /\ Tail(s) \in Seq(S)
      /\ Len(s) \in Nat \ {0}
      /\ Len(Tail(s)) = Len(s) - 1
      /\ \A i \in 1..Len(Tail(s)) : Tail(s)[i] = s[i + 1]
  BY HeadTailProperties, EmptySeq
<1>2. ASSUME s[Len(s)] # Head(s)
      PROVE  Tail(s) # <<>> /\ Tail(s)[Len(Tail(s))] = s[Len(s)]
  <2>1. Len(s) # 1
    BY <1>1, <1>2
  <2>2. Len(Tail(s)) \in 1..Len(Tail(s)) /\ Len(Tail(s)) + 1 = Len(s)
    BY <1>1, <2>1
  <2>3. Tail(s)[Len(Tail(s))] = s[Len(s)]
    BY <1>1, <2>2
  <2>4. Tail(s) # <<>>
    <3>1. Len(Tail(s)) # 0 /\ Tail(s) \in Seq(S)
      BY <1>1, <2>1
    <3> QED
      BY <3>1, EmptySeq
  <2> QED
    BY <2>3, <2>4
<1> QED
  BY <1>1, <1>2

\* A prefix of a channel is a channel of the length asked for.
LEMMA ChannelPrefix ==
  ASSUME NEW S, NEW s \in Seq(S), NEW n \in 0..Len(s)
  PROVE  SubSeq(s, 1, n) \in Seq(S) /\ Len(SubSeq(s, 1, n)) = n
<1>1. \A i \in 1..n : s[i] \in S
  BY ElementOfSeq
<1> QED
  BY <1>1, SubSeqProperties

\* The close frame and the replies are items; a reply is never the close frame.
LEMMA CloseTyped ==
  /\ Close \in Items /\ Close \in Answers
  /\ \A id \in Nat : [status |-> "SC", request |-> id] \in Answers
  /\ \A id \in Nat : [status |-> "BS", request |-> id] \in Answers
  /\ \A id \in Nat : [status |-> "SC", request |-> id] # Close
  /\ \A id \in Nat : [status |-> "BS", request |-> id] # Close
  BY DEF Close, Items, Answers

\* A step keeps a channel in shape when it does not touch it.
LEMMA Untouched ==
  ASSUME ChannelInv, NEW c \in Peers,
         link'[c] = link[c], peer'[c] = peer[c],
         up'[c] = up[c], down'[c] = down[c],
         loop' # "stopped" \/ loop = "stopped",
         working' = c => working = c
  PROVE  ChannelOK(c)'
  BY DEF ChannelInv, ChannelOK

-----------------------------------------------------------------------------
(* Types and the shape of the channels                                     *)

\* No connection, no frame and no reply: every channel is in shape at the
\* start.
LEMMA TypeInit == Init => TypeAndChannels
<1> SUFFICES ASSUME Init PROVE TypeAndChannels
  OBVIOUS
<1>1. TypeOK
  <2>1. <<>> \in Seq(Items) /\ <<>> \in Seq(Answers) /\ <<>> \in Seq(Nat)
    BY EmptySeq
  <2>2. /\ up \in [Peers -> Seq(Items)] /\ down \in [Peers -> Seq(Answers)]
        /\ got \in [Peers -> Seq(Answers)] /\ accepted \in [Peers -> Seq(Nat)]
    BY <2>1 DEF Init, Everywhere
  <2>3. /\ link \in [Peers -> {"none", "open", "closed"}]
        /\ peer \in [Peers -> {"new", "connecting", "open", "closed"}]
        /\ asked \in [Peers -> 0..MaxFrames] /\ starts \in 0..MaxStarts
    BY MaxAssumption DEF Init, Everywhere
  <2> QED
    BY <2>2, <2>3 DEF Init, TypeOK
<1>2. ASSUME NEW c \in Peers PROVE ChannelOK(c)
  <2>1. /\ link[c] = "none" /\ peer[c] = "new" /\ up[c] = <<>> /\ down[c] = <<>>
        /\ working # c
    BY NobodyAssumption DEF Init, Everywhere
  <2> QED
    BY <2>1 DEF ChannelOK
<1> QED
  BY <1>1, <1>2 DEF TypeAndChannels, ChannelInv

\* What every branch of the callback may rely on when it has taken f off c.
LEMMA ReceiveFacts ==
  ASSUME TypeAndChannels, NEW c \in Peers, NEW f \in Frames, Receive(c, f)
  PROVE  /\ dumps' \in Nat /\ f.request \in Nat
         /\ working = Nobody /\ link[c] = "open" /\ loop # "stopped"
         /\ UNCHANGED <<loop, peer, starts>>
         /\ Tail(up[c]) \in Seq(Items) /\ Len(Tail(up[c])) = Len(up[c]) - 1
         /\ Len(up[c]) \in Nat \ {0}
         /\ peer[c] = "closed" =>
              Tail(up[c]) # <<>> /\ Tail(up[c])[Len(Tail(up[c]))] = Close
         /\ \A i \in 1..Len(down[c]) : down[c][i] # Close
<1>1. up[c] \in Seq(Items) /\ up[c] # <<>> /\ Head(up[c]) # Close
  BY DEF Receive, TypeAndChannels, TypeOK
<1>2. dumps' \in Nat
  BY DEF Receive, TypeAndChannels, TypeOK
<1>3. f.request \in Nat
  BY FramesAssumption DEF FrameType
<1>4. /\ working = Nobody /\ link[c] = "open" /\ loop # "stopped"
      /\ UNCHANGED <<loop, peer, starts>>
  BY DEF Receive, Free
<1>5. /\ peer[c] = "closed" => up[c][Len(up[c])] = Close
      /\ \A i \in 1..Len(down[c]) : down[c][i] # Close
  BY <1>4 DEF TypeAndChannels, ChannelInv, ChannelOK
<1> HIDE DEF Close
<1> QED
  BY <1>1, <1>2, <1>3, <1>4, <1>5, ChannelTail

\* A reply or a close frame written to c.
LEMMA WriteFacts ==
  ASSUME TypeOK, NEW c \in Peers, NEW e \in Answers,
         down' = [down EXCEPT ![c] = Append(@, e)]
  PROVE  /\ down' \in [Peers -> Seq(Answers)]
         /\ \A d \in Peers \ {c} : down'[d] = down[d]
         /\ Len(down[c]) \in Nat /\ Len(down'[c]) = Len(down[c]) + 1
         /\ e # Close /\ (\A i \in 1..Len(down[c]) : down[c][i] # Close)
              => \A i \in 1..Len(down'[c]) : down'[c][i] # Close
<1>1. down[c] \in Seq(Answers) /\ down'[c] = Append(down[c], e)
  BY DEF TypeOK
<1>2. /\ down'[c] \in Seq(Answers) /\ Len(down'[c]) = Len(down[c]) + 1
      /\ down'[c][Len(down[c]) + 1] = e
      /\ \A i \in 1..Len(down[c]) : down'[c][i] = down[c][i]
      /\ Len(down[c]) \in Nat
  BY <1>1, ChannelAppend, LenProperties
<1>3. down' \in [Peers -> Seq(Answers)]
  BY <1>2 DEF TypeOK
<1>4. \A d \in Peers \ {c} : down'[d] = down[d]
  BY DEF TypeOK
<1>5. ASSUME e # Close, \A i \in 1..Len(down[c]) : down[c][i] # Close,
             NEW i \in 1..Len(down'[c])
      PROVE  down'[c][i] # Close
  BY <1>2, <1>5
<1> QED
  BY <1>2, <1>3, <1>4, <1>5

\* The server hangs up on c.
LEMMA HangupFacts ==
  ASSUME TypeOK, NEW c \in Peers, Hangup(c)
  PROVE  /\ link' \in [Peers -> {"none", "open", "closed"}]
         /\ up' \in [Peers -> Seq(Items)] /\ down' \in [Peers -> Seq(Answers)]
         /\ \A d \in Peers \ {c} :
              link'[d] = link[d] /\ up'[d] = up[d] /\ down'[d] = down[d]
         /\ link'[c] = "closed" /\ up'[c] = <<>>
         /\ Len(down[c]) \in Nat /\ Len(down'[c]) = Len(down[c]) + 1
<1>1. /\ down' \in [Peers -> Seq(Answers)]
      /\ \A d \in Peers \ {c} : down'[d] = down[d]
      /\ Len(down[c]) \in Nat /\ Len(down'[c]) = Len(down[c]) + 1
  BY CloseTyped, WriteFacts DEF Hangup
<1>2. /\ link' \in [Peers -> {"none", "open", "closed"}]
      /\ up' \in [Peers -> Seq(Items)]
      /\ \A d \in Peers \ {c} : link'[d] = link[d] /\ up'[d] = up[d]
      /\ link'[c] = "closed" /\ up'[c] = <<>>
  BY EmptySeq DEF Hangup, TypeOK
<1> QED
  BY <1>1, <1>2

\* The channels keep their shape when at most one of them is touched.
LEMMA OneChannel ==
  ASSUME ChannelInv, NEW c \in Peers, ChannelOK(c)',
         \A d \in Peers \ {c} :
           /\ link'[d] = link[d] /\ peer'[d] = peer[d]
           /\ up'[d] = up[d] /\ down'[d] = down[d]
           /\ working' = d => working = d,
         loop' # "stopped" \/ loop = "stopped"
  PROVE  ChannelInv'
<1> SUFFICES ASSUME NEW d \in Peers, d # c PROVE ChannelOK(d)'
  BY DEF ChannelInv
<1> QED
  BY Untouched

\* LWS_CALLBACK_ESTABLISHED keeps the types and the channels.
LEMMA EstablishStep ==
  ASSUME TypeAndChannels, NEW c \in Peers, Establish(c)
  PROVE  TypeAndChannels'
<1>1. TypeOK'
  BY DEF TypeAndChannels, TypeOK, Establish, serverVars, historyVars
<1>2. ChannelOK(c)'
  <2>1. /\ link[c] = "none" /\ down[c] = <<>> /\ up[c] = <<>> /\ loop # "stopped"
        /\ ChannelOK(c)
    BY DEF Establish, Free, TypeAndChannels, ChannelInv, ChannelOK
  <2>2. /\ link'[c] = "open" /\ peer'[c] = "open" /\ down'[c] = <<>>
        /\ up'[c] = <<>> /\ loop' # "stopped"
    BY <2>1 DEF Establish, TypeAndChannels, TypeOK, serverVars
  <2>3. \A i \in 1..Len(down'[c]) : FALSE
    BY <2>2
  <2> QED
    BY <2>2, <2>3 DEF ChannelOK
<1>3. ChannelInv'
  <2>1. /\ loop' = loop /\ working' = working
        /\ \A d \in Peers \ {c} :
             /\ link'[d] = link[d] /\ peer'[d] = peer[d]
             /\ up'[d] = up[d] /\ down'[d] = down[d]
    BY DEF Establish, TypeAndChannels, TypeOK, serverVars
  <2> QED
    BY <1>2, <2>1, OneChannel DEF TypeAndChannels
<1> QED
  BY <1>1, <1>3 DEF TypeAndChannels

\* The callback takes a frame and keeps the connection.
LEMMA ConsumeStep ==
  ASSUME TypeAndChannels, NEW c \in Peers, NEW f \in Frames,
         Receive(c, f), Consume(c), link' = link, working' \in {Nobody, c},
         down' \in [Peers -> Seq(Answers)],
         \A d \in Peers \ {c} : down'[d] = down[d],
         \A i \in 1..Len(down'[c]) : down'[c][i] # Close
  PROVE  ChannelInv' /\ up' \in [Peers -> Seq(Items)]
<1>1. /\ link[c] = "open" /\ loop' = loop /\ loop # "stopped"
      /\ peer' = peer /\ Tail(up[c]) \in Seq(Items)
      /\ peer[c] = "closed" =>
           Tail(up[c]) # <<>> /\ Tail(up[c])[Len(Tail(up[c]))] = Close
  BY ReceiveFacts
<1>2. /\ up' \in [Peers -> Seq(Items)] /\ up'[c] = Tail(up[c])
      /\ \A d \in Peers \ {c} : up'[d] = up[d]
  BY <1>1 DEF Consume, TypeAndChannels, TypeOK
<1>3. peer[c] \notin {"new", "connecting"}
  BY <1>1 DEF TypeAndChannels, ChannelInv, ChannelOK
<1> HIDE DEF Close
<1>4. ChannelOK(c)'
  BY <1>1, <1>2, <1>3 DEF ChannelOK
<1>5. \A d \in Peers \ {c} : working' # d
  BY NobodyAssumption
<1> QED
  BY <1>1, <1>2, <1>4, <1>5, OneChannel DEF TypeAndChannels

\* The callback returns -1, or has heard the peer's close.
LEMMA HangupStep ==
  ASSUME TypeAndChannels, NEW c \in Peers, Hangup(c),
         link[c] = "open", peer' = peer, loop' = loop,
         working = Nobody, working' = working
  PROVE  ChannelInv'
<1>1. /\ \A d \in Peers \ {c} :
           link'[d] = link[d] /\ up'[d] = up[d] /\ down'[d] = down[d]
      /\ link'[c] = "closed" /\ up'[c] = <<>>
  BY HangupFacts DEF TypeAndChannels
<1>2. peer'[c] \notin {"new", "connecting"} /\ working' # c
  BY NobodyAssumption DEF TypeAndChannels, ChannelInv, ChannelOK
<1>3. ChannelOK(c)'
  BY <1>1, <1>2 DEF ChannelOK
<1> QED
  BY <1>1, <1>3, OneChannel DEF TypeAndChannels

\* A frame refused with BS keeps them: one reply more, one frame less.
LEMMA RejectBusyStep ==
  ASSUME TypeAndChannels, NEW c \in Peers, NEW f \in Frames, RejectBusy(c, f)
  PROVE  TypeAndChannels'
<1> DEFINE e == [status |-> "BS", request |-> 0]
<1>1. e \in Answers /\ e # Close
  BY CloseTyped
<1>2. down' = [down EXCEPT ![c] = Append(@, e)]
  BY DEF RejectBusy, Respond
<1> HIDE DEF e
<1>3. /\ down' \in [Peers -> Seq(Answers)]
      /\ \A d \in Peers \ {c} : down'[d] = down[d]
      /\ \A i \in 1..Len(down'[c]) : down'[c][i] # Close
  BY <1>1, <1>2, WriteFacts, ReceiveFacts DEF RejectBusy, TypeAndChannels
<1>4. ChannelInv' /\ up' \in [Peers -> Seq(Items)]
  BY <1>3, ConsumeStep, ReceiveFacts DEF RejectBusy
<1>5. dumps' \in Nat /\ UNCHANGED <<loop, peer, starts>>
  BY ReceiveFacts DEF RejectBusy
<1>6. held' \in Nat
  BY DEF RejectBusy, Respond, TypeAndChannels, TypeOK
<1>7. UNCHANGED <<busy, working, request, link, asked, got, accepted, commands,
                  failed>>
  BY DEF RejectBusy, historyVars
<1>8. TypeOK'
  BY <1>3, <1>4, <1>5, <1>6, <1>7 DEF TypeAndChannels, TypeOK
<1> QED
  BY <1>4, <1>8 DEF TypeAndChannels

\* A branch of the callback that returns -1 keeps them.
LEMMA CloseStep ==
  ASSUME TypeAndChannels, NEW c \in Peers, NEW f \in Frames,
         CloseOnMagic(c, f) \/ CloseOnType(c, f)
  PROVE  TypeAndChannels'
<1>1. /\ Receive(c, f) /\ Hangup(c)
      /\ UNCHANGED <<busy, working, request, held, historyVars>>
  BY DEF CloseOnMagic, CloseOnType
<1>2. ChannelInv'
  BY <1>1, HangupStep, ReceiveFacts
<1>3. TypeOK'
  BY <1>1, HangupFacts, ReceiveFacts DEF TypeAndChannels, TypeOK, historyVars
<1> QED
  BY <1>2, <1>3 DEF TypeAndChannels

\* A frame that asks for nothing keeps them: it is taken and not answered.
LEMMA TakePromptStep ==
  ASSUME TypeAndChannels, NEW c \in Peers, NEW f \in Frames, TakePrompt(c, f)
  PROVE  TypeAndChannels'
<1>1. /\ Receive(c, f) /\ Consume(c) /\ held' = held + 1
      /\ UNCHANGED <<busy, working, request, link, down, asked, got, accepted,
                     commands, failed>>
  BY DEF TakePrompt, historyVars
<1>2. /\ dumps' \in Nat /\ working = Nobody
      /\ UNCHANGED <<loop, peer, starts>>
      /\ \A i \in 1..Len(down[c]) : down[c][i] # Close
  BY <1>1, ReceiveFacts
<1>3. ChannelInv' /\ up' \in [Peers -> Seq(Items)]
  <2>1. down' \in [Peers -> Seq(Answers)]
    BY <1>1 DEF TypeAndChannels, TypeOK
  <2> QED
    BY <1>1, <1>2, <2>1, ConsumeStep
<1>4. TypeOK'
  BY <1>1, <1>2, <1>3 DEF TypeAndChannels, TypeOK
<1> QED
  BY <1>3, <1>4 DEF TypeAndChannels

\* The start of a command keeps them: it runs for an open connection.
LEMMA StartCodingStep ==
  ASSUME TypeAndChannels, NEW c \in Peers, NEW f \in Frames, StartCoding(c, f)
  PROVE  TypeAndChannels'
<1>1. ChannelInv' /\ up' \in [Peers -> Seq(Items)]
  <2>1. /\ Receive(c, f) /\ Consume(c) /\ working' = c
        /\ link' = link /\ down' = down
    BY DEF StartCoding
  <2>2. \A i \in 1..Len(down[c]) : down[c][i] # Close
    BY <2>1, ReceiveFacts
  <2>3. down' \in [Peers -> Seq(Answers)]
    BY <2>1 DEF TypeAndChannels, TypeOK
  <2> QED
    BY <2>1, <2>2, <2>3, ConsumeStep
<1>2. accepted' \in [Peers -> Seq(Nat)]
  <2>1. accepted[c] \in Seq(Nat)
    BY DEF TypeAndChannels, TypeOK
  <2>2. f.request \in Nat
    BY ReceiveFacts DEF StartCoding
  <2>3. Append(accepted[c], f.request) \in Seq(Nat)
    BY <2>1, <2>2, ChannelAppend
  <2> QED
    BY <2>3 DEF StartCoding, TypeAndChannels, TypeOK
<1>3. /\ loop' = loop /\ peer' = peer /\ starts' = starts
      /\ busy' \in BOOLEAN /\ working' \in Peers /\ request' \in Nat
      /\ dumps' \in Nat /\ held' \in Nat /\ commands' \in Nat
      /\ UNCHANGED <<link, down, asked, got, failed>>
  BY ReceiveFacts DEF StartCoding, TypeAndChannels, TypeOK
<1>4. TypeOK'
  BY <1>1, <1>2, <1>3 DEF TypeAndChannels, TypeOK
<1> QED
  BY <1>1, <1>4 DEF TypeAndChannels

\* The end of a command keeps them: the reply goes to the peer it ran for.
LEMMA FinishCodingStep ==
  ASSUME TypeAndChannels, FinishCoding
  PROVE  TypeAndChannels'
<1>1. PICK c \in Peers : c = working
  BY DEF FinishCoding, TypeAndChannels, TypeOK
<1> DEFINE e == [status |-> "SC", request |-> request]
<1>2. e \in Answers /\ e # Close
  BY CloseTyped DEF TypeAndChannels, TypeOK
<1>3. down' = [down EXCEPT ![c] = Append(@, e)]
  BY <1>1 DEF FinishCoding, Respond
<1> HIDE DEF e
<1>4. link[c] = "open" /\ ChannelOK(c)
  BY <1>1 DEF TypeAndChannels, ChannelInv, ChannelOK
<1>5. /\ down' \in [Peers -> Seq(Answers)]
      /\ \A d \in Peers \ {c} : down'[d] = down[d]
      /\ \A i \in 1..Len(down'[c]) : down'[c][i] # Close
  BY <1>2, <1>3, <1>4, WriteFacts DEF TypeAndChannels, ChannelOK
<1>6. \A d \in Peers : working' # d
  BY NobodyAssumption DEF FinishCoding
<1>7. UNCHANGED <<loop, busy, dumps, link, peer, up, starts,
                  asked, got, accepted, commands>>
  BY DEF FinishCoding
<1>8. ChannelOK(c)'
  BY <1>4, <1>5, <1>6, <1>7 DEF ChannelOK
<1>9. ChannelInv'
  BY <1>5, <1>6, <1>7, <1>8, OneChannel DEF TypeAndChannels
<1>10. working' \in Peers \cup {Nobody} /\ request' \in Nat /\ held' \in Nat
       /\ failed' \subseteq Nat
  <2>1. request \in Nat /\ held \in Nat /\ failed \subseteq Nat
    BY DEF TypeAndChannels, TypeOK
  <2>2. working' = Nobody /\ request' = 0 /\ held' = held + 1
    BY DEF FinishCoding, Respond
  <2>3. failed' = failed \/ failed' = failed \cup {request}
    BY DEF FinishCoding
  <2>4. failed' \subseteq Nat
    BY <2>1, <2>3
  <2>5. working' \in Peers \cup {Nobody} /\ request' \in Nat /\ held' \in Nat
    BY <2>1, <2>2
  <2> QED
    BY <2>4, <2>5
<1>11. TypeOK'
  BY <1>5, <1>7, <1>10 DEF TypeAndChannels, TypeOK
<1> QED
  BY <1>9, <1>11 DEF TypeAndChannels

\* The peer's close, handled, keeps them.
LEMMA PeerInitiatedCloseStep ==
  ASSUME TypeAndChannels, NEW c \in Peers, PeerInitiatedClose(c)
  PROVE  TypeAndChannels'
<1>1. Hangup(c) /\ UNCHANGED <<serverVars, peer, starts, historyVars>>
  BY DEF PeerInitiatedClose
<1>2. ChannelInv'
  BY <1>1, HangupStep DEF PeerInitiatedClose, Free, serverVars
<1>3. TypeOK'
  BY <1>1, HangupFacts
  DEF TypeAndChannels, TypeOK, serverVars, historyVars
<1> QED
  BY <1>2, <1>3 DEF TypeAndChannels

\* The server has ended, by itself or killed.
LEMMA DropStep ==
  ASSUME TypeAndChannels, StopLoop \/ Kill
  PROVE  TypeAndChannels'
<1>1. PICK arrives \in BOOLEAN : DropAll(arrives)
  BY DEF StopLoop, Kill
<1>2. /\ working' \in {Nobody} /\ request' \in Nat
      /\ UNCHANGED <<busy, dumps, held, peer, starts, historyVars>>
  <2>1. CASE StopLoop
    BY <2>1 DEF StopLoop, TypeAndChannels, TypeOK
  <2>2. CASE Kill
    BY <2>2 DEF Kill
  <2> QED
    BY <2>1, <2>2
<1>3. loop' = "stopped" /\ up' = [c \in Peers |-> <<>>]
  BY <1>1 DEF DropAll, Everywhere
<1>4. link' = [c \in Peers |-> IF link[c] = "open" THEN "closed" ELSE link[c]]
  BY <1>1 DEF DropAll
<1>5. /\ down' \in [Peers -> Seq(Answers)]
      /\ \A c \in Peers : link[c] # "open" => down'[c] = down[c]
  <2>1. \A c \in Peers : down[c] \in Seq(Answers)
    BY DEF TypeAndChannels, TypeOK
  <2>2. \A c \in Peers : Append(down[c], Close) \in Seq(Answers)
    BY <2>1, CloseTyped, ChannelAppend
  <2>3. <<>> \in Seq(Answers)
    BY EmptySeq
  <2>4. Append(<<>>, Close) \in Seq(Answers)
    BY <2>3, CloseTyped, ChannelAppend
  <2> HIDE DEF Close
  <2> QED
    BY <1>1, <2>1, <2>2, <2>4 DEF DropAll
<1>6. ASSUME NEW c \in Peers PROVE ChannelOK(c)'
  <2>1. /\ working' # c /\ link'[c] # "open" /\ up'[c] = <<>> /\ peer'[c] = peer[c]
        /\ link'[c] = "none" => link[c] = "none"
        /\ link[c] = "none" => link'[c] = "none"
    BY <1>2, <1>3, <1>4, NobodyAssumption
  <2>2. ChannelOK(c)
    BY DEF TypeAndChannels, ChannelInv
  <2>3. link'[c] = "none" => peer'[c] # "open" /\ down'[c] = <<>>
    BY <1>5, <2>1, <2>2 DEF ChannelOK
  <2>4. peer'[c] \in {"new", "connecting"} => link'[c] = "none"
    BY <2>1, <2>2 DEF ChannelOK
  <2> QED
    BY <2>1, <2>3, <2>4 DEF ChannelOK
<1>7. /\ link' \in [Peers -> {"none", "open", "closed"}]
      /\ up' \in [Peers -> Seq(Items)]
  <2>1. <<>> \in Seq(Items)
    BY EmptySeq
  <2>2. up' \in [Peers -> Seq(Items)]
    BY <1>3, <2>1
  <2>3. link' \in [Peers -> {"none", "open", "closed"}]
    BY <1>4 DEF TypeAndChannels, TypeOK
  <2> QED
    BY <2>2, <2>3
<1>8. TypeOK'
  BY <1>2, <1>3, <1>5, <1>7 DEF TypeAndChannels, TypeOK, historyVars
<1> QED
  BY <1>6, <1>8 DEF TypeAndChannels, ChannelInv

\* SIGINT keeps them: it touches the loop only.
LEMMA InterruptStep ==
  ASSUME TypeAndChannels, Interrupt
  PROVE  TypeAndChannels'
<1>1. TypeOK'
  BY DEF Interrupt, TypeAndChannels, TypeOK, wireVars, historyVars
<1>2. ASSUME NEW c \in Peers PROVE ChannelOK(c)'
  BY Untouched DEF Interrupt, TypeAndChannels, wireVars
<1> QED
  BY <1>1, <1>2 DEF TypeAndChannels, ChannelInv

\* A new process keeps them: it finds no connection of the old one.
LEMMA RestartStep ==
  ASSUME TypeAndChannels, Restart
  PROVE  TypeAndChannels'
<1>1. starts' \in 0..MaxStarts
  BY MaxAssumption DEF Restart, TypeAndChannels, TypeOK
<1>2. TypeOK'
  BY <1>1 DEF Restart, TypeAndChannels, TypeOK, wireVars, historyVars
<1>3. ASSUME NEW c \in Peers PROVE ChannelOK(c)'
  BY Untouched DEF Restart, TypeAndChannels, wireVars
<1> QED
  BY <1>2, <1>3 DEF TypeAndChannels, ChannelInv

\* What a peer does leaves the server alone.
LEMMA PeerStep ==
  ASSUME TypeAndChannels, NEW c \in Peers, Peer(c)
  PROVE  TypeAndChannels'
<1>1. ChannelOK(c) /\ up[c] \in Seq(Items) /\ down[c] \in Seq(Answers)
  BY DEF TypeAndChannels, ChannelInv, TypeOK
<1>2. CASE PeerConnect(c) \/ ConnectFails(c) \/ PeerFindsClosed(c)
  <2>1. UNCHANGED <<serverVars, link, up, down, starts, historyVars>>
    BY <1>2 DEF PeerConnect, ConnectFails, PeerFindsClosed
  <2>2. PICK s \in {"connecting", "closed"} :
          /\ peer' = [peer EXCEPT ![c] = s]
          /\ s = "connecting" => peer[c] = "new"
          /\ s = "closed" =>
               \/ peer[c] = "connecting"
               \/ peer[c] = "open" /\ down[c] # <<>> /\ Head(down[c]) = Close
    BY <1>2 DEF PeerConnect, ConnectFails, PeerFindsClosed
  <2>3. TypeOK'
    BY <2>1, <2>2 DEF TypeAndChannels, TypeOK, serverVars, historyVars
  <2>4. peer'[c] = s /\ \A d \in Peers \ {c} : peer'[d] = peer[d]
    BY <2>2 DEF TypeAndChannels, TypeOK
  <2>5. link[c] = "open" /\ down[c] # <<>> => Head(down[c]) # Close
    <3>1. SUFFICES ASSUME link[c] = "open", down[c] # <<>>
                   PROVE  Head(down[c]) # Close
      OBVIOUS
    <3>2. Head(down[c]) = down[c][1] /\ Len(down[c]) \in Nat \ {0}
      BY <1>1, <3>1, ChannelTail
    <3>3. 1 \in 1..Len(down[c])
      BY <3>2
    <3> HIDE DEF Close
    <3> QED
      BY <1>1, <3>1, <3>2, <3>3 DEF ChannelOK
  <2>6. link[c] = "open" => FALSE
    BY <1>1, <2>2, <2>5 DEF ChannelOK
  <2>7. ChannelOK(c)'
    BY <1>1, <2>1, <2>2, <2>4, <2>6 DEF ChannelOK, serverVars
  <2>8. ChannelInv'
    BY <2>1, <2>4, <2>7, OneChannel DEF TypeAndChannels, serverVars
  <2> QED
    BY <2>3, <2>8 DEF TypeAndChannels
<1>3. CASE \E f \in Frames : PeerSend(c, f)
  <2>1. PICK f \in Frames : PeerSend(c, f)
    BY <1>3
  <2>2. Append(up[c], f) \in Seq(Items)
    BY <1>1, ChannelAppend DEF Items
  <2>3. /\ up' \in [Peers -> Seq(Items)]
        /\ \A d \in Peers \ {c} : up'[d] = up[d]
        /\ link[c] # "open" => up'[c] = up[c]
    BY <2>1, <2>2 DEF PeerSend, TypeAndChannels, TypeOK
  <2>4. asked' \in [Peers -> 0..MaxFrames]
    BY <2>1, MaxAssumption DEF PeerSend, TypeAndChannels, TypeOK
  <2>5. /\ UNCHANGED <<serverVars, link, peer, down, starts, got, accepted,
                       commands, failed>>
        /\ peer[c] = "open"
    BY <2>1 DEF PeerSend
  <2>6. TypeOK'
    BY <2>3, <2>4, <2>5 DEF TypeAndChannels, TypeOK, serverVars
  <2>7. ChannelOK(c)'
    BY <1>1, <2>3, <2>5 DEF ChannelOK, serverVars
  <2>8. ChannelInv'
    BY <2>3, <2>5, <2>7, OneChannel DEF TypeAndChannels, serverVars
  <2> QED
    BY <2>6, <2>8 DEF TypeAndChannels
<1>4. CASE PeerReceive(c)
  <2>1. /\ Head(down[c]) \in Answers /\ Tail(down[c]) \in Seq(Answers)
        /\ Len(Tail(down[c])) = Len(down[c]) - 1 /\ Len(down[c]) \in Nat \ {0}
        /\ \A i \in 1..Len(Tail(down[c])) : Tail(down[c])[i] = down[c][i + 1]
    BY <1>1, <1>4, ChannelTail DEF PeerReceive
  <2>2. got[c] \in Seq(Answers)
    BY DEF TypeAndChannels, TypeOK
  <2>3. Append(got[c], Head(down[c])) \in Seq(Answers)
    BY <2>1, <2>2, ChannelAppend
  <2>4. got' \in [Peers -> Seq(Answers)]
    BY <1>4, <2>3 DEF PeerReceive, TypeAndChannels, TypeOK
  <2>5. /\ down' \in [Peers -> Seq(Answers)] /\ down'[c] = Tail(down[c])
        /\ \A d \in Peers \ {c} : down'[d] = down[d]
    BY <1>4, <2>1 DEF PeerReceive, TypeAndChannels, TypeOK
  <2>6. /\ UNCHANGED <<serverVars, link, peer, up, starts, asked, accepted,
                       commands, failed>>
        /\ peer[c] = "open"
    BY <1>4 DEF PeerReceive
  <2>7. TypeOK'
    BY <2>4, <2>5, <2>6 DEF TypeAndChannels, TypeOK, serverVars
  <2>8. link[c] = "open" => \A i \in 1..Len(down'[c]) : down'[c][i] # Close
    <3> SUFFICES ASSUME link[c] = "open", NEW i \in 1..Len(Tail(down[c]))
                 PROVE  Tail(down[c])[i] # Close
      BY <2>5
    <3>1. i + 1 \in 1..Len(down[c])
      BY <2>1
    <3> HIDE DEF Close
    <3> QED
      BY <1>1, <2>1, <3>1 DEF ChannelOK
  <2>9. ChannelOK(c)'
    <3> HIDE DEF Close
    <3> QED
      BY <1>1, <2>6, <2>8 DEF ChannelOK, serverVars
  <2>10. ChannelInv'
    BY <2>5, <2>6, <2>9, OneChannel DEF TypeAndChannels, serverVars
  <2> QED
    BY <2>7, <2>10 DEF TypeAndChannels
<1>5. CASE PeerClose(c)
  <2>1. /\ UNCHANGED <<serverVars, link, down, starts, historyVars>>
        /\ peer' = [peer EXCEPT ![c] = "closed"] /\ peer[c] = "open"
    BY <1>5 DEF PeerClose
  <2>2. PICK n \in 0..Len(up[c]) :
          up' = IF link[c] # "open" THEN up
                ELSE [up EXCEPT ![c] = Append(SubSeq(@, 1, n), Close)]
    BY <1>5 DEF PeerClose
  <2> DEFINE rest == SubSeq(up[c], 1, n)
  <2>3. rest \in Seq(Items)
    BY <1>1, ChannelPrefix
  <2> HIDE DEF rest
  <2>4. /\ Append(rest, Close) \in Seq(Items) /\ Append(rest, Close) # <<>>
        /\ Append(rest, Close)[Len(Append(rest, Close))] = Close
    BY <2>3, CloseTyped, ChannelAppend
  <2>5. /\ up' \in [Peers -> Seq(Items)]
        /\ \A d \in Peers \ {c} : up'[d] = up[d]
        /\ link[c] # "open" => up'[c] = up[c]
        /\ link[c] = "open" => up'[c] = Append(rest, Close)
    BY <2>2, <2>4 DEF TypeAndChannels, TypeOK, rest
  <2>6. /\ peer' \in [Peers -> {"new", "connecting", "open", "closed"}]
        /\ peer'[c] = "closed" /\ \A d \in Peers \ {c} : peer'[d] = peer[d]
    BY <2>1 DEF TypeAndChannels, TypeOK
  <2>7. TypeOK'
    BY <2>1, <2>5, <2>6 DEF TypeAndChannels, TypeOK, serverVars, historyVars
  <2>8. ChannelOK(c)'
    <3> HIDE DEF Close
    <3> QED
      BY <1>1, <2>1, <2>4, <2>5, <2>6 DEF ChannelOK, serverVars
  <2>9. ChannelInv'
    BY <2>1, <2>5, <2>6, <2>8, OneChannel DEF TypeAndChannels, serverVars
  <2> QED
    BY <2>7, <2>9 DEF TypeAndChannels
<1> QED
  BY <1>2, <1>3, <1>4, <1>5 DEF Peer, PeerReads

\* Every step keeps the types and the shape of the channels.
LEMMA TypeStep == TypeAndChannels /\ [Next]_vars => TypeAndChannels'
<1> SUFFICES ASSUME TypeAndChannels, [Next]_vars PROVE TypeAndChannels'
  OBVIOUS
<1>1. ASSUME NEW c \in Peers, HandlePeer(c) PROVE TypeAndChannels'
  BY <1>1, EstablishStep, PeerInitiatedCloseStep, RejectBusyStep, CloseStep,
     TakePromptStep, StartCodingStep DEF HandlePeer
<1>2. CASE Server
  BY <1>1, <1>2, DropStep, FinishCodingStep DEF Server
<1>3. CASE Host
  BY <1>3, DropStep, InterruptStep, RestartStep DEF Host
<1>4. CASE \E c \in Peers : Peer(c)
  BY <1>4, PeerStep
<1>5. CASE UNCHANGED vars
  <2>1. TypeOK'
    BY <1>5 DEF TypeAndChannels, TypeOK, vars, serverVars, wireVars, historyVars
  <2>2. ASSUME NEW c \in Peers PROVE ChannelOK(c)'
    BY <1>5, Untouched DEF TypeAndChannels, vars, serverVars, wireVars
  <2> QED
    BY <2>1, <2>2 DEF TypeAndChannels, ChannelInv
<1> QED
  BY <1>2, <1>3, <1>4, <1>5 DEF Next

\* Every variable keeps its type, and the channels their shape: nothing
\* follows a close frame, a command runs for an open connection.
THEOREM TypeCorrect == Spec => [](TypeOK /\ ChannelInv)
<1> QED
  BY TypeInit, TypeStep, PTL DEF Spec, TypeAndChannels

-----------------------------------------------------------------------------
(* At most one command between two starts                                  *)

\* Every step keeps OneCommandPerLife: only StartCoding counts a command, and
\* it finds the flag down.
LEMMA CommandStep ==
  TypeAndChannels /\ OneCommandPerLife /\ [Next]_vars => OneCommandPerLife'
<1> SUFFICES ASSUME TypeAndChannels, OneCommandPerLife, [Next]_vars
             PROVE  OneCommandPerLife'
  OBVIOUS
<1>1. commands \in Nat /\ starts \in Nat
  BY MaxAssumption DEF TypeAndChannels, TypeOK
<1>2. CASE UNCHANGED <<commands, starts, busy, loop>>
  BY <1>2 DEF OneCommandPerLife
<1>3. CASE \E c \in Peers, f \in Frames : StartCoding(c, f)
  BY <1>1, <1>3 DEF StartCoding, Receive, Free, OneCommandPerLife
<1>4. CASE StopLoop \/ Kill
  BY <1>4 DEF StopLoop, Kill, DropAll, historyVars, OneCommandPerLife
<1>5. CASE Interrupt
  BY <1>5 DEF Interrupt, historyVars, OneCommandPerLife
<1>6. CASE Restart
  BY <1>1, <1>6 DEF Restart, historyVars, OneCommandPerLife
<1>7. ASSUME NEW c \in Peers, HandlePeer(c) PROVE OneCommandPerLife'
  <2>1. CASE Establish(c) \/ PeerInitiatedClose(c)
    BY <1>2, <2>1
    DEF Establish, PeerInitiatedClose, serverVars, historyVars
  <2>2. ASSUME NEW f \in Frames,
               RejectBusy(c, f) \/ CloseOnMagic(c, f) \/ TakePrompt(c, f)
                 \/ CloseOnType(c, f)
        PROVE  OneCommandPerLife'
    BY <1>2, <2>2 DEF RejectBusy, CloseOnMagic, TakePrompt, CloseOnType,
                      Receive, historyVars
  <2> QED
    BY <1>3, <1>7, <2>1, <2>2 DEF HandlePeer
<1>8. ASSUME NEW c \in Peers, Peer(c) PROVE OneCommandPerLife'
  BY <1>2, <1>8 DEF Peer, PeerReads, PeerConnect, ConnectFails, PeerSend,
     PeerReceive, PeerFindsClosed, PeerClose, serverVars, historyVars
<1>9. CASE FinishCoding
  BY <1>2, <1>9 DEF FinishCoding
<1>10. CASE UNCHANGED vars
  BY <1>2, <1>10 DEF vars, serverVars, historyVars
<1> QED
  BY <1>4, <1>5, <1>6, <1>7, <1>8, <1>9, <1>10 DEF Next, Server, Host

\* Whatever any number of peers send, and however the server is interrupted,
\* killed and started again, each life of it starts at most one command.
THEOREM CommandsAreAlone == Spec => []OneCommandPerLife
<1>1. Init => OneCommandPerLife
  BY DEF Init, OneCommandPerLife
<1> QED
  BY <1>1, TypeInit, TypeStep, CommandStep, PTL DEF Spec

-----------------------------------------------------------------------------
(* At most one reply to a frame                                            *)

Balanced(c) == Traffic(c) + Work(c) <= asked[c] + Ends(c)

\* The numbers of c's traffic are natural.
LEMMA Lengths ==
  ASSUME TypeOK, NEW c \in Peers
  PROVE  /\ Len(got[c]) \in Nat /\ Len(down[c]) \in Nat /\ Len(up[c]) \in Nat
         /\ asked[c] \in Nat
<1>1. /\ got[c] \in Seq(Answers) /\ down[c] \in Seq(Answers)
      /\ up[c] \in Seq(Items)
  BY DEF TypeOK
<1>2. asked[c] \in Nat
  BY MaxAssumption DEF TypeOK
<1> QED
  BY <1>1, <1>2, LenProperties

\* Three lengths and c's traffic, their sum, before a step and after it.
LEMMA TrafficSums ==
  ASSUME TypeOK, NEW c \in Peers,
         Len(got'[c]) \in Nat, Len(down'[c]) \in Nat, Len(up'[c]) \in Nat
  PROVE  LET a  == Len(got[c])    b  == Len(down[c])    d  == Len(up[c])
             a1 == Len(got'[c])   b1 == Len(down'[c])   d1 == Len(up'[c])
         IN /\ Traffic(c) \in Nat /\ Traffic(c)' \in Nat
            /\ a1 = a /\ b1 = b + 1 /\ d1 = d => Traffic(c)' = Traffic(c) + 1
            /\ a1 = a /\ b1 <= b + 1 /\ d1 = 0 => Traffic(c)' <= Traffic(c) + 1
            /\ a1 = a /\ b1 <= b + 1 /\ d1 = 0 /\ d # 0
                 => Traffic(c)' <= Traffic(c)
            /\ a1 = a /\ b1 = b /\ d1 <= d + 1 => Traffic(c)' <= Traffic(c) + 1
            /\ a1 = a + 1 /\ b1 = b - 1 /\ d1 = d => Traffic(c)' = Traffic(c)
            /\ a1 = a /\ b1 = b + 1 /\ d1 = d - 1 => Traffic(c)' = Traffic(c)
            /\ a1 = a /\ b1 = b /\ d1 = d - 1 => Traffic(c)' = Traffic(c) - 1
<1> DEFINE a  == Len(got[c])    b  == Len(down[c])    d  == Len(up[c])
           a1 == Len(got'[c])   b1 == Len(down'[c])   d1 == Len(up'[c])
<1>1. /\ a \in Nat /\ b \in Nat /\ d \in Nat
      /\ a1 \in Nat /\ b1 \in Nat /\ d1 \in Nat
  BY Lengths
<1>2. Traffic(c) = a + b + d /\ Traffic(c)' = a1 + b1 + d1
  BY DEF Traffic
<1> HIDE DEF a, b, d, a1, b1, d1
<1>3. /\ Traffic(c) \in Nat /\ Traffic(c)' \in Nat
      /\ a1 = a /\ b1 = b + 1 /\ d1 = d => Traffic(c)' = Traffic(c) + 1
      /\ a1 = a /\ b1 <= b + 1 /\ d1 = 0 => Traffic(c)' <= Traffic(c) + 1
      /\ a1 = a /\ b1 <= b + 1 /\ d1 = 0 /\ d # 0 => Traffic(c)' <= Traffic(c)
      /\ a1 = a /\ b1 = b /\ d1 <= d + 1 => Traffic(c)' <= Traffic(c) + 1
      /\ a1 = a + 1 /\ b1 = b - 1 /\ d1 = d => Traffic(c)' = Traffic(c)
      /\ a1 = a /\ b1 = b + 1 /\ d1 = d - 1 => Traffic(c)' = Traffic(c)
      /\ a1 = a /\ b1 = b /\ d1 = d - 1 => Traffic(c)' = Traffic(c) - 1
  BY <1>1, <1>2
<1> QED
  BY <1>3 DEF a, b, d, a1, b1, d1

\* So is their sum.
LEMMA TrafficNat ==
  ASSUME TypeOK, NEW c \in Peers
  PROVE  Traffic(c) \in Nat
<1> DEFINE a == Len(got[c])  b == Len(down[c])  d == Len(up[c])
<1>1. a \in Nat /\ b \in Nat /\ d \in Nat
  BY Lengths
<1> HIDE DEF a, b, d
<1>2. a + b + d \in Nat
  BY <1>1
<1> QED
  BY <1>2 DEF Traffic, a, b, d

\* A step that leaves c alone keeps its balance.
LEMMA BalanceUntouched ==
  ASSUME TypeOK, NEW c \in Peers, Balanced(c), link'[c] = link[c],
         peer'[c] = peer[c], up'[c] = up[c], down'[c] = down[c],
         got'[c] = got[c], asked'[c] = asked[c], working' = c => working = c
  PROVE  Balanced(c)'
<1>1. Traffic(c)' = Traffic(c) /\ Traffic(c) \in Nat /\ asked[c] \in Nat
  BY Lengths, TrafficNat DEF Traffic
<1>2. Ends(c)' = Ends(c) /\ Ends(c) \in {0, 1}
  BY DEF Ends
<1>3. \/ Work(c)' = Work(c) /\ Work(c) \in {0, 1}
      \/ Work(c)' = 0 /\ Work(c) = 1
  BY DEF Work
<1> QED
  BY <1>1, <1>2, <1>3 DEF Balanced

\* A frame of any peer handled by the callback keeps the balance of c.
LEMMA BalanceServer ==
  ASSUME TypeAndChannels, NEW c \in Peers, Balanced(c),
         NEW d \in Peers, HandlePeer(d)
  PROVE  Balanced(c)'
<1> USE DEF TypeAndChannels
<1>1. Len(got[c]) \in Nat /\ Len(down[c]) \in Nat /\ Len(up[c]) \in Nat
      /\ asked[c] \in Nat
  BY Lengths
<1>2. got'[c] = got[c] /\ asked'[c] = asked[c]
  BY DEF HandlePeer, Establish, PeerInitiatedClose, RejectBusy, CloseOnMagic,
         TakePrompt, StartCoding, CloseOnType, historyVars
<1>3. working = Nobody
  BY DEF HandlePeer, Establish, PeerInitiatedClose, RejectBusy, CloseOnMagic,
         TakePrompt, StartCoding, CloseOnType, Receive, Free
<1>4. CASE d # c
  <2>1. /\ link'[c] = link[c] /\ peer'[c] = peer[c]
        /\ up'[c] = up[c] /\ down'[c] = down[c]
    BY <1>4
    DEF HandlePeer, Establish, PeerInitiatedClose, RejectBusy, CloseOnMagic,
        TakePrompt, StartCoding, CloseOnType, Receive, Respond, Consume, Hangup,
        TypeOK
  <2>2. working' # c
    BY <1>3, <1>4, NobodyAssumption
    DEF HandlePeer, Establish, PeerInitiatedClose, RejectBusy, CloseOnMagic,
        TakePrompt, StartCoding, CloseOnType, serverVars
  <2> QED
    BY <1>2, <2>1, <2>2, BalanceUntouched
<1>5. CASE d = c /\ Establish(c)
  <2>1. /\ link[c] = "none" /\ link'[c] = "open" /\ peer'[c] = "open"
        /\ UNCHANGED <<up, down, working>>
    BY <1>5 DEF Establish, ChannelInv, ChannelOK, TypeOK, serverVars
  <2>2. Traffic(c)' = Traffic(c) /\ Work(c)' = Work(c)
    BY <1>2, <2>1 DEF Traffic, Work
  <2>3. Ends(c) = 0 /\ Ends(c)' = 0
    BY <2>1 DEF Ends
  <2> QED
    BY <1>2, <2>2, <2>3 DEF Balanced
<1>6. ASSUME d = c, Hangup(c), link[c] = "open", up[c] # <<>>,
             working' = working
      PROVE  Balanced(c)'
  <2>1. link'[c] = "closed" /\ up'[c] = <<>> /\ Len(down'[c]) = Len(down[c]) + 1
    BY <1>6, HangupFacts
  <2>2. Len(up[c]) # 0 /\ Len(up'[c]) = 0
    BY <1>6, <2>1, EmptySeq DEF TypeOK
  <2>3. Traffic(c)' <= Traffic(c) /\ Traffic(c) \in Nat /\ Traffic(c)' \in Nat
    <3>1. /\ Len(down'[c]) \in Nat /\ Len(up'[c]) \in Nat
          /\ Len(down'[c]) <= Len(down[c]) + 1 /\ Len(got'[c]) \in Nat
      BY <1>1, <1>2, <2>1, <2>2
    <3> QED
      BY <1>1, <1>2, <2>1, <2>2, <3>1, TrafficSums
  <2>4. Work(c)' = 0 /\ Work(c) = 0
    BY <1>3, <1>6, NobodyAssumption DEF Work
  <2>5. CASE peer[c] = "closed"
    <3>1. Ends(c)' = 1 /\ Ends(c) = 1
      BY <1>6, <2>1, <2>5 DEF Ends
    <3> QED
      BY <1>1, <1>2, <2>3, <2>4, <3>1 DEF Balanced
  <2>6. CASE peer[c] # "closed"
    <3>1. /\ Ends(c)' = 1 /\ Ends(c) = 0
      BY <1>6, <2>1, <2>6 DEF Ends
    <3> QED
      BY <1>1, <1>2, <2>3, <2>4, <3>1 DEF Balanced
  <2> QED
    BY <2>5, <2>6
<1>7. CASE d = c /\ PeerInitiatedClose(c)
  BY <1>6, <1>7 DEF PeerInitiatedClose, serverVars
<1>8. ASSUME d = c, NEW f \in Frames, CloseOnMagic(c, f) \/ CloseOnType(c, f)
      PROVE  Balanced(c)'
  BY <1>6, <1>8 DEF CloseOnMagic, CloseOnType, Receive
<1>9. ASSUME NEW f \in Frames, Receive(c, f), Consume(c), link' = link,
             \/ Len(down'[c]) = Len(down[c]) + 1 /\ working' = working
             \/ down' = down
      PROVE  Balanced(c)'
  <2>1. Len(up'[c]) = Len(up[c]) - 1
    <3>1. up'[c] = Tail(up[c])
      BY <1>9 DEF Consume, TypeOK
    <3> QED
      BY <1>9, <3>1, ReceiveFacts
  <2>2. peer' = peer
    BY <1>9, ReceiveFacts
  <2>3. working # c
    BY <1>3, NobodyAssumption
  <2>4. /\ Ends(c)' = Ends(c) /\ Ends(c) \in {0, 1}
        /\ Work(c) = 0 /\ Work(c)' \in {0, 1}
        /\ working' = working => Work(c)' = 0
    BY <1>9, <2>2, <2>3 DEF Ends, Work
  <2>5. \/ Traffic(c)' = Traffic(c) /\ Work(c)' = 0
        \/ Traffic(c)' = Traffic(c) - 1
    <3>1. Len(up'[c]) \in Nat
      BY <1>1, <1>9, <2>1, ReceiveFacts
    <3>2. CASE Len(down'[c]) = Len(down[c]) + 1 /\ working' = working
      <4>1. Len(down'[c]) \in Nat
        BY <1>1, <3>2
      <4> QED
        BY <1>1, <1>2, <2>1, <2>4, <3>1, <3>2, <4>1, TrafficSums
    <3>3. CASE down' = down
      BY <1>1, <1>2, <2>1, <3>1, <3>3, TrafficSums
    <3> QED
      BY <1>9, <3>2, <3>3
  <2>6. Traffic(c) \in Nat
    BY TrafficNat
  <2> QED
    BY <1>1, <1>2, <2>4, <2>5, <2>6 DEF Balanced
<1>10. ASSUME d = c, NEW f \in Frames, RejectBusy(c, f) PROVE Balanced(c)'
  <2>1. Len(down'[c]) = Len(down[c]) + 1
    BY <1>10, CloseTyped, WriteFacts DEF RejectBusy, Respond
  <2> QED
    BY <1>9, <1>10, <2>1 DEF RejectBusy
<1>11. ASSUME d = c, NEW f \in Frames, TakePrompt(c, f) \/ StartCoding(c, f)
       PROVE  Balanced(c)'
  BY <1>9, <1>11 DEF TakePrompt, StartCoding
<1> QED
  BY <1>4, <1>5, <1>7, <1>8, <1>10, <1>11 DEF HandlePeer

\* The end of a command keeps it: the work becomes a reply.
LEMMA BalanceFinish ==
  ASSUME TypeAndChannels, NEW c \in Peers, Balanced(c), FinishCoding
  PROVE  Balanced(c)'
<1> USE DEF TypeAndChannels
<1>1. UNCHANGED <<link, peer, up, asked, got>>
  BY DEF FinishCoding
<1>2. working' # c
  BY NobodyAssumption DEF FinishCoding
<1>3. CASE working # c
  <2>1. down'[c] = down[c]
    BY <1>3 DEF FinishCoding, Respond, TypeOK
  <2> QED
    BY <1>1, <1>2, <2>1, BalanceUntouched
<1>4. CASE working = c
  <2>1. Len(down'[c]) = Len(down[c]) + 1
    <3>1. [status |-> "SC", request |-> request] \in Answers
      BY CloseTyped DEF TypeOK
    <3> QED
      BY <1>4, <3>1, WriteFacts DEF FinishCoding, Respond
  <2>2. Len(down'[c]) \in Nat
    BY <2>1, Lengths
  <2>3. Traffic(c)' = Traffic(c) + 1 /\ Traffic(c) \in Nat
    BY <1>1, <2>1, <2>2, Lengths, TrafficSums
  <2>4. Work(c) = 1 /\ Work(c)' = 0
    BY <1>2, <1>4 DEF Work
  <2>5. Ends(c)' = Ends(c) /\ Ends(c) \in {0, 1}
    BY <1>1 DEF Ends
  <2>6. asked[c] \in Nat /\ asked'[c] = asked[c]
    BY <1>1, Lengths
  <2> QED
    BY <2>3, <2>4, <2>5, <2>6 DEF Balanced
<1> QED
  BY <1>3, <1>4

\* The end of the process keeps it: replies and frames are only lost.
LEMMA BalanceDrop ==
  ASSUME TypeAndChannels, NEW c \in Peers, Balanced(c), StopLoop \/ Kill
  PROVE  Balanced(c)'
<1> USE DEF TypeAndChannels
<1>1. PICK arrives \in BOOLEAN : DropAll(arrives)
  BY DEF StopLoop, Kill
<1>2. /\ UNCHANGED <<peer, asked, got>> /\ working' = Nobody
  <2>1. CASE StopLoop
    BY <2>1 DEF StopLoop, historyVars
  <2>2. CASE Kill
    BY <2>2 DEF Kill, historyVars
  <2> QED
    BY <2>1, <2>2
<1>3. Work(c)' = 0 /\ Work(c) \in {0, 1}
  BY <1>2, NobodyAssumption DEF Work
<1>4. up'[c] = <<>> /\ Len(<<>>) = 0
  BY <1>1, EmptySeq DEF DropAll, Everywhere
<1>5. Traffic(c) \in Nat /\ asked[c] \in Nat /\ asked'[c] = asked[c]
  BY <1>2, Lengths, TrafficNat
<1>6. CASE link[c] = "open"
  <2>1. link'[c] = "closed"
    BY <1>1, <1>6 DEF DropAll
  <2>2. Len(down'[c]) \in Nat /\ Len(down'[c]) <= Len(down[c]) + 1
    <3>1. down'[c] = Append(down[c], Close) \/ down'[c] = Append(<<>>, Close)
      BY <1>1, <1>6 DEF DropAll
    <3>2. /\ Len(Append(down[c], Close)) = Len(down[c]) + 1
          /\ Len(Append(<<>>, Close)) = 1 /\ Len(down[c]) \in Nat
      <4>1. down[c] \in Seq(Answers) /\ <<>> \in Seq(Answers)
        BY EmptySeq DEF TypeOK
      <4> QED
        BY <1>4, <4>1, CloseTyped, ChannelAppend, Lengths
    <3> DEFINE old == Len(down[c])  new == Len(down'[c])
    <3>3. old \in Nat
      BY <3>2
    <3>4. new = old + 1 \/ new = 1
      BY <3>1, <3>2, Zenon
    <3> HIDE DEF old, new
    <3>5. new \in Nat /\ new <= old + 1
      BY <3>3, <3>4
    <3> QED
      BY <3>5 DEF old, new
  <2>3. Ends(c)' = 1
    BY <2>1 DEF Ends
  <2>4. CASE peer[c] = "closed"
    <3>1. Len(up[c]) # 0
      BY <1>6, <2>4, EmptySeq DEF ChannelInv, ChannelOK, TypeOK
    <3>2. Traffic(c)' <= Traffic(c) /\ Traffic(c)' \in Nat
      BY <1>2, <1>4, <2>2, <3>1, Lengths, TrafficSums
    <3>3. Ends(c) = 1
      BY <1>6, <2>4 DEF Ends
    <3> QED
      BY <1>3, <1>5, <2>3, <3>2, <3>3 DEF Balanced
  <2>5. CASE peer[c] # "closed"
    <3>1. Traffic(c)' <= Traffic(c) + 1 /\ Traffic(c)' \in Nat
      BY <1>2, <1>4, <2>2, Lengths, TrafficSums
    <3>2. Ends(c) = 0
      BY <1>6, <2>5 DEF Ends
    <3> QED
      BY <1>3, <1>5, <2>3, <3>1, <3>2 DEF Balanced
  <2> QED
    BY <2>4, <2>5
<1>7. CASE link[c] # "open"
  <2>1. link'[c] = link[c] /\ down'[c] = down[c]
    BY <1>1, <1>7 DEF DropAll
  <2>2. up[c] = <<>>
    BY <1>7 DEF ChannelInv, ChannelOK
  <2> QED
    BY <1>2, <1>4, <2>1, <2>2, NobodyAssumption, BalanceUntouched
<1> QED
  BY <1>6, <1>7

\* A step of any peer keeps it: what is sent is counted in asked, what is read
\* moves to got.
LEMMA BalancePeer ==
  ASSUME TypeAndChannels, NEW c \in Peers, Balanced(c),
         NEW d \in Peers, Peer(d)
  PROVE  Balanced(c)'
<1> USE DEF TypeAndChannels
<1>1. /\ Len(got[c]) \in Nat /\ Len(down[c]) \in Nat /\ Len(up[c]) \in Nat
      /\ asked[c] \in Nat /\ Traffic(c) \in Nat
  BY Lengths, TrafficNat
<1>2. /\ link' = link /\ working' = working
      /\ Work(c)' = Work(c) /\ Work(c) \in {0, 1} /\ Ends(c) \in {0, 1}
  BY DEF Peer, PeerReads, PeerConnect, ConnectFails, PeerSend, PeerReceive,
         PeerFindsClosed, PeerClose, serverVars, Work, Ends
<1>3. CASE d # c
  <2>1. /\ peer'[c] = peer[c] /\ up'[c] = up[c] /\ down'[c] = down[c]
        /\ got'[c] = got[c] /\ asked'[c] = asked[c]
    <3> USE DEF TypeOK, historyVars
    <3>1. CASE PeerConnect(d) \/ ConnectFails(d)
      BY <1>3, <3>1 DEF PeerConnect, ConnectFails
    <3>2. CASE PeerClose(d) \/ PeerFindsClosed(d)
      BY <1>3, <3>2 DEF PeerClose, PeerFindsClosed
    <3>3. CASE PeerReceive(d)
      BY <1>3, <3>3 DEF PeerReceive
    <3>4. CASE \E f \in Frames : PeerSend(d, f)
      BY <1>3, <3>4 DEF PeerSend
    <3> HIDE DEF TypeOK
    <3> QED
      BY <3>1, <3>2, <3>3, <3>4 DEF Peer, PeerReads
  <2> QED
    BY <1>2, <2>1, BalanceUntouched
<1>4. ASSUME d = c, NEW f \in Frames, PeerSend(c, f) PROVE Balanced(c)'
  <2>1. asked'[c] = asked[c] + 1
    BY <1>4 DEF PeerSend, TypeOK
  <2>2. Ends(c)' = Ends(c)
    BY <1>2, <1>4 DEF PeerSend, Ends
  <2>3. Len(up'[c]) = Len(up[c]) \/ Len(up'[c]) = Len(up[c]) + 1
    <3>1. up[c] \in Seq(Items) /\ f \in Items
      BY DEF TypeOK, Items
    <3>2. up'[c] = up[c] \/ up'[c] = Append(up[c], f)
      BY <1>4 DEF PeerSend, TypeOK
    <3> QED
      BY <3>1, <3>2, ChannelAppend
  <2>4. Traffic(c)' <= Traffic(c) + 1 /\ Traffic(c)' \in Nat
    <3>1. Len(up'[c]) \in Nat /\ Len(up'[c]) <= Len(up[c]) + 1
      BY <1>1, <2>3
    <3> QED
      BY <1>1, <1>4, <3>1, TrafficSums DEF PeerSend
  <2> QED
    BY <1>1, <1>2, <2>1, <2>2, <2>4 DEF Balanced
<1>5. CASE d = c /\ PeerReceive(c)
  <2>1. /\ Len(down'[c]) = Len(down[c]) - 1 /\ Len(down'[c]) \in Nat
        /\ Len(got'[c]) = Len(got[c]) + 1
    <3>1. /\ down[c] \in Seq(Answers) /\ down[c] # <<>>
          /\ down'[c] = Tail(down[c])
          /\ got[c] \in Seq(Answers) /\ got'[c] = Append(got[c], Head(down[c]))
      BY <1>5 DEF PeerReceive, TypeOK
    <3>2. /\ Head(down[c]) \in Answers /\ Len(Tail(down[c])) = Len(down[c]) - 1
          /\ Len(down[c]) \in Nat \ {0}
      BY <3>1, ChannelTail
    <3> QED
      BY <1>1, <3>1, <3>2, ChannelAppend
  <2>2. /\ Len(got'[c]) \in Nat /\ up' = up
        /\ UNCHANGED <<peer, asked>>
    BY <1>1, <1>5, <2>1 DEF PeerReceive
  <2>3. Traffic(c)' = Traffic(c)
    BY <1>1, <2>1, <2>2, TrafficSums
  <2>4. Ends(c)' = Ends(c)
    BY <1>2, <2>2 DEF Ends
  <2> QED
    BY <1>1, <1>2, <2>2, <2>3, <2>4 DEF Balanced
<1>6. CASE d = c /\ (PeerConnect(c) \/ ConnectFails(c) \/ PeerFindsClosed(c))
  <2>1. /\ UNCHANGED <<up, down, got, asked>>
        /\ link[c] # "open"
    <3>1. CASE PeerFindsClosed(c)
      <4>1. down[c] \in Seq(Answers) /\ down[c] # <<>> /\ Head(down[c]) = Close
        BY <3>1 DEF PeerFindsClosed, TypeOK
      <4>2. Head(down[c]) = down[c][1] /\ 1 \in 1..Len(down[c])
        BY <1>1, <4>1, ChannelTail
      <4>3. link[c] = "open" => down[c][1] # Close
        BY <4>2 DEF ChannelInv, ChannelOK
      <4> HIDE DEF Close
      <4> QED
        BY <3>1, <4>1, <4>2, <4>3 DEF PeerFindsClosed, historyVars
    <3>2. CASE PeerConnect(c) \/ ConnectFails(c)
      BY <3>2 DEF PeerConnect, ConnectFails, ChannelInv, ChannelOK, historyVars
    <3> QED
      BY <1>6, <3>1, <3>2
  <2>2. Ends(c)' = Ends(c) /\ Traffic(c)' = Traffic(c)
    BY <1>2, <2>1 DEF Ends, Traffic
  <2> QED
    BY <1>1, <1>2, <2>1, <2>2 DEF Balanced
<1>7. CASE d = c /\ PeerClose(c)
  <2>1. UNCHANGED <<link, down, got, asked>> /\ peer'[c] = "closed"
        /\ peer[c] = "open"
    BY <1>7 DEF PeerClose, historyVars, TypeOK
  <2>2. CASE link[c] # "open"
    <3>1. up' = up /\ Ends(c)' = Ends(c)
      BY <1>2, <1>7, <2>2 DEF PeerClose, Ends
    <3>2. Traffic(c)' = Traffic(c)
      BY <2>1, <3>1 DEF Traffic
    <3> QED
      BY <1>1, <1>2, <2>1, <3>1, <3>2 DEF Balanced
  <2>3. CASE link[c] = "open"
    <3>1. Ends(c) = 0 /\ Ends(c)' = 1
      BY <1>2, <2>1, <2>3 DEF Ends
    <3>2. Len(up'[c]) \in Nat /\ Len(up'[c]) <= Len(up[c]) + 1
      <4>1. PICK n \in 0..Len(up[c]) :
              up'[c] = Append(SubSeq(up[c], 1, n), Close)
        BY <1>7, <2>3 DEF PeerClose, TypeOK
      <4>2. SubSeq(up[c], 1, n) \in Seq(Items) /\ Len(SubSeq(up[c], 1, n)) = n
        BY ChannelPrefix DEF TypeOK
      <4>3. Len(up'[c]) = n + 1
        BY <4>1, <4>2, CloseTyped, ChannelAppend
      <4> QED
        BY <1>1, <4>3
    <3>3. Traffic(c)' <= Traffic(c) + 1 /\ Traffic(c)' \in Nat
      BY <1>1, <2>1, <3>2, TrafficSums
    <3> QED
      BY <1>1, <1>2, <2>1, <3>1, <3>3 DEF Balanced
  <2> QED
    BY <2>2, <2>3
<1> QED
  BY <1>3, <1>4, <1>5, <1>6, <1>7 DEF Peer, PeerReads

\* Every step keeps the balance of every connection.
LEMMA BalanceStep ==
  TypeAndChannels /\ OneReplyPerFrame /\ [Next]_vars => OneReplyPerFrame'
<1> SUFFICES ASSUME TypeAndChannels, [Next]_vars, NEW c \in Peers, Balanced(c)
             PROVE  Balanced(c)'
  BY DEF OneReplyPerFrame, Balanced
<1>1. CASE Server
  BY <1>1, BalanceServer, BalanceFinish, BalanceDrop DEF Server
<1>2. CASE Host
  <2>1. CASE Kill
    BY <2>1, BalanceDrop
  <2>2. CASE Interrupt \/ Restart
    BY <2>2, BalanceUntouched
    DEF Interrupt, Restart, wireVars, historyVars, TypeAndChannels
  <2> QED
    BY <1>2, <2>1, <2>2 DEF Host
<1>3. CASE \E d \in Peers : Peer(d)
  BY <1>3, BalancePeer
<1>4. CASE UNCHANGED vars
  BY <1>4, BalanceUntouched
  DEF vars, serverVars, wireVars, historyVars, TypeAndChannels
<1> QED
  BY <1>1, <1>2, <1>3, <1>4 DEF Next

\* No sequence of frames, closes, interrupts, kills and restarts makes the
\* server write more replies to a peer than the peer has sent frames.
THEOREM RepliesNeedFrames == Spec => []OneReplyPerFrame
<1>1. Init => OneReplyPerFrame
  <2> SUFFICES ASSUME Init, NEW c \in Peers PROVE Balanced(c)
    BY DEF OneReplyPerFrame, Balanced
  <2>1. /\ got[c] = <<>> /\ down[c] = <<>> /\ up[c] = <<>> /\ asked[c] = 0
        /\ link[c] = "none" /\ working # c
    BY NobodyAssumption DEF Init, Everywhere
  <2>2. Work(c) = 0 /\ Ends(c) = 0
    BY <2>1 DEF Work, Ends
  <2>3. Traffic(c) = 0
    BY <2>1, EmptySeq DEF Traffic
  <2> QED
    BY <2>1, <2>2, <2>3 DEF Balanced
<1> QED
  BY <1>1, TypeInit, TypeStep, BalanceStep, PTL DEF Spec

-----------------------------------------------------------------------------
(* The service                                                             *)

Serves == [Service!ServiceNext]_Service!serviceVars

-----------------------------------------------------------------------------
(* Replies on a channel                                                    *)

\* Replies are a sequence of answers, all of the channel or all but the end.
LEMMA RepliesTyped ==
  ASSUME NEW s \in Seq(Answers)
  PROVE  /\ Replies(s) \in Seq(Answers)
         /\ \/ Replies(s) = s
            \/ s # <<>> /\ s[Len(s)] = Close /\ Len(Replies(s)) = Len(s) - 1
<1>1. CASE s # <<>> /\ s[Len(s)] = Close
  <2>1. Len(s) \in Nat \ {0}
    BY <1>1, EmptySeq
  <2>2. Len(s) - 1 \in 0..Len(s)
    BY <2>1
  <2>3. /\ SubSeq(s, 1, Len(s) - 1) \in Seq(Answers)
        /\ Len(SubSeq(s, 1, Len(s) - 1)) = Len(s) - 1
    BY <2>2, ChannelPrefix
  <2> QED
    BY <1>1, <2>3 DEF Replies
<1>2. CASE ~(s # <<>> /\ s[Len(s)] = Close)
  BY <1>2 DEF Replies
<1> QED
  BY <1>1, <1>2

\* A channel that has not ended is all replies.
LEMMA RepliesOpen ==
  ASSUME NEW s \in Seq(Answers), \A i \in 1..Len(s) : s[i] # Close
  PROVE  Replies(s) = s
<1>1. CASE s = <<>>
  BY <1>1 DEF Replies
<1>2. CASE s # <<>>
  <2>1. Len(s) \in 1..Len(s)
    BY <1>2, EmptySeq
  <2>2. s[Len(s)] # Close
    BY <2>1
  <2> QED
    BY <2>2 DEF Replies
<1> QED
  BY <1>1, <1>2

\* Its end adds none.
LEMMA RepliesEnd ==
  ASSUME NEW s \in Seq(Answers)
  PROVE  Replies(Append(s, Close)) = s
<1> DEFINE t == Append(s, Close)
<1>1. /\ t \in Seq(Answers) /\ Len(t) = Len(s) + 1 /\ t[Len(t)] = Close
      /\ t # <<>> /\ \A i \in 1..Len(s) : t[i] = s[i]
  BY CloseTyped, ChannelAppend
<1>2. Len(s) \in Nat /\ Len(s) \in 0..Len(t) /\ Len(t) - 1 = Len(s)
  BY <1>1, LenProperties
<1>3. Replies(t) = SubSeq(t, 1, Len(s))
  BY <1>1, <1>2, Zenon DEF Replies
<1>4. \A i \in 1..Len(s) : t[i] \in Answers
  BY <1>1, <1>2, ElementOfSeq
<1>5. /\ SubSeq(t, 1, Len(s)) \in Seq(Answers)
      /\ Len(SubSeq(t, 1, Len(s))) = Len(s)
      /\ \A i \in 1..Len(s) : SubSeq(t, 1, Len(s))[i] = s[i]
  BY <1>1, <1>2, <1>4, SubSeqProperties
<1> QED
  BY <1>3, <1>5, SeqEqual

\* Another reply is added at the end, also behind those already read.
LEMMA RepliesAppend ==
  ASSUME NEW g \in Seq(Answers), NEW s \in Seq(Answers), NEW e \in Answers,
         e # Close, \A i \in 1..Len(s) : s[i] # Close
  PROVE  g \o Replies(Append(s, e)) = Append(g \o Replies(s), e)
<1> DEFINE t == Append(s, e)
<1>1. /\ t \in Seq(Answers) /\ Len(t) = Len(s) + 1 /\ t[Len(t)] = e
      /\ t # <<>> /\ \A i \in 1..Len(s) : t[i] = s[i]
  BY ChannelAppend
<1>2. Replies(t) = t /\ Replies(s) = s
  BY <1>1, RepliesOpen, Zenon DEF Replies
<1>3. Len(g) \in Nat /\ Len(s) \in Nat
  BY LenProperties
<1>4. /\ g \o s \in Seq(Answers) /\ Len(g \o s) = Len(g) + Len(s)
      /\ \A i \in 1..Len(g) + Len(s) :
           (g \o s)[i] = IF i <= Len(g) THEN g[i] ELSE s[i - Len(g)]
  BY ConcatProperties
<1>5. /\ g \o t \in Seq(Answers) /\ Len(g \o t) = Len(g) + Len(t)
      /\ \A i \in 1..Len(g) + Len(t) :
           (g \o t)[i] = IF i <= Len(g) THEN g[i] ELSE t[i - Len(g)]
  BY <1>1, ConcatProperties
<1> DEFINE u == Append(g \o s, e)
<1>6. /\ u \in Seq(Answers) /\ Len(u) = Len(g \o s) + 1 /\ u[Len(u)] = e
      /\ \A i \in 1..Len(g \o s) : u[i] = (g \o s)[i]
  BY <1>4, ChannelAppend
<1>7. \A i \in 1..Len(g \o t) : (g \o t)[i] = u[i]
  <2> SUFFICES ASSUME NEW i \in 1..Len(g \o t) PROVE (g \o t)[i] = u[i]
    OBVIOUS
  <2> HIDE DEF t, u
  <2>1. CASE i = Len(g) + Len(s) + 1
    BY <1>1, <1>3, <1>4, <1>5, <1>6, <2>1
  <2>2. CASE i # Len(g) + Len(s) + 1
    <3>1. i \in 1..Len(g) + Len(s) /\ i \in 1..Len(g) + Len(t)
      BY <1>1, <1>3, <1>5, <2>2
    <3>2. (g \o t)[i] = (g \o s)[i]
      <4>1. i > Len(g) => i - Len(g) \in 1..Len(s)
        BY <1>3, <3>1
      <4>2. i > Len(g) => t[i - Len(g)] = s[i - Len(g)]
        BY <1>1, <4>1
      <4> QED
        BY <1>3, <1>4, <1>5, <3>1, <4>2
    <3> QED
      BY <1>4, <1>6, <3>1, <3>2
  <2> QED
    BY <2>1, <2>2
<1>8. Len(g \o t) = Len(u)
  <2> HIDE DEF t, u
  <2> QED
    BY <1>1, <1>3, <1>4, <1>5, <1>6
<1>9. g \o t = u
  BY <1>5, <1>6, <1>7, <1>8, SeqEqual
<1> QED
  BY <1>2, <1>9

\* A reply that is read moves from the channel to what was read.
LEMMA RepliesRead ==
  ASSUME NEW g \in Seq(Answers), NEW s \in Seq(Answers), s # <<>>,
         Head(s) # Close
  PROVE  /\ Append(g, Head(s)) \o Replies(Tail(s)) = g \o Replies(s)
         /\ Len(g) < Len(g \o Replies(s))
         /\ (g \o Replies(s))[Len(g) + 1] = Head(s)
<1> DEFINE h == Head(s)  t == Tail(s)  r == Replies(s)  q == Replies(Tail(s))
<1>1. /\ h \in Answers /\ h = s[1] /\ t \in Seq(Answers)
      /\ Len(s) \in Nat \ {0} /\ Len(t) = Len(s) - 1
      /\ \A i \in 1..Len(t) : t[i] = s[i + 1]
      /\ s[Len(s)] # h => t # <<>> /\ t[Len(t)] = s[Len(s)]
  BY ChannelTail
<1>2. /\ r \in Seq(Answers) /\ q \in Seq(Answers)
      /\ Len(r) \in Nat \ {0} /\ Len(q) = Len(r) - 1
      /\ \A i \in 1..Len(r) : r[i] = s[i]
      /\ \A i \in 1..Len(q) : q[i] = s[i + 1]
  <2>1. CASE s[Len(s)] = Close
    <3>1. t # <<>> /\ t[Len(t)] = Close /\ Len(t) \in Nat \ {0}
      BY <1>1, <2>1, EmptySeq
    <3>2. r = SubSeq(s, 1, Len(s) - 1) /\ q = SubSeq(t, 1, Len(t) - 1)
      BY <2>1, <3>1, Zenon DEF Replies
    <3>3. /\ \A i \in 1..Len(s) - 1 : s[i] \in Answers
          /\ \A i \in 1..Len(t) - 1 : t[i] \in Answers
      BY <1>1, <3>1, ElementOfSeq
    <3>4. /\ r \in Seq(Answers) /\ Len(r) = Len(s) - 1
          /\ \A i \in 1..Len(s) - 1 : r[i] = s[i]
      <4> HIDE DEF r
      <4> QED
        BY <1>1, <3>1, <3>2, <3>3, SubSeqProperties
    <3>5. /\ q \in Seq(Answers) /\ Len(q) = Len(t) - 1
          /\ \A i \in 1..Len(t) - 1 : q[i] = t[i]
      <4> HIDE DEF q, t
      <4> QED
        BY <1>1, <3>1, <3>2, <3>3, SubSeqProperties
    <3> HIDE DEF r, q, t
    <3> QED
      BY <1>1, <3>1, <3>4, <3>5
  <2>2. CASE s[Len(s)] # Close
    <3>1. r = s
      BY <2>2, Zenon DEF Replies
    <3>2. q = t
      <4>1. CASE t = <<>>
        BY <4>1, Zenon DEF Replies
      <4>2. CASE t # <<>>
        <5>1. Len(t) \in Nat \ {0}
          BY <1>1, <4>2, EmptySeq
        <5>2. t[Len(t)] = s[Len(s)]
          <6> HIDE DEF t
          <6> QED
            BY <1>1, <5>1
        <5> QED
          BY <2>2, <5>2, Zenon DEF Replies
      <4> QED
        BY <4>1, <4>2
    <3> HIDE DEF r, q, t
    <3> QED
      BY <1>1, <3>1, <3>2
  <2> QED
    BY <2>1, <2>2
<1> DEFINE a == Append(g, h)
<1>3. /\ a \in Seq(Answers) /\ Len(a) = Len(g) + 1 /\ a[Len(a)] = h
      /\ \A i \in 1..Len(g) : a[i] = g[i]
  BY <1>1, ChannelAppend
<1>4. Len(g) \in Nat
  BY LenProperties
<1> HIDE DEF h, r, q, t, a
<1>5. /\ g \o r \in Seq(Answers) /\ Len(g \o r) = Len(g) + Len(r)
      /\ \A i \in 1..Len(g) + Len(r) :
           (g \o r)[i] = IF i <= Len(g) THEN g[i] ELSE r[i - Len(g)]
  BY <1>2, ConcatProperties
<1>6. /\ a \o q \in Seq(Answers) /\ Len(a \o q) = Len(a) + Len(q)
      /\ \A i \in 1..Len(a) + Len(q) :
           (a \o q)[i] = IF i <= Len(a) THEN a[i] ELSE q[i - Len(a)]
  BY <1>2, <1>3, ConcatProperties
<1>7. Len(a \o q) = Len(g \o r)
  BY <1>2, <1>3, <1>4, <1>5, <1>6
<1>8. (g \o r)[Len(g) + 1] = h
  <2>1. Len(g) + 1 \in 1..Len(g) + Len(r) /\ (Len(g) + 1) - Len(g) = 1
        /\ 1 \in 1..Len(r)
    BY <1>2, <1>4
  <2> QED
    BY <1>1, <1>2, <1>4, <1>5, <2>1
<1>9. \A i \in 1..Len(a \o q) : (a \o q)[i] = (g \o r)[i]
  <2> SUFFICES ASSUME NEW i \in 1..Len(a \o q) PROVE (a \o q)[i] = (g \o r)[i]
    OBVIOUS
  <2>1. i \in 1..Len(g) + Len(r) /\ i \in 1..Len(a) + Len(q)
    BY <1>5, <1>6, <1>7
  <2>2. CASE i <= Len(g)
    BY <1>3, <1>4, <1>5, <1>6, <2>1, <2>2
  <2>3. CASE i = Len(g) + 1
    BY <1>3, <1>4, <1>6, <1>8, <2>1, <2>3
  <2>4. CASE i > Len(g) + 1
    <3>1. /\ i - Len(a) \in 1..Len(q) /\ i - Len(g) \in 1..Len(r)
          /\ (i - Len(a)) + 1 = i - Len(g)
      BY <1>2, <1>3, <1>4, <2>1, <2>4
    <3>2. (a \o q)[i] = q[i - Len(a)] /\ (g \o r)[i] = r[i - Len(g)]
      BY <1>3, <1>4, <1>5, <1>6, <2>1, <2>4
    <3> QED
      BY <1>2, <3>1, <3>2
  <2> QED
    BY <1>4, <2>1, <2>2, <2>3, <2>4
<1>10. a \o q = g \o r
  BY <1>5, <1>6, <1>7, <1>9, SeqEqual
<1>11. Len(g) < Len(g \o r)
  BY <1>2, <1>4, <1>5
<1> QED
  BY <1>8, <1>10, <1>11 DEF h, r, q, t, a

-----------------------------------------------------------------------------
(* Steps                                                                   *)

Strong == TypeAndChannels /\ OneReplyPerFrame

\* What is given to c is a sequence of answers.
LEMMA GivenTyped ==
  ASSUME TypeOK, NEW c \in Peers
  PROVE  /\ got[c] \in Seq(Answers) /\ down[c] \in Seq(Answers)
         /\ Replies(down[c]) \in Seq(Answers)
         /\ Given[c] \in Seq(Answers)
         /\ Len(Given[c]) = Len(got[c]) + Len(Replies(down[c]))
         /\ Len(got[c]) \in Nat /\ Len(Replies(down[c])) \in Nat
<1>1. got[c] \in Seq(Answers) /\ down[c] \in Seq(Answers)
  BY DEF TypeOK
<1>2. Replies(down[c]) \in Seq(Answers)
  BY <1>1, RepliesTyped
<1> QED
  BY <1>1, <1>2, ConcatProperties, LenProperties DEF Given

\* A step that gives nobody a reply, changes nobody's reading, and takes and
\* ends no request is none of the service.
LEMMA NothingServed ==
  ASSUME UNCHANGED <<asked, got, working, request, busy>>,
         \A c \in Peers : Replies(down'[c]) = Replies(down[c])
  PROVE  Serves
<1>1. Given' = Given
  BY DEF Given
<1> QED
  BY <1>1 DEF Serves, Service!serviceVars, Given

\* A connection with a frame that waits, or a command that runs, has more
\* frames sent than replies given.
LEMMA Waiting ==
  ASSUME Strong, NEW c \in Peers, link[c] = "open",
         working = c \/ (up[c] # <<>> /\ Head(up[c]) # Close)
  PROVE  Len(Given[c]) < asked[c]
<1>1. /\ TypeOK /\ ChannelOK(c) /\ up[c] \in Seq(Items)
      /\ Traffic(c) + Work(c) <= asked[c] + Ends(c)
  BY DEF Strong, TypeAndChannels, ChannelInv, TypeOK, OneReplyPerFrame
<1>2. Replies(down[c]) = down[c]
  BY <1>1, GivenTyped, RepliesOpen DEF ChannelOK
<1>3. /\ Len(got[c]) \in Nat /\ Len(down[c]) \in Nat /\ Len(up[c]) \in Nat
      /\ asked[c] \in Nat
  BY <1>1, Lengths
<1>4. Len(Given[c]) = Len(got[c]) + Len(down[c])
  BY <1>1, <1>2, GivenTyped
<1>5. Work(c) \in {0, 1} /\ (working = c => Work(c) = 1)
  BY DEF Work
<1>6. Ends(c) = (IF peer[c] = "closed" THEN 1 ELSE 0)
  BY DEF Ends
<1>7. peer[c] = "closed" => Len(up[c]) >= 1
  BY <1>1, EmptySeq DEF ChannelOK
<1>8. CASE working = c
  <2> DEFINE a == Len(got[c])  b == Len(down[c])  d == Len(up[c])
  <2>1. a + b + d + Work(c) <= asked[c] + Ends(c)
    BY <1>1 DEF Traffic
  <2> HIDE DEF a, b, d
  <2>2. a \in Nat /\ b \in Nat /\ d \in Nat /\ (peer[c] = "closed" => d >= 1)
    BY <1>3, <1>7 DEF a, b, d
  <2>3. a + b < asked[c]
    BY <1>3, <1>5, <1>6, <1>8, <2>1, <2>2
  <2> QED
    BY <1>4, <2>3 DEF a, b
<1>9. CASE up[c] # <<>> /\ Head(up[c]) # Close
  <2>1. Len(up[c]) >= 1 /\ Head(up[c]) = up[c][1]
    BY <1>1, <1>9, ChannelTail
  <2>2. peer[c] = "closed" => Len(up[c]) >= 2
    <3> SUFFICES ASSUME peer[c] = "closed" PROVE Len(up[c]) >= 2
      OBVIOUS
    <3>1. up[c][Len(up[c])] = Close
      BY <1>1 DEF ChannelOK
    <3>2. Len(up[c]) # 1
      BY <1>9, <2>1, <3>1, Zenon
    <3> DEFINE d == Len(up[c])
    <3>3. d \in Nat /\ d >= 1 /\ d # 1
      BY <1>3, <2>1, <3>2
    <3> HIDE DEF d
    <3>4. d >= 2
      BY <3>3
    <3> QED
      BY <3>4 DEF d
  <2> DEFINE a == Len(got[c])  b == Len(down[c])  d == Len(up[c])
  <2>3. a + b + d + Work(c) <= asked[c] + Ends(c)
    BY <1>1 DEF Traffic
  <2> HIDE DEF a, b, d
  <2>4. /\ a \in Nat /\ b \in Nat /\ d \in Nat /\ d >= 1
        /\ (peer[c] = "closed" => d >= 2)
    BY <1>3, <2>1, <2>2 DEF a, b, d
  <2>5. a + b < asked[c]
    BY <1>3, <1>5, <1>6, <2>3, <2>4
  <2> QED
    BY <1>4, <2>5 DEF a, b
<1> QED
  BY <1>8, <1>9

\* A reply on an open connection is given to its peer, and to no other.
LEMMA RespondGives ==
  ASSUME TypeAndChannels, NEW c \in Peers, NEW e \in Answers, e # Close,
         link[c] = "open", got' = got,
         down' = [down EXCEPT ![c] = Append(@, e)]
  PROVE  Given' = [Given EXCEPT ![c] = Append(@, e)]
<1>1. /\ got[c] \in Seq(Answers) /\ down[c] \in Seq(Answers)
      /\ \A i \in 1..Len(down[c]) : down[c][i] # Close
  BY DEF TypeAndChannels, TypeOK, ChannelInv, ChannelOK
<1>2. down'[c] = Append(down[c], e) /\ \A d \in Peers \ {c} : down'[d] = down[d]
  BY DEF TypeAndChannels, TypeOK
<1>3. got[c] \o Replies(down'[c]) = Append(got[c] \o Replies(down[c]), e)
  BY <1>1, <1>2, RepliesAppend
<1>4. \A d \in Peers : got'[d] \o Replies(down'[d])
                         = IF d = c THEN Append(Given[c], e) ELSE Given[d]
  <2> SUFFICES ASSUME NEW d \in Peers
               PROVE  got'[d] \o Replies(down'[d])
                        = IF d = c THEN Append(Given[c], e) ELSE Given[d]
    OBVIOUS
  <2>1. CASE d = c
    BY <1>3, <2>1, Zenon DEF Given
  <2>2. CASE d # c
    <3>1. down'[d] = down[d] /\ got'[d] = got[d]
      BY <1>2, <2>2
    <3>2. Given[d] = got[d] \o Replies(down[d])
      BY DEF Given
    <3> QED
      BY <2>2, <3>1, <3>2, Zenon
  <2> QED
    BY <2>1, <2>2
<1> QED
  BY <1>4, Zenon DEF Given

\* The end of a connection gives nobody anything.
LEMMA HangupGives ==
  ASSUME TypeAndChannels, NEW c \in Peers, Hangup(c), link[c] = "open"
  PROVE  \A d \in Peers : Replies(down'[d]) = Replies(down[d])
<1> SUFFICES ASSUME NEW d \in Peers PROVE Replies(down'[d]) = Replies(down[d])
  OBVIOUS
<1>1. d # c => down'[d] = down[d]
  BY DEF Hangup, TypeAndChannels, TypeOK
<1>2. ASSUME d = c PROVE Replies(down'[d]) = Replies(down[d])
  <2>1. down'[c] = Append(down[c], Close) /\ down[c] \in Seq(Answers)
    BY DEF Hangup, TypeAndChannels, TypeOK
  <2>2. Replies(down[c]) = down[c]
    BY <2>1, RepliesOpen DEF TypeAndChannels, ChannelInv, ChannelOK
  <2>3. Replies(Append(down[c], Close)) = down[c]
    BY <2>1, RepliesEnd
  <2> QED
    BY <1>2, <2>1, <2>2, <2>3
<1> QED
  BY <1>1, <1>2

\* At first nothing was asked and nothing is served.
LEMMA ServiceStarts == Init => Service!ServiceInit
<1> SUFFICES ASSUME Init PROVE Service!ServiceInit
  OBVIOUS
<1>1. \A c \in Peers : got[c] \o Replies(down[c]) = <<>>
  <2> SUFFICES ASSUME NEW c \in Peers PROVE got[c] \o Replies(down[c]) = <<>>
    OBVIOUS
  <2>1. got[c] = <<>> /\ Replies(down[c]) = <<>>
    BY DEF Init, Everywhere, Replies
  <2>2. <<>> \in Seq(Answers)
    BY EmptySeq
  <2> QED
    BY <2>1, <2>2, ConcatEmptySeq
<1> QED
  <2>1. Given = [c \in Peers |-> <<>>]
    BY <1>1, Zenon DEF Given
  <2> QED
    BY <2>1 DEF Init, Service!ServiceInit, Everywhere

\* The callback: a refusal, the start of a request, or nothing of the service.
LEMMA HandleServes ==
  ASSUME Strong, NEW c \in Peers, HandlePeer(c)
  PROVE  Serves
<1> USE DEF Strong, TypeAndChannels
<1>1. CASE Establish(c)
  BY <1>1, NothingServed DEF Establish, serverVars, historyVars
<1>2. CASE PeerInitiatedClose(c)
  BY <1>2, HangupGives, NothingServed
  DEF PeerInitiatedClose, serverVars, historyVars
<1>3. ASSUME NEW f \in Frames, RejectBusy(c, f) PROVE Serves
  <2> DEFINE e == [status |-> "BS", request |-> 0]
  <2>1. e \in Answers /\ e # Close
    BY CloseTyped
  <2>2. /\ link[c] = "open" /\ up[c] # <<>> /\ Head(up[c]) # Close
        /\ working = Nobody /\ busy
        /\ down' = [down EXCEPT ![c] = Append(@, e)]
        /\ UNCHANGED <<asked, got, working, request, busy>>
    BY <1>3 DEF RejectBusy, Receive, Free, Respond, historyVars
  <2> HIDE DEF e
  <2>3. Given' = [Given EXCEPT ![c] = Append(@, e)]
    BY <2>1, <2>2, RespondGives
  <2>4. Len(Given[c]) < asked[c]
    BY <2>2, Waiting
  <2> QED
    BY <2>2, <2>3, <2>4
    DEF Serves, Service!ServiceNext, Service!Refuse, Service!Unanswered, Given, e
<1>4. ASSUME NEW f \in Frames, CloseOnMagic(c, f) \/ CloseOnType(c, f)
      PROVE  Serves
  BY <1>4, HangupGives, NothingServed DEF CloseOnMagic, CloseOnType, Receive, historyVars
<1>5. ASSUME NEW f \in Frames, TakePrompt(c, f) PROVE Serves
  BY <1>5, NothingServed DEF TakePrompt, historyVars
<1>6. ASSUME NEW f \in Frames, StartCoding(c, f) PROVE Serves
  <2>1. /\ link[c] = "open" /\ up[c] # <<>> /\ Head(up[c]) # Close
        /\ working = Nobody /\ ~busy
        /\ working' = c /\ request' \in Nat /\ busy' = TRUE
        /\ UNCHANGED <<asked, got, down>>
    BY <1>6, FramesAssumption DEF StartCoding, Receive, Free, FrameType
  <2>2. Len(Given[c]) < asked[c]
    BY <2>1, Waiting
  <2>3. Given' = Given
    BY <2>1 DEF Given
  <2> QED
    BY <2>1, <2>2, <2>3
    DEF Serves, Service!ServiceNext, Service!Take, Service!Unanswered, Given
<1> QED
  BY <1>1, <1>2, <1>3, <1>4, <1>5, <1>6 DEF HandlePeer

\* The end of the command: the answer to the peer it ran for.
LEMMA FinishServes ==
  ASSUME Strong, FinishCoding
  PROVE  Serves
<1> USE DEF Strong, TypeAndChannels
<1>1. PICK c \in Peers : c = working
  BY DEF FinishCoding, TypeOK
<1> DEFINE e == [status |-> "SC", request |-> request]
<1>2. e \in Answers /\ e # Close
  BY CloseTyped DEF TypeOK
<1>3. /\ link[c] = "open" /\ working # Nobody
      /\ down' = [down EXCEPT ![c] = Append(@, e)]
      /\ working' = Nobody /\ request' = 0 /\ UNCHANGED <<asked, got, busy>>
  BY <1>1 DEF FinishCoding, Respond, ChannelInv, ChannelOK
<1> HIDE DEF e
<1>4. Given' = [Given EXCEPT ![c] = Append(@, e)]
  BY <1>2, <1>3, RespondGives
<1>5. Len(Given[c]) < asked[c]
  BY <1>1, <1>3, Waiting
<1> QED
  BY <1>1, <1>3, <1>4, <1>5
  DEF Serves, Service!ServiceNext, Service!Answer, Service!Unanswered, Given, e

\* When the server stops or dies, what was given to a peer and not read is cut
\* somewhere, or kept.
LEMMA DropGives ==
  ASSUME TypeAndChannels, NEW c \in Peers, NEW arrives \in BOOLEAN,
         DropAll(arrives)
  PROVE  /\ \/ Replies(down'[c]) = Replies(down[c])
            \/ ~arrives /\ Replies(down'[c]) = <<>>
<1>1. down'[c] = IF link[c] # "open" THEN down[c]
                 ELSE Append(IF arrives THEN down[c] ELSE <<>>, Close)
  BY DEF DropAll
<1>2. down[c] \in Seq(Answers) /\ <<>> \in Seq(Answers)
  BY EmptySeq DEF TypeAndChannels, TypeOK
<1>3. Replies(Append(down[c], Close)) = down[c] /\ Replies(Append(<<>>, Close)) = <<>>
  BY <1>2, RepliesEnd
<1>4. link[c] = "open" => Replies(down[c]) = down[c]
  BY <1>2, RepliesOpen DEF TypeAndChannels, ChannelInv, ChannelOK
<1> QED
  BY <1>1, <1>3, <1>4

\* What is left of it is a prefix, with all that was read.
LEMMA DropCuts ==
  ASSUME TypeAndChannels, NEW c \in Peers, NEW arrives \in BOOLEAN,
         DropAll(arrives), got' = got
  PROVE  \E n \in Len(got[c])..Len(Given[c]) : Given'[c] = SubSeq(Given[c], 1, n)
<1>1. /\ got[c] \in Seq(Answers) /\ Replies(down[c]) \in Seq(Answers)
      /\ Given[c] \in Seq(Answers)
      /\ Given[c] = got[c] \o Replies(down[c])
      /\ Given'[c] = got[c] \o Replies(down'[c])
      /\ Len(Given[c]) = Len(got[c]) + Len(Replies(down[c]))
      /\ Len(got[c]) \in Nat /\ Len(Replies(down[c])) \in Nat
  BY GivenTyped DEF Given, TypeAndChannels
<1> DEFINE n == Len(got[c])  r == Len(Replies(down[c]))  k == Len(Given[c])
<1>2. n \in Nat /\ r \in Nat /\ k = n + r
  BY <1>1
<1>3. k \in n..k /\ n \in n..k /\ n \in 0..k
  <2> HIDE DEF n, r, k
  <2> QED
    BY <1>2
<1>4. CASE Replies(down'[c]) = Replies(down[c])
  <2>1. Given'[c] = SubSeq(Given[c], 1, Len(Given[c]))
    BY <1>1, <1>4, SubSeqFull
  <2> QED
    BY <1>3, <2>1
<1>5. CASE Replies(down'[c]) = <<>>
  <2> DEFINE g == Given[c]
  <2>1. Given'[c] = got[c]
    BY <1>1, <1>5, ConcatEmptySeq
  <2>2. n \in n..Len(g) /\ n \in 0..Len(g)
    BY <1>3
  <2>3. SubSeq(g, 1, n) \in Seq(Answers) /\ Len(SubSeq(g, 1, n)) = n
    BY <1>1, <2>2, ChannelPrefix
  <2>4. \A i \in 1..n : SubSeq(g, 1, n)[i] = got[c][i]
    <3>1. \A i \in 1..n : g[i] = got[c][i]
      <4>1. \A i \in 1..n + r : g[i] = IF i <= n THEN got[c][i]
                                       ELSE Replies(down[c])[i - n]
        BY <1>1, ConcatProperties
      <4> HIDE DEF g, n, r, k
      <4> QED
        BY <1>2, <4>1
    <3>2. \A i \in 1..n : g[i] \in Answers
      BY <1>1, <3>1, ElementOfSeq
    <3> HIDE DEF g, n
    <3>3. n \in Int
      BY <2>2
    <3> QED
      BY <3>1, <3>2, <3>3, SubSeqProperties
  <2>5. got[c] = SubSeq(g, 1, n)
    BY <1>1, <2>3, <2>4, SeqEqual
  <2> QED
    BY <2>1, <2>2, <2>5
<1> QED
  BY <1>4, <1>5, DropGives

\* StopLoop loses nothing; a process that dies gives up its request.
LEMMA DropServes ==
  ASSUME Strong, StopLoop \/ Kill
  PROVE  Serves
<1> USE DEF Strong, TypeAndChannels
<1>1. CASE StopLoop
  BY <1>1, DropGives, NothingServed DEF StopLoop, historyVars
<1>2. CASE Kill
  <2>1. PICK arrives \in BOOLEAN : DropAll(arrives)
    BY <1>2 DEF Kill
  <2>2. /\ working' = Nobody /\ request' = 0
        /\ UNCHANGED <<asked, got, busy>>
    BY <1>2 DEF Kill, historyVars
  <2>3. \A c \in Peers :
          \E n \in Len(got[c])..Len(Given[c]) : Given'[c] = SubSeq(Given[c], 1, n)
    BY <2>1, <2>2, DropCuts
  <2> QED
    BY <2>2, <2>3 DEF Serves, Service!ServiceNext, Service!GoAway
<1> QED
  BY <1>1, <1>2

\* A server that is started again has no request, and takes one again.
LEMMA RestartServes ==
  ASSUME Strong, Restart
  PROVE  Serves
<1>1. working = Nobody
  <2> SUFFICES ASSUME working \in Peers PROVE FALSE
    BY DEF Strong, TypeAndChannels, TypeOK
  <2>1. ChannelOK(working)
    BY DEF Strong, TypeAndChannels, ChannelInv
  <2> QED
    BY <2>1 DEF ChannelOK, Restart
<1>2. busy' = FALSE /\ UNCHANGED <<asked, got, down, working, request>>
  BY DEF Restart, wireVars, historyVars
<1>3. Given' = Given
  BY <1>2 DEF Given
<1> QED
  BY <1>1, <1>2, <1>3
  DEF Serves, Service!ServiceNext, Service!StartAgain, Given

\* A reply that is read was given: the next one not read yet.
LEMMA ReceiveGives ==
  ASSUME TypeOK, NEW c \in Peers, PeerReceive(c)
  PROVE  /\ Given' = Given
         /\ Len(got[c]) < Len(Given[c])
         /\ got' = [got EXCEPT ![c] = Append(@, Given[c][Len(got[c]) + 1])]
<1> DEFINE h == Head(down[c])
<1>1. /\ down[c] # <<>> /\ h # Close
      /\ got' = [got EXCEPT ![c] = Append(@, h)]
      /\ down' = [down EXCEPT ![c] = Tail(@)]
  BY DEF PeerReceive
<1>2. got[c] \in Seq(Answers) /\ down[c] \in Seq(Answers)
  BY DEF TypeOK
<1>3. /\ Append(got[c], h) \o Replies(Tail(down[c])) = got[c] \o Replies(down[c])
      /\ Len(got[c]) < Len(Given[c])
      /\ Given[c][Len(got[c]) + 1] = h
  BY <1>1, <1>2, RepliesRead DEF Given
<1> HIDE DEF h
<1>4. /\ got'[c] = Append(got[c], h) /\ down'[c] = Tail(down[c])
      /\ \A d \in Peers \ {c} : got'[d] = got[d] /\ down'[d] = down[d]
  BY <1>1 DEF TypeOK
<1>5. \A d \in Peers : got'[d] \o Replies(down'[d]) = got[d] \o Replies(down[d])
  <2> SUFFICES ASSUME NEW d \in Peers
               PROVE  got'[d] \o Replies(down'[d]) = got[d] \o Replies(down[d])
    OBVIOUS
  <2>1. CASE d = c
    BY <1>3, <1>4, <2>1, Zenon
  <2>2. CASE d # c
    BY <1>4, <2>2
  <2> QED
    BY <2>1, <2>2
<1>6. Given' = Given
  BY <1>5, Zenon DEF Given
<1> QED
  BY <1>1, <1>3, <1>6

\* Peers ask, and read what they were given.
LEMMA PeerServes ==
  ASSUME Strong, NEW c \in Peers, Peer(c)
  PROVE  Serves
<1> USE DEF Strong, TypeAndChannels
<1>1. CASE PeerConnect(c) \/ ConnectFails(c) \/ PeerFindsClosed(c) \/ PeerClose(c)
  BY <1>1, NothingServed
  DEF PeerConnect, ConnectFails, PeerFindsClosed, PeerClose, serverVars,
      historyVars
<1>2. ASSUME NEW f \in Frames, PeerSend(c, f) PROVE Serves
  <2>1. /\ asked' = [asked EXCEPT ![c] = @ + 1]
        /\ UNCHANGED <<got, down, working, request, busy>>
    BY <1>2 DEF PeerSend, serverVars
  <2>2. Given' = Given
    BY <2>1 DEF Given
  <2> QED
    BY <2>1, <2>2 DEF Serves, Service!ServiceNext, Service!Ask
<1>3. CASE PeerReceive(c)
  <2>1. UNCHANGED <<asked, working, request, busy>>
    BY <1>3 DEF PeerReceive, serverVars
  <2> QED
    BY <1>3, <2>1, ReceiveGives
    DEF Serves, Service!ServiceNext, Service!Deliver
<1> QED
  BY <1>1, <1>2, <1>3 DEF Peer, PeerReads

\* Every step is one of CollabService, or none.
LEMMA ServiceStep == Strong /\ [Next]_vars => Serves
<1> SUFFICES ASSUME Strong, [Next]_vars PROVE Serves
  OBVIOUS
<1>1. CASE Server
  BY <1>1, HandleServes, FinishServes, DropServes DEF Server
<1>2. CASE Host
  <2>1. CASE Interrupt
    BY <2>1, NothingServed DEF Interrupt, wireVars, historyVars
  <2> QED
    BY <1>2, <2>1, DropServes, RestartServes DEF Host
<1>3. CASE UNCHANGED vars
  BY <1>3, NothingServed DEF vars, serverVars, wireVars, historyVars
<1> QED
  BY <1>1, <1>2, <1>3, PeerServes DEF Next

\* The server with its callbacks, channels and restarts does nothing that
\* CollabService does not allow: one request at a time and one in a life,
\* refusals only after it, replies in order and to the peer that asked.
THEOREM ServerImplementsService == Spec => ImplementsService
<1>1. Strong /\ [Next]_vars
        => [Service!ServiceNext]_Service!serviceVars
  BY ServiceStep DEF Serves
<1>2. Spec => [](TypeAndChannels /\ OneReplyPerFrame)
  BY TypeCorrect, RepliesNeedFrames, PTL DEF TypeAndChannels
<1> QED
  BY <1>1, <1>2, ServiceStarts, PTL
  DEF Spec, Strong, ImplementsService, Service!ServiceSpec

-----------------------------------------------------------------------------
(* No reply goes astray                                                    *)

Belongs(c) ==
  \A i \in DOMAIN Given[c] :
    LET n == Cardinality(SuccessesTo(Given[c], i))
    IN  Given[c][i].status = "SC"
          => n <= Len(accepted[c]) /\ Given[c][i].request = accepted[c][n]

\* The successes among some replies are finitely many, and at least one up to
\* a success.
LEMMA SuccessesCounted ==
  ASSUME NEW s, NEW i \in Nat
  PROVE  /\ IsFiniteSet(SuccessesTo(s, i))
         /\ Cardinality(SuccessesTo(s, i)) \in Nat
         /\ i >= 1 /\ s[i].status = "SC" => Cardinality(SuccessesTo(s, i)) >= 1
<1>1. IsFiniteSet(1..i)
  BY FS_Interval
<1>2. SuccessesTo(s, i) \subseteq 1..i
  BY DEF SuccessesTo
<1>3. IsFiniteSet(SuccessesTo(s, i)) /\ Cardinality(SuccessesTo(s, i)) \in Nat
  BY <1>1, <1>2, FS_Subset, FS_CardinalityType
<1>4. ASSUME i >= 1, s[i].status = "SC"
      PROVE  Cardinality(SuccessesTo(s, i)) >= 1
  <2>1. i \in SuccessesTo(s, i)
    BY <1>4 DEF SuccessesTo
  <2>2. Cardinality(SuccessesTo(s, i)) # 0
    BY <1>3, <2>1, FS_EmptySet
  <2> QED
    BY <1>3, <2>2
<1> QED
  BY <1>3, <1>4

\* Up to i, two sequences that agree have the same successes.
LEMMA SuccessesAgree ==
  ASSUME NEW s, NEW t, NEW i \in Nat, \A k \in 1..i : s[k] = t[k]
  PROVE  SuccessesTo(s, i) = SuccessesTo(t, i)
  BY DEF SuccessesTo

\* One more reply adds itself, if it is a success.
LEMMA SuccessesAppend ==
  ASSUME NEW s \in Seq(Answers), NEW e \in Answers
  PROVE  LET t == Append(s, e) IN
         /\ \A i \in 1..Len(s) : SuccessesTo(t, i) = SuccessesTo(s, i)
         /\ Cardinality(SuccessesTo(t, Len(t)))
              = Cardinality(SuccessesTo(s, Len(s)))
                  + (IF e.status = "SC" THEN 1 ELSE 0)
<1> DEFINE t == Append(s, e)  n == Len(s)
<1>1. /\ t \in Seq(Answers) /\ Len(t) = n + 1 /\ t[Len(t)] = e
      /\ \A i \in 1..n : t[i] = s[i]
      /\ n \in Nat
  BY ChannelAppend, LenProperties
<1> HIDE DEF t, n
<1>2. \A i \in 0..n : SuccessesTo(t, i) = SuccessesTo(s, i)
  <2> SUFFICES ASSUME NEW i \in 0..n PROVE SuccessesTo(t, i) = SuccessesTo(s, i)
    OBVIOUS
  <2>1. i \in Nat /\ \A k \in 1..i : t[k] = s[k]
    BY <1>1
  <2> QED
    BY <2>1, SuccessesAgree
<1>3. SuccessesTo(t, n + 1)
        = SuccessesTo(t, n) \cup (IF e.status = "SC" THEN {n + 1} ELSE {})
  <2>1. t[n + 1] = e
    BY <1>1
  <2>2. 1..n + 1 = 1..n \cup {n + 1}
    BY <1>1
  <2> QED
    BY <2>1, <2>2 DEF SuccessesTo
<1>4. n + 1 \notin SuccessesTo(t, n)
  BY <1>1 DEF SuccessesTo
<1>5. IsFiniteSet(SuccessesTo(t, n)) /\ Cardinality(SuccessesTo(t, n)) \in Nat
  BY <1>1, SuccessesCounted
<1>6. Cardinality(SuccessesTo(t, n + 1))
        = Cardinality(SuccessesTo(t, n)) + (IF e.status = "SC" THEN 1 ELSE 0)
  <2>1. CASE e.status = "SC"
    BY <1>3, <1>4, <1>5, <2>1, FS_AddElement
  <2>2. CASE e.status # "SC"
    <3>1. SuccessesTo(t, n + 1) = SuccessesTo(t, n)
      BY <1>3, <2>2
    <3> DEFINE m == Cardinality(SuccessesTo(t, n))
    <3>2. m \in Nat /\ m = m + 0
      BY <1>5
    <3> QED
      BY <2>2, <3>1, <3>2
  <2> QED
    BY <2>1, <2>2
<1>7. n \in 0..n /\ \A i \in 1..n : i \in 0..n
  BY <1>1
<1> QED
  BY <1>1, <1>2, <1>6, <1>7 DEF t, n

\* Replies that belong still do when some of the latest are lost and when more
\* requests were accepted.
LEMMA BelongsPrefix ==
  ASSUME TypeOK, NEW c \in Peers, Belongs(c),
         NEW n \in 0..Len(Given[c]), Given'[c] = SubSeq(Given[c], 1, n),
         \/ accepted'[c] = accepted[c]
         \/ \E r \in Nat : accepted'[c] = Append(accepted[c], r)
  PROVE  Belongs(c)'
<1> DEFINE g == Given[c]  h == Given'[c]
<1>1. g \in Seq(Answers) /\ Len(g) \in Nat /\ DOMAIN g = 1..Len(g)
  BY GivenTyped, LenProperties
<1>2. h \in Seq(Answers) /\ Len(h) = n /\ DOMAIN h = 1..n
  BY <1>1, ChannelPrefix, LenProperties
<1>3. \A k \in 1..n : h[k] = g[k]
  <2>1. n \in Int /\ \A k \in 1..n : g[k] \in Answers
    BY <1>1, ElementOfSeq
  <2> HIDE DEF g
  <2>2. h = SubSeq(g, 1, n)
    BY DEF g
  <2> HIDE DEF h
  <2> QED
    BY <2>1, <2>2, SubSeqProperties
<1>4. /\ Len(accepted'[c]) >= Len(accepted[c]) /\ Len(accepted[c]) \in Nat
      /\ Len(accepted'[c]) \in Nat
      /\ \A k \in 1..Len(accepted[c]) : accepted'[c][k] = accepted[c][k]
  <2>1. accepted[c] \in Seq(Nat) /\ Len(accepted[c]) \in Nat
    BY LenProperties DEF TypeOK
  <2>2. CASE accepted'[c] = accepted[c]
    BY <2>1, <2>2
  <2>3. CASE \E r \in Nat : accepted'[c] = Append(accepted[c], r)
    BY <2>1, <2>3, ChannelAppend
  <2> QED
    BY <2>2, <2>3
<1>5. \A i \in DOMAIN g : g[i].status = "SC" =>
        LET m == Cardinality(SuccessesTo(g, i))
        IN  m <= Len(accepted[c]) /\ g[i].request = accepted[c][m]
  BY DEF Belongs
<1> HIDE DEF g, h
<1>6. ASSUME NEW i \in DOMAIN h, h[i].status = "SC"
      PROVE  LET m == Cardinality(SuccessesTo(h, i))
             IN  m <= Len(accepted'[c]) /\ h[i].request = accepted'[c][m]
  <2> DEFINE m == Cardinality(SuccessesTo(g, i))
  <2>1. i \in Nat /\ i >= 1 /\ i \in 1..n /\ i \in DOMAIN g /\ h[i] = g[i]
    BY <1>1, <1>2, <1>3 DEF g
  <2>2. \A k \in 1..i : h[k] = g[k]
    BY <1>3, <2>1
  <2>3. SuccessesTo(h, i) = SuccessesTo(g, i)
    BY <2>1, <2>2, SuccessesAgree
  <2>4. m \in Nat /\ m >= 1
    BY <1>6, <2>1, SuccessesCounted
  <2>5. m <= Len(accepted[c]) /\ g[i].request = accepted[c][m]
    BY <1>5, <1>6, <2>1
  <2> HIDE DEF m
  <2>6. m <= Len(accepted'[c]) /\ h[i].request = accepted'[c][m]
    BY <1>4, <2>1, <2>4, <2>5
  <2> QED
    BY <2>3, <2>6 DEF m
<1> QED
  BY <1>6 DEF Belongs, h

\* A step that gives c nothing, takes none of its requests and ends no command
\* of it keeps the account of its replies.
LEMMA AnswersUntouched ==
  ASSUME TypeOK, NEW c \in Peers, Belongs(c), AnswersOK(c),
         Given'[c] = Given[c], accepted'[c] = accepted[c],
         link'[c] # "closed" => link[c] # "closed" /\ (working = c => working' = c),
         working' = c => working = c /\ request' = request
  PROVE  Belongs(c)' /\ AnswersOK(c)'
<1>1. Belongs(c)'
  BY DEF Belongs
<1>2. Settled(c)' = Settled(c)
  BY DEF Settled
<1>3. link'[c] # "closed" => Work(c)' = Work(c)
  BY DEF Work
<1>4. AnswersOK(c)'
  BY <1>2, <1>3 DEF AnswersOK
<1> QED
  BY <1>1, <1>4

\* A request that is accepted is the latest, and its command runs.
LEMMA AnswersTaken ==
  ASSUME TypeOK, NEW c \in Peers, Belongs(c), AnswersOK(c),
         Given'[c] = Given[c], link'[c] = link[c], link[c] = "open",
         working # c, working' = c, request' \in Nat,
         accepted'[c] = Append(accepted[c], request')
  PROVE  Belongs(c)' /\ AnswersOK(c)'
<1>1. Belongs(c)'
  <2>1. Given[c] \in Seq(Answers)
    BY GivenTyped
  <2>2. Len(Given[c]) \in 0..Len(Given[c]) /\ Given[c] = SubSeq(Given[c], 1, Len(Given[c]))
    BY <2>1, SubSeqFull, LenProperties
  <2> QED
    BY <2>2, BelongsPrefix
<1>2. Settled(c)' = Settled(c) /\ Work(c) = 0 /\ Work(c)' = 1
  BY DEF Settled, Work
<1>3. /\ accepted[c] \in Seq(Nat) /\ Len(accepted[c]) \in Nat
      /\ Len(accepted'[c]) = Len(accepted[c]) + 1
      /\ accepted'[c][Len(accepted'[c])] = request'
  <2>1. accepted[c] \in Seq(Nat)
    BY DEF TypeOK
  <2> QED
    BY <2>1, ChannelAppend, LenProperties
<1>4. Settled(c) + 0 = Len(accepted[c])
  BY <1>2 DEF AnswersOK
<1>5. Settled(c) \in Nat
  <2>1. Len(Given[c]) \in Nat
    BY GivenTyped, LenProperties
  <2> QED
    BY <2>1, SuccessesCounted DEF Settled
<1>6. Settled(c)' + Work(c)' = Len(accepted'[c])
  BY <1>2, <1>3, <1>4, <1>5
<1> QED
  BY <1>1, <1>3, <1>6 DEF AnswersOK

\* A reply belongs: a refusal counts for nothing, and a success is the one that
\* was owed, of the command that has ended.
LEMMA AnswersGiven ==
  ASSUME TypeOK, NEW c \in Peers, Belongs(c), AnswersOK(c), NEW e \in Answers,
         Given'[c] = Append(Given[c], e), accepted'[c] = accepted[c],
         link'[c] = link[c], link[c] = "open", working' # c,
         e.status = "SC" => working = c /\ e.request = request,
         e.status # "SC" => working # c
  PROVE  Belongs(c)' /\ AnswersOK(c)'
<1> DEFINE g == Given[c]  h == Given'[c]  a == accepted[c]
<1>1. g \in Seq(Answers) /\ Len(g) \in Nat /\ DOMAIN g = 1..Len(g)
  BY GivenTyped, LenProperties
<1>2. /\ h \in Seq(Answers) /\ Len(h) = Len(g) + 1 /\ h[Len(h)] = e
      /\ \A k \in 1..Len(g) : h[k] = g[k]
      /\ DOMAIN h = 1..Len(h)
  BY <1>1, ChannelAppend, LenProperties
<1>3. /\ \A i \in 1..Len(g) : SuccessesTo(h, i) = SuccessesTo(g, i)
      /\ Cardinality(SuccessesTo(h, Len(h)))
           = Cardinality(SuccessesTo(g, Len(g))) + (IF e.status = "SC" THEN 1 ELSE 0)
  BY <1>1, SuccessesAppend
<1>4. \A i \in DOMAIN g : g[i].status = "SC" =>
        LET m == Cardinality(SuccessesTo(g, i))
        IN  m <= Len(a) /\ g[i].request = a[m]
  BY DEF Belongs
<1>5. /\ Cardinality(SuccessesTo(g, Len(g))) + (IF e.status = "SC" THEN 1 ELSE 0)
           = Len(a)
      /\ working = c => request = a[Len(a)]
  BY DEF AnswersOK, Settled, Work
<1>6. Cardinality(SuccessesTo(h, Len(h))) = Len(a) /\ Len(a) \in Nat
  BY <1>3, <1>5, LenProperties DEF TypeOK
<1> HIDE DEF g, h, a
<1>7. ASSUME NEW i \in DOMAIN h, h[i].status = "SC"
      PROVE  LET m == Cardinality(SuccessesTo(h, i))
             IN  m <= Len(a) /\ h[i].request = a[m]
  <2>1. CASE i = Len(h)
    <3>1. h[i] = e
      BY <1>2, <2>1
    <3>2. h[i].request = a[Len(a)]
      BY <1>5, <1>7, <3>1
    <3> QED
      BY <1>6, <2>1, <3>2
  <2>2. CASE i # Len(h)
    <3>1. i \in 1..Len(g) /\ i \in DOMAIN g
      BY <1>1, <1>2, <2>2
    <3> QED
      BY <1>2, <1>3, <1>4, <1>7, <3>1
  <2> QED
    BY <2>1, <2>2
<1>8. Belongs(c)'
  BY <1>7 DEF Belongs, h, a
<1>9. Work(c)' = 0
  BY DEF Work
<1>10. Settled(c)' = Len(a)
  BY <1>6 DEF Settled, h
<1>11. Settled(c)' + Work(c)' = Len(a)
  BY <1>6, <1>9, <1>10
<1>12. AnswersOK(c)'
  BY <1>11 DEF AnswersOK, a
<1> QED
  BY <1>8, <1>12

\* The callback keeps the account of every peer.
LEMMA AnswersHandle ==
  ASSUME TypeAndChannels, NEW c \in Peers, Belongs(c), AnswersOK(c),
         NEW d \in Peers, HandlePeer(d)
  PROVE  Belongs(c)' /\ AnswersOK(c)'
<1> USE DEF TypeAndChannels
<1>1. got' = got /\ working = Nobody /\ working # c
  BY NobodyAssumption
  DEF HandlePeer, Establish, PeerInitiatedClose, RejectBusy, CloseOnMagic,
      TakePrompt, StartCoding, CloseOnType, Receive, Free, historyVars
<1>2. CASE d # c
  <2>1. /\ down'[c] = down[c] /\ link'[c] = link[c] /\ accepted'[c] = accepted[c]
        /\ working' # c
    BY <1>1, <1>2
    DEF HandlePeer, Establish, PeerInitiatedClose, RejectBusy, CloseOnMagic,
        TakePrompt, StartCoding, CloseOnType, Receive, Respond, Hangup,
        TypeOK, historyVars, serverVars
  <2>2. Given'[c] = Given[c]
    BY <1>1, <2>1 DEF Given
  <2> QED
    BY <1>1, <2>1, <2>2, AnswersUntouched
<1>3. ASSUME working' = working, accepted' = accepted,
             \A b \in Peers : Replies(down'[b]) = Replies(down[b]),
             link'[c] # "closed" => link[c] # "closed"
      PROVE  Belongs(c)' /\ AnswersOK(c)'
  <2>1. Given'[c] = Given[c]
    BY <1>1, <1>3 DEF Given
  <2> QED
    BY <1>1, <1>3, <2>1, AnswersUntouched
<1>4. CASE d = c /\ Establish(c)
  <2>1. link[c] = "none" /\ UNCHANGED <<working, accepted, down>>
    BY <1>4 DEF Establish, ChannelInv, ChannelOK, serverVars, historyVars
  <2> QED
    BY <1>3, <2>1
<1>5. CASE d = c /\ PeerInitiatedClose(c)
  <2>1. /\ Hangup(c) /\ link[c] = "open" /\ link'[c] = "closed"
        /\ UNCHANGED <<working, accepted>>
    BY <1>5 DEF PeerInitiatedClose, serverVars, historyVars, Hangup, TypeOK
  <2> QED
    BY <1>3, <2>1, HangupGives
<1>6. ASSUME d = c, NEW f \in Frames, CloseOnMagic(c, f) \/ CloseOnType(c, f)
      PROVE  Belongs(c)' /\ AnswersOK(c)'
  <2>1. /\ Hangup(c) /\ link[c] = "open" /\ link'[c] = "closed"
        /\ UNCHANGED <<working, accepted>>
    BY <1>6 DEF CloseOnMagic, CloseOnType, Receive, historyVars, Hangup, TypeOK
  <2> QED
    BY <1>3, <2>1, HangupGives
<1>7. ASSUME d = c, NEW f \in Frames, TakePrompt(c, f)
      PROVE  Belongs(c)' /\ AnswersOK(c)'
  BY <1>3, <1>7 DEF TakePrompt, historyVars
<1>8. ASSUME d = c, NEW f \in Frames, RejectBusy(c, f)
      PROVE  Belongs(c)' /\ AnswersOK(c)'
  <2> DEFINE e == [status |-> "BS", request |-> 0]
  <2>1. e \in Answers /\ e # Close /\ e.status # "SC"
    BY CloseTyped
  <2>2. /\ link[c] = "open" /\ link' = link
        /\ down' = [down EXCEPT ![c] = Append(@, e)]
        /\ UNCHANGED <<accepted, working>>
    BY <1>8 DEF RejectBusy, Receive, Respond, historyVars
  <2> HIDE DEF e
  <2>3. Given' = [Given EXCEPT ![c] = Append(@, e)]
    BY <1>1, <2>1, <2>2, RespondGives
  <2>4. Given'[c] = Append(Given[c], e)
    BY <2>3 DEF Given
  <2> QED
    BY <1>1, <2>1, <2>2, <2>4, AnswersGiven
<1>9. ASSUME d = c, NEW f \in Frames, StartCoding(c, f)
      PROVE  Belongs(c)' /\ AnswersOK(c)'
  <2>1. /\ link[c] = "open" /\ UNCHANGED <<link, down>>
        /\ working' = c /\ request' = f.request /\ f.request \in Nat
        /\ accepted'[c] = Append(accepted[c], request')
    BY <1>9, FramesAssumption DEF StartCoding, Receive, FrameType, TypeOK
  <2>2. Given'[c] = Given[c]
    BY <1>1, <2>1 DEF Given
  <2> QED
    BY <1>1, <2>1, <2>2, AnswersTaken
<1> QED
  BY <1>2, <1>4, <1>5, <1>6, <1>7, <1>8, <1>9 DEF HandlePeer

\* The end of a command settles the request it was started for.
LEMMA AnswersFinish ==
  ASSUME TypeAndChannels, NEW c \in Peers, Belongs(c), AnswersOK(c), FinishCoding
  PROVE  Belongs(c)' /\ AnswersOK(c)'
<1> USE DEF TypeAndChannels
<1>1. PICK d \in Peers : d = working
  BY DEF FinishCoding, TypeOK
<1> DEFINE e == [status |-> "SC", request |-> request]
<1>2. e \in Answers /\ e # Close /\ e.status = "SC" /\ e.request = request
  BY CloseTyped DEF TypeOK
<1>3. /\ link[d] = "open" /\ link' = link /\ accepted' = accepted
      /\ down' = [down EXCEPT ![d] = Append(@, e)]
      /\ got' = got /\ working' # c
  BY <1>1, NobodyAssumption DEF FinishCoding, Respond, ChannelInv, ChannelOK
<1> HIDE DEF e
<1>4. Given' = [Given EXCEPT ![d] = Append(@, e)]
  BY <1>2, <1>3, RespondGives
<1>5. CASE d = c
  <2>1. Given'[c] = Append(Given[c], e)
    BY <1>4, <1>5 DEF Given
  <2> QED
    BY <1>1, <1>2, <1>3, <1>5, <2>1, AnswersGiven
<1>6. CASE d # c
  <2>1. Given'[c] = Given[c]
    BY <1>4, <1>6 DEF Given
  <2> QED
    BY <1>1, <1>3, <1>6, <2>1, AnswersUntouched
<1> QED
  BY <1>5, <1>6

\* What is lost when the process ends are the latest replies, and no
\* connection of it is left.
LEMMA AnswersDrop ==
  ASSUME TypeAndChannels, NEW c \in Peers, Belongs(c), AnswersOK(c),
         StopLoop \/ Kill
  PROVE  Belongs(c)' /\ AnswersOK(c)'
<1> USE DEF TypeAndChannels
<1>1. PICK arrives \in BOOLEAN : DropAll(arrives)
  BY DEF StopLoop, Kill
<1>2. got' = got /\ accepted' = accepted /\ working' # c
  BY NobodyAssumption DEF StopLoop, Kill, historyVars
<1>3. CASE link[c] = "open"
  <2>1. PICK n \in Len(got[c])..Len(Given[c]) : Given'[c] = SubSeq(Given[c], 1, n)
    BY <1>1, <1>2, DropCuts
  <2>2. n \in 0..Len(Given[c])
    BY <2>1, GivenTyped
  <2>3. Belongs(c)'
    BY <1>2, <2>1, <2>2, BelongsPrefix
  <2>4. link'[c] = "closed"
    BY <1>1, <1>3 DEF DropAll
  <2> QED
    BY <1>2, <2>3, <2>4 DEF AnswersOK
<1>4. CASE link[c] # "open"
  <2>1. link'[c] = link[c] /\ down'[c] = down[c] /\ working # c
    BY <1>1, <1>4 DEF DropAll, ChannelInv, ChannelOK
  <2>2. Given'[c] = Given[c]
    BY <1>2, <2>1 DEF Given
  <2> QED
    BY <1>2, <2>1, <2>2, AnswersUntouched
<1> QED
  BY <1>3, <1>4

\* What peers do moves replies from the channel to what was read.
LEMMA AnswersPeer ==
  ASSUME TypeAndChannels, NEW c \in Peers, Belongs(c), AnswersOK(c),
         NEW d \in Peers, Peer(d)
  PROVE  Belongs(c)' /\ AnswersOK(c)'
<1> USE DEF TypeAndChannels
<1>1. UNCHANGED <<link, working, request, accepted>>
  BY DEF Peer, PeerReads, PeerConnect, ConnectFails, PeerSend, PeerReceive,
         PeerFindsClosed, PeerClose, serverVars, historyVars
<1>2. Given' = Given
  <2>1. CASE PeerReceive(d)
    BY <2>1, ReceiveGives
  <2>2. CASE ~PeerReceive(d)
    BY <2>2 DEF Peer, PeerReads, PeerConnect, ConnectFails, PeerSend,
                PeerFindsClosed, PeerClose, historyVars, Given
  <2> QED
    BY <2>1, <2>2
<1> QED
  BY <1>1, <1>2, AnswersUntouched

\* Every step keeps the account of every peer.
LEMMA AnswersStep ==
  TypeAndChannels /\ RepliesBelong /\ AnswersInv /\ [Next]_vars
    => RepliesBelong' /\ AnswersInv'
<1> SUFFICES ASSUME TypeAndChannels, [Next]_vars, NEW c \in Peers,
                    Belongs(c), AnswersOK(c)
             PROVE  Belongs(c)' /\ AnswersOK(c)'
  BY DEF RepliesBelong, AnswersInv, Belongs
<1>1. CASE Server
  BY <1>1, AnswersHandle, AnswersFinish, AnswersDrop DEF Server
<1>2. CASE Interrupt \/ UNCHANGED vars
  <2>1. UNCHANGED <<link, got, down, working, request, accepted>>
    BY <1>2 DEF Interrupt, vars, serverVars, wireVars, historyVars
  <2> QED
    BY <2>1, AnswersUntouched DEF Given, TypeAndChannels
<1>3. CASE Restart
  <2>1. UNCHANGED <<link, got, down, working, request, accepted>>
    BY <1>3 DEF Restart, wireVars, historyVars
  <2> QED
    BY <2>1, AnswersUntouched DEF Given, TypeAndChannels
<1>4. CASE Kill
  BY <1>4, AnswersDrop
<1>5. CASE \E d \in Peers : Peer(d)
  BY <1>5, AnswersPeer
<1> QED
  BY <1>1, <1>2, <1>3, <1>4, <1>5 DEF Next, Host

\* Whatever peers do while a command runs, and however connections and
\* processes end, the successes given to a connection are, in order, those of
\* the requests accepted from it.
THEOREM NoReplyAstray == Spec => []RepliesBelong
<1>1. Init => RepliesBelong /\ AnswersInv
  <2> SUFFICES ASSUME Init, NEW c \in Peers PROVE Belongs(c) /\ AnswersOK(c)
    BY DEF RepliesBelong, AnswersInv, Belongs
  <2>1. /\ got[c] = <<>> /\ Replies(down[c]) = <<>> /\ accepted[c] = <<>>
        /\ working # c
    BY NobodyAssumption DEF Init, Everywhere, Replies
  <2>2. Given[c] = <<>>
    <3>1. <<>> \in Seq(Answers)
      BY EmptySeq
    <3> QED
      BY <2>1, <3>1, ConcatEmptySeq DEF Given
  <2>3. SuccessesTo(Given[c], Len(Given[c])) = {}
    BY <2>2 DEF SuccessesTo
  <2>4. Settled(c) = 0 /\ Work(c) = 0 /\ Len(accepted[c]) = 0
    BY <2>1, <2>3, FS_EmptySet, EmptySeq DEF Settled, Work
  <2> QED
    BY <2>1, <2>2, <2>4 DEF Belongs, AnswersOK
<1> QED
  BY <1>1, TypeInit, TypeStep, AnswersStep, PTL DEF Spec
============================================================================
