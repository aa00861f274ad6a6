-------------------------- MODULE MCCollabClients --------------------------
(* Small instances of CollabClients: two coding clients that compete and a *)
(* ping client, or two other programs, which send coding requests, prompts *)
(* and what the ping client sends.                                         *)
EXTENDS CollabClients

CONSTANTS c1, c2, c3

MCFrames ==
  {FrameOf("coding"), FrameOf("ping"),
   [binary |-> TRUE, magic |-> TRUE, type |-> "PT", request |-> 1]}

MCCasts ==
  {[c \in Peers |-> IF c = c3 THEN "ping" ELSE "coding"],
   [c \in Peers |-> IF c = c3 THEN "none" ELSE "other"]}
=============================================================================
