--------------------------- MODULE MCCollabServer ---------------------------
(* Small instances of CollabServer. *)
EXTENDS CollabServer, TLC

Frame(type, id) ==
  [binary |-> TRUE, magic |-> TRUE, type |-> type, request |-> id]

MCCoding  == {Frame("CD", 1), Frame("CD", 2)}
MCForeign == {[binary |-> FALSE, magic |-> FALSE, type |-> "other", request |-> 0]}

\* Two coding requests, a prompt, a type the server does not serve, and a
\* text frame that does not begin with the magic number.
MCAllFrames == MCCoding \cup {Frame("PT", 1), Frame("other", 1)} \cup MCForeign

MCFewFrames == {Frame("CD", 1), Frame("PT", 1)} \cup MCForeign

MCSymmetry == Permutations(Peers)
=============================================================================
