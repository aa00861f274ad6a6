--------------------------- MODULE MCMailMonitor ---------------------------
(* Small instances of MailMonitor. *)
EXTENDS MailMonitor, TLC

\* Monitor slots and contents are interchangeable, and so are paths in a run
\* that may watch each of them or none.
MCSymmetry == Permutations(Monitors) \cup Permutations(Contents)
=============================================================================
