---------------------------- MODULE MailDelivery ----------------------------
(***************************************************************************)
(* What src/tool/iw-mailmon.c promises of its mails, without scans,        *)
(* records, threads and samples.  A file that appears adds at most one     *)
(* mail to those owed under its name, a process that starts owes at most   *)
(* one for every file it finds, and only a lost record adds another.  No   *)
(* mail leaves that is not owed, and it carries what has the name at that  *)
(* moment.  A mail that is owed is not bound to its file: when that one    *)
(* goes unmailed it may be given up, or be sent of the next file of the    *)
(* name, which is then mailed once for itself and once for the other.      *)
(***************************************************************************)
EXTENDS Naturals

CONSTANTS Paths, Contents, Nothing

VARIABLES
  disk,         \* disk[p]: content of the file at p, or Nothing
  mailed,       \* mailed[p]: contents that left as an attachment named p
  owed,         \* owed[p]: mails the process may still send of what is at p
  faults        \* failures met

deliveryVars == <<disk, mailed, owed, faults>>

\* At most one mail for every file there is.
Owing == {o \in [Paths -> {0, 1}] : \A p \in Paths : disk[p] = Nothing => o[p] = 0}

DeliveryInit ==
  /\ disk \in [Paths -> Contents \cup {Nothing}]
  /\ mailed = [p \in Paths |-> {}]
  /\ owed \in Owing /\ faults = 0

\* A file appears, and a mail is owed for it while somebody looks.
Appear(p) ==
  /\ disk[p] = Nothing
  /\ \E c \in Contents : disk' = [disk EXCEPT ![p] = c]
  /\ \E n \in {0, 1} : owed' = [owed EXCEPT ![p] = @ + n]
  /\ UNCHANGED <<mailed, faults>>

\* It is rewritten.
Change(p) ==
  /\ disk[p] # Nothing
  /\ \E c \in Contents : disk' = [disk EXCEPT ![p] = c]
  /\ UNCHANGED <<mailed, owed, faults>>

\* It goes, mailed or not, and at most one mail owed goes with it.
Go(p) ==
  /\ disk[p] # Nothing
  /\ disk' = [disk EXCEPT ![p] = Nothing]
  /\ \/ UNCHANGED owed
     \/ owed[p] > 0 /\ owed' = [owed EXCEPT ![p] = @ - 1]
  /\ UNCHANGED <<mailed, faults>>

\* What has the name is mailed as it is, or the attempt fails.
Mail(p) ==
  /\ owed[p] > 0
  /\ owed' = [owed EXCEPT ![p] = @ - 1]
  /\ \/ /\ disk[p] # Nothing
        /\ mailed' = [mailed EXCEPT ![p] = @ \cup {disk[p]}]
     \/ UNCHANGED mailed
  /\ faults' \in {faults, faults + 1}
  /\ UNCHANGED disk

\* Mails are given up: a file is found gone, a failure is met, a signal or the
\* end of the process comes.
GiveUp ==
  /\ owed' \in [Paths -> Nat]
  /\ \A p \in Paths : owed'[p] <= owed[p]
  /\ faults' \in faults..(faults + 2)
  /\ UNCHANGED <<disk, mailed>>

\* The record of a file is lost, which is then taken for a new one.
LoseRecord(p) ==
  /\ disk[p] # Nothing
  /\ owed' = [owed EXCEPT ![p] = @ + 1]
  /\ faults' = faults + 1
  /\ UNCHANGED <<disk, mailed>>

\* Another process takes over.
Begin ==
  /\ owed' \in Owing
  /\ UNCHANGED <<disk, mailed, faults>>

DeliveryNext ==
  \/ \E p \in Paths : Appear(p) \/ Change(p) \/ Go(p) \/ Mail(p) \/ LoseRecord(p)
  \/ GiveUp \/ Begin

DeliverySpec == DeliveryInit /\ [][DeliveryNext]_deliveryVars
=============================================================================
