---------------------------- MODULE MailMonitor ----------------------------
(***************************************************************************)
(* src/tool/iw-mailmon.c: a scanner (the main thread) lists a directory    *)
(* tree every half second and starts one detached monitor thread for every *)
(* file it has no record of.  A monitor hashes its file until three        *)
(* consecutive samples agree, mails the file and removes it.  Other        *)
(* programs create, rewrite and delete the files at any moment.            *)
(*                                                                         *)
(* The list of records is shared by reference but only the main thread     *)
(* reads or writes it, so each use of it is one step.  A hash is injective *)
(* on the contents of an instance, so it is modelled by the content read.  *)
(***************************************************************************)
EXTENDS Naturals, FiniteSets

CONSTANTS
  Paths,          \* full paths of the regular files below the watched directory
  Contents,       \* what a file may hold
  Monitors,       \* thread slots: the most threads the host lets run at once
  Nothing,        \* no file, no hash, no path
  Targets,        \* what the program may be told to watch: the directory
                  \* (Nothing) or one file
  Events,         \* what happens around the program: see EventKinds
  MaxEvents,      \* bound: how many such events
  MaxFaults,      \* bound: failed allocations, thread starts, sends, removals
  MaxRestarts     \* bound: times the program is started again

EventKinds == {"create", "rewrite", "delete", "lock", "signal", "kill"}

ASSUME MonitorsAssumption == IsFiniteSet(Monitors)
ASSUME NothingAssumption == Nothing \notin Paths \cup Contents
ASSUME TargetsAssumption == Targets \subseteq Paths \cup {Nothing}
ASSUME EventsAssumption  == Events \subseteq EventKinds
ASSUME BoundsAssumption  ==
  MaxEvents \in Nat /\ MaxFaults \in Nat /\ MaxRestarts \in Nat

\* verify_and_process leaves its loop at the third equal sample in a row.
Required == 3

VARIABLES
  disk,           \* disk[p]: content of the file at p, or Nothing
  unreadable,     \* paths whose fopen fails although the file exists
  running,        \* g_running
  scanner,        \* where main stands
  pending,        \* entries or records the current pass has still to look at
  tracked,        \* paths recorded in g_tracked_list
  pc,             \* pc[m]: where monitor m stands in verify_and_process
  file,           \* file[m]: task->filepath
  last,           \* last[m]: last_md5
  matches,        \* matches[m]: consecutive_matches
  mailed,         \* mailed[p]: contents that left as an attachment named p
  events, faults, restarts,  \* how much of each bound is used
  \* history of the current process, read by properties only
  born,           \* born[p]: files that have existed at p since it started
  spawned,        \* spawned[p]: monitors started for p
  unrecorded,     \* unrecorded[p]: records of p lost to a failed malloc
  unstarted,      \* unstarted[p]: records of p whose monitor did not start
  copies,         \* copies[p]: calls of goo_mail_send with the file now at p
  extra,          \* extra[p]: monitors that file may have beside its own, of
                  \* earlier files of its name or for records of it that were lost
  seen            \* seen[m]: results of the last Required samples of m

fileVars    == <<disk, unreadable>>
scanVars    == <<running, scanner, pending, tracked>>
monitorVars == <<pc, file, last, matches>>
boundVars   == <<events, faults, restarts>>
historyVars == <<born, spawned, unrecorded, unstarted, copies, extra, seen>>
vars == <<fileVars, scanVars, monitorVars, mailed, boundVars, historyVars>>

Exists(p) == disk[p] # Nothing
Live      == {m \in Monitors : pc[m] # "idle"}
Idle      == Monitors \ Live

\* Monitors of p that may still send it; each does so at most once.
Unsent(p) ==
  {m \in Monitors : file[m] = p /\ pc[m] \in {"test", "hash", "sleep", "send"}}

\* The process is gone: main has returned, or the process was killed.
Exited == scanner = "exited"

\* Something fails n times in this step.
Fault(n) == faults + n <= MaxFaults /\ faults' = faults + n

Event(kind) ==
  /\ kind \in Events
  /\ events < MaxEvents
  /\ events' = events + 1
  /\ UNCHANGED <<faults, restarts>>

Zero     == [p \in Paths |-> 0]
NoSample == [i \in 1..Required |-> Nothing]

-----------------------------------------------------------------------------
(* The program starts.  It is given the directory, or one existing file    *)
(* that main then verifies itself, in the thread it is ("inline" is that   *)
(* thread's slot, none when its malloc fails).                             *)

StartModes ==
  [scanner : {"top"}, target : Targets \cap {Nothing}, inline : {{}}]
    \cup [scanner : {"inline"}, target : {p \in Targets \cap Paths : Exists(p)},
          inline : {{m} : m \in Monitors} \cup {{}}]

Init ==
  /\ disk \in [Paths -> Contents \cup {Nothing}]
  /\ unreadable = {}
  /\ mailed = [p \in Paths |-> {}]
  /\ events = 0 /\ faults = 0 /\ restarts = 0
  /\ running = TRUE
  /\ pending = {} /\ tracked = {}
  /\ \E mode \in StartModes :
       /\ scanner = mode.scanner
       /\ pc = [m \in Monitors |-> IF m \in mode.inline THEN "test" ELSE "idle"]
       /\ file = [m \in Monitors |-> mode.target]
       /\ spawned = [p \in Paths |-> IF p = mode.target THEN 1 ELSE 0]
  /\ last = [m \in Monitors |-> Nothing]
  /\ matches = [m \in Monitors |-> 0]
  /\ born = [p \in Paths |-> IF Exists(p) THEN 1 ELSE 0]
  /\ unrecorded = Zero /\ unstarted = Zero /\ copies = Zero /\ extra = Zero
  /\ seen = [m \in Monitors |-> NoSample]

\* Mutant: the files found at a restart are taken for handled ones.
RestartKnowsFiles ==
  /\ Exited
  /\ restarts < MaxRestarts
  /\ restarts' = restarts + 1
  /\ running' = TRUE
  /\ pending' = {} /\ tracked' = {p \in Paths : Exists(p)}
  /\ scanner' = "top"
  /\ born' = [p \in Paths |-> IF Exists(p) THEN 1 ELSE 0]
  /\ spawned' = Zero /\ unrecorded' = Zero /\ unstarted' = Zero
  /\ copies' = Zero /\ extra' = Zero
  /\ UNCHANGED <<fileVars, monitorVars, mailed, events, faults, seen>>

Restart ==
  /\ Exited
  /\ restarts < MaxRestarts
  /\ restarts' = restarts + 1
  /\ running' = TRUE
  /\ pending' = {} /\ tracked' = {}
  /\ \E mode \in StartModes :
       /\ scanner' = mode.scanner
       /\ pc' = [m \in Monitors |-> IF m \in mode.inline THEN "test" ELSE "idle"]
       /\ file' = [m \in Monitors |-> mode.target]
       /\ spawned' = [p \in Paths |-> IF p = mode.target THEN 1 ELSE 0]
  /\ last' = [m \in Monitors |-> Nothing]
  /\ matches' = [m \in Monitors |-> 0]
  /\ born' = [p \in Paths |-> IF Exists(p) THEN 1 ELSE 0]
  /\ unrecorded' = Zero /\ unstarted' = Zero /\ copies' = Zero /\ extra' = Zero
  /\ seen' = [m \in Monitors |-> NoSample]
  /\ UNCHANGED <<fileVars, mailed, events, faults>>

\* All threads end with the process.
ProcessEnds ==
  /\ scanner' = "exited"
  /\ pending' = {} /\ tracked' = {}
  /\ pc' = [m \in Monitors |-> "idle"]
  /\ UNCHANGED <<fileVars, running, file, last, matches, mailed, historyVars>>

-----------------------------------------------------------------------------
(* The scanner                                                             *)

\* Mutant: the loop never looks at g_running.
OpenDirAlways ==
  /\ scanner = "top"
  /\ scanner' = "scan" /\ pending' = Paths
  /\ UNCHANGED <<fileVars, running, tracked, monitorVars, mailed,
                 boundVars, historyVars>>

\* scan_directory_recursive: opendir.  Any name may still come out of
\* readdir; one that is gone when its turn comes fails stat.
OpenDir ==
  /\ scanner = "top" /\ running
  /\ scanner' = "scan"
  /\ \/ pending' = Paths /\ UNCHANGED faults
     \/ pending' = {} /\ Fault(1)
  /\ UNCHANGED <<fileVars, running, tracked, monitorVars, mailed,
                 events, restarts, historyVars>>

\* The entry is gone, or spawn_monitor_task finds its record.
SkipEntry(p) ==
  /\ scanner = "scan" /\ p \in pending
  /\ ~Exists(p) \/ p \in tracked
  /\ pending' = pending \ {p}
  /\ UNCHANGED <<fileVars, running, scanner, tracked, monitorVars, mailed,
                 boundVars, historyVars>>

\* spawn_monitor_task of an unrecorded file: the record and the thread may
\* each fail to come about, and nothing undoes the one when the other fails.
\* A thread cannot start when the host's limit is reached.
SpawnMonitor(p, recorded, started) ==
  /\ scanner = "scan" /\ p \in pending
  /\ Exists(p) /\ p \notin tracked
  /\ pending' = pending \ {p}
  /\ tracked' = IF recorded THEN tracked \cup {p} ELSE tracked
  /\ Fault((IF recorded THEN 0 ELSE 1)
           + (IF started = {} /\ Idle # {} THEN 1 ELSE 0))
  /\ pc' = [m \in Monitors |-> IF m \in started THEN "test" ELSE pc[m]]
  /\ file' = [m \in Monitors |-> IF m \in started THEN p ELSE file[m]]
  /\ last' = [m \in Monitors |-> IF m \in started THEN Nothing ELSE last[m]]
  /\ matches' = [m \in Monitors |-> IF m \in started THEN 0 ELSE matches[m]]
  /\ seen' = [m \in Monitors |-> IF m \in started THEN NoSample ELSE seen[m]]
  /\ spawned' = IF started = {} THEN spawned
                ELSE [spawned EXCEPT ![p] = @ + 1]
  /\ unrecorded' = IF recorded THEN unrecorded
                   ELSE [unrecorded EXCEPT ![p] = @ + 1]
  /\ unstarted' = IF started = {} THEN [unstarted EXCEPT ![p] = @ + 1]
                  ELSE unstarted
  /\ extra' = IF recorded THEN extra ELSE [extra EXCEPT ![p] = @ + 1]
  /\ UNCHANGED <<fileVars, running, scanner, mailed, events, restarts,
                 born, copies>>

\* closedir, then cleanup_deleted_tracked starts at the head of the list.
StartSweep ==
  /\ scanner = "scan" /\ pending = {}
  /\ scanner' = "sweep"
  /\ pending' = tracked
  /\ UNCHANGED <<fileVars, running, tracked, monitorVars, mailed,
                 boundVars, historyVars>>

\* Mutant: a record is dropped without a look at its file.
SweepAny(p) ==
  /\ scanner = "sweep" /\ p \in pending
  /\ pending' = pending \ {p}
  /\ tracked' = tracked \ {p}
  /\ UNCHANGED <<fileVars, running, scanner, monitorVars, mailed,
                 boundVars, historyVars>>

\* One record of cleanup_deleted_tracked: dropped when its file is gone.
Sweep(p) ==
  /\ scanner = "sweep" /\ p \in pending
  /\ pending' = pending \ {p}
  /\ tracked' = IF Exists(p) THEN tracked ELSE tracked \ {p}
  /\ UNCHANGED <<fileVars, running, scanner, monitorVars, mailed,
                 boundVars, historyVars>>

\* usleep, and back to the loop's condition.
EndPass ==
  /\ scanner = "sweep" /\ pending = {}
  /\ scanner' = "top"
  /\ UNCHANGED <<fileVars, running, pending, tracked, monitorVars, mailed,
                 boundVars, historyVars>>

\* The loop ends: main frees the records while monitors still run.
FreeRecords ==
  /\ scanner = "top" /\ ~running
  /\ scanner' = "leaving"
  /\ tracked' = {}
  /\ UNCHANGED <<fileVars, running, pending, monitorVars, mailed,
                 boundVars, historyVars>>

\* main returns: no monitor is joined.
MainReturns ==
  /\ \/ scanner = "leaving"
     \/ scanner = "inline" /\ Live = {}
  /\ ProcessEnds
  /\ UNCHANGED boundVars

Scanner ==
  \/ OpenDir \/ StartSweep \/ EndPass \/ FreeRecords \/ MainReturns
  \/ \E p \in Paths : SkipEntry(p) \/ Sweep(p)
  \/ \E p \in Paths, recorded \in BOOLEAN,
        started \in {{m} : m \in Idle} \cup {{}} :
       SpawnMonitor(p, recorded, started)

-----------------------------------------------------------------------------
(* A monitor thread                                                        *)

\* Mutant: the file must be readable (access with R_OK) for the loop to go on.
TestReadable(m) ==
  /\ pc[m] = "test"
  /\ pc' = [pc EXCEPT ![m] =
              IF running /\ Exists(file[m]) /\ file[m] \notin unreadable
              THEN "hash" ELSE "idle"]
  /\ UNCHANGED <<fileVars, scanVars, file, last, matches, mailed,
                 boundVars, historyVars>>

\* The loop's condition and the access check at the head of its body.
TestFile(m) ==
  /\ pc[m] = "test"
  /\ pc' = [pc EXCEPT ![m] = IF running /\ Exists(file[m]) THEN "hash" ELSE "idle"]
  /\ UNCHANGED <<fileVars, scanVars, file, last, matches, mailed,
                 boundVars, historyVars>>

\* What calculate_md5 gives: the content's hash, or Nothing when it fails.
Sample(p) == IF p \in unreadable THEN Nothing ELSE disk[p]

\* Mutant: a failed read leaves the count and the hash as they were.
HashWithoutReset(m) ==
  LET s     == Sample(file[m])
      count == IF s \in {Nothing, last[m]}
               THEN matches[m] + (IF s = Nothing THEN 0 ELSE 1) ELSE 1
  IN /\ pc[m] = "hash"
     /\ last' = [last EXCEPT ![m] = IF s = Nothing THEN @ ELSE s]
     /\ matches' = [matches EXCEPT ![m] = count]
     /\ pc' = [pc EXCEPT ![m] = IF count = Required THEN "send" ELSE "sleep"]
     /\ seen' = [seen EXCEPT ![m] =
                   [i \in 1..Required |-> IF i < Required THEN @[i + 1] ELSE s]]
     /\ UNCHANGED <<fileVars, scanVars, file, mailed, boundVars,
                    born, spawned, unrecorded, unstarted, copies, extra>>

\* Mutant: the loop is left one sample late.
HashOnceMore(m) ==
  LET s     == Sample(file[m])
      count == IF s = Nothing THEN 0
               ELSE IF s = last[m] THEN matches[m] + 1 ELSE 1
  IN /\ pc[m] = "hash"
     /\ last' = [last EXCEPT ![m] = s]
     /\ matches' = [matches EXCEPT ![m] = count]
     /\ pc' = [pc EXCEPT ![m] = IF count > Required THEN "send" ELSE "sleep"]
     /\ seen' = [seen EXCEPT ![m] =
                   [i \in 1..Required |-> IF i < Required THEN @[i + 1] ELSE s]]
     /\ UNCHANGED <<fileVars, scanVars, file, mailed, boundVars,
                    born, spawned, unrecorded, unstarted, copies, extra>>

\* calculate_md5 and the three-way test on its result.
HashFile(m) ==
  LET s     == Sample(file[m])
      count == IF s = Nothing THEN 0
               ELSE IF s = last[m] THEN matches[m] + 1 ELSE 1
  IN /\ pc[m] = "hash"
     /\ last' = [last EXCEPT ![m] = s]
     /\ matches' = [matches EXCEPT ![m] = count]
     /\ pc' = [pc EXCEPT ![m] = IF count = Required THEN "send" ELSE "sleep"]
     /\ seen' = [seen EXCEPT ![m] =
                   [i \in 1..Required |-> IF i < Required THEN @[i + 1] ELSE s]]
     /\ UNCHANGED <<fileVars, scanVars, file, mailed, boundVars,
                    born, spawned, unrecorded, unstarted, copies, extra>>

Wake(m) ==
  /\ pc[m] = "sleep"
  /\ pc' = [pc EXCEPT ![m] = "test"]
  /\ UNCHANGED <<fileVars, scanVars, file, last, matches, mailed,
                 boundVars, historyVars>>

\* process_file: goo_mail_send reads the file itself.  It fails when it
\* cannot, or for a reason of the mail server; process_file goes on.
SendMail(m) ==
  LET p == file[m] IN
  /\ pc[m] = "send"
  /\ pc' = [pc EXCEPT ![m] = "remove"]
  /\ \/ /\ Sample(p) # Nothing
        /\ mailed' = [mailed EXCEPT ![p] = @ \cup {disk[p]}]
        /\ UNCHANGED faults
     \/ /\ Fault(IF Sample(p) = Nothing THEN 0 ELSE 1)
        /\ UNCHANGED mailed
  /\ copies' = IF Exists(p) THEN [copies EXCEPT ![p] = @ + 1] ELSE copies
  /\ UNCHANGED <<fileVars, scanVars, file, last, matches, events, restarts,
                 born, spawned, unrecorded, unstarted, extra, seen>>

\* Mutant: the thread returns without removing the file.
ReturnOnly(m) ==
  /\ pc[m] = "remove"
  /\ pc' = [pc EXCEPT ![m] = "idle"]
  /\ UNCHANGED <<fileVars, scanVars, file, last, matches, mailed,
                 boundVars, historyVars>>

\* remove, whatever file is there by now; then the thread returns.
RemoveFile(m) ==
  LET p == file[m] IN
  /\ pc[m] = "remove"
  /\ pc' = [pc EXCEPT ![m] = "idle"]
  /\ \/ /\ disk' = [disk EXCEPT ![p] = Nothing]
        /\ unreadable' = unreadable \ {p}
        /\ UNCHANGED faults
     \/ Exists(p) /\ Fault(1) /\ UNCHANGED fileVars
  /\ UNCHANGED <<scanVars, file, last, matches, mailed, events, restarts,
                 historyVars>>

Monitor(m) ==
  TestFile(m) \/ HashFile(m) \/ Wake(m) \/ SendMail(m) \/ RemoveFile(m)

-----------------------------------------------------------------------------
(* Other programs, and signals                                             *)

CreateFile(p) ==
  /\ ~Exists(p) /\ Event("create")
  /\ \E c \in Contents : disk' = [disk EXCEPT ![p] = c]
  /\ born' = [born EXCEPT ![p] = @ + 1]
  /\ copies' = [copies EXCEPT ![p] = 0]
  /\ extra' = [extra EXCEPT ![p] = Cardinality(Unsent(p))]
  /\ UNCHANGED <<unreadable, scanVars, monitorVars, mailed, spawned,
                 unrecorded, unstarted, seen>>

RewriteFile(p) ==
  /\ Exists(p) /\ Event("rewrite")
  /\ \E c \in Contents \ {disk[p]} : disk' = [disk EXCEPT ![p] = c]
  /\ UNCHANGED <<unreadable, scanVars, monitorVars, mailed, historyVars>>

DeleteFile(p) ==
  /\ Exists(p) /\ Event("delete")
  /\ disk' = [disk EXCEPT ![p] = Nothing]
  /\ unreadable' = unreadable \ {p}
  /\ UNCHANGED <<scanVars, monitorVars, mailed, historyVars>>

\* A writer takes the file for itself, or gives it back.
LockFile(p) ==
  /\ Exists(p) /\ Event("lock")
  /\ unreadable' = IF p \in unreadable THEN unreadable \ {p}
                   ELSE unreadable \cup {p}
  /\ UNCHANGED <<disk, scanVars, monitorVars, mailed, historyVars>>

\* sig_handler on SIGINT or SIGTERM.
Signal ==
  /\ ~Exited /\ running /\ Event("signal")
  /\ running' = FALSE
  /\ UNCHANGED <<fileVars, scanner, pending, tracked, monitorVars, mailed,
                 historyVars>>

\* SIGKILL, or the host goes down.
Kill ==
  /\ ~Exited /\ Event("kill")
  /\ ProcessEnds

Outside ==
  \/ Signal \/ Kill
  \/ \E p \in Paths :
       CreateFile(p) \/ RewriteFile(p) \/ DeleteFile(p) \/ LockFile(p)

Next == Scanner \/ Restart \/ Outside \/ \E m \in Monitors : Monitor(m)

Spec == Init /\ [][Next]_vars

\* The host runs every thread that can run.
Fairness == WF_vars(Scanner) /\ \A m \in Monitors : WF_vars(Monitor(m))

FairSpec == Spec /\ Fairness

\* Whoever keeps the program running starts it again when it is gone.
SupervisedSpec == FairSpec /\ WF_vars(Restart)
-----------------------------------------------------------------------------
(* What must hold                                                          *)

\* Every variable has its type and every bound is kept.
TypeOK ==
  /\ disk \in [Paths -> Contents \cup {Nothing}]
  /\ unreadable \subseteq Paths
  /\ running \in BOOLEAN
  /\ scanner \in {"top", "scan", "sweep", "leaving", "inline", "exited"}
  /\ pending \subseteq Paths /\ tracked \subseteq Paths
  /\ pc \in [Monitors -> {"idle", "test", "hash", "sleep", "send", "remove"}]
  /\ file \in [Monitors -> Paths \cup {Nothing}]
  /\ \A m \in Live : file[m] \in Paths
  /\ last \in [Monitors -> Contents \cup {Nothing}]
  /\ matches \in [Monitors -> 0..Required]
  /\ mailed \in [Paths -> SUBSET Contents]
  /\ events \in 0..MaxEvents /\ faults \in 0..MaxFaults
  /\ restarts \in 0..MaxRestarts
  /\ born \in [Paths -> Nat] /\ spawned \in [Paths -> Nat]
  /\ unrecorded \in [Paths -> Nat] /\ unstarted \in [Paths -> Nat]
  /\ copies \in [Paths -> Nat] /\ extra \in [Paths -> Nat]
  /\ seen \in [Monitors -> [1..Required -> Contents \cup {Nothing}]]

\* A file gets no second monitor from its record: a process starts at most as
\* many monitors for a path as files existed there, however deletions and
\* creations fall between its scans and sweeps, except for records that a
\* failed malloc lost.  How many are alive at one file is MailedOncePerFile's.
OneMonitorPerFile ==
  \A p \in Paths : spawned[p] <= born[p] + unrecorded[p]

\* A file is mailed once, and once more only for each monitor of an earlier file
\* of its name that outlived that file, asleep or at its samples while the file
\* was deleted and this one created, and for each record of it that was lost.
\* While it is there, the mails made of it and the monitors that may still mail
\* it are together no more than that.
MailedOncePerFile ==
  \A p \in Paths :
    Exists(p) => copies[p] + Cardinality(Unsent(p)) <= 1 + extra[p]

\* process_file is reached only with the last three samples read, equal, and
\* the file's hash those samples gave: an unreadable moment starts the count
\* again.
StableWhenMailed ==
  \A m \in Monitors : pc[m] = "send" =>
    \A i \in 1..Required : seen[m][i] = last[m] /\ last[m] # Nothing

\* A recorded file has someone at work on it.  While the program runs, a
\* recorded file that is there, the first of its name, and has not been mailed
\* has a monitor that will, unless that could not be started: no deletion,
\* rewrite, or lock makes a monitor give it up, nor does any failure elsewhere.
TrackedMeansMonitored ==
  \A p \in tracked :
    Exists(p) /\ running /\ copies[p] = 0 /\ unstarted[p] = 0 /\ born[p] = 1
      => Unsent(p) # {}

\* A readable file does not stay: it is mailed and removed, deleted by
\* someone, or followed by another of its name, unless the program ends.
NothingLingers ==
  \A p \in Paths :
    []<>(~Exists(p) \/ p \in unreadable \/ born[p] > 1 \/ Exited)

\* After SIGINT or SIGTERM the program ends, with scans and monitors anywhere.
SignalEnds == ~running ~> Exited

\* The comment above cleanup_deleted_tracked: a later file of the same name
\* triggers again.  So no readable file stays for ever.
Retriggers ==
  \A p \in Paths : []<>(~Exists(p) \/ p \in unreadable \/ Exited)

\* What the program removes was mailed ("send the mail and delete").
RemovedWasMailed ==
  [][\A m \in Monitors :
       pc[m] = "remove" /\ pc'[m] = "idle" /\ disk'[file[m]] # disk[file[m]]
         => disk[file[m]] \in mailed[file[m]]]_vars

\* Every content put there and left alone is mailed, also when the process is
\* killed anywhere and started again.
MailedDespiteKills ==
  \A p \in Paths, c \in Contents : disk[p] = c ~> c \in mailed[p]

\* A process that scans still owes a monitor to a file it has not recorded.
Scanning == scanner \in {"top", "scan", "sweep"}
Unwatched(p) == Scanning /\ Exists(p) /\ p \notin tracked

\* The mails that may still be sent of what is at p: one by each monitor that
\* has not sent its own, one by the monitor that is still to be started.
Owed(p) == Cardinality(Unsent(p)) + (IF Unwatched(p) THEN 1 ELSE 0)

\* Scans, records, threads and samples come to the mails of MailDelivery: a
\* file that appears adds one to those owed under its name, at most, a lost
\* record one more, and every call of goo_mail_send is one that was owed.
Delivery == INSTANCE MailDelivery WITH owed <- [p \in Paths |-> Owed(p)]
ImplementsDelivery == Delivery!DeliverySpec

-----------------------------------------------------------------------------
(* Why it holds: the inductive invariant of MailMonitorProofs              *)

\* A monitor still in its loop has counted fewer than Required samples, and
\* one that has left it to send has counted exactly that many.
CountInv ==
  \A m \in Monitors :
    /\ pc[m] \in {"test", "hash", "sleep"} => matches[m] < Required
    /\ pc[m] = "send" => matches[m] = Required

\* What a live monitor has counted are its latest samples, all equal to its
\* last hash.
SampleInv ==
  \A m \in Live :
    /\ matches[m] > 0 => last[m] # Nothing
    /\ \A i \in 1..Required : i + matches[m] > Required => seen[m][i] = last[m]

\* A process that scans has started no monitor yet for the latest file of a
\* path if it has not recorded it.
RecordInv ==
  \A p \in Paths :
    /\ spawned[p] <= born[p] + unrecorded[p]
    /\ Unwatched(p) => spawned[p] < born[p] + unrecorded[p]

\* The monitor that is still to be started for a file counts as one that may
\* still send it.
MailInv ==
  \A p \in Paths : Exists(p) => copies[p] + Owed(p) <= 1 + extra[p]

\* A file that is there, or was recorded, was born.
BornInv == \A p \in Paths : Exists(p) \/ p \in tracked => born[p] > 0
=============================================================================
