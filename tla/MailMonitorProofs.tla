------------------------- MODULE MailMonitorProofs -------------------------
(***************************************************************************)
(* Proofs that MailMonitor has its type invariant and its safety           *)
(* invariants for every set of paths, contents and monitor slots and for   *)
(* every bound.                                                            *)
(***************************************************************************)
EXTENDS MailMonitor, FiniteSetTheorems, TLAPS

USE DEF Required

\* The monitors of a path that may still send are finitely many.
LEMMA UnsentFinite ==
  ASSUME NEW p
  PROVE  IsFiniteSet(Unsent(p)) /\ Cardinality(Unsent(p)) \in Nat
<1>1. Unsent(p) \in SUBSET Monitors
  BY DEF Unsent
<1>2. IsFiniteSet(Unsent(p))
  BY <1>1, MonitorsAssumption, FS_Subset
<1> QED
  BY <1>2, FS_CardinalityType

\* The types together with the counting of equal samples, which keeps
\* consecutive_matches within its range, are inductive.
TypeInv == TypeOK /\ CountInv

\* Every variable has its type when the program starts.
LEMMA TypeInit == Init => TypeInv
  BY NothingAssumption, TargetsAssumption, BoundsAssumption
  DEF Init, TypeInv, TypeOK, CountInv, StartModes, Zero, NoSample, Live, Exists

\* Every step of the main thread keeps the types.
LEMMA TypeScanner == TypeInv /\ Scanner => TypeInv'
<1> SUFFICES ASSUME TypeInv, Scanner PROVE TypeInv'
  OBVIOUS
<1> USE BoundsAssumption DEF TypeInv, TypeOK, CountInv, Live
<1>1. CASE OpenDir
  BY <1>1 DEF OpenDir, Fault, fileVars, monitorVars, historyVars
<1>2. ASSUME NEW p \in Paths, SkipEntry(p) PROVE TypeInv'
  BY <1>2 DEF SkipEntry, fileVars, monitorVars, historyVars, boundVars
<1>3. ASSUME NEW p \in Paths, NEW recorded \in BOOLEAN,
             NEW started \in {{m} : m \in Idle} \cup {{}},
             SpawnMonitor(p, recorded, started)
      PROVE TypeInv'
  <2>1. started \subseteq Monitors
    BY DEF Idle
  <2>2. NoSample \in [1..Required -> Contents \cup {Nothing}]
    BY DEF NoSample
  <2>3. /\ pc' \in [Monitors -> {"idle", "test", "hash", "sleep", "send", "remove"}]
        /\ file' \in [Monitors -> Paths \cup {Nothing}]
        /\ last' \in [Monitors -> Contents \cup {Nothing}]
        /\ matches' \in [Monitors -> 0..Required]
        /\ seen' \in [Monitors -> [1..Required -> Contents \cup {Nothing}]]
    BY <1>3, <2>2 DEF SpawnMonitor
  <2>4. /\ spawned' \in [Paths -> Nat]
        /\ unrecorded' \in [Paths -> Nat]
        /\ unstarted' \in [Paths -> Nat]
        /\ extra' \in [Paths -> Nat]
    BY <1>3 DEF SpawnMonitor
  <2>5. (\A m \in Live : file[m] \in Paths)' /\ CountInv'
    BY <1>3 DEF SpawnMonitor
  <2>6. faults' \in 0..MaxFaults
    BY <1>3 DEF SpawnMonitor, Fault
  <2> QED
    BY <1>3, <2>3, <2>4, <2>5, <2>6 DEF SpawnMonitor, fileVars
<1>4. CASE StartSweep
  BY <1>4 DEF StartSweep, fileVars, monitorVars, historyVars, boundVars
<1>5. ASSUME NEW p \in Paths, Sweep(p) PROVE TypeInv'
  BY <1>5 DEF Sweep, fileVars, monitorVars, historyVars, boundVars
<1>6. CASE EndPass
  BY <1>6 DEF EndPass, fileVars, monitorVars, historyVars, boundVars
<1>7. CASE FreeRecords
  BY <1>7 DEF FreeRecords, fileVars, monitorVars, historyVars, boundVars
<1>8. CASE MainReturns
  BY <1>8 DEF MainReturns, ProcessEnds, fileVars, historyVars, boundVars
<1> QED
  BY <1>1, <1>2, <1>3, <1>4, <1>5, <1>6, <1>7, <1>8 DEF Scanner

\* Every step of a monitor thread keeps them.
LEMMA TypeMonitor ==
  ASSUME NEW m \in Monitors, TypeInv, Monitor(m) PROVE TypeInv'
<1> USE BoundsAssumption DEF TypeInv, TypeOK, CountInv, Live
<1>1. CASE TestFile(m)
  BY <1>1 DEF TestFile, fileVars, scanVars, historyVars, boundVars
<1>2. CASE HashFile(m)
  <2> DEFINE s     == Sample(file[m])
             count == IF s = Nothing THEN 0
                      ELSE IF s = last[m] THEN matches[m] + 1 ELSE 1
  <2>1. s \in Contents \cup {Nothing}
    BY <1>2 DEF HashFile, Sample
  <2>2. count \in 0..Required
    BY <1>2 DEF HashFile
  <2>3. seen' \in [Monitors -> [1..Required -> Contents \cup {Nothing}]]
    <3>1. [i \in 1..Required |-> IF i < Required THEN seen[m][i + 1] ELSE s]
            \in [1..Required -> Contents \cup {Nothing}]
      BY <2>1
    <3> QED
      BY <1>2, <3>1 DEF HashFile
  <2>4. CountInv'
    BY <1>2, <2>2 DEF HashFile
  <2> QED
    BY <1>2, <2>1, <2>2, <2>3, <2>4 DEF HashFile, fileVars, scanVars, boundVars
<1>3. CASE Wake(m)
  BY <1>3 DEF Wake, fileVars, scanVars, historyVars, boundVars
<1>4. CASE SendMail(m)
  <2>1. mailed' \in [Paths -> SUBSET Contents]
    BY <1>4 DEF SendMail, Sample
  <2>2. faults' \in 0..MaxFaults
    BY <1>4 DEF SendMail, Fault
  <2>3. copies' \in [Paths -> Nat]
    BY <1>4 DEF SendMail
  <2>4. pc' \in [Monitors -> {"idle", "test", "hash", "sleep", "send", "remove"}]
    BY <1>4 DEF SendMail
  <2>5. (\A n \in Live : file[n] \in Paths)' /\ CountInv'
    BY <1>4 DEF SendMail
  <2> QED
    BY <1>4, <2>1, <2>2, <2>3, <2>4, <2>5 DEF SendMail, fileVars, scanVars
<1>5. CASE RemoveFile(m)
  <2>1. faults' \in 0..MaxFaults
    BY <1>5 DEF RemoveFile, Fault
  <2> QED
    BY <1>5, <2>1 DEF RemoveFile, fileVars, scanVars, historyVars
<1> QED
  BY <1>1, <1>2, <1>3, <1>4, <1>5 DEF Monitor

\* A new process keeps them.
LEMMA TypeRestart == TypeInv /\ Restart => TypeInv'
<1> SUFFICES ASSUME TypeInv, Restart PROVE TypeInv'
  OBVIOUS
<1> USE BoundsAssumption DEF TypeInv, TypeOK, CountInv, Live
<1>1. PICK mode \in StartModes :
        /\ scanner' = mode.scanner
        /\ pc' = [m \in Monitors |-> IF m \in mode.inline THEN "test" ELSE "idle"]
        /\ file' = [m \in Monitors |-> mode.target]
        /\ spawned' = [p \in Paths |-> IF p = mode.target THEN 1 ELSE 0]
  BY DEF Restart
<1>2. /\ mode.scanner \in {"top", "inline"}
      /\ mode.target \in Paths \cup {Nothing}
      /\ mode.inline # {} => mode.target \in Paths
  BY TargetsAssumption DEF StartModes
<1>3. /\ scanner' \in {"top", "inline"}
      /\ pc' \in [Monitors -> {"idle", "test"}]
      /\ file' \in [Monitors -> Paths \cup {Nothing}]
      /\ spawned' \in [Paths -> Nat]
      /\ (\A m \in Live : file[m] \in Paths)'
  BY <1>1, <1>2
<1>4. CountInv'
  BY <1>3 DEF Restart
<1> QED
  BY <1>3, <1>4 DEF Restart, Zero, NoSample, fileVars

\* Other users of the files, the signal and the kill keep them.
LEMMA TypeOutside == TypeInv /\ Outside => TypeInv'
<1> SUFFICES ASSUME TypeInv, Outside PROVE TypeInv'
  OBVIOUS
<1> USE BoundsAssumption DEF TypeInv, TypeOK, CountInv, Live, Event
<1>1. CASE Signal
  <2>1. /\ running' = FALSE /\ events' \in 0..MaxEvents
        /\ UNCHANGED <<faults, restarts, fileVars, scanner, pending, tracked,
                       monitorVars, mailed, historyVars>>
    BY <1>1 DEF Signal
  <2> QED
    BY <2>1 DEF fileVars, monitorVars, historyVars
<1>2. CASE Kill
  BY <1>2 DEF Kill, ProcessEnds, fileVars, historyVars
<1>3. ASSUME NEW p \in Paths, CreateFile(p) PROVE TypeInv'
  <2>1. extra' \in [Paths -> Nat]
    BY <1>3, UnsentFinite DEF CreateFile
  <2> QED
    BY <1>3, <2>1 DEF CreateFile, scanVars, monitorVars
<1>4. ASSUME NEW p \in Paths, RewriteFile(p) PROVE TypeInv'
  BY <1>4 DEF RewriteFile, scanVars, monitorVars, historyVars
<1>5. ASSUME NEW p \in Paths, DeleteFile(p) PROVE TypeInv'
  BY <1>5 DEF DeleteFile, scanVars, monitorVars, historyVars
<1>6. ASSUME NEW p \in Paths, LockFile(p) PROVE TypeInv'
  BY <1>6 DEF LockFile, scanVars, monitorVars, historyVars
<1> QED
  BY <1>1, <1>2, <1>3, <1>4, <1>5, <1>6 DEF Outside

\* Every step keeps the types.
LEMMA TypeStep == TypeInv /\ [Next]_vars => TypeInv'
<1> SUFFICES ASSUME TypeInv, [Next]_vars PROVE TypeInv'
  OBVIOUS
<1>1. CASE UNCHANGED vars
  BY <1>1 DEF TypeInv, TypeOK, CountInv, Live, vars, fileVars, scanVars,
              monitorVars, boundVars, historyVars
<1> QED
  BY <1>1, TypeScanner, TypeMonitor, TypeRestart, TypeOutside DEF Next

\* Every variable keeps its type, and every bound is kept.
THEOREM TypeCorrect == Spec => []TypeOK
<1>1. Spec => []TypeInv
  BY TypeInit, TypeStep, PTL DEF Spec
<1>2. TypeInv => TypeOK
  BY DEF TypeInv
<1> QED
  BY <1>1, <1>2, PTL

-----------------------------------------------------------------------------
(* What a monitor has counted when it sends                                *)

\* Every step keeps SampleInv: only the monitor counts its own samples.
LEMMA SampleStep == TypeInv /\ SampleInv /\ [Next]_vars => SampleInv'
<1> SUFFICES ASSUME TypeInv, SampleInv, [Next]_vars,
                    NEW m \in Monitors, pc'[m] # "idle"
             PROVE  /\ matches'[m] > 0 => last'[m] # Nothing
                    /\ \A i \in 1..Required :
                         i + matches'[m] > Required => seen'[m][i] = last'[m]
  BY DEF SampleInv, Live
<1> USE DEF TypeInv, TypeOK, SampleInv, Live
<1>1. CASE UNCHANGED <<pc, last, matches, seen>>
  BY <1>1
<1>2. CASE Scanner
  <2>1. ASSUME NEW p \in Paths, NEW recorded \in BOOLEAN,
               NEW started \in {{n} : n \in Idle} \cup {{}},
               SpawnMonitor(p, recorded, started)
        PROVE  \/ matches'[m] = 0
               \/ /\ pc'[m] = pc[m] /\ last'[m] = last[m]
                  /\ matches'[m] = matches[m] /\ seen'[m] = seen[m]
    BY <2>1 DEF SpawnMonitor
  <2>2. CASE MainReturns
    BY <2>2 DEF MainReturns, ProcessEnds
  <2>3. CASE OpenDir \/ StartSweep \/ EndPass \/ FreeRecords
             \/ \E p \in Paths : SkipEntry(p) \/ Sweep(p)
    BY <1>1, <2>3 DEF OpenDir, StartSweep, EndPass, FreeRecords, SkipEntry,
                      Sweep, monitorVars, historyVars
  <2> QED
    BY <1>2, <2>1, <2>2, <2>3 DEF Scanner
<1>3. CASE Restart
  BY <1>3 DEF Restart
<1>4. CASE Outside
  <2>1. CASE Kill
    BY <2>1 DEF Kill, ProcessEnds
  <2>2. CASE Signal
    BY <1>1, <2>2 DEF Signal, monitorVars, historyVars
  <2>3. CASE \E p \in Paths :
               CreateFile(p) \/ RewriteFile(p) \/ DeleteFile(p) \/ LockFile(p)
    BY <1>1, <2>3 DEF CreateFile, RewriteFile, DeleteFile, LockFile,
                      monitorVars, historyVars
  <2> QED
    BY <1>4, <2>1, <2>2, <2>3 DEF Outside
<1>5. ASSUME NEW n \in Monitors, Monitor(n)
      PROVE  /\ matches'[m] > 0 => last'[m] # Nothing
             /\ \A i \in 1..Required :
                  i + matches'[m] > Required => seen'[m][i] = last'[m]
  <2>1. CASE HashFile(n) /\ n = m
    <3>1. /\ last'[m] = Sample(file[m])
          /\ matches'[m] = IF Sample(file[m]) = Nothing THEN 0
                           ELSE IF Sample(file[m]) = last[m]
                                THEN matches[m] + 1 ELSE 1
          /\ \A i \in 1..Required :
               seen'[m][i] = IF i < Required THEN seen[m][i + 1]
                             ELSE Sample(file[m])
          /\ pc[m] # "idle"
      BY <2>1 DEF HashFile
    <3> QED
      BY <3>1
  <2>2. CASE HashFile(n) /\ n # m
    BY <2>2 DEF HashFile
  <2>3. CASE TestFile(n) \/ Wake(n) \/ SendMail(n) \/ RemoveFile(n)
    BY <2>3 DEF TestFile, Wake, SendMail, RemoveFile, historyVars
  <2> QED
    BY <1>5, <2>1, <2>2, <2>3 DEF Monitor
<1>6. CASE UNCHANGED vars
  BY <1>1, <1>6 DEF vars, monitorVars, historyVars
<1> QED
  BY <1>2, <1>3, <1>4, <1>5, <1>6 DEF Next

\* process_file is only reached after three equal, successful samples in a
\* row: the count is exact although a failed or different sample in between
\* starts it again, and although thread slots are used again and again.
THEOREM SendsAreStable == Spec => []StableWhenMailed
<1>1. Init => SampleInv
  BY DEF Init, SampleInv, Live
<1>2. TypeInv /\ SampleInv => StableWhenMailed
  BY DEF TypeInv, TypeOK, CountInv, SampleInv, StableWhenMailed, Live
<1> QED
  BY <1>1, <1>2, TypeInit, TypeStep, SampleStep, PTL DEF Spec

-----------------------------------------------------------------------------
(* Records and monitors                                                    *)

\* The counts of files born and of monitors started agree at the start.
LEMMA RecordInit == Init => RecordInv /\ BornInv
  BY NothingAssumption DEF Init, RecordInv, BornInv, StartModes, Zero, Exists,
                                     Unwatched, Scanning

\* They agree after every step of the main thread: a monitor starts for a file
\* without a record, or main gives the path up.
LEMMA RecordScanner ==
  TypeInv /\ RecordInv /\ BornInv /\ Scanner => RecordInv' /\ BornInv'
<1> SUFFICES ASSUME TypeInv, RecordInv, BornInv, Scanner
             PROVE  RecordInv' /\ BornInv'
  OBVIOUS
<1> USE DEF TypeInv, TypeOK, RecordInv, BornInv, Exists, Unwatched, Scanning
<1>1. ASSUME NEW p \in Paths, NEW recorded \in BOOLEAN,
             NEW started \in {{m} : m \in Idle} \cup {{}},
             SpawnMonitor(p, recorded, started)
      PROVE  RecordInv' /\ BornInv'
  <2>1. ASSUME NEW q \in Paths
        PROVE  /\ spawned'[q] = IF q = p /\ started # {}
                                THEN spawned[q] + 1 ELSE spawned[q]
               /\ unrecorded'[q] = IF q = p /\ ~recorded
                                   THEN unrecorded[q] + 1 ELSE unrecorded[q]
    BY <1>1 DEF SpawnMonitor
  <2>2. /\ scanner = "scan" /\ p \notin tracked /\ disk[p] # Nothing
        /\ UNCHANGED <<disk, scanner, born>>
        /\ tracked' = IF recorded THEN tracked \cup {p} ELSE tracked
    BY <1>1 DEF SpawnMonitor, fileVars
  <2> QED
    BY <2>1, <2>2
<1>2. ASSUME NEW p \in Paths, SkipEntry(p) \/ Sweep(p)
      PROVE  RecordInv' /\ BornInv'
  BY <1>2 DEF SkipEntry, Sweep, fileVars, historyVars
<1>3. CASE OpenDir \/ StartSweep \/ EndPass \/ FreeRecords
  BY <1>3 DEF OpenDir, StartSweep, EndPass, FreeRecords, fileVars, historyVars
<1>4. CASE MainReturns
  BY <1>4 DEF MainReturns, ProcessEnds, fileVars, historyVars
<1> QED
  BY <1>1, <1>2, <1>3, <1>4 DEF Scanner

\* They agree after every step.
LEMMA RecordStep ==
  TypeInv /\ RecordInv /\ BornInv /\ [Next]_vars => RecordInv' /\ BornInv'
<1> SUFFICES ASSUME TypeInv, RecordInv, BornInv, [Next]_vars
             PROVE  RecordInv' /\ BornInv'
  OBVIOUS
<1> USE DEF TypeInv, TypeOK, RecordInv, BornInv, Exists, Unwatched, Scanning
<1>1. CASE Restart
  <2>1. PICK mode \in StartModes :
          /\ scanner' = mode.scanner
          /\ spawned' = [p \in Paths |-> IF p = mode.target THEN 1 ELSE 0]
    BY <1>1 DEF Restart
  <2>2. \/ mode.scanner = "top" /\ mode.target = Nothing
        \/ mode.scanner = "inline" /\ disk[mode.target] # Nothing
    BY DEF StartModes
  <2> QED
    BY <1>1, <2>1, <2>2, NothingAssumption DEF Restart, Zero, fileVars
<1>2. CASE Outside
  <2>1. CASE Signal
    BY <2>1 DEF Signal, fileVars, historyVars
  <2>2. CASE Kill
    BY <2>2 DEF Kill, ProcessEnds, fileVars, historyVars
  <2>3. ASSUME NEW p \in Paths, CreateFile(p) PROVE RecordInv' /\ BornInv'
    BY <2>3 DEF CreateFile, scanVars
  <2>4. ASSUME NEW p \in Paths,
               RewriteFile(p) \/ DeleteFile(p) \/ LockFile(p)
        PROVE  RecordInv' /\ BornInv'
    BY <2>4, NothingAssumption
    DEF RewriteFile, DeleteFile, LockFile, scanVars, historyVars
  <2> QED
    BY <1>2, <2>1, <2>2, <2>3, <2>4 DEF Outside
<1>3. ASSUME NEW m \in Monitors, Monitor(m) PROVE RecordInv' /\ BornInv'
  BY <1>3 DEF Monitor, TestFile, HashFile, Wake, SendMail, RemoveFile,
              fileVars, scanVars, historyVars
<1>4. CASE UNCHANGED vars
  BY <1>4 DEF vars, fileVars, scanVars, historyVars
<1> QED
  BY <1>1, <1>2, <1>3, <1>4, RecordScanner DEF Next

\* A process starts at most one monitor per file, records lost to a failed
\* malloc apart: a record is only dropped when its file is gone, and a file
\* of that name that appears afterwards is another one.  (An earlier file's
\* monitor may still be alive then.)
THEOREM MonitorsMatchFiles == Spec => []OneMonitorPerFile
<1>1. RecordInv => OneMonitorPerFile
  BY DEF RecordInv, OneMonitorPerFile
<1> QED
  BY <1>1, TypeInit, TypeStep, RecordInit, RecordStep, PTL DEF Spec

-----------------------------------------------------------------------------
(* Recorded files are worked on                                            *)
\* Every step keeps TrackedMeansMonitored.
LEMMA WorkStep ==
  TypeInv /\ BornInv /\ TrackedMeansMonitored /\ [Next]_vars
    => TrackedMeansMonitored'
<1> SUFFICES ASSUME TypeInv, BornInv, TrackedMeansMonitored, [Next]_vars,
                    NEW p \in tracked', disk'[p] # Nothing, running',
                    copies'[p] = 0, unstarted'[p] = 0, born'[p] = 1
             PROVE  Unsent(p)' # {}
  BY DEF TrackedMeansMonitored, Exists
<1> USE DEF TypeInv, TypeOK, BornInv, TrackedMeansMonitored, Exists
<1>1. ASSUME UNCHANGED <<pc, file, copies, unstarted, born>>, running,
             p \in tracked, disk[p] # Nothing
      PROVE  Unsent(p)' # {}
  BY <1>1 DEF Unsent
<1>2. ASSUME NEW q \in Paths, NEW recorded \in BOOLEAN,
             NEW started \in {{m} : m \in Idle} \cup {{}},
             SpawnMonitor(q, recorded, started)
      PROVE  Unsent(p)' # {}
  <2>1. CASE p \in tracked
    <3>1. unstarted[p] = 0
      BY <1>2 DEF SpawnMonitor
    <3>2. UNCHANGED <<disk, running, born, copies>>
      BY <1>2 DEF SpawnMonitor, fileVars
    <3>3. PICK m \in Monitors : m \in Unsent(p)
      BY <2>1, <3>1, <3>2 DEF Unsent
    <3>4. m \notin started
      BY <3>3 DEF Idle, Live, Unsent
    <3> QED
      BY <1>2, <3>3, <3>4 DEF SpawnMonitor, Unsent
  <2>2. CASE p \notin tracked
    <3>1. p = q /\ started # {}
      BY <1>2, <2>2 DEF SpawnMonitor
    <3> QED
      BY <1>2, <3>1 DEF SpawnMonitor, Idle, Unsent
  <2> QED
    BY <2>1, <2>2
<1>3. CASE Scanner
  <2>1. CASE OpenDir \/ StartSweep \/ EndPass
    BY <1>1, <2>1
    DEF OpenDir, StartSweep, EndPass, fileVars, monitorVars, historyVars
  <2>2. CASE \E q \in Paths : SkipEntry(q) \/ Sweep(q)
    BY <1>1, <2>2 DEF SkipEntry, Sweep, fileVars, monitorVars, historyVars
  <2>3. CASE FreeRecords \/ MainReturns
    BY <2>3 DEF FreeRecords, MainReturns, ProcessEnds
  <2> QED
    BY <1>2, <1>3, <2>1, <2>2, <2>3 DEF Scanner
<1>4. CASE Restart
  BY <1>4 DEF Restart
<1>5. CASE Outside
  <2>1. CASE Signal
    BY <2>1 DEF Signal
  <2>2. CASE Kill
    BY <2>2 DEF Kill, ProcessEnds
  <2>3. ASSUME NEW q \in Paths, CreateFile(q)
        PROVE  Unsent(p)' # {}
    <3>1. q # p
      BY <2>3 DEF CreateFile, scanVars
    <3>2. /\ disk[p] # Nothing /\ copies[p] = 0 /\ born[p] = 1
          /\ UNCHANGED <<scanVars, monitorVars, unstarted>>
      BY <2>3, <3>1 DEF CreateFile
    <3> QED
      BY <3>2 DEF scanVars, monitorVars, Unsent
  <2>4. ASSUME NEW q \in Paths, RewriteFile(q) \/ DeleteFile(q) \/ LockFile(q)
        PROVE  Unsent(p)' # {}
    <3>1. disk[p] # Nothing /\ UNCHANGED <<scanVars, monitorVars, historyVars>>
      <4>1. CASE RewriteFile(q)
        BY <4>1 DEF RewriteFile
      <4>2. CASE DeleteFile(q)
        BY <4>2 DEF DeleteFile
      <4>3. CASE LockFile(q)
        BY <4>3 DEF LockFile
      <4> QED
        BY <2>4, <4>1, <4>2, <4>3
    <3> QED
      BY <1>1, <3>1 DEF scanVars, monitorVars, historyVars
  <2> QED
    BY <1>5, <2>1, <2>2, <2>3, <2>4 DEF Outside
<1>6. ASSUME NEW n \in Monitors, Monitor(n)
      PROVE  Unsent(p)' # {}
  <2>1. /\ UNCHANGED <<running, tracked, file, unstarted, born>>
        /\ disk[p] # Nothing
    BY <1>6 DEF Monitor, TestFile, HashFile, Wake, SendMail, RemoveFile,
                fileVars, scanVars, historyVars
  <2>2. file[n] \in Paths
    BY <1>6 DEF Monitor, TestFile, HashFile, Wake, SendMail, RemoveFile, Live
  <2>3. copies[p] = 0
    <3>1. CASE SendMail(n)
      BY <2>2, <3>1 DEF SendMail
    <3>2. CASE ~SendMail(n)
      BY <1>6, <3>2 DEF Monitor, TestFile, HashFile, Wake, RemoveFile, historyVars
    <3> QED
      BY <3>1, <3>2
  <2>4. PICK m \in Monitors : m \in Unsent(p)
    BY <2>1, <2>3 DEF Unsent
  <2>5. m \in Unsent(p)'
    <3>1. CASE TestFile(n)
      BY <2>1, <2>4, <3>1 DEF TestFile, Unsent
    <3>2. CASE HashFile(n) \/ Wake(n)
      BY <2>1, <2>4, <3>2 DEF HashFile, Wake, Unsent
    <3>3. CASE SendMail(n)
      BY <2>1, <2>2, <2>3, <2>4, <3>3 DEF SendMail, Unsent
    <3>4. CASE RemoveFile(n)
      BY <2>1, <2>4, <3>4 DEF RemoveFile, Unsent
    <3> QED
      BY <1>6, <3>1, <3>2, <3>3, <3>4 DEF Monitor
  <2> QED
    BY <2>5
<1>7. CASE UNCHANGED vars
  BY <1>1, <1>7 DEF vars, fileVars, scanVars, monitorVars, historyVars
<1> QED
  BY <1>3, <1>4, <1>5, <1>6, <1>7 DEF Next

\* A recorded file that was not mailed does not lose its monitor while the
\* program runs: rewrites, locks, sweeps, failures elsewhere, and other
\* monitors coming and going in their slots do not take it away.
THEOREM RecordedFilesAreMonitored == Spec => []TrackedMeansMonitored
<1>1. Init => TrackedMeansMonitored
  BY DEF Init, TrackedMeansMonitored
<1> QED
  BY <1>1, TypeInit, TypeStep, RecordInit, RecordStep, WorkStep, PTL DEF Spec

-----------------------------------------------------------------------------
(* Mails                                                                   *)

\* What is owed is a number.
LEMMA OwedNat == ASSUME NEW p PROVE Owed(p) \in Nat /\ Owed(p)' \in Nat
<1>1. Unsent(p)' \in SUBSET Monitors
  BY DEF Unsent
<1>2. Cardinality(Unsent(p)') \in Nat
  BY <1>1, MonitorsAssumption, FS_Subset, FS_CardinalityType
<1> QED
  BY <1>2, UnsentFinite DEF Owed

\* No more is owed when no monitor and no missing record is added.
LEMMA OwedShrinks ==
  ASSUME NEW p, Unsent(p)' \in SUBSET Unsent(p), Unwatched(p)' => Unwatched(p)
  PROVE  Owed(p)' <= Owed(p)
<1>1. Cardinality(Unsent(p)') <= Cardinality(Unsent(p))
  BY UnsentFinite, FS_Subset
<1>2. Cardinality(Unsent(p)') \in Nat /\ Cardinality(Unsent(p)) \in Nat
  BY UnsentFinite, FS_Subset, FS_CardinalityType
<1> QED
  BY <1>1, <1>2 DEF Owed

\* When a process starts, at most the monitor main runs itself is there.
LEMMA FreshUnsent ==
  ASSUME NEW S, NEW inline \in {{m} : m \in Monitors} \cup {{}},
         S \in SUBSET inline
  PROVE  Cardinality(S) \in {0, 1}
<1>1. S = {} \/ \E m : S = {m}
  OBVIOUS
<1> QED
  BY <1>1, FS_EmptySet, FS_Singleton

\* At the start one mail is owed for a file that is there, at most: by main
\* itself, which was given that file, or by the scans that are to come.
LEMMA OwedInit ==
  ASSUME Init, NEW p \in Paths
  PROVE  Owed(p) \in {0, 1} /\ (~Exists(p) => Owed(p) = 0)
<1>1. PICK mode \in StartModes :
        /\ scanner = mode.scanner
        /\ pc = [m \in Monitors |-> IF m \in mode.inline THEN "test" ELSE "idle"]
        /\ file = [m \in Monitors |-> mode.target]
  BY DEF Init
<1>2. Unsent(p) \in SUBSET mode.inline /\ (Unsent(p) # {} => p = mode.target)
  BY <1>1 DEF Unsent
<1>3. CASE mode.scanner = "top"
  <2>1. Unsent(p) = {}
    BY <1>2, <1>3 DEF StartModes
  <2> QED
    BY <2>1, FS_EmptySet DEF Owed, Unwatched
<1>4. CASE mode.scanner = "inline"
  <2>1. ~Unwatched(p)
    BY <1>1, <1>4 DEF Unwatched, Scanning
  <2>2. mode.inline \in {{m} : m \in Monitors} \cup {{}}
    BY DEF StartModes
  <2>3. Cardinality(Unsent(p)) \in {0, 1}
    BY <1>2, <2>2, FreshUnsent
  <2>4. ~Exists(p) => Unsent(p) = {}
    BY <1>2, <1>4 DEF StartModes
  <2> QED
    BY <2>1, <2>3, <2>4, FS_EmptySet DEF Owed
<1> QED
  BY <1>3, <1>4 DEF StartModes

\* So it is when it is started again.
LEMMA OwedRestart ==
  ASSUME Restart, NEW p \in Paths
  PROVE  Owed(p)' \in {0, 1} /\ (~Exists(p) => Owed(p)' = 0)
<1>1. PICK mode \in StartModes :
        /\ scanner' = mode.scanner
        /\ pc' = [m \in Monitors |-> IF m \in mode.inline THEN "test" ELSE "idle"]
        /\ file' = [m \in Monitors |-> mode.target]
  BY DEF Restart
<1>2. Unsent(p)' \in SUBSET mode.inline /\ (Unsent(p)' # {} => p = mode.target)
  BY <1>1 DEF Unsent
<1>3. CASE mode.scanner = "top"
  <2>1. Unsent(p)' = {}
    BY <1>2, <1>3 DEF StartModes
  <2>2. Exists(p)' = Exists(p)
    BY DEF Restart, Exists, fileVars
  <2> QED
    BY <2>1, <2>2, FS_EmptySet DEF Owed, Unwatched
<1>4. CASE mode.scanner = "inline"
  <2>1. ~Unwatched(p)'
    BY <1>1, <1>4 DEF Unwatched, Scanning
  <2>2. mode.inline \in {{m} : m \in Monitors} \cup {{}}
    BY DEF StartModes
  <2>3. Cardinality(Unsent(p)') \in {0, 1}
    BY <1>2, <2>2, FreshUnsent
  <2>4. ~Exists(p) => Unsent(p)' = {}
    BY <1>2, <1>4 DEF StartModes
  <2> QED
    BY <2>1, <2>3, <2>4, FS_EmptySet DEF Owed
<1> QED
  BY <1>3, <1>4 DEF StartModes

\* Steps that give no file another monitor, and none another record to come.
Quiet ==
  \/ OpenDir \/ StartSweep \/ EndPass \/ FreeRecords \/ MainReturns
  \/ Signal \/ Kill \/ UNCHANGED vars
  \/ \E p \in Paths : \/ SkipEntry(p) \/ Sweep(p)
                      \/ RewriteFile(p) \/ DeleteFile(p) \/ LockFile(p)
  \/ \E m \in Monitors : Monitor(m)

\* They leave what is owed as it is, or less.
LEMMA QuietOwes ==
  ASSUME TypeInv, Quiet, NEW p \in Paths
  PROVE  /\ Unsent(p)' \in SUBSET Unsent(p)
         /\ Unwatched(p)' => Unwatched(p)
         /\ extra' = extra
<1> USE DEF TypeInv, TypeOK
<1>1. ASSUME ProcessEnds
      PROVE  /\ Unsent(p)' \in SUBSET Unsent(p)
             /\ Unwatched(p)' => Unwatched(p)
             /\ extra' = extra
  BY <1>1 DEF ProcessEnds, Unsent, Unwatched, Scanning, historyVars
<1>2. CASE MainReturns \/ Kill
  BY <1>1, <1>2 DEF MainReturns, Kill
<1>3. CASE OpenDir \/ StartSweep \/ EndPass \/ FreeRecords \/ Signal
           \/ UNCHANGED vars
  BY <1>3 DEF OpenDir, StartSweep, EndPass, FreeRecords, Signal, vars, fileVars,
              scanVars, monitorVars, historyVars, Unsent, Unwatched, Scanning,
              Exists
<1>4. ASSUME NEW q \in Paths, SkipEntry(q) \/ Sweep(q)
      PROVE  /\ Unsent(p)' \in SUBSET Unsent(p)
             /\ Unwatched(p)' => Unwatched(p)
             /\ extra' = extra
  BY <1>4 DEF SkipEntry, Sweep, fileVars, monitorVars, historyVars, Unsent,
              Unwatched, Scanning, Exists
<1>5. ASSUME NEW q \in Paths, RewriteFile(q) \/ DeleteFile(q) \/ LockFile(q)
      PROVE  /\ Unsent(p)' \in SUBSET Unsent(p)
             /\ Unwatched(p)' => Unwatched(p)
             /\ extra' = extra
  <2>1. UNCHANGED <<scanVars, monitorVars, historyVars>> /\ (Exists(p)' => Exists(p))
    BY <1>5 DEF RewriteFile, DeleteFile, LockFile, Exists
  <2> QED
    BY <2>1 DEF scanVars, monitorVars, historyVars, Unsent, Unwatched, Scanning
<1>6. ASSUME NEW m \in Monitors, Monitor(m)
      PROVE  /\ Unsent(p)' \in SUBSET Unsent(p)
             /\ Unwatched(p)' => Unwatched(p)
             /\ extra' = extra
  <2>1. UNCHANGED <<scanVars, file, extra>> /\ (Exists(p)' => Exists(p))
    BY <1>6 DEF Monitor, TestFile, HashFile, Wake, SendMail, RemoveFile,
                fileVars, historyVars, Exists
  <2>2. Unsent(p)' \in SUBSET Unsent(p)
    BY <1>6, <2>1 DEF Monitor, TestFile, HashFile, Wake, SendMail, RemoveFile,
                      Unsent
  <2> QED
    BY <2>1, <2>2 DEF scanVars, Unwatched, Scanning
<1> QED
  BY <1>2, <1>3, <1>4, <1>5, <1>6 DEF Quiet

\* Every step is one of these, or starts a monitor, a process, or a file.
LEMMA StepKinds ==
  ASSUME [Next]_vars
  PROVE  \/ Quiet \/ Restart \/ \E p \in Paths : CreateFile(p)
         \/ \E p \in Paths, recorded \in BOOLEAN,
               started \in {{m} : m \in Idle} \cup {{}} :
              SpawnMonitor(p, recorded, started)
  BY DEF Next, Scanner, Outside, Quiet

\* A monitor that sends owes its mail no more.
LEMMA SendOwes ==
  ASSUME TypeInv, NEW m \in Monitors, SendMail(m), NEW p, p = file[m]
  PROVE  /\ p \in Paths /\ Owed(p) > 0
         /\ \A q \in Paths : Owed(q)' = IF q = p THEN Owed(q) - 1 ELSE Owed(q)
<1> USE DEF TypeInv, TypeOK
<1>1. p \in Paths
  BY DEF SendMail, Live
<1>2. UNCHANGED <<disk, scanner, tracked, file>>
  BY DEF SendMail, fileVars, scanVars
<1>3. ASSUME NEW q \in Paths PROVE Unwatched(q)' = Unwatched(q)
  BY <1>2 DEF Unwatched, Scanning, Exists
<1>4. Unsent(p)' = Unsent(p) \ {m} /\ m \in Unsent(p)
  BY <1>2 DEF SendMail, Unsent
<1>5. Cardinality(Unsent(p)') = Cardinality(Unsent(p)) - 1
  BY <1>4, UnsentFinite, FS_RemoveElement
<1>6. Cardinality(Unsent(p)) > 0
  BY <1>4, UnsentFinite, FS_EmptySet
<1>7. Owed(p)' = Owed(p) - 1 /\ Owed(p) > 0
  <2>1. CASE Unwatched(p)
    <3>1. Unwatched(p)'
      BY <1>1, <1>3, <2>1
    <3> QED
      BY <1>5, <1>6, <2>1, <3>1, UnsentFinite DEF Owed
  <2>2. CASE ~Unwatched(p)
    <3>1. ~Unwatched(p)'
      BY <1>1, <1>3, <2>2
    <3> QED
      BY <1>5, <1>6, <2>2, <3>1, UnsentFinite DEF Owed
  <2> QED
    BY <2>1, <2>2
<1>8. ASSUME NEW q \in Paths, q # p PROVE Owed(q)' = Owed(q)
  <2>1. Unsent(q)' = Unsent(q)
    BY <1>2, <1>8 DEF SendMail, Unsent
  <2> QED
    BY <1>3, <2>1 DEF Owed
<1> QED
  BY <1>1, <1>7, <1>8

\* A file that appears under p has the monitors that are still there, and the
\* one that is started for it if its predecessor's record goes first.
LEMMA CreateOwes ==
  ASSUME TypeInv, NEW p \in Paths, CreateFile(p)
  PROVE  /\ extra'[p] = Cardinality(Unsent(p)) /\ copies'[p] = 0
         /\ \E n \in {0, 1} : Owed(p)' = Cardinality(Unsent(p)) + n
         /\ Owed(p) = Cardinality(Unsent(p))
         /\ \A q \in Paths \ {p} :
              /\ Owed(q)' = Owed(q) /\ Exists(q)' = Exists(q)
              /\ copies'[q] = copies[q] /\ extra'[q] = extra[q]
<1> USE DEF TypeInv, TypeOK
<1>1. UNCHANGED <<scanner, tracked, pc, file>>
  BY DEF CreateFile, scanVars, monitorVars
<1>2. ASSUME NEW q \in Paths PROVE Unsent(q)' = Unsent(q)
  BY <1>1 DEF Unsent
<1>3. ASSUME NEW q \in Paths \ {p}
      PROVE  /\ Exists(q)' = Exists(q) /\ Unwatched(q)' = Unwatched(q)
             /\ copies'[q] = copies[q] /\ extra'[q] = extra[q]
  BY <1>1 DEF CreateFile, Unwatched, Scanning, Exists
<1>4. ASSUME NEW q \in Paths \ {p} PROVE Owed(q)' = Owed(q)
  BY <1>2, <1>3 DEF Owed
<1>5. extra'[p] = Cardinality(Unsent(p)) /\ copies'[p] = 0 /\ ~Unwatched(p)
  BY DEF CreateFile, Unwatched
<1>6. Owed(p) = Cardinality(Unsent(p))
  BY <1>5, UnsentFinite DEF Owed
<1>7. \E n \in {0, 1} : Owed(p)' = Cardinality(Unsent(p)) + n
  BY <1>2 DEF Owed
<1> QED
  BY <1>3, <1>4, <1>5, <1>6, <1>7

\* A monitor that is started was owed; only a lost record makes one more.
LEMMA SpawnOwes ==
  ASSUME TypeInv, NEW p \in Paths, NEW recorded \in BOOLEAN,
         NEW started \in {{m} : m \in Idle} \cup {{}},
         SpawnMonitor(p, recorded, started)
  PROVE  /\ recorded => Owed(p)' <= Owed(p) /\ extra'[p] = extra[p]
         /\ ~recorded => /\ extra'[p] = extra[p] + 1
                         /\ \/ started = {} /\ Owed(p)' = Owed(p)
                            \/ started # {} /\ Owed(p)' = Owed(p) + 1
         /\ \A q \in Paths \ {p} : Owed(q)' = Owed(q) /\ extra'[q] = extra[q]
         /\ UNCHANGED <<disk, mailed, copies>>
<1> USE DEF TypeInv, TypeOK
<1>1. /\ UNCHANGED <<disk, mailed, copies, scanner>> /\ scanner = "scan"
      /\ tracked' = IF recorded THEN tracked \cup {p} ELSE tracked
  BY DEF SpawnMonitor, fileVars
<1>2. Unwatched(p) /\ Unwatched(p)' = ~recorded
  BY <1>1 DEF SpawnMonitor, Unwatched, Scanning, Exists
<1>3. ASSUME NEW q \in Paths \ {p}
      PROVE  Owed(q)' = Owed(q) /\ extra'[q] = extra[q]
  <2>1. Unsent(q)' = Unsent(q)
    BY DEF SpawnMonitor, Unsent, Idle, Live
  <2>2. Unwatched(q)' = Unwatched(q)
    BY <1>1 DEF Unwatched, Scanning, Exists
  <2>3. extra'[q] = extra[q]
    BY DEF SpawnMonitor
  <2> QED
    BY <2>1, <2>2, <2>3 DEF Owed
<1>4. extra'[p] = IF recorded THEN extra[p] ELSE extra[p] + 1
  BY DEF SpawnMonitor
<1>5. /\ Owed(p) = Cardinality(Unsent(p)) + 1
      /\ Owed(p)' = Cardinality(Unsent(p)') + (IF recorded THEN 0 ELSE 1)
  BY <1>2 DEF Owed
<1>6. CASE started = {}
  <2>1. Unsent(p)' = Unsent(p)
    BY <1>6 DEF SpawnMonitor, Unsent
  <2>2. Cardinality(Unsent(p)') = Cardinality(Unsent(p))
    BY <2>1
  <2> QED
    BY <1>1, <1>3, <1>4, <1>5, <1>6, <2>2, UnsentFinite
<1>7. CASE started # {}
  <2>1. PICK m \in Monitors : started = {m} /\ m \in Idle
    BY <1>7 DEF Idle
  <2>2. m \notin Unsent(p)
    BY <2>1 DEF Unsent, Idle, Live
  <2>3. Unsent(p)' = Unsent(p) \cup {m}
    BY <2>1 DEF SpawnMonitor, Unsent
  <2>4. Cardinality(Unsent(p)') = Cardinality(Unsent(p)) + 1
    BY <2>2, <2>3, UnsentFinite, FS_AddElement
  <2> QED
    BY <1>1, <1>3, <1>4, <1>5, <1>7, <2>4, UnsentFinite
<1> QED
  BY <1>6, <1>7

\* Every step keeps MailInv.
LEMMA MailStep == TypeInv /\ TypeInv' /\ MailInv /\ [Next]_vars => MailInv'
<1> SUFFICES ASSUME TypeInv, TypeInv', MailInv, [Next]_vars,
                    NEW p \in Paths, Exists(p)'
             PROVE  copies'[p] + Owed(p)' <= 1 + extra'[p]
  BY DEF MailInv
<1>1. /\ copies[p] \in Nat /\ extra[p] \in Nat /\ copies'[p] \in Nat
      /\ extra'[p] \in Nat /\ Owed(p) \in Nat
  BY OwedNat DEF TypeInv, TypeOK
<1>2. Owed(p)' \in Nat
  BY OwedNat
<1>3. Exists(p) => copies[p] + Owed(p) <= 1 + extra[p]
  BY DEF MailInv
<1>4. CASE Quiet
  <2>1. Owed(p)' <= Owed(p) /\ extra' = extra
    BY <1>4, QuietOwes, OwedShrinks
  <2>2. Exists(p)
    <3>1. ASSUME NEW m \in Monitors, Monitor(m) PROVE Exists(p)
      BY <3>1 DEF Monitor, TestFile, HashFile, Wake, SendMail, RemoveFile,
                  fileVars, Exists, TypeInv, TypeOK
    <3>2. CASE \E q \in Paths : SkipEntry(q) \/ Sweep(q) \/ LockFile(q)
      BY <3>2 DEF SkipEntry, Sweep, LockFile, fileVars, Exists
    <3>3. CASE \E q \in Paths : RewriteFile(q) \/ DeleteFile(q)
      BY <3>3 DEF RewriteFile, DeleteFile, Exists, TypeInv, TypeOK
    <3>4. CASE OpenDir \/ StartSweep \/ EndPass \/ FreeRecords \/ MainReturns
               \/ Signal \/ Kill \/ UNCHANGED vars
      BY <3>4 DEF OpenDir, StartSweep, EndPass, FreeRecords, MainReturns,
                  Signal, Kill, ProcessEnds, vars, fileVars, Exists
    <3> QED
      BY <1>4, <3>1, <3>2, <3>3, <3>4 DEF Quiet
  <2>3. CASE copies' = copies
    BY <1>1, <1>2, <1>3, <2>1, <2>2, <2>3
  <2>4. ASSUME NEW m \in Monitors, SendMail(m)
        PROVE  copies'[p] + Owed(p)' <= 1 + extra'[p]
    <3>1. Owed(p)' = IF p = file[m] THEN Owed(p) - 1 ELSE Owed(p)
      <4>1. PICK q : q = file[m]
        OBVIOUS
      <4> QED
        BY <2>4, <4>1, SendOwes
    <3>2. copies'[p] <= IF p = file[m] THEN copies[p] + 1 ELSE copies[p]
      BY <1>1, <2>4 DEF SendMail, TypeInv, TypeOK
    <3> QED
      BY <1>1, <1>3, <2>1, <2>2, <3>1, <3>2
  <2>5. copies' = copies \/ \E m \in Monitors : SendMail(m)
    BY <1>4 DEF Quiet, OpenDir, StartSweep, EndPass, FreeRecords, MainReturns,
                Signal, Kill, ProcessEnds, vars, SkipEntry, Sweep, RewriteFile,
                DeleteFile, LockFile, Monitor, TestFile, HashFile, Wake,
                RemoveFile, historyVars
  <2> QED
    BY <2>3, <2>4, <2>5
<1>5. CASE Restart
  <2>1. Owed(p)' \in {0, 1}
    BY <1>5, OwedRestart
  <2>2. copies'[p] = 0 /\ extra'[p] = 0
    BY <1>5 DEF Restart, Zero
  <2> QED
    BY <2>1, <2>2
<1>6. ASSUME NEW q \in Paths, CreateFile(q)
      PROVE  copies'[p] + Owed(p)' <= 1 + extra'[p]
  BY <1>1, <1>3, <1>6, CreateOwes, UnsentFinite
<1>7. ASSUME NEW q \in Paths, NEW recorded \in BOOLEAN,
             NEW started \in {{m} : m \in Idle} \cup {{}},
             SpawnMonitor(q, recorded, started)
      PROVE  copies'[p] + Owed(p)' <= 1 + extra'[p]
  <2>1. Exists(p)
    BY <1>7, SpawnOwes DEF Exists
  <2> QED
    BY <1>1, <1>2, <1>3, <1>7, <2>1, SpawnOwes
<1> QED
  BY <1>4, <1>5, <1>6, <1>7, StepKinds

\* A file that is there is mailed once, and once more only for each monitor
\* that was left from an earlier file of its name when it appeared, and for
\* each record of it that was lost: a monitor sends once, and only the first
\* look at an unrecorded file starts one.
THEOREM MailedOnce == Spec => []MailedOncePerFile
<1>1. Init => MailInv
  BY OwedInit DEF Init, MailInv, Zero
<1>2. TypeInv /\ MailInv => MailedOncePerFile
  BY UnsentFinite DEF MailInv, Owed, MailedOncePerFile, TypeInv, TypeOK
<1> QED
  BY <1>1, <1>2, TypeInit, TypeStep, MailStep, PTL DEF Spec

-----------------------------------------------------------------------------
(* The monitor implements MailDelivery                                     *)

OwedMails == [p \in Paths |-> Owed(p)]

Delivers == [Delivery!DeliveryNext]_Delivery!deliveryVars

\* What is owed for one path moves, and for no other.
LEMMA OwedMoves ==
  ASSUME NEW p \in Paths, NEW n, Owed(p)' = n,
         \A q \in Paths \ {p} : Owed(q)' = Owed(q)
  PROVE  OwedMails' = [OwedMails EXCEPT ![p] = n]
<1>1. \A q \in Paths : Owed(q)' = IF q = p THEN n ELSE Owed(q)
  OBVIOUS
<1> QED
  BY <1>1, Zenon DEF OwedMails

\* What is owed for a path, read from the function or from the operator.
LEMMA OwedAt == \A p \in Paths : OwedMails[p] = Owed(p)
  BY DEF OwedMails

\* It is owed for no path more or less.
LEMMA OwedStays ==
  ASSUME \A q \in Paths : Owed(q)' = Owed(q) PROVE OwedMails' = OwedMails
  BY DEF OwedMails

\* A step after which no more mails are owed gives some up, or none.
LEMMA GivesUp ==
  ASSUME UNCHANGED <<disk, mailed>>, faults' \in faults..(faults + 2),
         \A q \in Paths : Owed(q)' <= Owed(q)
  PROVE  Delivers
<1>1. OwedMails' \in [Paths -> Nat] /\ \A q \in Paths : OwedMails'[q] <= OwedMails[q]
  BY OwedNat DEF OwedMails
<1> QED
  BY <1>1 DEF Delivers, Delivery!DeliveryNext, Delivery!GiveUp, OwedMails

\* At first one mail is owed for every file, at most.
LEMMA DeliveryStarts == Init => Delivery!DeliveryInit
<1> SUFFICES ASSUME Init PROVE Delivery!DeliveryInit
  OBVIOUS
<1>1. OwedMails \in Delivery!Owing
  BY OwedInit DEF OwedMails, Delivery!Owing, Exists
<1> QED
  BY <1>1 DEF Init, Delivery!DeliveryInit, OwedMails

\* So it is when the program is started again.
LEMMA RestartBegins == Restart => Delivers
<1> SUFFICES ASSUME Restart PROVE Delivers
  OBVIOUS
<1>1. UNCHANGED <<disk, mailed, faults>>
  BY DEF Restart, fileVars
<1>2. OwedMails' \in Delivery!Owing'
  BY <1>1, OwedRestart DEF OwedMails, Delivery!Owing, Exists
<1> QED
  BY <1>1, <1>2
  DEF Delivers, Delivery!DeliveryNext, Delivery!Begin, Delivery!Owing, OwedMails

\* Only a record that is lost, which is a failure, makes the scanner owe more.
LEMMA SpawnDelivers ==
  ASSUME TypeInv, NEW p \in Paths, NEW recorded \in BOOLEAN,
         NEW started \in {{m} : m \in Idle} \cup {{}},
         SpawnMonitor(p, recorded, started)
  PROVE  Delivers
<1>1. /\ UNCHANGED <<disk, mailed>> /\ faults \in Nat
      /\ \A q \in Paths \ {p} : Owed(q)' = Owed(q)
  BY SpawnOwes, BoundsAssumption DEF TypeInv, TypeOK
<1>2. faults' \in faults..(faults + 2)
  BY <1>1 DEF SpawnMonitor, Fault
<1>3. CASE recorded \/ started = {}
  <2>1. \A q \in Paths : Owed(q)' <= Owed(q)
    BY <1>1, <1>3, SpawnOwes, OwedNat
  <2> QED
    BY <1>1, <1>2, <2>1, GivesUp
<1>4. CASE ~recorded /\ started # {}
  <2>1. OwedMails' = [OwedMails EXCEPT ![p] = @ + 1]
    BY <1>1, <1>4, SpawnOwes, OwedMoves, OwedAt
  <2>2. faults' = faults + 1 /\ disk[p] # Nothing
    BY <1>1, <1>4 DEF SpawnMonitor, Fault, Exists
  <2> QED
    BY <1>1, <2>1, <2>2
    DEF Delivers, Delivery!DeliveryNext, Delivery!LoseRecord, OwedMails
<1> QED
  BY <1>3, <1>4

\* A monitor sends only what is owed, and only as the file is.
LEMMA SendDelivers ==
  ASSUME TypeInv, NEW m \in Monitors, SendMail(m)
  PROVE  Delivers
<1>1. PICK p : p = file[m]
  OBVIOUS
<1>2. p \in Paths /\ Owed(p) > 0
  BY <1>1, SendOwes
<1>3. OwedMails' = [OwedMails EXCEPT ![p] = @ - 1]
  BY <1>1, <1>2, SendOwes, OwedMoves, OwedAt
<1>4. faults \in Nat /\ disk' = disk
  BY BoundsAssumption DEF SendMail, fileVars, TypeInv, TypeOK
<1>5. /\ \/ disk[p] # Nothing /\ mailed' = [mailed EXCEPT ![p] = @ \cup {disk[p]}]
         \/ mailed' = mailed
      /\ faults' \in {faults, faults + 1}
  <2>1. CASE /\ Sample(p) # Nothing
             /\ mailed' = [mailed EXCEPT ![p] = @ \cup {disk[p]}]
             /\ UNCHANGED faults
    BY <2>1 DEF Sample
  <2>2. CASE /\ Fault(IF Sample(p) = Nothing THEN 0 ELSE 1)
             /\ UNCHANGED mailed
    BY <2>2, <1>4 DEF Fault
  <2> QED
    BY <1>1, <2>1, <2>2 DEF SendMail
<1>6. OwedMails[p] > 0
  BY <1>2 DEF OwedMails
<1> QED
  BY <1>2, <1>3, <1>4, <1>5, <1>6
  DEF Delivers, Delivery!DeliveryNext, Delivery!Mail, OwedMails

\* A file that goes takes no mail with it but the one of a monitor that was
\* still to be started.
LEMMA GoesDelivers ==
  ASSUME TypeInv, NEW p \in Paths, disk[p] # Nothing,
         disk' = [disk EXCEPT ![p] = Nothing],
         UNCHANGED <<mailed, faults, scanner, tracked>>,
         \A q \in Paths : Unsent(q)' = Unsent(q)
  PROVE  Delivers
<1>1. \A q \in Paths \ {p} : Unwatched(q)' = Unwatched(q)
  BY DEF Unwatched, Scanning, Exists, TypeInv, TypeOK
<1>2. \A q \in Paths \ {p} : Owed(q)' = Owed(q)
  BY <1>1 DEF Owed
<1>3. ~Unwatched(p)'
  BY DEF Unwatched, Exists, TypeInv, TypeOK
<1>4. /\ Owed(p) = Cardinality(Unsent(p)) + (IF Unwatched(p) THEN 1 ELSE 0)
      /\ Owed(p)' = Cardinality(Unsent(p))
  BY <1>3, UnsentFinite DEF Owed
<1>5. \/ OwedMails' = OwedMails
      \/ OwedMails[p] > 0 /\ OwedMails' = [OwedMails EXCEPT ![p] = @ - 1]
  <2>1. CASE Unwatched(p)
    <3>1. Owed(p)' = Owed(p) - 1 /\ Owed(p) > 0
      BY <1>4, <2>1, UnsentFinite
    <3> QED
      BY <1>2, <3>1, OwedMoves, OwedAt
  <2>2. CASE ~Unwatched(p)
    <3>1. Owed(p)' = Owed(p)
      BY <1>4, <2>2, UnsentFinite
    <3> QED
      BY <1>2, <3>1, OwedStays
  <2> QED
    BY <2>1, <2>2
<1> QED
  BY <1>5 DEF Delivers, Delivery!DeliveryNext, Delivery!Go, OwedMails

\* A removal takes the file, or fails, or finds nothing.
LEMMA RemoveDelivers ==
  ASSUME TypeInv, NEW m \in Monitors, RemoveFile(m)
  PROVE  Delivers
<1>1. PICK p : p = file[m]
  OBVIOUS
<1>2. p \in Paths /\ disk \in [Paths -> Contents \cup {Nothing}] /\ faults \in Nat
  BY <1>1, BoundsAssumption DEF RemoveFile, TypeInv, TypeOK, Live
<1>3. UNCHANGED <<mailed, scanner, tracked>>
  BY DEF RemoveFile, scanVars
<1>4. \A q \in Paths : Unsent(q)' = Unsent(q)
  BY DEF RemoveFile, Unsent, TypeInv, TypeOK
<1>5. CASE disk' = disk
  <2>1. \A q \in Paths : Owed(q)' = Owed(q)
    BY <1>3, <1>4, <1>5 DEF Owed, Unwatched, Scanning, Exists
  <2>2. faults' \in faults..(faults + 2)
    BY <1>2 DEF RemoveFile, Fault
  <2> QED
    BY <1>3, <1>5, <2>1, <2>2, OwedNat, GivesUp
<1>6. CASE disk' # disk
  <2>1. /\ disk' = [disk EXCEPT ![p] = Nothing] /\ disk[p] # Nothing
        /\ UNCHANGED faults
    BY <1>1, <1>2, <1>6 DEF RemoveFile, fileVars
  <2> QED
    BY <1>2, <1>3, <1>4, <2>1, GoesDelivers
<1> QED
  BY <1>5, <1>6

\* Other programs make files appear, change them, and make them go.
LEMMA OutsideDelivers ==
  ASSUME TypeInv, NEW p \in Paths, CreateFile(p) \/ RewriteFile(p) \/ DeleteFile(p)
  PROVE  Delivers
<1>1. CASE CreateFile(p)
  <2>1. PICK n \in {0, 1} : Owed(p)' = Owed(p) + n
    BY <1>1, CreateOwes
  <2>2. OwedMails' = [OwedMails EXCEPT ![p] = @ + n]
    BY <1>1, <2>1, CreateOwes, OwedMoves, OwedAt
  <2>3. /\ disk[p] = Nothing
        /\ \E c \in Contents : disk' = [disk EXCEPT ![p] = c]
        /\ UNCHANGED <<mailed, faults>>
    BY <1>1 DEF CreateFile, Exists, Event
  <2> QED
    BY <2>2, <2>3 DEF Delivers, Delivery!DeliveryNext, Delivery!Appear, OwedMails
<1>2. CASE RewriteFile(p)
  <2>1. /\ disk[p] # Nothing
        /\ \E c \in Contents : disk' = [disk EXCEPT ![p] = c]
        /\ UNCHANGED <<mailed, faults, scanVars, monitorVars>>
    BY <1>2 DEF RewriteFile, Exists, Event
  <2>2. PICK c \in Contents : disk' = [disk EXCEPT ![p] = c]
    BY <2>1
  <2>3. \A q \in Paths : Exists(q)' = Exists(q)
    BY <2>1, <2>2, NothingAssumption DEF Exists, TypeInv, TypeOK
  <2>4. \A q \in Paths : Owed(q)' = Owed(q)
    BY <2>1, <2>3
    DEF Owed, Unsent, Unwatched, Scanning, scanVars, monitorVars
  <2>5. OwedMails' = OwedMails
    BY <2>4, OwedStays
  <2> QED
    BY <2>1, <2>5 DEF Delivers, Delivery!DeliveryNext, Delivery!Change, OwedMails
<1>3. CASE DeleteFile(p)
  <2>1. /\ disk[p] # Nothing /\ disk' = [disk EXCEPT ![p] = Nothing]
        /\ UNCHANGED <<mailed, faults, scanner, tracked, pc, file>>
    BY <1>3 DEF DeleteFile, Exists, Event, scanVars, monitorVars
  <2>2. \A q \in Paths : Unsent(q)' = Unsent(q)
    BY <2>1 DEF Unsent
  <2> QED
    BY <2>1, <2>2, GoesDelivers
<1> QED
  BY <1>1, <1>2, <1>3

\* Every step is one of MailDelivery, or none.
LEMMA DeliveryStep == TypeInv /\ [Next]_vars => Delivers
<1> SUFFICES ASSUME TypeInv, [Next]_vars PROVE Delivers
  OBVIOUS
<1>1. ASSUME Quiet, UNCHANGED <<disk, mailed>>, faults' \in faults..(faults + 2)
      PROVE  Delivers
  BY <1>1, QuietOwes, OwedShrinks, GivesUp
<1>2. faults \in Nat
  BY BoundsAssumption DEF TypeInv, TypeOK
<1>3. CASE Quiet
  <2>1. CASE OpenDir
    <3>1. UNCHANGED <<disk, mailed>>
      BY <2>1 DEF OpenDir, fileVars
    <3>2. faults' \in faults..(faults + 2)
      BY <1>2, <2>1 DEF OpenDir, Fault
    <3> QED
      BY <1>1, <1>3, <3>1, <3>2
  <2>2. CASE \/ StartSweep \/ EndPass \/ FreeRecords \/ MainReturns
             \/ Signal \/ Kill \/ UNCHANGED vars
             \/ \E p \in Paths : SkipEntry(p) \/ Sweep(p) \/ LockFile(p)
             \/ \E m \in Monitors : TestFile(m) \/ HashFile(m) \/ Wake(m)
    <3>1. UNCHANGED <<disk, mailed, faults>>
      BY <2>2 DEF StartSweep, EndPass, FreeRecords, MainReturns, Signal, Kill,
                  ProcessEnds, vars, SkipEntry, Sweep, LockFile, TestFile,
                  HashFile, Wake, Event, fileVars, boundVars
    <3> QED
      BY <1>1, <1>2, <1>3, <3>1
  <2>3. CASE \E m \in Monitors : SendMail(m) \/ RemoveFile(m)
    BY <2>3, SendDelivers, RemoveDelivers
  <2>4. CASE \E p \in Paths : RewriteFile(p) \/ DeleteFile(p)
    BY <2>4, OutsideDelivers
  <2> QED
    BY <1>3, <2>1, <2>2, <2>3, <2>4 DEF Quiet, Monitor
<1> QED
  BY <1>3, RestartBegins, SpawnDelivers, OutsideDelivers, StepKinds

\* The scanner and its monitor threads, with every failure and restart, do
\* nothing that MailDelivery does not allow: a file that appears adds at most
\* one mail to those owed under its name, and a lost record one.
THEOREM MonitorImplementsDelivery == Spec => ImplementsDelivery
<1>1. TypeInv /\ [Next]_vars
        => [Delivery!DeliveryNext]_Delivery!deliveryVars
  BY DeliveryStep DEF Delivers
<1> QED
  BY <1>1, DeliveryStarts, TypeInit, TypeStep, PTL
  DEF Spec, ImplementsDelivery, Delivery!DeliverySpec
=============================================================================
