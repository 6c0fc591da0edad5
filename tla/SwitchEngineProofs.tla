------------------------- MODULE SwitchEngineProofs -------------------------
(***************************************************************************)
(* What holds of the whole system for every set of games, addresses and    *)
(* values, with overlays and sysmods that die, cards that fill and power   *)
(* cycles: one inductive invariant, IInv, and what follows from it.        *)
(***************************************************************************)
EXTENDS SwitchEngine, FiniteSetTheorems, TLAPS

(* Where the overlay holds a process through the sysmod, or is about to let it go. *)
Held == {"nsOpen", "nsFilter", "nsClose", "nsRemove", "nsRename", "nsDetach",
         "pkWrite", "pkDetach"}
(* runFirstScanU32 has attached and has not returned. *)
Scanning == scan \in ScanSteps \ {"attach"}
(* Entries that are what the memory of a process says, and entries of one value. *)
TrueOf(ents, pid) == \A e \in ents : mem[pid][e.addr] = e.val
Matching(ents, v) == \A e \in ents : e.val = v
(* Who holds what: the sysmod's handle is that of the scan that runs or of the
   callback that holds it, never both, since the server is one thread and an
   overlay waits for it, the one that called it and one that starts anew. *)
Coupling ==
    /\ Scanning => scanJob.pid \in Pid /\ g_debug = scanJob.pid
    /\ ~Served => g_debug = INVALID_HANDLE
    /\ gui \notin {"closed", "scanWait"} => ServerFree
    /\ gui \in Held /\ Served => job.pid \in Pid /\ g_debug = job.pid
    /\ gui = "scanWait" => scan \in ScanSteps /\ scanJob.pid = job.pid
                                              /\ scanJob.val = job.val
(* What a callback works for: the target the user still has, the process and
   the entry of the list that is still shown, for the overlay does nothing else
   meanwhile. *)
Targets ==
    /\ gui \in {"scanCall", "scanWait", "scanDone"} => m_targetPid = job.pid
    /\ gui \in {"pkAttach", "pkWrite", "pkDetach"} =>
           /\ job.pid = page.pid /\ job.addr \in page.addrs /\ job.val \in Value
(* results.tmp belongs to the scan that runs: what it will commit is finished and
   true of the frozen game. *)
ScanFile ==
    /\ scan = "walk" => tmp \in NewFiles(scanJob.pid)
    /\ scan = "end" =>
           /\ tmp # NoFile /\ tmp.of = scanJob.pid /\ tmp.count \in {NoHeader, 0}
           /\ TrueOf(scanJob.found, scanJob.pid)
           /\ Matching(scanJob.found, scanJob.val)
    /\ scan \in {"remove", "rename"} =>
           /\ tmp # NoFile /\ Finished(tmp) /\ tmp.of = scanJob.pid
           /\ TrueOf(tmp.ents, scanJob.pid) /\ Matching(tmp.ents, scanJob.val)
    /\ scan = "detach" /\ scanJob.rc = "ok" =>
           /\ bin # NoFile /\ Finished(bin) /\ bin.of = scanJob.pid
           /\ Matching(bin.ents, scanJob.val)
(* The same for the filter of a next scan, as long as the sysmod lives. *)
FilterFile ==
    /\ gui = "nsFilter" => bin # NoFile /\ tmp \in NewFiles(job.pid)
    /\ gui = "nsClose" =>
           /\ tmp # NoFile /\ tmp.of = job.pid /\ tmp.count \in {NoHeader, 0}
           /\ Matching(job.kept, job.val)
           /\ Served => TrueOf(job.kept, job.pid)
    /\ gui \in {"nsRemove", "nsRename"} =>
           /\ tmp # NoFile /\ Finished(tmp) /\ tmp.of = job.pid
           /\ Served => TrueOf(tmp.ents, job.pid)
(* None of the promises is inductive alone: that a commit is whole and true
   rests on whose file results.tmp is, that on who may run, and that on whom the
   handle names. *)
IInv == /\ TypeOK /\ OneDebugged /\ Coupling /\ Targets
        /\ ScanFile /\ FilterFile /\ ResultsWhole /\ FirstScanReported

(* Entries of one value are no more than there are addresses. *)
LEMMA MatchingFinite ==
    ASSUME NEW v, NEW S \in SUBSET Entry, Matching(S, v)
    PROVE  IsFiniteSet(S) /\ Cardinality(S) \in 0 .. Cardinality(Addr)
  <1> DEFINE f == [e \in S |-> e.addr]
  <1>1. \A e1, e2 \in S : e1.addr = e2.addr => e1 = e2
    BY DEF Matching, Entry
  <1>2. f \in Injection(S, Addr)
    BY <1>1 DEF Injection, IsInjective, Entry
  <1>3. IsFiniteSet(S) /\ Cardinality(S) <= Cardinality(Addr)
    BY <1>2, FS_Injection, CardAssumption
  <1>4. Cardinality(S) \in Nat /\ Cardinality(Addr) \in Nat
    BY <1>3, FS_CardinalityType, CardAssumption
  <1> QED
    BY <1>3, <1>4

(* A file that is closed, whatever of it a full card has kept out: finished, and
   of entries of the process that were to be written to it. *)
LEMMA ClosingFinished ==
    ASSUME NEW f \in File, f.count \in {NoHeader, 0},
           NEW v, NEW S \in SUBSET Entry, Matching(S, v),
           NEW g \in Closings(f, S)
    PROVE  g \in File /\ Finished(g) /\ g.of = f.of /\ g.ents \subseteq S
  <1>1. PICK n \in HeaderWritten(Cardinality(S), f.count), T \in Written(S) :
            g = [count |-> n, ents |-> T, of |-> f.of,
                 cut |-> T # S \/ n # Cardinality(S)]
    BY DEF Closings
  <1>2. IsFiniteSet(S) /\ Cardinality(S) \in 0 .. Cardinality(Addr)
    BY MatchingFinite
  <1>3. T \in SUBSET S /\ n \in {Cardinality(S), NoHeader, 0}
    BY DEF Written, HeaderWritten
  <1>4. /\ Cardinality(T) <= Cardinality(S) /\ Cardinality(T) \in Nat
        /\ Cardinality(T) = Cardinality(S) => T = S
    BY <1>2, <1>3, FS_Subset, FS_CardinalityType
  <1>5. g \in File
    <2>1. n \in NoHeader .. Cardinality(Addr)
      BY <1>2, <1>3, CardAssumption, FS_CardinalityType DEF NoHeader
    <2>2. T \in SUBSET Entry /\ f.of \in Pid \cup {0}
      BY <1>3 DEF File
    <2> QED
      BY <1>1, <2>1, <2>2 DEF File
  <1>6. CASE T = S /\ n = Cardinality(S)
    BY <1>1, <1>5, <1>6 DEF Finished, Whole
  <1>7. CASE ~(T = S /\ n = Cardinality(S))
    <2>1. g.cut = TRUE /\ g.count = n /\ g.ents = T /\ g.of = f.of
      BY <1>1, <1>7
    <2>2. n \in {NoHeader, 0} \/ n > Cardinality(T)
      BY <1>2, <1>3, <1>4, <1>7
    <2> QED
      BY <1>3, <1>5, <2>1, <2>2 DEF Finished, Short
  <1> QED
    BY <1>1, <1>3, <1>6, <1>7

(* Which steps may change which part of the state. *)
LEMMA WhoWrites ==
    ASSUME [Next]_vars
    PROVE  /\ mem' = mem \/ GameWrites \/ PkWrite \/ PowerCycle
           /\ bin' = bin \/ ScanRemove \/ ScanRename \/ NsRemove \/ NsRename \/ Reset
           /\ \/ tmp' = tmp
              \/ ScanBegin \/ ScanWalk \/ ScanEnd \/ ScanRename
              \/ NsOpen \/ NsFilter \/ NsClose \/ NsRename \/ Reset
           /\ \/ page' = page
              \/ Open \/ Close \/ ShowResults \/ Back
              \/ OverlayDies \/ PowerCycle
           /\ \/ scanJob' = scanJob
              \/ ScanAttach \/ ScanBegin \/ ScanWalk \/ ScanRename \/ ScanDetach
              \/ CallScan \/ SysmodDies \/ PowerCycle
           /\ \/ scan' = scan
              \/ Sysmod \/ CallScan \/ Open \/ SysmodDies \/ PowerCycle
           /\ \/ UNCHANGED debuggerVars
              \/ ScanAttach \/ ScanBegin \/ ScanDetach \/ NsAttach \/ NsDetach
              \/ PkAttach \/ PkDetach \/ GameExits \/ SysmodDies \/ PowerCycle
  <1> USE DEF cardVars, guiVars, scanVars
  <1>1. CASE Sysmod
    BY <1>1 DEF Sysmod, ScanAttach, ScanBegin, ScanWalk, ScanEnd, ScanRemove,
                ScanRename, ScanDetach, Return, ReturnTo
  <1>2. CASE Callback
    BY <1>2 DEF Callback, CallScan, CallScanFails, ReportFirst, NsAttach, NsOpen,
                NsFilter, NsClose, NsRemove, NsRename, NsDetach, ReportNext,
                PkAttach, PkWrite, PkDetach, EndCallback, accessMemory
  <1>3. CASE User
    BY <1>3 DEF User, Open, Close, PickTarget, RefuseScan, FirstScan, NextScan,
                BeginScan, Reset, ShowResults, Back, Poke
  <1>4. CASE GameWrites \/ GameExits \/ OverlayDies \/ SysmodDies \/ PowerCycle
    BY <1>4 DEF GameWrites, GameExits, OverlayDies, SysmodDies, PowerCycle, ReturnTo
  <1>5. CASE UNCHANGED vars
    BY <1>5 DEF vars
  <1> QED
    BY <1>1, <1>2, <1>3, <1>4, <1>5 DEF Next

(* The debug layer's operations, whether the kernel grants the process or
   refuses it, and a game that exits, keep handle, pid and kernel in agreement. *)
LEMMA LayerKeeps ==
    ASSUME DebuggerInv,
           \/ UNCHANGED debuggerVars \/ detach \/ \E p : ProcessExit(p)
           \/ \E p, rc : attach(p, rc)
    PROVE  DebuggerInv'
  <1> USE PidAssumption DEF DebuggerInv, DebuggerTypeOK, OneDebugged, isAttached
  <1>1. CASE UNCHANGED debuggerVars
    BY <1>1 DEF debuggerVars
  <1>2. CASE detach
    BY <1>2 DEF detach
  <1>3. CASE \E p : ProcessExit(p)
    BY <1>3 DEF ProcessExit
  <1>4. ASSUME NEW p, NEW rc, attach(p, rc)
        PROVE  DebuggerInv'
    <2>1. CASE rc = "ok"
      BY <1>4, <2>1 DEF attach
    <2>2. CASE rc = "fail"
      BY <1>4, <2>2 DEF attach
    <2> QED
      BY <1>4, <2>1, <2>2 DEF attach
  <1> QED
    BY <1>1, <1>2, <1>3, <1>4

(* Every step attaches, detaches, ends a process or leaves the layer be. *)
LEMMA DebuggerStep ==
    ASSUME DebuggerInv, [Next]_vars
    PROVE  DebuggerInv'
  <1>1. \/ UNCHANGED debuggerVars \/ detach \/ \E p \in Pid : ProcessExit(p)
        \/ \E pid, rc : attach(pid, rc)
        \/ PowerCycle
    BY WhoWrites DEF ScanAttach, ScanBegin, ScanDetach, NsAttach, NsDetach, PkAttach,
                     PkDetach, GameExits, SysmodDies
  <1>2. CASE PowerCycle
    BY <1>2, PidAssumption
       DEF PowerCycle, DebuggerInit, DebuggerInv, DebuggerTypeOK, OneDebugged, isAttached
  <1> QED
    BY <1>1, <1>2, LayerKeeps

(* A new file is well typed, with an empty header or none. *)
LEMMA NewFileType ==
    ASSUME NEW pid \in Pid \cup {0}, NEW f \in NewFiles(pid)
    PROVE  f \in File /\ f.of = pid /\ f.count \in {NoHeader, 0}
  <1>1. PICK n \in {NoHeader, 0} :
            f = [count |-> n, ents |-> {}, of |-> pid, cut |-> n = NoHeader]
    BY DEF NewFiles, HeaderWritten
  <1>2. n \in NoHeader .. Cardinality(Addr)
    BY CardAssumption, FS_CardinalityType DEF NoHeader
  <1> QED
    BY <1>1, <1>2 DEF File

(* The hits of a walk are entries of the value it looks for. *)
LEMMA HitsType ==
    ASSUME NEW addrs \in SUBSET Addr, NEW v, addrs # {} => v \in Value
    PROVE  Hits(addrs, v) \in SUBSET Entry /\ Matching(Hits(addrs, v), v)
  BY DEF Hits, Entry, Matching

(* What flushing does to a file. *)
LEMMA FileUpdates ==
    ASSUME NEW f \in File, NEW S \in SUBSET Entry
    PROVE  /\ [f EXCEPT !.ents = S] \in File
           /\ [f EXCEPT !.ents = S].of = f.of
           /\ [f EXCEPT !.ents = S].count = f.count
  <1>1. [f EXCEPT !.ents = S] = [count |-> f.count, ents |-> S, of |-> f.of, cut |-> f.cut]
    BY DEF File
  <1> QED
    BY <1>1 DEF File

(* What the scan, and the filter, write is made of entries. *)
LEMMA WalkedFile ==
    ASSUME IInv, ScanWalk
    PROVE  \E S \in SUBSET Entry : \E T \in SUBSET S :
               /\ tmp \in File /\ tmp' = [tmp EXCEPT !.ents = T]
               /\ scanJob' = [scanJob EXCEPT !.found = S]
               /\ TrueOf(S, scanJob.pid) /\ Matching(S, scanJob.val)
  <1>1. tmp \in File /\ scanJob.pid \in Pid
    <2>1. scanJob.pid \in Pid
      BY DEF ScanWalk, IInv, Coupling, Scanning, ScanSteps
    <2> QED
      BY <2>1, NewFileType DEF ScanWalk, IInv, ScanFile
  <1>2. PICK addrs \in SUBSET {a \in Addr : mem[scanJob.pid][a] = scanJob.val} :
            /\ scanJob' = [scanJob EXCEPT !.found = Hits(addrs, scanJob.val)]
            /\ \E T \in SUBSET Hits(addrs, scanJob.val) : tmp' = [tmp EXCEPT !.ents = T]
    BY DEF ScanWalk
  <1>3. addrs \in SUBSET Addr /\ (addrs # {} => scanJob.val \in Value)
    <2>1. \A a \in Addr : mem[scanJob.pid][a] \in Value
      BY <1>1 DEF IInv, TypeOK
    <2> QED
      BY <1>2, <2>1
  <1>4. Hits(addrs, scanJob.val) \in SUBSET Entry /\ Matching(Hits(addrs, scanJob.val), scanJob.val)
    BY <1>3, HitsType
  <1>5. TrueOf(Hits(addrs, scanJob.val), scanJob.pid)
    BY <1>2 DEF TrueOf, Hits
  <1> QED
    BY <1>1, <1>2, <1>4, <1>5

(* What the filter keeps is made of entries, true as long as the sysmod lives. *)
LEMMA FilteredFile ==
    ASSUME IInv, NsFilter
    PROVE  \E S \in SUBSET Entry : \E T \in SUBSET S :
               /\ tmp \in File /\ tmp' = [tmp EXCEPT !.ents = T]
               /\ job' = [job EXCEPT !.kept = S]
               /\ Matching(S, job.val)
               /\ Served => TrueOf(S, job.pid)
  <1>1. tmp \in File /\ bin \in File
    <2>1. job.pid \in Pid \cup {0}
      BY DEF IInv, TypeOK, Job
    <2> QED
      BY <2>1, NewFileType DEF NsFilter, IInv, FilterFile, TypeOK
  <1>2. PICK addrs \in SUBSET Addrs(bin) :
            /\ addrs # {} => /\ isAttached
                             /\ \A a \in addrs : mem[g_debug][a] = job.val
            /\ job' = [job EXCEPT !.kept = Hits(addrs, job.val)]
            /\ \E T \in SUBSET Hits(addrs, job.val) : tmp' = [tmp EXCEPT !.ents = T]
    BY DEF NsFilter
  <1>3. addrs \in SUBSET Addr
    BY <1>1, <1>2 DEF Addrs, File, Entry
  <1>4. addrs # {} => job.val \in Value
    <2>1. isAttached => \A a \in Addr : mem[g_debug][a] \in Value
      BY DEF IInv, TypeOK, DebuggerTypeOK, isAttached
    <2> QED
      BY <1>2, <1>3, <2>1
  <1>5. Hits(addrs, job.val) \in SUBSET Entry /\ Matching(Hits(addrs, job.val), job.val)
    BY <1>3, <1>4, HitsType
  <1>6. Served => TrueOf(Hits(addrs, job.val), job.pid)
    <2>1. Served => g_debug = job.pid
      BY DEF NsFilter, IInv, Coupling, Held
    <2> QED
      BY <1>2, <2>1 DEF TrueOf, Hits
  <1> QED
    BY <1>1, <1>2, <1>5, <1>6

(* What a scan has closed is finished, and holds what it found or some of it. *)
LEMMA EndedFile ==
    ASSUME IInv, ScanEnd
    PROVE  /\ tmp \in File /\ tmp' \in File /\ Finished(tmp') /\ tmp'.of = tmp.of
           /\ tmp'.ents \subseteq scanJob.found
  <1>1. /\ tmp \in File /\ tmp.count \in {NoHeader, 0}
        /\ scanJob.found \in SUBSET Entry /\ Matching(scanJob.found, scanJob.val)
    BY DEF ScanEnd, IInv, ScanFile, TypeOK, ScanJob
  <1>2. tmp' \in Closings(tmp, scanJob.found)
    BY DEF ScanEnd
  <1> QED
    BY <1>1, <1>2, ClosingFinished

(* The same of the filter's file. *)
LEMMA ClosedFile ==
    ASSUME IInv, NsClose
    PROVE  /\ tmp \in File /\ tmp' \in File /\ Finished(tmp') /\ tmp'.of = tmp.of
           /\ tmp'.ents \subseteq job.kept
  <1>1. /\ tmp \in File /\ tmp.count \in {NoHeader, 0}
        /\ job.kept \in SUBSET Entry /\ Matching(job.kept, job.val)
    BY DEF NsClose, IInv, FilterFile, TypeOK, Job
  <1>2. tmp' \in Closings(tmp, job.kept)
    BY DEF NsClose
  <1> QED
    BY <1>1, <1>2, ClosingFinished

(* Types, variable by variable. *)
LEMMA MemType ==
    ASSUME IInv, [Next]_vars
    PROVE  mem' \in [Pid -> [Addr -> Value]]
  <1> mem \in [Pid -> [Addr -> Value]]
    BY DEF IInv, TypeOK
  <1>1. CASE GameWrites
    <2>1. PICK p \in Pid, a \in Addr, v \in Value : mem' = [mem EXCEPT ![p][a] = v]
      BY <1>1 DEF GameWrites, IInv, TypeOK, DebuggerTypeOK
    <2> QED
      BY <2>1
  <1>2. CASE PkWrite
    <2>1. job.addr \in Addr /\ job.val \in Value
      BY <1>2 DEF PkWrite, IInv, TypeOK, Targets
    <2>2. mem' = mem \/ (g_debug \in Pid /\ mem' = [mem EXCEPT ![g_debug][job.addr] = job.val])
      BY <1>2 DEF PkWrite, accessMemory, isAttached, DebuggerTypeOK, IInv, TypeOK
    <2> QED
      BY <2>1, <2>2
  <1>3. CASE PowerCycle
    BY <1>3 DEF PowerCycle
  <1> QED
    BY <1>1, <1>2, <1>3, WhoWrites

(* The two files: nothing but a well-typed file is ever made or renamed. *)
LEMMA FilesType ==
    ASSUME IInv, [Next]_vars
    PROVE  bin' \in File \cup {NoFile} /\ tmp' \in File \cup {NoFile}
  <1>t. bin \in File \cup {NoFile} /\ tmp \in File \cup {NoFile}
    BY DEF IInv, TypeOK
  <1>1. ASSUME NEW pid \in Pid \cup {0}, tmp' \in NewFiles(pid)
        PROVE  tmp' \in File
    BY <1>1, NewFileType
  <1>2. CASE ScanBegin \/ NsOpen
    BY <1>t, <1>2, <1>1 DEF ScanBegin, NsOpen, IInv, TypeOK, Job, ScanJob
  <1>3. CASE ScanWalk
    <2>1. PICK T \in SUBSET Entry : tmp \in File /\ tmp' = [tmp EXCEPT !.ents = T]
      BY <1>3, WalkedFile
    <2> QED
      BY <1>t, <1>3, <2>1, FileUpdates DEF ScanWalk
  <1>4. CASE NsFilter
    <2>1. PICK T \in SUBSET Entry : tmp \in File /\ tmp' = [tmp EXCEPT !.ents = T]
      BY <1>4, FilteredFile
    <2> QED
      BY <1>t, <1>4, <2>1, FileUpdates DEF NsFilter
  <1>5. CASE ScanEnd
    BY <1>t, <1>5, EndedFile DEF ScanEnd
  <1>6. CASE NsClose
    BY <1>t, <1>6, ClosedFile DEF NsClose
  <1>7. CASE Reset \/ ScanRemove \/ NsRemove
    BY <1>t, <1>7 DEF Reset, ScanRemove, NsRemove, Remove
  <1>8. CASE ScanRename \/ NsRename
    BY <1>t, <1>8 DEF ScanRename, NsRename, RenameTmp, cardVars
  <1> QED
    BY <1>t, <1>2, <1>3, <1>4, <1>5, <1>6, <1>7, <1>8, WhoWrites

(* What the steps do to the locals of the callback, and of the scan. *)
LEMMA JobSteps ==
    ASSUME [Next]_vars
    PROVE  \/ job' = job \/ job' = NoJob
           \/ \E rc \in {"ok", "fail"} : job' = [job EXCEPT !.rc = rc]
           \/ NsRename /\ job' = [job EXCEPT !.ret = TRUE]
           \/ NsFilter \/ FirstScan \/ NextScan \/ Poke
           \/ ScanDetach /\ job' = [job EXCEPT !.rc = scanJob.rc]
  <1> USE DEF cardVars, guiVars, scanVars
  <1>1. CASE Sysmod
    BY <1>1 DEF Sysmod, ScanAttach, ScanBegin, ScanWalk, ScanEnd, ScanRemove,
                ScanRename, ScanDetach, Return, ReturnTo
  <1>2. CASE Callback
    BY <1>2 DEF Callback, CallScan, CallScanFails, ReportFirst, NsAttach, NsOpen,
                NsClose, NsRemove, NsRename, NsDetach, ReportNext,
                PkAttach, PkWrite, PkDetach, EndCallback
  <1>3. CASE User
    BY <1>3 DEF User, Open, Close, PickTarget, RefuseScan, Reset, ShowResults,
                Back
  <1>4. CASE GameWrites \/ GameExits \/ OverlayDies \/ SysmodDies \/ PowerCycle
    BY <1>4 DEF GameWrites, GameExits, OverlayDies, SysmodDies, PowerCycle, ReturnTo
  <1>5. CASE UNCHANGED vars
    BY <1>5 DEF vars
  <1> QED
    BY <1>1, <1>2, <1>3, <1>4, <1>5 DEF Next

(* The locals of the callback. *)
LEMMA JobType ==
    ASSUME IInv, [Next]_vars
    PROVE  job' \in Job
  <1>j. job \in Job /\ NoJob \in Job
    BY DEF IInv, TypeOK, Job, NoJob
  <1>1. ASSUME NEW rc \in {"ok", "fail"}, job' = [job EXCEPT !.rc = rc]
        PROVE  job' \in Job
    BY <1>j, <1>1 DEF Job
  <1>2. CASE NsRename /\ job' = [job EXCEPT !.ret = TRUE]
    BY <1>j, <1>2 DEF Job
  <1>3. CASE NsFilter
    <2>1. PICK S \in SUBSET Entry : job' = [job EXCEPT !.kept = S]
      BY <1>3, FilteredFile
    <2> QED
      BY <1>j, <2>1 DEF Job
  <1>4. CASE FirstScan \/ NextScan \/ Poke
    <2>1. PICK pid \in Pid \cup {0}, addr \in Addr \cup {0}, v \in Value :
              job' = [pid |-> pid, addr |-> addr, val |-> v,
                      kept |-> {}, ret |-> FALSE, rc |-> "ok"]
      BY <1>4 DEF FirstScan, NextScan, Poke, BeginScan, IInv, TypeOK, NoJob
    <2> QED
      BY <2>1 DEF Job
  <1>5. CASE ScanDetach /\ job' = [job EXCEPT !.rc = scanJob.rc]
    <2>1. scanJob.rc \in {"ok", "fail"}
      BY DEF IInv, TypeOK, ScanJob
    <2> QED
      BY <1>1, <1>5, <2>1
  <1> QED
    BY <1>j, <1>1, <1>2, <1>3, <1>4, <1>5, JobSteps

(* The locals of the scan. *)
LEMMA ScanJobType ==
    ASSUME IInv, [Next]_vars
    PROVE  scanJob' \in ScanJob
  <1>j. scanJob \in ScanJob /\ NoScan \in ScanJob
    BY DEF IInv, TypeOK, ScanJob, NoScan
  <1>1. CASE ScanAttach \/ ScanBegin \/ ScanDetach \/ SysmodDies \/ PowerCycle
    BY <1>j, <1>1 DEF ScanAttach, ScanBegin, ScanDetach, SysmodDies, PowerCycle,
                      Return, ReturnTo
  <1>2. CASE ScanWalk
    <2>1. PICK S \in SUBSET Entry : scanJob' = [scanJob EXCEPT !.found = S]
      BY <1>2, WalkedFile
    <2> QED
      BY <1>j, <2>1 DEF ScanJob
  <1>3. CASE ScanRename
    <2>1. PICK rc \in {"ok", "fail"} : scanJob' = [scanJob EXCEPT !.rc = rc]
      BY <1>3 DEF ScanRename
    <2> QED
      BY <1>j, <2>1 DEF ScanJob
  <1>4. CASE CallScan
    <2>1. scanJob' = [pid |-> job.pid, val |-> job.val, found |-> {}, rc |-> "ok"]
      BY <1>4 DEF CallScan, NoScan
    <2> QED
      BY <2>1 DEF IInv, TypeOK, Job, ScanJob
  <1> QED
    BY <1>j, <1>1, <1>2, <1>3, <1>4, WhoWrites

(* The list on the screen. *)
LEMMA PageType ==
    ASSUME IInv, [Next]_vars
    PROVE  page' \in [pid : Pid \cup {0}, addrs : SUBSET Addr,
                      count : 0 .. Cardinality(Addr), of : Pid \cup {0}]
  <1> DEFINE P == [pid : Pid \cup {0}, addrs : SUBSET Addr,
                   count : 0 .. Cardinality(Addr), of : Pid \cup {0}]
  <1>1. page \in P /\ NoPage \in P
    <2>1. 0 \in 0 .. Cardinality(Addr)
      BY CardAssumption, FS_CardinalityType
    <2> QED
      BY <2>1 DEF IInv, TypeOK, NoPage
  <1>2. ASSUME NEW pid \in Pid \cup {0}
        PROVE  Listing(pid) \in P
    <2>1. CASE Count = 0
      <3>1. Listing(pid) = [NoPage EXCEPT !.pid = pid]
        BY <2>1 DEF Listing
      <3> QED
        BY <1>1, <3>1
    <2>2. CASE Count # 0
      <3>1. Listing(pid) = [pid |-> pid, addrs |-> Addrs(bin), count |-> Count, of |-> bin.of]
        BY <2>2 DEF Listing
      <3>2. bin \in File /\ Count \in 0 .. Cardinality(Addr)
        <4>1. bin \in File /\ Count = bin.count /\ bin.count # NoHeader
          BY <2>2 DEF IInv, TypeOK, Count
        <4>2. bin.count \in NoHeader .. Cardinality(Addr)
          BY <4>1 DEF File
        <4> QED
          BY <4>1, <4>2, CardAssumption, FS_CardinalityType DEF NoHeader
      <3>3. Addrs(bin) \in SUBSET Addr
        BY <3>2 DEF Addrs, File, Entry
      <3> QED
        BY <3>1, <3>2, <3>3 DEF File
    <2> QED
      BY <2>1, <2>2
  <1>3. m_targetPid \in Pid \cup {0} /\ page.pid \in Pid \cup {0}
    BY DEF IInv, TypeOK
  <1>4. page' \in {page, NoPage, Listing(m_targetPid), Listing(page.pid)}
    BY WhoWrites DEF Open, Close, ShowResults, Back, OverlayDies, PowerCycle
  <1> QED
    BY <1>1, <1>2, <1>3, <1>4

(* Where the overlay and the scan are, the target and the status line. *)
LEMMA ScreenType ==
    ASSUME IInv, [Next]_vars
    PROVE  /\ gui' \in OverlaySteps \cup {"closed", "main", "results"}
           /\ scan' \in ScanSteps \cup {"idle", "gone"}
           /\ m_targetPid' \in Pid \cup {0}
           /\ m_status' \in {"", "scanning", "refused", "cleared", "firstResult",
                            "firstFailed", "nextResult", "nextFailed"}
  <1> USE DEF cardVars, guiVars, scanVars, IInv, TypeOK, OverlaySteps, ScanSteps
  <1>1. CASE Sysmod
    BY <1>1 DEF Sysmod, ScanAttach, ScanBegin, ScanWalk, ScanEnd, ScanRemove,
                ScanRename, ScanDetach, Return, ReturnTo
  <1>2. CASE Callback
    BY <1>2 DEF Callback, CallScan, CallScanFails, ReportFirst, NsAttach, NsOpen,
                NsFilter, NsClose, NsRemove, NsRename, NsDetach, ReportNext,
                PkAttach, PkWrite, PkDetach, EndCallback
  <1>3. CASE User
    BY <1>3 DEF User, Open, Close, PickTarget, RefuseScan, FirstScan, NextScan,
                BeginScan, Reset, ShowResults, Back, Poke
  <1>4. CASE GameWrites \/ GameExits \/ OverlayDies \/ PowerCycle
    BY <1>4 DEF GameWrites, GameExits, OverlayDies, PowerCycle
  <1>6. CASE SysmodDies
    BY <1>6 DEF SysmodDies, ReturnTo
  <1>5. CASE UNCHANGED vars
    BY <1>5 DEF vars
  <1> QED
    BY <1>1, <1>2, <1>3, <1>4, <1>5, <1>6 DEF Next

(* Types, and the one debugged process, over any step. *)
LEMMA TypeStep ==
    ASSUME IInv, [Next]_vars
    PROVE  TypeOK' /\ OneDebugged'
  <1>1. DebuggerTypeOK' /\ OneDebugged'
    BY DebuggerStep DEF IInv, TypeOK, DebuggerInv
  <1> QED
    BY <1>1, MemType, FilesType, JobType, ScanJobType, PageType, ScreenType
       DEF TypeOK, File, Job, ScanJob, Entry

(* An attach that the kernel grants names a process there is. *)
LEMMA Attached ==
    ASSUME IInv, NEW pid, NEW rc, attach(pid, rc)
    PROVE  \/ rc = "ok" /\ pid \in Pid /\ g_debug' = pid
           \/ rc = "fail" /\ g_debug' = INVALID_HANDLE
  <1>1. alive \subseteq Pid
    BY DEF IInv, TypeOK, DebuggerTypeOK
  <1> QED
    BY <1>1 DEF attach

(* One handle and one thread: who holds it changes with who runs. *)
LEMMA CouplingStep ==
    ASSUME IInv, [Next]_vars
    PROVE  Coupling'
  <1> USE DEF cardVars, guiVars, scanVars, Coupling, Scanning, ScanSteps, Held,
              Served, ServerFree
  <1>i. Coupling /\ scanJob \in ScanJob /\ job \in Job
    BY DEF IInv, TypeOK
  <1>1. CASE Sysmod
    <2>1. CASE ScanAttach
      BY <1>i, <2>1, Attached DEF ScanAttach, Return, ReturnTo
    <2>2. CASE ScanBegin
      BY <1>i, <2>2 DEF ScanBegin, Return, ReturnTo, detach, debuggerVars
    <2>3. CASE ScanWalk
      BY <1>i, <2>3 DEF ScanWalk, ScanJob, debuggerVars
    <2>4. CASE ScanEnd \/ ScanRemove \/ ScanRename
      BY <1>i, <2>4 DEF ScanEnd, ScanRemove, ScanRename, ScanJob, debuggerVars
    <2>5. CASE ScanDetach
      BY <1>i, <2>5 DEF ScanDetach, Return, ReturnTo, detach
    <2> QED
      BY <1>1, <2>1, <2>2, <2>3, <2>4, <2>5 DEF Sysmod
  <1>2. CASE Callback
    <2>1. CASE CallScan \/ CallScanFails \/ ReportFirst \/ ReportNext
      BY <1>i, <2>1 DEF CallScan, CallScanFails, ReportFirst, ReportNext,
         EndCallback, debuggerVars, NoScan, Job
    <2>2. CASE NsAttach \/ PkAttach
      BY <1>i, <2>2, Attached DEF NsAttach, PkAttach, EndCallback
    <2>3. CASE NsOpen \/ NsFilter \/ NsClose \/ NsRemove \/ NsRename
      BY <1>i, <2>3 DEF NsOpen, NsFilter, NsClose, NsRemove, NsRename, debuggerVars, Job
    <2>4. CASE NsDetach \/ PkDetach
      BY <1>i, <2>4 DEF NsDetach, PkDetach, EndCallback, detach
    <2>5. CASE PkWrite
      BY <1>i, <2>5 DEF PkWrite, accessMemory, debuggerVars
    <2> QED
      BY <1>2, <2>1, <2>2, <2>3, <2>4, <2>5 DEF Callback
  <1>3. CASE User
    BY <1>i, <1>3 DEF User, Open, Close, PickTarget, RefuseScan, FirstScan, NextScan,
                BeginScan, Reset, ShowResults, Back, Poke, debuggerVars
  <1>4. CASE GameWrites \/ GameExits \/ OverlayDies \/ PowerCycle
    BY <1>i, <1>4 DEF GameWrites, GameExits, OverlayDies, PowerCycle, debuggerVars, ProcessExit
  <1>5. CASE SysmodDies
    BY <1>i, <1>5 DEF SysmodDies, ReturnTo, detach
  <1>6. CASE UNCHANGED vars
    BY <1>i, <1>6 DEF vars, debuggerVars
  <1> QED
    BY <1>1, <1>2, <1>3, <1>4, <1>5, <1>6 DEF Next

(* The overlay changes its target and its list only between callbacks. *)
LEMMA TargetsStep ==
    ASSUME IInv, [Next]_vars
    PROVE  Targets'
  <1> USE DEF cardVars, guiVars, scanVars, Targets
  <1>i. Targets /\ job \in Job
    BY DEF IInv, TypeOK
  <1>1. CASE Sysmod \/ SysmodDies
    BY <1>i, <1>1 DEF Sysmod, ScanAttach, ScanBegin, ScanWalk, ScanEnd, ScanRemove,
                ScanRename, ScanDetach, Return, ReturnTo, SysmodDies, Job
  <1>2. CASE Callback
    BY <1>i, <1>2 DEF Callback, CallScan, CallScanFails, ReportFirst, NsAttach, NsOpen,
                NsFilter, NsClose, NsRemove, NsRename, NsDetach, ReportNext,
                PkAttach, PkWrite, PkDetach, EndCallback, Job
  <1>3. CASE User
    BY <1>i, <1>3 DEF User, Open, Close, PickTarget, RefuseScan, FirstScan, NextScan,
                BeginScan, Reset, ShowResults, Back, Poke, NoJob
  <1>4. CASE GameWrites \/ GameExits \/ OverlayDies \/ PowerCycle
    BY <1>i, <1>4 DEF GameWrites, GameExits, OverlayDies, PowerCycle
  <1>5. CASE UNCHANGED vars
    BY <1>i, <1>5 DEF vars
  <1> QED
    BY <1>1, <1>2, <1>3, <1>4, <1>5 DEF Next

(* A step that changes a game's memory is that of a game nobody holds, or the
   poke, or a power cycle. *)
LEMMA MemorySteps ==
    ASSUME IInv, [Next]_vars, NEW pid \in Pid
    PROVE  \/ mem'[pid] = mem[pid]
           \/ GameWrites /\ pid \notin debugged
           \/ PkWrite /\ isAttached /\ pid = g_debug
                       /\ mem' = [mem EXCEPT ![pid][job.addr] = job.val]
           \/ PowerCycle
  <1>1. CASE GameWrites
    <2>1. PICK p \in alive \ debugged, a \in Addr, v \in Value : mem' = [mem EXCEPT ![p][a] = v]
      BY <1>1 DEF GameWrites
    <2> QED
      BY <1>1, <2>1 DEF IInv, TypeOK
  <1>2. CASE PkWrite
    <2>1. \/ mem' = mem
          \/ isAttached /\ mem' = [mem EXCEPT ![g_debug][job.addr] = job.val]
      BY <1>2 DEF PkWrite, accessMemory
    <2> QED
      BY <1>2, <2>1 DEF IInv, TypeOK
  <1> QED
    BY <1>1, <1>2, WhoWrites

(* While a scan, or a filter, has a process attached, its memory stands still. *)
LEMMA Frozen ==
    ASSUME IInv, [Next]_vars, ~PowerCycle, ~PkWrite, g_debug \in Pid
    PROVE  mem'[g_debug] = mem[g_debug]
  <1>1. g_debug \in debugged
    BY PidAssumption DEF IInv, OneDebugged
  <1> QED
    BY <1>1, MemorySteps

(* How the overlay comes to be where the files are written. *)
LEMMA ScreenSteps ==
    ASSUME IInv, [Next]_vars
    PROVE  /\ gui' = "scanWait" => gui = "scanWait" \/ CallScan
           /\ gui' = "scanDone" =>
                \/ gui = "scanDone" \/ CallScanFails
                \/ /\ gui = "scanWait" /\ m_targetPid' = m_targetPid
                   /\ \/ job' = [job EXCEPT !.rc = "fail"]
                      \/ ScanDetach /\ job' = [job EXCEPT !.rc = scanJob.rc]
           /\ gui' = "nsFilter" => gui = "nsFilter" \/ NsOpen
           /\ gui' = "nsClose" => gui = "nsClose" \/ NsFilter
           /\ gui' = "nsRemove" => gui = "nsRemove" \/ NsClose
           /\ gui' = "nsRename" => gui = "nsRename" \/ NsRemove
  <1> USE DEF cardVars, guiVars, scanVars
  <1>1. CASE Sysmod \/ SysmodDies
    BY <1>1 DEF Sysmod, ScanAttach, ScanBegin, ScanWalk, ScanEnd, ScanRemove,
                ScanRename, ScanDetach, Return, ReturnTo, SysmodDies
  <1>2. CASE Callback
    BY <1>2 DEF Callback, CallScan, CallScanFails, ReportFirst, NsAttach, NsOpen,
                NsFilter, NsClose, NsRemove, NsRename, NsDetach, ReportNext,
                PkAttach, PkWrite, PkDetach, EndCallback
  <1>3. CASE User
    BY <1>3 DEF User, Open, Close, PickTarget, RefuseScan, FirstScan, NextScan,
                BeginScan, Reset, ShowResults, Back, Poke
  <1>4. CASE GameWrites \/ GameExits \/ OverlayDies \/ PowerCycle
    BY <1>4 DEF GameWrites, GameExits, OverlayDies, PowerCycle
  <1>5. CASE UNCHANGED vars
    BY <1>5 DEF vars
  <1> QED
    BY <1>1, <1>2, <1>3, <1>4, <1>5 DEF Next

(* While a scan runs, nobody else touches its locals, the files or the memory of
   its game: there is no overlay but the one that waits. *)
LEMMA ScanFrame ==
    ASSUME IInv, [Next]_vars, Scanning
    PROVE  \/ Sysmod \/ SysmodDies \/ PowerCycle
           \/ /\ scan' = scan /\ scanJob' = scanJob /\ cardVars' = cardVars
              /\ mem'[scanJob.pid] = mem[scanJob.pid]
  <1> SUFFICES ASSUME ~Sysmod, ~SysmodDies, ~PowerCycle
               PROVE  /\ scan' = scan /\ scanJob' = scanJob /\ cardVars' = cardVars
                      /\ mem'[scanJob.pid] = mem[scanJob.pid]
    OBVIOUS
  <1>1. /\ ~ServerFree /\ gui \in {"closed", "scanWait"}
        /\ g_debug = scanJob.pid /\ g_debug \in Pid
    BY DEF IInv, Coupling, Scanning, ScanSteps, ServerFree
  <1>2. /\ ~CallScan /\ ~Open /\ ~Reset
        /\ ~NsOpen /\ ~NsFilter /\ ~NsClose /\ ~NsRemove /\ ~NsRename /\ ~PkWrite
    BY <1>1 DEF CallScan, Open, Reset, NsOpen, NsFilter, NsClose, NsRemove, NsRename,
                PkWrite
  <1>3. scan' = scan /\ scanJob' = scanJob /\ cardVars' = cardVars
    BY <1>2, WhoWrites DEF Sysmod, cardVars
  <1>4. mem'[scanJob.pid] = mem[scanJob.pid]
    BY <1>1, <1>2, Frozen
  <1> QED
    BY <1>3, <1>4

(* The scan's file, step by step of runFirstScanU32. *)
LEMMA ScanFileStep ==
    ASSUME IInv, [Next]_vars
    PROVE  ScanFile'
  <1>i. ScanFile /\ scanJob \in ScanJob /\ Coupling
    BY DEF IInv, TypeOK
  <1>1. CASE ScanAttach \/ SysmodDies \/ PowerCycle \/ ScanDetach
    BY <1>1 DEF ScanFile, ScanAttach, SysmodDies, PowerCycle, ScanDetach, Return,
                ReturnTo
  <1>2. CASE ScanBegin
    BY <1>2 DEF ScanFile, ScanBegin, Return, ReturnTo
  <1>3. CASE ScanWalk
    <2>1. PICK S \in SUBSET Entry : \E T \in SUBSET S :
              /\ tmp \in File /\ tmp' = [tmp EXCEPT !.ents = T]
              /\ scanJob' = [scanJob EXCEPT !.found = S]
              /\ TrueOf(S, scanJob.pid) /\ Matching(S, scanJob.val)
      BY <1>3, WalkedFile
    <2>2. /\ tmp \in NewFiles(scanJob.pid) /\ mem' = mem /\ scan' = "end"
          /\ scanJob.pid \in Pid
      BY <1>3, <1>i DEF ScanFile, ScanWalk, Coupling, Scanning, ScanSteps
    <2>3. tmp' \in File /\ tmp'.of = scanJob.pid /\ tmp'.count \in {NoHeader, 0}
      <3>1. PICK T \in SUBSET Entry : tmp \in File /\ tmp' = [tmp EXCEPT !.ents = T]
        BY <2>1
      <3>2. tmp.of = scanJob.pid /\ tmp.count \in {NoHeader, 0}
        BY <2>2, NewFileType
      <3> QED
        BY <3>1, <3>2, FileUpdates
    <2>4. scanJob'.found = S /\ scanJob'.pid = scanJob.pid /\ scanJob'.val = scanJob.val
      BY <1>i, <2>1 DEF ScanJob
    <2> QED
      BY <2>1, <2>2, <2>3, <2>4, CardAssumption DEF ScanFile, TrueOf, Matching
  <1>4. CASE ScanEnd
    <2>1. /\ tmp' \in File /\ Finished(tmp') /\ tmp'.of = scanJob.pid
          /\ tmp'.ents \subseteq scanJob.found
      BY <1>4, EndedFile DEF IInv, ScanFile, ScanEnd
    <2>2. TrueOf(scanJob.found, scanJob.pid) /\ Matching(scanJob.found, scanJob.val)
      BY <1>4 DEF IInv, ScanFile, ScanEnd
    <2>3. scanJob' = scanJob /\ mem' = mem /\ scan' = "remove"
      BY <1>4 DEF ScanEnd
    <2> QED
      BY <2>1, <2>2, <2>3, CardAssumption DEF ScanFile, TrueOf, Matching, Finished, Whole, Short
  <1>5. CASE ScanRemove
    BY <1>5 DEF IInv, ScanRemove, ScanFile, TrueOf, Matching, Finished, Whole, Short
  <1>6. CASE ScanRename
    <2>1. PICK ok \in BOOLEAN : /\ RenameTmp(ok)
                               /\ scanJob' = [scanJob EXCEPT !.rc = IF ok THEN "ok" ELSE "fail"]
      BY <1>6 DEF ScanRename
    <2>2. scanJob'.pid = scanJob.pid /\ scanJob'.val = scanJob.val
      BY <1>i, <2>1 DEF ScanJob
    <2>3. scanJob'.rc = "ok" => bin' = tmp /\ tmp # NoFile
      BY <1>i, <2>1 DEF ScanJob, RenameTmp
    <2>4. scan = "rename" /\ scan' = "detach"
      BY <1>6 DEF ScanRename
    <2> QED
      BY <1>i, <2>2, <2>3, <2>4 DEF ScanFile, Matching, Finished, Whole, Short
  <1>7. CASE /\ Scanning
             /\ scan' = scan /\ scanJob' = scanJob /\ cardVars' = cardVars
             /\ mem'[scanJob.pid] = mem[scanJob.pid]
    BY <1>i, <1>7 DEF ScanFile, TrueOf, Matching, Finished, Whole, Short, NewFiles, cardVars
  <1>8. CASE ~Scanning /\ ~Sysmod
    <2>1. ~Scanning'
      BY <1>8, WhoWrites DEF Scanning, ScanSteps, CallScan, Open, SysmodDies, ReturnTo,
                             PowerCycle
    <2> QED
      BY <2>1 DEF ScanFile, Scanning, ScanSteps
  <1> QED
    BY <1>1, <1>2, <1>3, <1>4, <1>5, <1>6, <1>7, <1>8, ScanFrame DEF Sysmod

(* While the overlay holds a process, nobody else touches its locals, the files
   or, if the sysmod lives, the memory of that process. *)
LEMMA CallbackFrame ==
    ASSUME IInv, [Next]_vars, gui \in Held \cup {"scanDone"}, gui' = gui
    PROVE  /\ job' = job /\ cardVars' = cardVars /\ m_targetPid' = m_targetPid
           /\ Served' => Served
           /\ gui \in Held \ {"pkWrite"} /\ Served => mem'[job.pid] = mem[job.pid]
  <1>1. ServerFree /\ ~Sysmod /\ ~CallScan /\ gui \notin {"main", "closed", "scanWait"}
    BY DEF IInv, Coupling, Held, Sysmod, ScanAttach, ScanBegin, ScanWalk, ScanEnd,
           ScanRemove, ScanRename, ScanDetach, CallScan, ServerFree
  <1>2. ~PowerCycle
    BY <1>1 DEF PowerCycle
  <1>3. ~Callback
    BY DEF Callback, CallScan, CallScanFails, ReportFirst, NsAttach, NsOpen,
           NsFilter, NsClose, NsRemove, NsRename, NsDetach, ReportNext,
           PkAttach, PkWrite, PkDetach, EndCallback, Held
  <1>4. job' = job /\ cardVars' = cardVars /\ m_targetPid' = m_targetPid
    <2>1. CASE User
      BY <1>1, <2>1 DEF User, Open, Close, PickTarget, RefuseScan, FirstScan, NextScan,
                BeginScan, Reset, ShowResults, Back, Poke, cardVars, Held
    <2>2. CASE GameWrites \/ GameExits \/ OverlayDies \/ SysmodDies \/ UNCHANGED vars
      BY <1>1, <2>2 DEF GameWrites, GameExits, OverlayDies, SysmodDies, ReturnTo,
                        vars, guiVars, cardVars
    <2> QED
      BY <1>1, <1>2, <1>3, <2>1, <2>2 DEF Next
  <1>5. Served' => Served
    BY <1>1, <1>2, WhoWrites DEF Served, Open, SysmodDies, ReturnTo, ServerFree
  <1>6. gui \in Held \ {"pkWrite"} /\ Served => mem'[job.pid] = mem[job.pid]
    <2>1. gui \in Held /\ Served => g_debug = job.pid /\ g_debug \in Pid
      BY DEF IInv, Coupling
    <2>2. gui # "pkWrite" => ~PkWrite
      BY DEF PkWrite
    <2> QED
      BY <1>2, <2>1, <2>2, Frozen
  <1> QED
    BY <1>4, <1>5, <1>6

(* The filter's file, step by step of filterU32. *)
LEMMA FilterFileStep ==
    ASSUME IInv, [Next]_vars
    PROVE  FilterFile'
  <1>i. FilterFile /\ job \in Job
    BY DEF IInv, TypeOK
  <1>1. CASE NsOpen
    BY <1>1 DEF NsOpen, FilterFile, NewFiles
  <1>2. CASE NsFilter
    <2>1. PICK S \in SUBSET Entry : \E T \in SUBSET S :
              /\ tmp \in File /\ tmp' = [tmp EXCEPT !.ents = T]
              /\ job' = [job EXCEPT !.kept = S]
              /\ Matching(S, job.val)
              /\ Served => TrueOf(S, job.pid)
      BY <1>2, FilteredFile
    <2>2. /\ tmp \in NewFiles(job.pid) /\ mem' = mem /\ gui' = "nsClose" /\ scan' = scan
          /\ job.pid \in Pid \cup {0}
      BY <1>2, <1>i DEF FilterFile, NsFilter, scanVars, Job
    <2>3. tmp' \in File /\ tmp'.of = job.pid /\ tmp'.count \in {NoHeader, 0}
      <3>1. PICK T \in SUBSET Entry : tmp \in File /\ tmp' = [tmp EXCEPT !.ents = T]
        BY <2>1
      <3>2. tmp.of = job.pid /\ tmp.count \in {NoHeader, 0}
        BY <2>2, NewFileType
      <3> QED
        BY <3>1, <3>2, FileUpdates
    <2>4. job'.kept = S /\ job'.pid = job.pid /\ job'.val = job.val
      BY <1>i, <2>1 DEF Job
    <2> QED
      BY <2>1, <2>2, <2>3, <2>4, CardAssumption DEF FilterFile, TrueOf, Matching, Served
  <1>3. CASE NsClose
    <2>1. /\ tmp' \in File /\ Finished(tmp') /\ tmp'.of = job.pid
          /\ tmp'.ents \subseteq job.kept
      BY <1>3, ClosedFile DEF IInv, FilterFile, NsClose
    <2>2. Served => TrueOf(job.kept, job.pid)
      BY <1>3 DEF IInv, FilterFile, NsClose
    <2>3. job' = job /\ mem' = mem /\ gui' = "nsRemove" /\ scan' = scan
      BY <1>3 DEF NsClose, scanVars
    <2> QED
      BY <2>1, <2>2, <2>3, CardAssumption DEF FilterFile, TrueOf, Finished, Whole, Short, Served
  <1>4. CASE NsRemove
    BY <1>i, <1>4 DEF NsRemove, FilterFile, TrueOf, Finished, Whole, Short, Served, scanVars
  <1>5. CASE gui' = gui /\ gui \in {"nsFilter", "nsClose", "nsRemove", "nsRename"}
    <2>1. /\ job' = job /\ bin' = bin /\ tmp' = tmp /\ (Served' => Served)
          /\ Served => mem'[job.pid] = mem[job.pid]
      BY <1>5, CallbackFrame DEF Held, cardVars
    <2> QED
      BY <1>i, <1>5, <2>1 DEF FilterFile, TrueOf, Matching, Finished, Whole, Short, NewFiles
  <1>6. CASE gui' \notin {"nsFilter", "nsClose", "nsRemove", "nsRename"}
    BY <1>6 DEF FilterFile
  <1> QED
    BY <1>1, <1>2, <1>3, <1>4, <1>5, <1>6, ScreenSteps

(* Only a finished results.tmp is renamed. *)
LEMMA ResultsWholeStep ==
    ASSUME IInv, [Next]_vars
    PROVE  ResultsWhole'
  <1>1. bin' \in {bin, NoFile} \/ (bin' = tmp /\ (ScanRename \/ NsRename))
    BY WhoWrites DEF ScanRemove, ScanRename, NsRemove, NsRename, Reset, Remove,
                     RenameTmp, cardVars
  <1>2. bin' = tmp /\ (ScanRename \/ NsRename) => Finished(tmp)
    BY DEF ScanRename, NsRename, IInv, ScanFile, FilterFile
  <1> QED
    BY <1>1, <1>2 DEF IInv, ResultsWhole, Finished, Whole, Short

(* rc is ok only when the rename has succeeded, and nothing comes between. *)
LEMMA FirstScanReportedStep ==
    ASSUME IInv, [Next]_vars
    PROVE  FirstScanReported'
  <1>i. job \in Job /\ FirstScanReported /\ Targets /\ Coupling /\ ScanFile
    BY DEF IInv, TypeOK
  <1>1. CASE CallScanFails
    BY <1>i, <1>1 DEF CallScanFails, FirstScanReported, Job
  <1>2. CASE /\ gui = "scanWait" /\ m_targetPid' = m_targetPid
             /\ \/ job' = [job EXCEPT !.rc = "fail"]
                \/ ScanDetach /\ job' = [job EXCEPT !.rc = scanJob.rc]
    <2>1. CASE job' = [job EXCEPT !.rc = "fail"]
      BY <1>i, <2>1 DEF Job, FirstScanReported
    <2>2. CASE ScanDetach /\ job' = [job EXCEPT !.rc = scanJob.rc]
      <3>1. bin' = bin /\ job'.rc = scanJob.rc /\ job'.val = job.val
        BY <1>i, <2>2 DEF Job, ScanDetach, cardVars
      <3>2. m_targetPid' = scanJob.pid /\ job.val = scanJob.val
        BY <1>i, <1>2 DEF Coupling, Targets
      <3>3. scanJob.rc = "ok" =>
                /\ bin # NoFile /\ Finished(bin) /\ bin.of = scanJob.pid
                /\ Matching(bin.ents, scanJob.val)
        BY <1>i, <1>2, <2>2 DEF ScanFile, ScanDetach
      <3> QED
        BY <3>1, <3>2, <3>3 DEF FirstScanReported, Matching, Finished, Whole, Short
    <2> QED
      BY <1>2, <2>1, <2>2
  <1>3. CASE gui = "scanDone" /\ gui' = "scanDone"
    BY <1>i, <1>3, CallbackFrame DEF FirstScanReported, Finished, Whole, Short, cardVars
  <1> QED
    BY <1>1, <1>2, <1>3, ScreenSteps DEF FirstScanReported

(* The invariant holds where the system starts. *)
LEMMA Starts ==
    ASSUME Init
    PROVE  IInv
  <1>1. 0 \in 0 .. Cardinality(Addr)
    BY CardAssumption, FS_CardinalityType
  <1>2. TypeOK
    <2>1. NoJob \in Job /\ NoScan \in ScanJob
      BY DEF NoJob, Job, NoScan, ScanJob
    <2>2. NoPage \in [pid : Pid \cup {0}, addrs : SUBSET Addr,
                      count : 0 .. Cardinality(Addr), of : Pid \cup {0}]
      BY <1>1 DEF NoPage
    <2> QED
      BY <2>1, <2>2, PidAssumption DEF Init, TypeOK, DebuggerInit, DebuggerTypeOK
  <1>3. OneDebugged
    BY DEF Init, DebuggerInit, OneDebugged, isAttached
  <1>4. Coupling /\ Targets /\ ScanFile /\ FilterFile /\ ResultsWhole /\ FirstScanReported
    BY DEF Init, Coupling, Scanning, ScanSteps, Held, Served, Targets, ScanFile, FilterFile,
           ResultsWhole, FirstScanReported
  <1> QED
    BY <1>2, <1>3, <1>4 DEF IInv

(* And no step leaves it. *)
LEMMA Steps ==
    ASSUME IInv, [Next]_vars
    PROVE  IInv'
  BY TypeStep, CouplingStep, TargetsStep, ScanFileStep, FilterFileStep,
     ResultsWholeStep, FirstScanReportedStep DEF IInv

(* The inductive invariant holds of the whole system, always. *)
THEOREM Invariant == Spec => []IInv
  BY Starts, Steps, PTL DEF Spec

(* results.bin is never half written (resultsEnd, filterU32): its header counts
   the entries it holds, unless the card was full when it was written. *)
THEOREM ResultsWholeAlways == Spec => []ResultsWhole
  <1>1. IInv => ResultsWhole
    BY DEF IInv
  <1> QED
    BY <1>1, Invariant, PTL

(* A first scan that reports success (onFirstScan) has left its own file: of the
   target the user has, for the value that was asked, and whole unless the card
   was full.  On a full card the code reports success all the same. *)
THEOREM FirstScanReportedTrue == Spec => []FirstScanReported
  <1>1. IInv => FirstScanReported
    BY DEF IInv
  <1> QED
    BY <1>1, Invariant, PTL

(* Every variable of the system stays in its type, counts within the addresses. *)
THEOREM SystemTypeCorrect == Spec => []TypeOK
  <1>1. IInv => TypeOK
    BY DEF IInv
  <1> QED
    BY <1>1, Invariant, PTL

(* Nothing but a reset deletes results.bin (ScanRunner.cpp resultsEnd, filterU32)
   before the file that replaces it is written and closed, whole unless the card
   was full. *)
THEOREM ReplacementReadyAlways == Spec => ReplacementReady
  <1>1. ASSUME IInv, [Next]_vars
        PROVE  bin # NoFile /\ bin' = NoFile =>
                 \/ Reset
                 \/ tmp # NoFile /\ Finished(tmp) /\ ~TmpOpen
    <2>1. CASE ScanRemove
      <3>1. scan = "remove" /\ tmp # NoFile /\ Finished(tmp)
        BY <1>1, <2>1 DEF ScanRemove, IInv, ScanFile
      <3>2. ~TmpOpen
        BY <1>1, <3>1 DEF IInv, Coupling, ServerFree, TmpOpen
      <3> QED
        BY <3>1, <3>2
    <2>2. CASE NsRemove
      <3>1. gui = "nsRemove" /\ tmp # NoFile /\ Finished(tmp)
        BY <1>1, <2>2 DEF NsRemove, IInv, FilterFile
      <3>2. ~TmpOpen
        BY <1>1, <3>1 DEF IInv, Coupling, ServerFree, TmpOpen
      <3> QED
        BY <3>1, <3>2
    <2>3. CASE ScanRename \/ NsRename
      BY <2>3 DEF ScanRename, NsRename, RenameTmp, cardVars
    <2> QED
      BY <1>1, <2>1, <2>2, <2>3, WhoWrites
  <1> QED
    BY <1>1, Invariant, PTL DEF Spec, ReplacementReady

(* What is renamed to results.bin is true of the game's memory at that moment,
   for first scans and next scans, while the sysmod lives. *)
THEOREM CommitIsTrueAlways == Spec => CommitIsTrue
  <1>1. ASSUME IInv, [Next]_vars
        PROVE  bin' # bin /\ bin' # NoFile /\ Served =>
                 \A e \in bin'.ents : mem[bin'.of][e.addr] = e.val
    <2> SUFFICES ASSUME bin' # bin, bin' # NoFile, Served
                 PROVE  \A e \in bin'.ents : mem[bin'.of][e.addr] = e.val
      OBVIOUS
    <2>1. bin' = tmp /\ (ScanRename \/ NsRename)
      BY <1>1, WhoWrites DEF ScanRemove, ScanRename, NsRemove, NsRename, Reset, Remove,
                             RenameTmp, cardVars
    <2>2. TrueOf(tmp.ents, tmp.of)
      BY <1>1, <2>1 DEF ScanRename, NsRename, IInv, ScanFile, FilterFile
    <2> QED
      BY <2>1, <2>2 DEF TrueOf
  <1> QED
    BY <1>1, Invariant, PTL DEF Spec, CommitIsTrue

(* While a game is held, only the poke the user asked for changes its memory,
   at the entry and in the process of the list on the screen. *)
THEOREM PokeLandsAlways == Spec => PokeLands
  <1>1. ASSUME IInv, [Next]_vars
        PROVE  \A p \in debugged \cap debugged' : mem'[p] # mem[p] =>
                 /\ gui = "pkWrite" /\ p = page.pid /\ job.addr \in page.addrs
                 /\ mem'[p] = [mem[p] EXCEPT ![job.addr] = job.val]
    <2> SUFFICES ASSUME NEW p \in debugged \cap debugged', mem'[p] # mem[p]
                 PROVE  /\ gui = "pkWrite" /\ p = page.pid /\ job.addr \in page.addrs
                        /\ mem'[p] = [mem[p] EXCEPT ![job.addr] = job.val]
      OBVIOUS
    <2>1. p \in Pid
      BY <1>1 DEF IInv, TypeOK, DebuggerTypeOK
    <2>2. ~PowerCycle
      BY DEF PowerCycle
    <2>3. PkWrite /\ isAttached /\ p = g_debug /\ mem' = [mem EXCEPT ![p][job.addr] = job.val]
      BY <1>1, <2>1, <2>2, MemorySteps
    <2>4. gui = "pkWrite" /\ p = job.pid
      BY <1>1, <2>3 DEF PkWrite, IInv, Coupling, Held, isAttached
    <2>5. p = page.pid /\ job.addr \in page.addrs
      BY <1>1, <2>4 DEF IInv, Targets
    <2>6. mem'[p] = [mem[p] EXCEPT ![job.addr] = job.val]
      BY <1>1, <2>1, <2>3 DEF IInv, TypeOK
    <2> QED
      BY <2>4, <2>5, <2>6
  <1> QED
    BY <1>1, Invariant, PTL DEF Spec, PokeLands
=============================================================================
