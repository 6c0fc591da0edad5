---------------------------- MODULE SwitchEngine ----------------------------
(***************************************************************************)
(* The whole system: the overlay (source/gui, source/scanner), the sysmod  *)
(* (sysmod/source), the games, and the two files on the SD card through    *)
(* which overlay and sysmod share results.                                 *)
(*                                                                         *)
(* The overlay is one thread: a menu action runs its callback to the end,  *)
(* blocking in each call to the sysmod.  A call is one step, which the     *)
(* server may take when it is free: IpcServer implements SengService, so   *)
(* nothing finer can be seen.  The one call whose steps matter is the      *)
(* first scan: it writes files, and it goes on when the overlay dies.      *)
(***************************************************************************)
EXTENDS Debugger, Integers

CONSTANTS
    Addr,           \* addresses of the words a scan may find
    Value,          \* values of those words
    NoFile,         \* the file does not exist
    OverlayMayDie,  \* the overlay may crash or be killed in mid-callback
    SysmodMayDie,   \* the sysmod may crash, or be stopped
    CardMayFill     \* fwrite may write less than it was given

ASSUME SystemAssumption ==
    {OverlayMayDie, SysmodMayDie, CardMayFill} \subseteq BOOLEAN

VARIABLES
    mem,            \* the memory of each game
    bin, tmp,       \* results.bin and results.tmp
    gui,            \* where the overlay is: which screen, or where in a callback
    m_targetPid, m_status,
    page,           \* what ResultsListGui shows
    job,            \* locals of the callback that is running
    scan, scanJob   \* where the sysmod is in runFirstScanU32, and its locals; or
                    \* "gone": the overlay's session was with one that died

cardVars == <<bin, tmp>>
guiVars  == <<gui, m_targetPid, m_status, page, job>>
scanVars == <<scan, scanJob>>
vars == <<mem, cardVars, guiVars, scanVars, debuggerVars>>

(* A results file: the count in its header, or that the header did not fit on
   the card, its entries and, what the file itself does not say, the process in
   which they were found and whether a full card kept a part of it out. *)
NoHeader == -1
Entry == [addr : Addr, val : Value]
File == [count : NoHeader .. Cardinality(Addr), ents : SUBSET Entry,
         of : Pid \cup {0}, cut : BOOLEAN]

(* An address space is finite, and no file is not a file. *)
ASSUME CardAssumption == IsFiniteSet(Addr) /\ NoFile \notin File

Hits(addrs, v) == {[addr |-> a, val |-> v] : a \in addrs}
Addrs(f) == {e.addr : e \in f.ents}

(* A file that is finished counts what it holds.  On a full card, whose
   refusals the code does not notice, it may also count more than it holds, or
   nothing, or have no header to be read by. *)
Whole(f) == f.count = Cardinality(f.ents)
Short(f) == f.cut /\ (f.count \in {NoHeader, 0} \/ f.count > Cardinality(f.ents))
Finished(f) == Whole(f) \/ Short(f)

(* The locals of a callback, and of runFirstScanU32. *)
Job == [pid : Pid \cup {0}, addr : Addr \cup {0}, val : Value \cup {0},
        kept : SUBSET Entry, ret : BOOLEAN, rc : {"ok", "fail"}]
ScanJob == [pid : Pid \cup {0}, val : Value \cup {0}, found : SUBSET Entry,
            rc : {"ok", "fail"}]
NoJob == [pid |-> 0, addr |-> 0, val |-> 0, kept |-> {}, ret |-> FALSE, rc |-> "ok"]
NoScan == [pid |-> 0, val |-> 0, found |-> {}, rc |-> "ok"]
NoPage == [pid |-> 0, addrs |-> {}, count |-> 0, of |-> 0]

OverlaySteps == {"scanCall", "scanWait", "scanDone", "nsAttach", "nsOpen",
                 "nsFilter", "nsClose", "nsRemove", "nsRename", "nsDetach",
                 "nsReport", "pkAttach", "pkWrite", "pkDetach"}
ScanSteps == {"attach", "begin", "walk", "end", "remove", "rename", "detach"}

TypeOK ==
    /\ DebuggerTypeOK
    /\ mem \in [Pid -> [Addr -> Value]]
    /\ bin \in File \cup {NoFile}
    /\ tmp \in File \cup {NoFile}
    /\ gui \in OverlaySteps \cup {"closed", "main", "results"}
    /\ m_targetPid \in Pid \cup {0}
    /\ m_status \in {"", "scanning", "refused", "cleared", "firstResult",
                     "firstFailed", "nextResult", "nextFailed"}
    /\ page \in [pid : Pid \cup {0}, addrs : SUBSET Addr,
                 count : 0 .. Cardinality(Addr), of : Pid \cup {0}]
    /\ scan \in ScanSteps \cup {"idle", "gone"}
    /\ job \in Job /\ scanJob \in ScanJob

Init ==
    /\ DebuggerInit
    /\ mem \in [Pid -> [Addr -> Value]]
    /\ bin = NoFile /\ tmp = NoFile
    /\ gui = "closed" /\ m_targetPid = 0 /\ m_status = ""
    /\ page = NoPage /\ job = NoJob
    /\ scan = "idle" /\ scanJob = NoScan

-----------------------------------------------------------------------------
(* The games. *)

(* A game writes its own memory, unless a debug handle keeps it frozen. *)
GameWrites ==
    /\ \E p \in alive \ debugged, a \in Addr, v \in Value :
         mem' = [mem EXCEPT ![p][a] = v]
    /\ UNCHANGED <<cardVars, guiVars, scanVars, debuggerVars>>

GameExits ==
    /\ \E p \in Pid : ProcessExit(p)
    /\ UNCHANGED <<mem, cardVars, guiVars, scanVars>>

-----------------------------------------------------------------------------
(* Files.  remove may fail (the card, or the other side has the file open);
   rename fails when the destination exists or the source does not. *)
Remove(f) == {f, NoFile}
RenameTmp(ok) ==
    \/ /\ ok /\ bin = NoFile /\ tmp # NoFile
       /\ bin' = tmp /\ tmp' = NoFile
    \/ ~ok /\ UNCHANGED cardVars

(* fwrite, whose result is ignored: everything, or on a full card less.  A
   header is written twice, with 0 when the file is made and with the count of
   the entries when it is closed; each may not reach the card. *)
Written(ents) == IF CardMayFill THEN SUBSET ents ELSE {ents}
HeaderWritten(n, old) == IF CardMayFill THEN {n, old} ELSE {n}
NewFiles(pid) == {[count |-> n, ents |-> {}, of |-> pid, cut |-> n = NoHeader] :
                    n \in HeaderWritten(0, NoHeader)}
Closings(f, ents) ==
    {[count |-> n, ents |-> w, of |-> f.of,
      cut |-> w # ents \/ n # Cardinality(ents)] :
        n \in HeaderWritten(Cardinality(ents), f.count), w \in Written(ents)}

TmpOpen == scan \in {"walk", "end"} \/ gui \in {"nsFilter", "nsClose"}

(* Mutant of Count: it does not see that there is no header. *)
CountUnread == IF bin = NoFile THEN 0 ELSE bin.count

(* ResultsStore::count: 0 also when the header cannot be read. *)
Count == IF bin = NoFile THEN 0 ELSE IF bin.count = NoHeader THEN 0 ELSE bin.count

-----------------------------------------------------------------------------
(* The sysmod: runFirstScanU32 (ScanRunner.cpp), one step for each thing that
   others can see.  ScanRunner has the walk through memory. *)

(* The call returns to the overlay that made it, if it is still there. *)
ReturnTo(next, rc) ==
    /\ scan' = next /\ scanJob' = NoScan
    /\ IF gui = "scanWait" THEN gui' = "scanDone" /\ job' = [job EXCEPT !.rc = rc]
                           ELSE UNCHANGED <<gui, job>>
    /\ UNCHANGED <<m_targetPid, m_status, page>>
Return(rc) == ReturnTo("idle", rc)

ScanAttach ==
    /\ scan = "attach"
    /\ \/ /\ scanJob.pid <= 1
          /\ Return("fail")
          /\ UNCHANGED debuggerVars
       \/ /\ scanJob.pid > 1
          /\ attach(scanJob.pid, "fail")
          /\ Return("fail")
       \/ /\ scanJob.pid > 1
          /\ attach(scanJob.pid, "ok")
          /\ scan' = "begin"
          /\ UNCHANGED <<scanJob, guiVars>>
    /\ UNCHANGED <<mem, cardVars>>

(* Mutant of ScanBegin: the old results go first. *)
BeginRemovesOld ==
    /\ scan = "begin"
    /\ bin' = NoFile
    /\ tmp' \in NewFiles(scanJob.pid)
    /\ scan' = "walk"
    /\ UNCHANGED <<mem, scanJob, guiVars, debuggerVars>>

(* resultsBegin: create results.tmp and write an empty header. *)
ScanBegin ==
    /\ scan = "begin"
    /\ \/ /\ tmp' \in NewFiles(scanJob.pid)
          /\ scan' = "walk"
          /\ UNCHANGED <<scanJob, guiVars, debuggerVars>>
       \/ /\ detach
          /\ Return("fail")
          /\ UNCHANGED tmp
    /\ UNCHANGED <<mem, bin>>

(* The walk: regions that cannot be read are skipped, and it ends early when
   the game exits.  Some of the hits are flushed to the file as it goes. *)
ScanWalk ==
    /\ scan = "walk"
    /\ \E addrs \in SUBSET {a \in Addr : mem[scanJob.pid][a] = scanJob.val} :
         LET found == Hits(addrs, scanJob.val) IN
         /\ g_debug \in alive \/ found = {}
         /\ scanJob' = [scanJob EXCEPT !.found = found]
         /\ \E flushed \in SUBSET found : tmp' = [tmp EXCEPT !.ents = flushed]
    /\ scan' = "end"
    /\ UNCHANGED <<mem, bin, guiVars, debuggerVars>>

(* Mutant of ScanEnd: the header is not rewritten. *)
HeaderLeft ==
    /\ scan = "end"
    /\ tmp' = [tmp EXCEPT !.ents = scanJob.found]
    /\ scan' = "remove"
    /\ UNCHANGED <<mem, bin, scanJob, guiVars, debuggerVars>>

(* resultsEnd: flush the rest, rewrite the header, close, remove, rename. *)
ScanEnd ==
    /\ scan = "end"
    /\ tmp' \in Closings(tmp, scanJob.found)
    /\ scan' = "remove"
    /\ UNCHANGED <<mem, bin, scanJob, guiVars, debuggerVars>>

(* Mutant of ScanRemove: the game is let go before the files are committed. *)
DetachEarly ==
    /\ scan = "remove"
    /\ bin' \in Remove(bin)
    /\ scan' = "rename"
    /\ detach
    /\ UNCHANGED <<mem, tmp, scanJob, guiVars>>

ScanRemove ==
    /\ scan = "remove"
    /\ bin' \in Remove(bin)
    /\ scan' = "rename"
    /\ UNCHANGED <<mem, tmp, scanJob, guiVars, debuggerVars>>

(* Mutant of ScanRename: its result is ignored. *)
RenameUnchecked ==
    /\ scan = "rename"
    /\ \E ok \in BOOLEAN : RenameTmp(ok)
    /\ scan' = "detach"
    /\ UNCHANGED <<mem, scanJob, guiVars, debuggerVars>>

ScanRename ==
    /\ scan = "rename"
    /\ \E ok \in BOOLEAN :
         /\ RenameTmp(ok)
         /\ scanJob' = [scanJob EXCEPT !.rc = IF ok THEN "ok" ELSE "fail"]
    /\ scan' = "detach"
    /\ UNCHANGED <<mem, guiVars, debuggerVars>>

ScanDetach ==
    /\ scan = "detach"
    /\ detach
    /\ Return(scanJob.rc)
    /\ UNCHANGED <<mem, cardVars>>

Sysmod == \/ ScanAttach \/ ScanBegin \/ ScanWalk \/ ScanEnd
          \/ ScanRemove \/ ScanRename \/ ScanDetach

-----------------------------------------------------------------------------
(* The overlay: menu actions of MainGui and ResultsListGui. *)

ServerFree == scan \in {"idle", "gone"}
Served == scan # "gone"     \* a call on the overlay's session gets through

(* A new overlay has its session with the sysmod there is (Overlay).  To open
   it libnx asks the server a question, which is not answered while the scan
   of an overlay that died goes on. *)
Open ==
    /\ gui = "closed" /\ ServerFree /\ gui' = "main"
    /\ m_targetPid' = 0 /\ m_status' = "" /\ page' = NoPage /\ job' = NoJob
    /\ scan' = "idle"
    /\ UNCHANGED <<mem, cardVars, scanJob, debuggerVars>>

Close ==
    /\ gui \in {"main", "results"} /\ gui' = "closed"
    /\ m_targetPid' = 0 /\ m_status' = "" /\ page' = NoPage
    /\ UNCHANGED <<mem, cardVars, job, scanVars, debuggerVars>>

(* onDetectTarget, which may fail and keep the target, and onProcessPicked: a
   process of a list it may have left since.  The results stay. *)
PickTarget ==
    /\ gui = "main" /\ ServerFree
    /\ m_targetPid' \in IF Served THEN Pid \cup {m_targetPid} ELSE {m_targetPid}
    /\ m_status' = ""
    /\ UNCHANGED <<mem, cardVars, gui, page, job, scanVars, debuggerVars>>

(* onFirstScan and onNextScan, up to their first call. *)
RefuseScan ==
    /\ gui = "main"
    /\ m_targetPid = 0 \/ Count = 0
    /\ m_status' = "refused"
    /\ UNCHANGED <<mem, cardVars, gui, m_targetPid, page, job, scanVars,
                   debuggerVars>>

BeginScan(next) ==
    /\ gui = "main" /\ m_targetPid # 0
    /\ \E v \in Value : job' = [NoJob EXCEPT !.pid = m_targetPid, !.val = v]
    /\ m_status' = "scanning"
    /\ gui' = next
    /\ UNCHANGED <<mem, cardVars, m_targetPid, page, scanVars, debuggerVars>>

FirstScan == BeginScan("scanCall")
NextScan == Count # 0 /\ BeginScan("nsAttach")

(* startMemoryScan: the server takes the call, the overlay blocks in it; or
   nobody does, and it fails. *)
CallScan ==
    /\ gui = "scanCall" /\ scan = "idle"
    /\ gui' = "scanWait"
    /\ scan' = "attach"
    /\ scanJob' = [NoScan EXCEPT !.pid = job.pid, !.val = job.val]
    /\ UNCHANGED <<mem, cardVars, m_targetPid, m_status, page, job, debuggerVars>>

CallScanFails ==
    /\ gui = "scanCall" /\ ~Served
    /\ gui' = "scanDone" /\ job' = [job EXCEPT !.rc = "fail"]
    /\ UNCHANGED <<mem, cardVars, m_targetPid, m_status, page, scanVars, debuggerVars>>

(* A callback ends: its screen is back, its locals are gone. *)
EndCallback(screen, status) ==
    /\ gui' = screen
    /\ m_status' = status
    /\ job' = NoJob
    /\ UNCHANGED <<m_targetPid, page>>

ReportFirst ==
    /\ gui = "scanDone"
    /\ EndCallback("main", IF job.rc = "ok" THEN "firstResult" ELSE "firstFailed")
    /\ UNCHANGED <<mem, cardVars, scanVars, debuggerVars>>

(* nextScanU32: attach to the target ... *)
NsAttach ==
    /\ gui = "nsAttach" /\ ServerFree
    /\ \/ /\ Served /\ attach(job.pid, "ok")
          /\ gui' = "nsOpen" /\ UNCHANGED job
       \/ /\ attach(job.pid, "fail")
          /\ gui' = "nsReport" /\ job' = [job EXCEPT !.rc = "fail"]
    /\ UNCHANGED <<mem, cardVars, m_targetPid, m_status, page, scanVars>>

(* ... filterU32: open results.bin, read its header and create results.tmp with
   an empty one; without any of these it returns false ... *)
NsOpen ==
    /\ gui = "nsOpen"
    /\ \/ /\ bin # NoFile /\ bin.count # NoHeader
          /\ tmp' \in NewFiles(job.pid)
          /\ gui' = "nsFilter"
       \/ /\ gui' = "nsDetach" /\ UNCHANGED tmp
    /\ UNCHANGED <<mem, bin, m_targetPid, m_status, page, job, scanVars, debuggerVars>>

(* ... keep the entries whose word, read through the debug handle, has the
   value; a read that fails drops its entry ... *)
NsFilter ==
    /\ gui = "nsFilter" /\ ServerFree
    /\ \E addrs \in SUBSET Addrs(bin) :
         /\ addrs # {} => /\ isAttached /\ g_debug \in alive
                          /\ \A a \in addrs : mem[g_debug][a] = job.val
         /\ job' = [job EXCEPT !.kept = Hits(addrs, job.val)]
         /\ \E flushed \in SUBSET Hits(addrs, job.val) :
              tmp' = [tmp EXCEPT !.ents = flushed]
    /\ gui' = "nsClose"
    /\ UNCHANGED <<mem, bin, m_targetPid, m_status, page, scanVars, debuggerVars>>

NsClose ==
    /\ gui = "nsClose"
    /\ tmp' \in Closings(tmp, job.kept)
    /\ gui' = "nsRemove"
    /\ UNCHANGED <<mem, bin, m_targetPid, m_status, page, job, scanVars, debuggerVars>>

NsRemove ==
    /\ gui = "nsRemove"
    /\ bin' \in Remove(bin)
    /\ gui' = "nsRename"
    /\ UNCHANGED <<mem, tmp, m_targetPid, m_status, page, job, scanVars, debuggerVars>>

(* ... the result of rename is ignored, and true is returned ... *)
NsRename ==
    /\ gui = "nsRename"
    /\ \E ok \in BOOLEAN : RenameTmp(ok)
    /\ job' = [job EXCEPT !.ret = TRUE]
    /\ gui' = "nsDetach"
    /\ UNCHANGED <<mem, m_targetPid, m_status, page, scanVars, debuggerVars>>

(* ... detach.  The bool has been assigned to a Result: true is 1, a failure. *)
NsDetach ==
    /\ gui = "nsDetach" /\ ServerFree
    /\ detach
    /\ job' = [job EXCEPT !.rc = IF job.ret THEN "fail" ELSE "ok"]
    /\ gui' = "nsReport"
    /\ UNCHANGED <<mem, cardVars, m_targetPid, m_status, page, scanVars>>

ReportNext ==
    /\ gui = "nsReport"
    /\ EndCallback("main", IF job.rc = "ok" THEN "nextResult" ELSE "nextFailed")
    /\ UNCHANGED <<mem, cardVars, scanVars, debuggerVars>>

(* onResetScan: the results of its removes are ignored. *)
Reset ==
    /\ gui = "main"
    /\ bin' \in Remove(bin)
    /\ tmp' \in Remove(tmp)
    /\ m_status' = "cleared"
    /\ UNCHANGED <<mem, gui, m_targetPid, page, job, scanVars, debuggerVars>>

(* ResultsListGui: what it shows is read when it is built.  It would be read
   again if update found another count, but while it is shown no scan runs and
   nothing replaces the file (ResultsList). *)
Listing(pid) ==
    IF Count = 0 THEN [NoPage EXCEPT !.pid = pid]
    ELSE [pid |-> pid, addrs |-> Addrs(bin), count |-> Count, of |-> bin.of]

ShowResults ==
    /\ gui = "main"
    /\ \/ Count = 0 /\ m_status' = "refused" /\ UNCHANGED <<gui, page>>
       \/ /\ Count # 0 /\ gui' = "results" /\ page' = Listing(m_targetPid)
          /\ UNCHANGED m_status
    /\ UNCHANGED <<mem, cardVars, m_targetPid, job, scanVars, debuggerVars>>

Back ==
    /\ gui = "results" /\ gui' = "main" /\ page' = NoPage
    /\ UNCHANGED <<mem, cardVars, m_targetPid, m_status, job, scanVars, debuggerVars>>

(* The poke: attach, write, detach, to the pid captured with the list. *)
Poke ==
    /\ gui = "results" /\ page.pid # 0
    /\ \E a \in page.addrs, v \in Value :
         job' = [NoJob EXCEPT !.pid = page.pid, !.addr = a, !.val = v]
    /\ gui' = "pkAttach"
    /\ UNCHANGED <<mem, cardVars, m_targetPid, m_status, page, scanVars, debuggerVars>>

PkAttach ==
    /\ gui = "pkAttach" /\ ServerFree
    /\ \/ /\ Served /\ attach(job.pid, "ok")
          /\ gui' = "pkWrite"
          /\ UNCHANGED <<m_targetPid, m_status, page, job>>
       \/ attach(job.pid, "fail") /\ EndCallback("results", m_status)
    /\ UNCHANGED <<mem, cardVars, scanVars>>

(* Mutant of PkWrite: an early return when the write fails. *)
WriteFailsEarly ==
    /\ gui = "pkWrite" /\ ServerFree
    /\ \/ /\ accessMemory("ok")
          /\ mem' = [mem EXCEPT ![g_debug][job.addr] = job.val]
          /\ gui' = "pkDetach"
          /\ UNCHANGED <<m_targetPid, m_status, page, job>>
       \/ accessMemory("fail") /\ EndCallback("results", m_status) /\ UNCHANGED mem
    /\ UNCHANGED <<cardVars, scanVars>>

PkWrite ==
    /\ gui = "pkWrite" /\ ServerFree
    /\ \E rc \in {"ok", "fail", "NotInitialized"} :
         /\ accessMemory(rc)
         /\ mem' = IF rc = "ok" THEN [mem EXCEPT ![g_debug][job.addr] = job.val]
                                ELSE mem
    /\ gui' = "pkDetach"
    /\ UNCHANGED <<cardVars, m_targetPid, m_status, page, job, scanVars>>

PkDetach ==
    /\ gui = "pkDetach" /\ ServerFree
    /\ detach
    /\ EndCallback("results", m_status)
    /\ UNCHANGED <<mem, cardVars, scanVars>>

Callback ==
    \/ CallScan \/ CallScanFails \/ ReportFirst
    \/ NsAttach \/ NsOpen \/ NsFilter \/ NsClose \/ NsRemove \/ NsRename
    \/ NsDetach \/ ReportNext
    \/ PkAttach \/ PkWrite \/ PkDetach

User == \/ Open \/ Close \/ PickTarget \/ RefuseScan \/ FirstScan \/ NextScan
        \/ Reset \/ ShowResults \/ Back \/ Poke

-----------------------------------------------------------------------------
(* Faults. *)

(* The overlay dies wherever it is.  Its session is closed, which the server
   notices, and its files; the sysmod keeps scanning, and stays attached. *)
OverlayDies ==
    /\ OverlayMayDie /\ gui # "closed"
    /\ gui' = "closed" /\ m_targetPid' = 0 /\ m_status' = ""
    /\ page' = NoPage /\ job' = NoJob
    /\ UNCHANGED <<mem, cardVars, scanVars, debuggerVars>>

(* The sysmod dies, or is stopped, wherever it is.  The kernel closes its debug
   handle; the call it was in fails, and so do all further calls of the overlay,
   which keeps its dead session (SengClient::initialize).  What the steps of a
   callback do without an attached process, they do now. *)
SysmodDies ==
    /\ SysmodMayDie /\ Served
    /\ detach
    /\ ReturnTo("gone", "fail")
    /\ UNCHANGED <<mem, cardVars>>

(* The console is switched off and on, and the games started afresh; what is
   on the card stays. *)
PowerCycle ==
    /\ g_debug' = INVALID_HANDLE /\ g_pid' = 0 /\ debugged' = {} /\ alive' = Pid
    /\ gui' = "closed" /\ m_targetPid' = 0 /\ m_status' = ""
    /\ page' = NoPage /\ job' = NoJob
    /\ scan' = "idle" /\ scanJob' = NoScan
    /\ mem' \in [Pid -> [Addr -> Value]]
    /\ UNCHANGED cardVars

Next == \/ Sysmod \/ Callback \/ User
        \/ GameWrites \/ GameExits \/ OverlayDies \/ SysmodDies \/ PowerCycle

Spec == Init /\ [][Next]_vars

(* Callbacks and scans, once begun, run on; the user need never do anything. *)
FairSpec == Spec /\ WF_vars(Sysmod) /\ WF_vars(Callback)

-----------------------------------------------------------------------------
(* Properties. *)

(* results.bin is never half written: its header counts the entries it holds,
   whatever died or failed on the way.  The one failure the code does not see
   is a card that was full when the file was written, and no other makes a file
   that counts more than it holds or cannot be read.  (README: a scan "records
   hits in results.bin".) *)
ResultsWhole == bin # NoFile => Finished(bin)

(* Nothing but a reset deletes results.bin before what replaces it is written
   and closed, with all of its entries and their count unless the card was
   full: resultsEnd and filterU32 delete it in any case, be the file they have
   written shorter than it should be or not readable at all. *)
ReplacementReady ==
    [][ bin # NoFile /\ bin' = NoFile =>
          \/ Reset
          \/ tmp # NoFile /\ Finished(tmp) /\ ~TmpOpen ]_vars

(* Whatever becomes results.bin is true of the game's memory at that moment:
   files are committed before the game is let go.  (When the sysmod dies under
   the callback, the game is let go by that.) *)
CommitIsTrue ==
    [][ bin' # bin /\ bin' # NoFile /\ Served =>
          \A e \in bin'.ents : mem[bin'.of][e.addr] = e.val ]_vars

(* When a first scan is about to be reported as a success, results.bin is the
   file of that scan: of the target the user has, for the value asked, and all
   of it unless the card was full when it was written.  On a full card success
   is reported of a file that has lost entries, or that no reader can open. *)
FirstScanReported ==
    gui = "scanDone" /\ job.rc = "ok" =>
        /\ bin # NoFile /\ bin.of = m_targetPid /\ Finished(bin)
        /\ \A e \in bin.ents : e.val = job.val

(* While a game is held, the only change to its memory is the poke of the
   entry the user chose, in the process the list was opened for. *)
PokeLands ==
    [][ \A p \in debugged \cap debugged' : mem'[p] # mem[p] =>
          /\ gui = "pkWrite" /\ p = page.pid /\ job.addr \in page.addrs
          /\ mem'[p] = [mem[p] EXCEPT ![job.addr] = job.val] ]_vars

(* Between an attach and its detach. *)
Holding ==
    \/ gui \in {"nsOpen", "nsFilter", "nsClose", "nsRemove", "nsRename",
                "nsDetach", "pkWrite", "pkDetach"}
    \/ scan \in ScanSteps \ {"attach"}

(* A process held for a scan, a filter or a poke is let go again, on every
   error path and even by a scan whose overlay has died; only an overlay that
   dies while it holds the process itself leaves it. *)
LetGo ==
    (debugged # {} /\ Holding) ~> (debugged = {} \/ (gui = "closed" /\ scan = "idle"))

(* A process that is debugged is let go again (README: attach, operate, detach
   "to avoid freezing the game"). *)
FrozenGameReleased == \A p \in Pid : (p \in debugged) ~> (p \notin debugged)

(* The status line: a next scan that filtered the results says so. *)
NextScanReported ==
    [][ gui = "nsReport" /\ job.ret /\ gui' = "main" => m_status' = "nextResult" ]_vars

(* A poke goes to the process in which the address was found. *)
PokeHitsFoundAddress == gui = "pkWrite" => g_debug = page.of
=============================================================================
