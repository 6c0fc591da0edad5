------------------------------- MODULE Detection -------------------------------
(***************************************************************************)
(* How the overlay gets its target: the list of processes the sysmod makes *)
(* (Debugger::listProcesses), its search for the process in the foreground *)
(* (Debugger::getForegroundPid, three services asked in turn), the lookup  *)
(* of the title, and what the main screen does with them.  Processes start *)
(* and exit between any two of these calls.                                *)
(***************************************************************************)
EXTENDS Integers, FiniteSets, SequencesExt

CONSTANTS
    Pid,                    \* processes that may run; 0 and 1 are the kernel's
    Title,                  \* the program id of each, 0 for those without one
    kMaxProcessList

Failed == -1                \* a call that returned an error

ASSUME DetectionAssumption ==
    /\ Pid \subseteq Nat /\ IsFiniteSet(Pid) /\ {0, 1} \subseteq Pid
    /\ Title \in [Pid -> Nat] /\ kMaxProcessList \in Nat \ {0}

VARIABLES
    running,                \* the processes there are
    g_pgl_ready, g_pmshell_ready,
    asked,                  \* what the overlay does: "", "detect", "pick"
    pc,                     \* where: "idle", "list", "titles", "front", "title", "choose"
    pids, entries,          \* in listProcesses: the kernel's list, and out[]
    found,                  \* what running was when the kernel listed it
    pid,                    \* of the foreground, while its title is looked up
    target, m_titleId,      \* of the main screen: target process and its title
    label                   \* what it shows of them

world == <<running, g_pgl_ready, g_pmshell_ready>>
lists == <<pids, entries, found>>
screen == <<target, m_titleId, label>>
vars == <<world, asked, pc, lists, pid, screen>>

Init ==
    /\ running \in {S \in SUBSET Pid : {0, 1} \subseteq S}
    /\ g_pgl_ready \in BOOLEAN /\ g_pmshell_ready \in BOOLEAN
    /\ asked = "" /\ pc = "idle"
    /\ pids = <<>> /\ entries = <<>> /\ found = {} /\ pid = 0
    /\ target = 0 /\ m_titleId = 0 /\ label = <<"none">>

ProcessStarts == \E p \in Pid \ running :
    running' = running \cup {p}
    /\ UNCHANGED <<g_pgl_ready, g_pmshell_ready, asked, pc, lists, pid, screen>>

ProcessExits == \E p \in running \ {0, 1} :
    running' = running \ {p}
    /\ UNCHANGED <<g_pgl_ready, g_pmshell_ready, asked, pc, lists, pid, screen>>

\* pminfoGetProgramId
ProgramId(p) == IF p \in running /\ Title[p] # 0 THEN Title[p] ELSE Failed

-----------------------------------------------------------------------------
(* Back on the main screen; what the calls returned was local to them. *)
Return ==
    /\ pc' = "idle" /\ asked' = ""
    /\ pids' = <<>> /\ entries' = <<>> /\ found' = {} /\ pid' = 0

(* onDetectTarget and onPickProcess both begin with a list. *)
Ask ==
    /\ pc = "idle" /\ asked' \in {"detect", "pick"}
    /\ pc' = "list"
    /\ UNCHANGED <<world, lists, pid, screen>>

(* A request does not get through, or is answered with an error. *)
CallFails ==
    /\ pc \in {"list", "front", "title"}
    /\ Return
    /\ label' = IF asked = "detect" THEN <<"error">> ELSE label
    /\ UNCHANGED <<world, target, m_titleId>>

(* svcGetProcessList: kMaxProcessList at most are stored, each once; which, and
   in which order, is up to the kernel. *)
GetProcessList ==
    /\ pc = "list"
    /\ LET num_out == Cardinality(running)
           filled == IF num_out < kMaxProcessList THEN num_out ELSE kMaxProcessList
       IN  pids' \in {q \in [1 .. filled -> running] : IsInjective(q)}
    /\ entries' = <<>> /\ found' = running
    /\ pc' = "titles"
    /\ UNCHANGED <<world, asked, pid, screen>>

(* Mutant of ListEntry: the title of the entry before stays for a process
   without one. *)
ListEntryStale ==
    /\ pc = "titles" /\ pids # <<>>
    /\ LET p == Head(pids)
           tid == IF ProgramId(p) # Failed THEN ProgramId(p)
                  ELSE IF entries # <<>> THEN Last(entries).tid
                  ELSE 0
       IN  entries' = IF p = 0 THEN entries ELSE Append(entries, [pid |-> p, tid |-> tid])
    /\ pids' = Tail(pids)
    /\ UNCHANGED <<world, asked, pc, found, pid, screen>>

(* Mutant of ListEntry: pid 0 is left out without going on to the next. *)
ListEntryStuck ==
    /\ pc = "titles" /\ pids # <<>>
    /\ LET p == Head(pids)
           tid == IF ProgramId(p) = Failed THEN 0 ELSE ProgramId(p)
       IN  IF p = 0
           THEN UNCHANGED <<pids, entries>>
           ELSE pids' = Tail(pids) /\ entries' = Append(entries, [pid |-> p, tid |-> tid])
    /\ UNCHANGED <<world, asked, pc, found, pid, screen>>

(* One turn of the loop: pid 0 is left out, a process that has no program id,
   or has exited, is listed without. *)
ListEntry ==
    /\ pc = "titles" /\ pids # <<>>
    /\ LET p == Head(pids)
           tid == IF ProgramId(p) = Failed THEN 0 ELSE ProgramId(p)
       IN  entries' = IF p = 0 THEN entries ELSE Append(entries, [pid |-> p, tid |-> tid])
    /\ pids' = Tail(pids)
    /\ UNCHANGED <<world, asked, pc, found, pid, screen>>

(* A detection makes no use of its list. *)
Listed ==
    /\ pc = "titles" /\ pids = <<>>
    /\ IF asked = "detect"
       THEN pc' = "front" /\ entries' = <<>> /\ found' = {}
       ELSE pc' = "choose" /\ UNCHANGED <<entries, found>>
    /\ UNCHANGED <<world, asked, pids, pid, screen>>

-----------------------------------------------------------------------------
Answers == {Failed, 0, 1} \cup running

(* Mutant of getForegroundPid: an answer that is no error is an answer. *)
GetForegroundAny(pgl, pm, shell) ==
    IF g_pgl_ready /\ pgl # Failed THEN pgl
    ELSE IF pm # Failed THEN pm
    ELSE IF g_pmshell_ready THEN shell
    ELSE pm

(* pgl, then pm:dmnt, then pm:shell; the first to name a process above 1. *)
getForegroundPid(pgl, pm, shell) ==
    IF g_pgl_ready /\ pgl > 1 THEN pgl
    ELSE IF pm > 1 THEN pm
    ELSE IF g_pmshell_ready /\ shell > 1 THEN shell
    ELSE pm

DetectFails ==
    /\ Return
    /\ label' = <<"error">>
    /\ UNCHANGED <<target, m_titleId>>

(* GetForegroundPid, and what ProcessUtils makes of it. *)
FindForeground ==
    /\ pc = "front"
    /\ \E pgl, pm, shell \in Answers :
          LET p == getForegroundPid(pgl, pm, shell)
          IN  IF p <= 1
              THEN DetectFails
              ELSE pid' = p /\ pc' = "title" /\ UNCHANGED <<asked, lists, screen>>
    /\ UNCHANGED world

(* Mutant of FindTitle: the target is set before the title is known. *)
FindTitleLate ==
    /\ pc = "title"
    /\ target' = pid /\ Return
    /\ IF ProgramId(pid) = Failed
       THEN label' = <<"error">> /\ UNCHANGED m_titleId
       ELSE label' = <<"TID", ProgramId(pid)>> /\ m_titleId' = ProgramId(pid)
    /\ UNCHANGED world

(* GetTitleId; with both answers the main screen has its target. *)
FindTitle ==
    /\ pc = "title"
    /\ IF ProgramId(pid) = Failed
       THEN DetectFails
       ELSE /\ target' = pid /\ m_titleId' = ProgramId(pid)
            /\ label' = <<"TID", ProgramId(pid)>>
            /\ Return
    /\ UNCHANGED world

(* A row of ProcessListGui is chosen (onProcessPicked), or none. *)
Pick ==
    /\ pc = "choose"
    /\ \E e \in ToSet(entries) :
          /\ target' = e.pid /\ m_titleId' = e.tid
          /\ label' = IF e.tid # 0 THEN <<"TID", e.tid>> ELSE <<"PID", e.pid>>
    /\ Return
    /\ UNCHANGED world

PickNone ==
    /\ pc = "choose"
    /\ Return
    /\ UNCHANGED <<world, screen>>

Answer == CallFails \/ GetProcessList \/ ListEntry \/ Listed \/ FindForeground \/ FindTitle

Next == ProcessStarts \/ ProcessExits \/ Ask \/ Answer \/ Pick \/ PickNone

Spec == Init /\ [][Next]_vars /\ WF_vars(Answer)

-----------------------------------------------------------------------------
(* Each variable has its type. *)
TypeOK ==
    /\ {0, 1} \subseteq running /\ running \subseteq Pid
    /\ g_pgl_ready \in BOOLEAN /\ g_pmshell_ready \in BOOLEAN
    /\ asked \in {"", "detect", "pick"}
    /\ pc \in {"idle", "list", "titles", "front", "title", "choose"}
    /\ asked = "" <=> pc = "idle"
    /\ ToSet(pids) \subseteq Pid /\ found \subseteq Pid
    /\ ToSet(entries) \subseteq [pid : Pid \ {0}, tid : Nat]
    /\ Len(pids) + Len(entries) <= kMaxProcessList
    /\ pid \in Pid /\ target \in Pid

(* The list that is shown has each process once, none that was not there, and
   all that were there but 0 when they fit, and no more than the caller's
   buffer has room for; the title beside a process is its own, or missing. *)
ListFaithful ==
    pc = "choose" =>
        LET shown == {e.pid : e \in ToSet(entries)}
        IN  /\ Len(entries) <= kMaxProcessList
            /\ Cardinality(shown) = Len(entries) /\ shown \subseteq found \ {0}
            /\ Cardinality(found) <= kMaxProcessList => shown = found \ {0}
            /\ \A e \in ToSet(entries) : e.tid \in {0, Title[e.pid]}

(* What the main screen says of its target is true of the process a scan or a
   poke will attach to, through failed detections and processes that exit
   between two answers; a title without a process is never shown. *)
LabelNamesTarget ==
    /\ m_titleId \in {0, Title[target]}
    /\ label \in {<<"none">>, <<"error">>, <<"TID", Title[target]>>, <<"PID", target>>}
    /\ label[1] = "none" => target = 0
    /\ label[1] \in {"TID", "PID"} => target # 0

(* A process in the foreground is found if any of the three services is there
   and names one above 1, and nothing else is taken for one. *)
ForegroundFound ==
    pc = "front" =>
        \A pgl, pm, shell \in Answers :
            LET named == {a \in {pm} \cup (IF g_pgl_ready THEN {pgl} ELSE {})
                                  \cup (IF g_pmshell_ready THEN {shell} ELSE {}) : a > 1}
                p == getForegroundPid(pgl, pm, shell)
            IN  IF named = {} THEN p <= 1 ELSE p \in named

(* The question of the user is answered: a list to choose from, a target, or
   an error. *)
AskEnds == pc # "idle" ~> pc \in {"idle", "choose"}
=============================================================================
