------------------------------ MODULE Debugger ------------------------------
(***************************************************************************)
(* The sysmod's debug layer (sysmod/source/Debugger.cpp): one kernel debug *)
(* handle, g_debug, shared by every client of the service.  The operations *)
(* are actions over the layer's two variables and the kernel's view of     *)
(* them; the modules of the server and of the whole system build their     *)
(* steps from these.  A debug handle is named by the process it debugs     *)
(* (the kernel allows at most one debugger per process).  A debugged       *)
(* process is frozen for as long as the handle stays open.                 *)
(***************************************************************************)
EXTENDS Naturals, FiniteSets

CONSTANTS
    Pid,            \* the processes that can be debugged
    INVALID_HANDLE  \* libnx's null handle

ASSUME PidAssumption == Pid \subseteq Nat \ {0} /\ INVALID_HANDLE \notin Pid

VARIABLES
    g_debug,        \* the open debug handle or INVALID_HANDLE
    g_pid,          \* the process of g_debug, 0 when there is none
    debugged,       \* kernel: processes held by an open debug handle
    alive           \* kernel: processes that are running

debuggerVars == <<g_debug, g_pid, debugged, alive>>

DebuggerTypeOK ==
    /\ g_debug \in Pid \cup {INVALID_HANDLE}
    /\ g_pid \in Pid \cup {0}
    /\ debugged \subseteq Pid
    /\ alive \subseteq Pid

DebuggerInit ==
    /\ g_debug = INVALID_HANDLE
    /\ g_pid = 0
    /\ debugged = {}
    /\ alive = Pid

(* Mutants of attach: the handle held before is overwritten without being
   closed; or it is kept, whatever process is asked for. *)
LeakyAttach(pid, rc) ==
    /\ \/ /\ rc = "ok" /\ pid \in alive \ debugged
          /\ g_debug' = pid /\ g_pid' = pid
          /\ debugged' = debugged \cup {pid}
       \/ /\ rc = "fail"
          /\ g_debug' = INVALID_HANDLE /\ g_pid' = 0
          /\ UNCHANGED debugged
    /\ UNCHANGED alive

AttachReuses(pid, rc) ==
    LET p == IF g_debug = INVALID_HANDLE THEN pid ELSE g_debug IN
    /\ rc = "ok" /\ p \in alive
    /\ g_debug' = p /\ g_pid' = p /\ debugged' = {p}
    /\ UNCHANGED alive

(* Debugger::attach.  The handle held before is closed first, so a failed
   attach leaves the layer detached; the kernel may refuse any process, and
   refuses one that has exited or that another handle already debugs. *)
attach(pid, rc) ==
    LET others == debugged \ {g_debug} IN
    /\ \/ /\ rc = "ok"
          /\ pid \in alive \ others
          /\ g_debug' = pid
          /\ g_pid' = pid
          /\ debugged' = others \cup {pid}
       \/ /\ rc = "fail"
          /\ g_debug' = INVALID_HANDLE
          /\ g_pid' = IF g_debug = INVALID_HANDLE THEN g_pid ELSE 0
          /\ debugged' = others
    /\ UNCHANGED alive

(* Debugger::detach *)
detach ==
    /\ g_debug' = INVALID_HANDLE
    /\ g_pid' = 0
    /\ debugged' = debugged \ {g_debug}
    /\ UNCHANGED alive

isAttached == g_debug # INVALID_HANDLE

(* Debugger::queryMemory, readMemory and writeMemory: refused when nothing is
   attached, otherwise the kernel acts on the process of the handle; it may
   fail (bad address), and must when the process has exited. *)
accessMemory(rc) ==
    /\ IF isAttached THEN \/ rc = "fail"
                          \/ rc = "ok" /\ g_debug \in alive
                     ELSE rc = "NotInitialized"
    /\ UNCHANGED debuggerVars

(* The kernel ends a process; a debug handle on it stays open. *)
ProcessExit(p) ==
    /\ p \in alive
    /\ alive' = alive \ {p}
    /\ UNCHANGED <<g_debug, g_pid, debugged>>

-----------------------------------------------------------------------------
(* Debugger.hpp: "only ONE process attached at a time".  The kernel's record
   and the layer's agree: no handle is ever lost while its process is still
   held, whatever order attaches, failures, detaches and exits come in. *)
OneDebugged ==
    /\ debugged = {g_debug} \ {INVALID_HANDLE}
    /\ g_pid = IF isAttached THEN g_debug ELSE 0

(* What the modules that build their steps from these operations rely on. *)
DebuggerInv == DebuggerTypeOK /\ OneDebugged
=============================================================================
