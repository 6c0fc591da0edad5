---------------------------- MODULE SengCommands ----------------------------
(***************************************************************************)
(* The commands of the "seng" service: include/seng_ipc.hpp gives their    *)
(* numbers, IpcServer::handleSession what the sysmod does with a message.  *)
(* Execute(m, r) is the whole effect of handling message m and answering   *)
(* r, as the abstract service (SengService) and the server's loop          *)
(* (IpcServer) both use it.  Payloads the properties do not read (titles,  *)
(* regions, bytes) are left out of answers.                                *)
(***************************************************************************)
EXTENDS Debugger

GetVersion == 0
GetForegroundPid == 1
GetTitleId == 2
AttachProcess == 3
DetachProcess == 4
QueryMemory == 5
ReadMemory == 6
WriteMemory == 7
IsAttached == 8
ListProcessesLegacy == 9
ListProcesses == 10
StartMemoryScan == 11

kIpcVersion == 2

(* What a client can put in a message: its CMIF type ("Unparsable" stands for
   a frame without data words or with a bad magic), its command id, its pid
   argument, and whether it brought the data buffer the command may need. *)
MessageType == {"Request", "Control", "Close", "Unparsable"}
AnyMessage == [type : MessageType, cmd : Nat, pid : Nat, buf : BOOLEAN]

CONSTANT Message    \* the messages clients send
ASSUME MessageAssumption == Message \subseteq AnyMessage

(* A result code, and the number the answer carries: the version, the
   attached flag, or the process whose memory was reached. *)
Rc == {"ok", "fail", "BadInput", "NotFound", "NotInitialized"}
Reply == [rc : Rc, out : Pid \cup {0, 1, kIpcVersion}]
Answer(rc, out) == [rc |-> rc, out |-> out]

(* Control and Close messages are answered in place and never reach the
   command switch, whose ids overlap with theirs. *)
AnswerInline(m, r) ==
    /\ m.type \in {"Control", "Close"}
    /\ r = Answer("ok", 0)
    /\ UNCHANGED debuggerVars

(* A frame without data words, or with a bad magic. *)
RefuseFrame(m, r) ==
    /\ m.type = "Unparsable"
    /\ r = Answer("BadInput", 0)
    /\ UNCHANGED debuggerVars

RefuseUnknown(m, r) ==
    /\ m.type = "Request" /\ m.cmd > StartMemoryScan
    /\ r = Answer("NotFound", 0)
    /\ UNCHANGED debuggerVars

(* Commands that only ask the system something. *)
AnswerQuestion(m, r) ==
    /\ m.type = "Request"
    /\ \/ m.cmd = GetVersion /\ r = Answer("ok", kIpcVersion)
       \/ /\ m.cmd \in {GetForegroundPid, GetTitleId}
          /\ r \in {Answer("ok", 0), Answer("fail", 0)}
    /\ UNCHANGED debuggerVars

AnswerAttached(m, r) ==
    /\ m.type = "Request" /\ m.cmd = IsAttached
    /\ r = Answer("ok", IF isAttached THEN 1 ELSE 0)
    /\ UNCHANGED debuggerVars

(* The early return of the commands that need the client's buffer. *)
NoBuffer(m, r) ==
    /\ ~m.buf
    /\ r = Answer("BadInput", 0)
    /\ UNCHANGED debuggerVars

List(m, r) ==
    /\ m.type = "Request" /\ m.cmd \in {ListProcessesLegacy, ListProcesses}
    /\ \/ NoBuffer(m, r)
       \/ /\ m.buf /\ r \in {Answer("ok", 0), Answer("fail", 0), Answer("BadInput", 0)}
          /\ UNCHANGED debuggerVars

(* Mutant of Attach: the id is looked at before the type. *)
AttachAnyType(m, r) == m.cmd = AttachProcess /\ r.out = 0 /\ attach(m.pid, r.rc)

Attach(m, r) ==
    /\ m.type = "Request" /\ m.cmd = AttachProcess
    /\ r.out = 0
    /\ attach(m.pid, r.rc)

Detach(m, r) ==
    /\ m.type = "Request" /\ m.cmd = DetachProcess
    /\ r = Answer("ok", 0)
    /\ detach

(* The answer names the process reached so that properties can ask for it. *)
Reach(r) ==
    /\ r.out = IF r.rc = "ok" THEN g_debug ELSE 0
    /\ accessMemory(r.rc)

Query(m, r) == m.type = "Request" /\ m.cmd = QueryMemory /\ Reach(r)

Read(m, r) ==
    /\ m.type = "Request" /\ m.cmd = ReadMemory
    /\ NoBuffer(m, r) \/ (m.buf /\ Reach(r))

Write(m, r) ==
    /\ m.type = "Request" /\ m.cmd = WriteMemory
    /\ NoBuffer(m, r) \/ (m.buf /\ Reach(r))

(* runFirstScanU32, seen from outside: attach, scan, detach (ScanRunner has
   the scan itself).  A refused attach has still closed the handle held. *)
Scan(m, r) ==
    /\ m.type = "Request" /\ m.cmd = StartMemoryScan
    /\ r.out = 0
    /\ \/ m.pid <= 1 /\ r.rc = "BadInput" /\ UNCHANGED debuggerVars
       \/ m.pid > 1 /\ r.rc = "fail" /\ attach(m.pid, "fail")
       \/ /\ m.pid > 1 /\ m.pid \in alive \ (debugged \ {g_debug})
          /\ r.rc \in {"ok", "NotFound"}
          /\ detach

Execute(m, r) ==
    \/ AnswerInline(m, r) \/ RefuseFrame(m, r) \/ RefuseUnknown(m, r)
    \/ AnswerQuestion(m, r) \/ AnswerAttached(m, r) \/ List(m, r)
    \/ Attach(m, r) \/ Detach(m, r)
    \/ Query(m, r) \/ Read(m, r) \/ Write(m, r)
    \/ Scan(m, r)

(* The messages that may change what is being debugged. *)
ChangesAttachment(m) ==
    /\ m.type = "Request"
    /\ m.cmd \in {AttachProcess, DetachProcess, StartMemoryScan}
=============================================================================
