----------------------------- MODULE IpcServer -----------------------------
(***************************************************************************)
(* The sysmod's server loop (sysmod/source/IpcServer.cpp), one thread that *)
(* multiplexes a port and up to kMaxSessions sessions with                 *)
(* svcReplyAndReceive, against clients that connect, call and vanish at    *)
(* any moment.  The kernel's sessions, the port and the message buffer     *)
(* that replies and requests share (TLS) are modelled from how the loop    *)
(* uses them.                                                              *)
(*                                                                         *)
(* One turn of the loop: "reply" while svcReplyAndReceive sends the answer *)
(* of the turn before, "wait" while it waits for a handle to signal, then  *)
(* "copy" and "dispatch" in handleSession.                                 *)
(***************************************************************************)
EXTENDS SengCommands, Sequences, Functions

CONSTANTS
    Session,            \* kernel sessions; a handle is named by its session
    kMaxSessions,       \* capacity of the table
    kPortMaxSessions,   \* sessions the kernel lets exist on the port
    None                \* no message, no answer, an overwritten buffer

ASSUME ServerAssumption ==
    /\ kMaxSessions \in Nat \ {0}
    /\ kPortMaxSessions \in 1 .. kMaxSessions
    /\ IsFiniteSet(Session)
    /\ INVALID_HANDLE \notin Session
    /\ None \notin Message \cup Reply

VARIABLES
    session,        \* kernel: each session's two ends
    port,           \* kernel: sessions waiting to be accepted
    stage,          \* kernel: each session's request: none, queued, received
    req,            \* kernel: the message of that request
    tls,            \* the thread's message buffer, written by every IPC
    m_handles,      \* the server's table of sessions
    m_num_sessions,
    g_ipc_stash,    \* the server's copy of the message it handles
    pc,             \* where the loop is
    idx,            \* index in m_handles of the session being handled
    reply_target    \* session that the next svcReplyAndReceive answers

kernelVars == <<session, port, stage, req>>
tableVars  == <<m_handles, m_num_sessions>>
vars == <<kernelVars, tls, tableVars, g_ipc_stash, pc, idx, reply_target,
          debuggerVars>>

Slot == 0 .. kMaxSessions       \* kMaxHandles entries
Live == 0 .. m_num_sessions - 1
Existing == {s \in Session : session[s] # "none"}

TypeOK ==
    /\ session \in [Session -> {"none", "normal", "clientClosed", "serverClosed"}]
    /\ port \in Seq(Session)
    /\ stage \in [Session -> {"idle", "sent", "received"}]
    /\ req \in [Session -> Message \cup {None}]
    /\ tls \in Message \cup Reply \cup {None}
    /\ m_handles \in [Slot -> Session \cup {INVALID_HANDLE}]
    /\ m_num_sessions \in 0 .. kMaxSessions
    /\ g_ipc_stash \in Message \cup {None}
    /\ pc \in {"reply", "wait", "copy", "dispatch"}
    /\ idx \in 0 .. kMaxSessions - 1
    /\ reply_target \in Session \cup {INVALID_HANDLE}
    /\ DebuggerTypeOK

Init ==
    /\ session = [s \in Session |-> "none"]
    /\ port = <<>>
    /\ stage = [s \in Session |-> "idle"]
    /\ req = [s \in Session |-> None]
    /\ tls = None
    /\ m_handles = [i \in Slot |-> INVALID_HANDLE]
    /\ m_num_sessions = 0
    /\ g_ipc_stash = None
    /\ pc = "wait"
    /\ idx = 0
    /\ reply_target = INVALID_HANDLE
    /\ DebuggerInit

-----------------------------------------------------------------------------
(* Clients and the kernel. *)

(* A client opens a session; beyond kPortMaxSessions the kernel refuses. *)
Connect(s) ==
    /\ session[s] = "none"
    /\ Cardinality(Existing) < kPortMaxSessions
    /\ session' = [session EXCEPT ![s] = "normal"]
    /\ port' = Append(port, s)
    /\ UNCHANGED <<stage, req, tls, tableVars, g_ipc_stash, pc, idx,
                   reply_target, debuggerVars>>

Send(s, m) ==
    /\ session[s] = "normal" /\ stage[s] = "idle"
    /\ stage' = [stage EXCEPT ![s] = "sent"]
    /\ req' = [req EXCEPT ![s] = m]
    /\ UNCHANGED <<session, port, tls, tableVars, g_ipc_stash, pc, idx,
                   reply_target, debuggerVars>>

(* A client closes its end, or dies.  A request still queued dies with it; one
   that the server has received stays with the server. *)
Hangup(s) ==
    /\ \/ /\ session[s] = "normal"
          /\ session' = [session EXCEPT ![s] = "clientClosed"]
       \/ /\ session[s] = "serverClosed"
          /\ session' = [session EXCEPT ![s] = "none"]
    /\ \/ /\ stage[s] = "sent"
          /\ stage' = [stage EXCEPT ![s] = "idle"]
          /\ req' = [req EXCEPT ![s] = None]
       \/ /\ stage[s] # "sent"
          /\ UNCHANGED <<stage, req>>
    /\ UNCHANGED <<port, tls, tableVars, g_ipc_stash, pc, idx, reply_target,
                   debuggerVars>>

GameExits ==
    /\ \E p \in Pid : ProcessExit(p)
    /\ UNCHANGED <<kernelVars, tls, tableVars, g_ipc_stash, pc, idx,
                   reply_target>>

-----------------------------------------------------------------------------
(* The server. *)

(* The end of a turn: svcReplyAndReceive is called with target h. *)
NextTurn(h) ==
    /\ reply_target' = h
    /\ pc' = IF h = INVALID_HANDLE THEN "wait" ELSE "reply"

(* The kernel lets go of the request of s. *)
Settle(s) ==
    /\ stage' = [stage EXCEPT ![s] = "idle"]
    /\ req' = [req EXCEPT ![s] = None]

(* Mutants of closeSession: the slot is emptied but the sessions after it stay
   where they are; or the count stays. *)
CloseNoShift(i) ==
    LET h == m_handles[i] IN
        /\ session' = [session EXCEPT ![h] =
                         IF @ = "clientClosed" THEN "none" ELSE "serverClosed"]
        /\ Settle(h)
        /\ m_handles' = [m_handles EXCEPT ![i] = INVALID_HANDLE]
        /\ m_num_sessions' = m_num_sessions - 1

CloseKeepsCount(i) ==
    LET h == m_handles[i] IN
        /\ session' = [session EXCEPT ![h] =
                         IF @ = "clientClosed" THEN "none" ELSE "serverClosed"]
        /\ Settle(h)
        /\ UNCHANGED tableVars

(* closeSession: close the handle, move the sessions after it down. *)
closeSession(i) ==
    LET h == m_handles[i]
        last == m_num_sessions - 1
    IN  /\ session' = [session EXCEPT ![h] =
                         IF @ = "clientClosed" THEN "none" ELSE "serverClosed"]
        /\ Settle(h)
        /\ m_handles' = [j \in Slot |->
                           IF j \in i .. last - 1 THEN m_handles[j + 1]
                           ELSE IF j = last THEN INVALID_HANDLE
                           ELSE m_handles[j]]
        /\ m_num_sessions' = last

(* svcReplyAndReceive sends what is in TLS to the reply target ... *)
SendReply ==
    /\ pc = "reply"
    /\ session[reply_target] = "normal" /\ stage[reply_target] = "received"
    /\ Settle(reply_target)
    /\ pc' = "wait"
    /\ UNCHANGED <<session, port, tls, tableVars, g_ipc_stash, idx,
                   reply_target, debuggerVars>>

(* ... or returns ConnectionClosed with idx = -1 when its client has left: the
   loop logs and starts over with no reply target. *)
ReplyFails ==
    /\ pc = "reply"
    /\ ~(session[reply_target] = "normal" /\ stage[reply_target] = "received")
    /\ Settle(reply_target)
    /\ tls' = None
    /\ NextTurn(INVALID_HANDLE)
    /\ UNCHANGED <<session, port, tableVars, g_ipc_stash, idx, debuggerVars>>

(* The port signals: acceptNewSession.  svcAcceptSession may fail for want of
   resources; a full table leaves the client waiting on the port. *)
AcceptSession ==
    /\ pc = "wait" /\ port # <<>>
    /\ m_num_sessions < kMaxSessions
    /\ m_handles' = [m_handles EXCEPT ![m_num_sessions] = Head(port)]
    /\ m_num_sessions' = m_num_sessions + 1
    /\ port' = Tail(port)
    /\ tls' = None
    /\ NextTurn(INVALID_HANDLE)
    /\ UNCHANGED <<session, stage, req, g_ipc_stash, idx, debuggerVars>>

AcceptFails ==
    /\ pc = "wait" /\ port # <<>>
    /\ tls' = None
    /\ NextTurn(INVALID_HANDLE)
    /\ UNCHANGED <<kernelVars, tableVars, g_ipc_stash, idx, debuggerVars>>

(* Mutant of Receive: the index the kernel gives is not taken down by the port,
   which comes first among the handles waited on. *)
ReceivePortCounted(i) ==
    /\ pc = "wait"
    /\ session[m_handles[i]] = "normal" /\ stage[m_handles[i]] = "sent"
    /\ stage' = [stage EXCEPT ![m_handles[i]] = "received"]
    /\ tls' = req[m_handles[i]]
    /\ idx' = i + 1
    /\ reply_target' = INVALID_HANDLE
    /\ pc' = "copy"
    /\ UNCHANGED <<session, port, req, tableVars, g_ipc_stash, debuggerVars>>

(* A session signals with a request: the kernel copies it into TLS. *)
Receive(i) ==
    /\ pc = "wait"
    /\ session[m_handles[i]] = "normal" /\ stage[m_handles[i]] = "sent"
    /\ stage' = [stage EXCEPT ![m_handles[i]] = "received"]
    /\ tls' = req[m_handles[i]]
    /\ idx' = i
    /\ reply_target' = INVALID_HANDLE
    /\ pc' = "copy"
    /\ UNCHANGED <<session, port, req, tableVars, g_ipc_stash, debuggerVars>>

(* Mutant of ReceiveFails: the error is logged, the session is not closed. *)
ErrorOnlyLogged(i) ==
    /\ pc = "wait"
    /\ \/ session[m_handles[i]] = "clientClosed"
       \/ stage[m_handles[i]] = "sent"
    /\ tls' = None
    /\ NextTurn(INVALID_HANDLE)
    /\ UNCHANGED <<kernelVars, tableVars, g_ipc_stash, idx, debuggerVars>>

(* A session signals that its client has left, or its request cannot be
   received: an error with a valid index, and the session is closed. *)
ReceiveFails(i) ==
    /\ pc = "wait"
    /\ \/ session[m_handles[i]] = "clientClosed"
       \/ stage[m_handles[i]] = "sent"
    /\ closeSession(i)
    /\ tls' = None
    /\ NextTurn(INVALID_HANDLE)
    /\ UNCHANGED <<port, g_ipc_stash, idx, debuggerVars>>

(* Mutant of CopyRequest: the log comes first. *)
LogThenCopy ==
    /\ pc = "copy"
    /\ g_ipc_stash' = None
    /\ tls' = None
    /\ pc' = "dispatch"
    /\ UNCHANGED <<kernelVars, tableVars, idx, reply_target, debuggerVars>>

(* handleSession begins: memcpy of TLS to the stash; the first log then opens
   a file, an IPC of its own that overwrites TLS. *)
CopyRequest ==
    /\ pc = "copy"
    /\ g_ipc_stash' = tls
    /\ tls' = None
    /\ pc' = "dispatch"
    /\ UNCHANGED <<kernelVars, tableVars, idx, reply_target, debuggerVars>>

(* Mutants of Dispatch: a log after writeResponse; the first session answered;
   no session answered. *)
DispatchThenLog ==
    /\ pc = "dispatch"
    /\ \E r \in Reply : Execute(g_ipc_stash, r)
    /\ tls' = None
    /\ NextTurn(m_handles[idx])
    /\ UNCHANGED <<kernelVars, tableVars, g_ipc_stash, idx>>

AnswerFirst ==
    /\ pc = "dispatch"
    /\ \E r \in Reply : Execute(g_ipc_stash, r) /\ tls' = r
    /\ NextTurn(m_handles[0])
    /\ UNCHANGED <<kernelVars, tableVars, g_ipc_stash, idx>>

AnswerNone ==
    /\ pc = "dispatch"
    /\ \E r \in Reply : Execute(g_ipc_stash, r) /\ tls' = r
    /\ NextTurn(INVALID_HANDLE)
    /\ UNCHANGED <<kernelVars, tableVars, g_ipc_stash, idx>>

(* handleSession goes on: parse the stash, execute, writeResponse into TLS. *)
Dispatch ==
    /\ pc = "dispatch"
    /\ \E r \in Reply : Execute(g_ipc_stash, r) /\ tls' = r
    /\ NextTurn(IF idx < m_num_sessions THEN m_handles[idx] ELSE INVALID_HANDLE)
    /\ UNCHANGED <<kernelVars, tableVars, g_ipc_stash, idx>>

Server ==
    \/ SendReply \/ ReplyFails
    \/ AcceptSession \/ AcceptFails
    \/ \E i \in Live : Receive(i) \/ ReceiveFails(i)
    \/ CopyRequest \/ Dispatch

Clients ==
    \/ \E s \in Session :
        \/ Connect(s)
        \/ \E m \in Message : Send(s, m)
        \/ Hangup(s)
    \/ GameExits

Next == Server \/ Clients

Spec == Init /\ [][Next]_vars

(* The server thread always runs on, and the kernel does not refuse to hand
   over a pending session for ever.  Nothing is assumed of clients. *)
FairSpec == Spec /\ WF_vars(Server) /\ SF_vars(AcceptSession)

-----------------------------------------------------------------------------
(* Safety. *)

(* The table lists exactly the sessions the server holds, each once, packed
   at the front: closing a session in the middle neither loses nor duplicates
   another's handle. *)
TableMatchesKernel ==
    /\ {m_handles[i] : i \in Live} =
         {s \in Session : session[s] \in {"normal", "clientClosed"}} \ Range(port)
    /\ \A i, j \in Live : m_handles[i] = m_handles[j] => i = j
    /\ \A i \in Slot \ Live : m_handles[i] = INVALID_HANDLE

(* A connection waiting on the port always finds room in the table, so the
   rejecting branch of acceptNewSession, which would leave it on the port and
   spin, is never taken. *)
NeverRejected == port # <<>> => m_num_sessions < kMaxSessions

(* At most one request is in the server's hands; while it is, the table slot
   in idx still names the session it came from, and what is about to be
   parsed (TLS before the copy, the stash after) is what that client sent. *)
HandlingItsRequest ==
    /\ \A s \in Session : stage[s] = "received" =>
         \/ pc \in {"copy", "dispatch"} /\ idx \in Live /\ m_handles[idx] = s
         \/ pc = "reply" /\ reply_target = s
    /\ pc \in {"copy", "dispatch"} =>
         /\ idx \in Live /\ stage[m_handles[idx]] = "received"
         /\ req[m_handles[idx]] = IF pc = "copy" THEN tls ELSE g_ipc_stash

(* When an answer is about to leave, TLS holds it and nothing else, and it
   goes to the session whose request was received. *)
ReplyReady ==
    pc = "reply" =>
        /\ reply_target \in Session
        /\ stage[reply_target] = "received"
        /\ tls \in Reply

(* What is being debugged changes only while the server has in its hands a
   request that a client made to attach, detach or scan: never by a Control
   message whose id is the same, never by a message overwritten in TLS. *)
OnlyAskedFor ==
    [][ UNCHANGED <<g_debug, g_pid, debugged>>
        \/ \E s \in Session :
             stage[s] = "received" /\ ChangesAttachment(req[s]) ]_vars

(* The loop implements the service its clients were promised. *)
Promised == INSTANCE SengService WITH
    MaxConnections <- kPortMaxSessions,
    conn <- session,
    call <- [s \in Session |->
               IF stage[s] = "idle" THEN "idle"
               ELSE IF pc = "reply" /\ reply_target = s THEN "served"
               ELSE "sent"],
    done <- [s \in Session |->
               IF pc = "reply" /\ reply_target = s THEN tls ELSE None]

ImplementsService == Promised!Spec

-----------------------------------------------------------------------------
(* Liveness.  The kernel looks at the port first and then at the sessions in
   table order, so clients that never stop asking can starve another; that is
   the only way a client can be kept waiting. *)
Busy == \E s \in Session : Connect(s) \/ \E m \in Message : Send(s, m)
NeverQuiet == []<><<Busy>>_vars

(* Every call is answered, or its session is closed. *)
CallsSettle ==
    NeverQuiet \/ \A s \in Session : (stage[s] # "idle") ~> (stage[s] = "idle")

(* The session of a client that left is given back to the kernel, so that
   crashed clients cannot use up the port. *)
LeaversReaped ==
    NeverQuiet \/
      \A s \in Session : (session[s] = "clientClosed") ~> (session[s] # "clientClosed")
=============================================================================
