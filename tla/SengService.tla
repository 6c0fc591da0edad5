---------------------------- MODULE SengService ----------------------------
(***************************************************************************)
(* What the "seng" service promises its clients (include/seng_ipc.hpp),    *)
(* whatever the server does inside: commands take effect one at a time, in *)
(* one step; a call is executed at most once, and only after it was made;  *)
(* the answer a client gets is the answer to its own call.  A client that  *)
(* disappears in the middle of a call may or may not have had it executed. *)
(***************************************************************************)
EXTENDS SengCommands

CONSTANTS
    Session,            \* connections to the service
    MaxConnections,     \* how many of them can exist at once
    None                \* no message, no answer

VARIABLES
    conn,   \* each connection: not there, usable, or closed by one side
    call,   \* each connection's call: none, made, executed
    req,    \* the message of the call
    done    \* the answer of an executed call

serviceVars == <<conn, call, req, done, debuggerVars>>

Connected == {s \in Session : conn[s] # "none"}

Init ==
    /\ conn = [s \in Session |-> "none"]
    /\ call = [s \in Session |-> "idle"]
    /\ req = [s \in Session |-> None]
    /\ done = [s \in Session |-> None]
    /\ DebuggerInit

Forget(s) ==
    /\ call' = [call EXCEPT ![s] = "idle"]
    /\ req' = [req EXCEPT ![s] = None]
    /\ done' = [done EXCEPT ![s] = None]

Connect(s) ==
    /\ conn[s] = "none"
    /\ Cardinality(Connected) < MaxConnections
    /\ conn' = [conn EXCEPT ![s] = "normal"]
    /\ UNCHANGED <<call, req, done, debuggerVars>>

Send(s, m) ==
    /\ conn[s] = "normal" /\ call[s] = "idle"
    /\ call' = [call EXCEPT ![s] = "sent"]
    /\ req' = [req EXCEPT ![s] = m]
    /\ UNCHANGED <<conn, done, debuggerVars>>

Serve(s) ==
    /\ call[s] = "sent"
    /\ \E r \in Reply : Execute(req[s], r) /\ done' = [done EXCEPT ![s] = r]
    /\ call' = [call EXCEPT ![s] = "served"]
    /\ UNCHANGED <<conn, req>>

(* The client takes its answer, or is no longer there to take it. *)
Finish(s) ==
    /\ call[s] = "served"
    /\ Forget(s)
    /\ UNCHANGED <<conn, debuggerVars>>

Hangup(s) ==
    /\ \/ conn[s] = "normal" /\ conn' = [conn EXCEPT ![s] = "clientClosed"]
       \/ conn[s] = "serverClosed" /\ conn' = [conn EXCEPT ![s] = "none"]
    /\ \/ UNCHANGED <<call, req, done>>
       \/ call[s] = "sent" /\ Forget(s)
    /\ UNCHANGED debuggerVars

(* The server closes its end: for a client that left, or because its message
   could not be received, and then the client sees its call fail. *)
Reap(s) ==
    /\ \/ /\ conn[s] = "clientClosed" /\ call[s] = "idle"
          /\ conn' = [conn EXCEPT ![s] = "none"]
       \/ /\ conn[s] = "normal" /\ call[s] = "sent"
          /\ conn' = [conn EXCEPT ![s] = "serverClosed"]
    /\ Forget(s)
    /\ UNCHANGED debuggerVars

Next ==
    \/ \E s \in Session :
        \/ Connect(s)
        \/ \E m \in Message : Send(s, m)
        \/ Serve(s)
        \/ Finish(s)
        \/ Hangup(s)
        \/ Reap(s)
    \/ \E p \in Pid : ProcessExit(p) /\ UNCHANGED <<conn, call, req, done>>

Spec == Init /\ [][Next]_serviceVars
=============================================================================
