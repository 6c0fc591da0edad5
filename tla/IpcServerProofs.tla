-------------------------- MODULE IpcServerProofs --------------------------
(***************************************************************************)
(* The safety of the server loop, for every number of sessions, games and  *)
(* messages: the invariants of IpcServer and its action property, and that *)
(* the loop implements SengService.                                        *)
(***************************************************************************)
EXTENDS IpcServer, FiniteSetTheorems, SequenceTheorems, TLAPS

(* A session waits on the port once, and is one the server does not hold. *)
PortOK ==
    /\ \A j, k \in 1 .. Len(port) : port[j] = port[k] => j = k
    /\ \A j \in 1 .. Len(port) : session[port[j]] \in {"normal", "clientClosed"}

(* The kernel's limit on the port holds. *)
PortLimit == Cardinality(Existing) <= kPortMaxSessions

IInv ==
    /\ TypeOK
    /\ OneDebugged
    /\ TableMatchesKernel
    /\ HandlingItsRequest
    /\ ReplyReady
    /\ PortOK
    /\ PortLimit

-----------------------------------------------------------------------------
(* The debug layer's operations, whether the kernel grants the process or
   refuses it, and a game that exits, keep handle, pid and kernel in agreement. *)
LEMMA LayerKeeps ==
    ASSUME DebuggerInv,
           \/ UNCHANGED debuggerVars \/ detach \/ \E p : ProcessExit(p)
           \/ \E p, rc : attach(p, rc)
    PROVE  DebuggerInv'
  <1> USE PidAssumption DEF DebuggerInv, DebuggerTypeOK, OneDebugged, isAttached
  <1>1. CASE UNCHANGED debuggerVars
    BY <1>1 DEF debuggerVars
  <1>2. CASE detach
    BY <1>2 DEF detach
  <1>3. CASE \E p : ProcessExit(p)
    BY <1>3 DEF ProcessExit
  <1>4. ASSUME NEW p, NEW rc, attach(p, rc)
        PROVE  DebuggerInv'
    <2>1. CASE rc = "ok"
      BY <1>4, <2>1 DEF attach
    <2>2. CASE rc = "fail"
      BY <1>4, <2>2 DEF attach
    <2> QED
      BY <1>4, <2>1, <2>2 DEF attach
  <1> QED
    BY <1>1, <1>2, <1>3, <1>4

(* Handling any message keeps the debug layer consistent. *)
LEMMA ExecuteKeeps ==
    ASSUME DebuggerInv, NEW m, NEW r, Execute(m, r)
    PROVE  DebuggerInv'
  <1>1. UNCHANGED debuggerVars \/ detach \/ (\E pid, rc : attach(pid, rc))
    BY DEF Execute, AnswerInline, RefuseFrame, RefuseUnknown, AnswerQuestion,
           AnswerAttached, NoBuffer, List, Attach, Detach, Reach, Query, Read,
           Write, accessMemory, Scan
  <1> QED
    BY <1>1, LayerKeeps

(* A slot in use names a session the server holds. *)
LEMMA LiveSlot ==
    ASSUME TypeOK, TableMatchesKernel, NEW i \in Live
    PROVE  /\ i \in Slot
           /\ m_handles[i] \in Session
           /\ session[m_handles[i]] \in {"normal", "clientClosed"}
           /\ m_handles[i] # INVALID_HANDLE
  BY ServerAssumption DEF TypeOK, TableMatchesKernel, Live, Slot

LEMMA InitIInv == Init => IInv
  <1> SUFFICES ASSUME Init PROVE IInv
    OBVIOUS
  <1>1. DebuggerTypeOK /\ OneDebugged
    BY PidAssumption DEF Init, DebuggerInit, DebuggerTypeOK, OneDebugged, isAttached
  <1>2. TypeOK
    BY <1>1, ServerAssumption DEF Init, TypeOK, Slot
  <1>3. TableMatchesKernel
    BY ServerAssumption DEF Init, TableMatchesKernel, Live, Slot
  <1>4. HandlingItsRequest /\ ReplyReady /\ PortOK
    BY DEF Init, HandlingItsRequest, ReplyReady, PortOK
  <1>5. PortLimit
    <2>1. Existing = {}
      BY DEF Init, Existing
    <2> QED
      BY <2>1, FS_EmptySet, ServerAssumption DEF PortLimit
  <1> QED
    BY <1>1, <1>2, <1>3, <1>4, <1>5 DEF IInv

-----------------------------------------------------------------------------
(* What closing or filling a slot does to the table. *)

LEMMA CloseKeepsTable ==
    ASSUME IInv, NEW i \in Live, closeSession(i), UNCHANGED port
    PROVE  /\ session' \in [Session -> {"none", "normal", "clientClosed", "serverClosed"}]
           /\ m_handles' \in [Slot -> Session \cup {INVALID_HANDLE}]
           /\ m_num_sessions' \in 0 .. kMaxSessions
           /\ TableMatchesKernel'
           /\ PortOK'
  <1> DEFINE h == m_handles[i]
             Held == {s \in Session : session[s] \in {"normal", "clientClosed"}}
  <1> USE ServerAssumption DEF TypeOK, Slot, Live
  <1>1. /\ i \in Slot /\ h \in Session
        /\ session[h] \in {"normal", "clientClosed"}
    BY LiveSlot DEF IInv
  <1>2. h \notin Range(port)
    BY <1>1 DEF IInv, TableMatchesKernel
  <1>3. /\ session' \in [Session -> {"none", "normal", "clientClosed", "serverClosed"}]
        /\ \A s \in Session \ {h} : session'[s] = session[s]
        /\ session'[h] \in {"none", "serverClosed"}
    BY <1>1 DEF IInv, closeSession
  <1>4. m_num_sessions \in 1 .. kMaxSessions /\ m_num_sessions' = m_num_sessions - 1
    BY DEF IInv, closeSession
  <1>5. m_handles' \in [Slot -> Session \cup {INVALID_HANDLE}]
    BY DEF IInv, closeSession
  <1>6. \A j \in Live' :
           m_handles'[j] = IF j < i THEN m_handles[j] ELSE m_handles[j + 1]
    BY <1>4 DEF IInv, closeSession
  <1>7. \A j \in Slot \ Live' : m_handles'[j] = INVALID_HANDLE
    BY <1>4 DEF IInv, closeSession, TableMatchesKernel
  <1>8. \A j, k \in Live' : m_handles'[j] = m_handles'[k] => j = k
    <2> SUFFICES ASSUME NEW j \in Live', NEW k \in Live',
                        m_handles'[j] = m_handles'[k]
                 PROVE  j = k
      OBVIOUS
    <2> DEFINE Old(n) == IF n < i THEN n ELSE n + 1
    <2>1. Old(j) \in Live /\ Old(k) \in Live
      BY <1>4
    <2>2. m_handles[Old(j)] = m_handles[Old(k)]
      BY <1>6
    <2>3. Old(j) = Old(k)
      BY <2>1, <2>2 DEF IInv, TableMatchesKernel
    <2> QED
      BY <2>3, <1>4
  <1>9. \A j \in Live' : m_handles'[j] \in (Held \ Range(port)) \ {h}
    <2> SUFFICES ASSUME NEW j \in Live'
                 PROVE  m_handles'[j] \in (Held \ Range(port)) \ {h}
      OBVIOUS
    <2>1. PICK k \in Live : k # i /\ m_handles'[j] = m_handles[k]
      <3>1. CASE j < i
        BY <3>1, <1>4, <1>6
      <3>2. CASE ~(j < i)
        <4>1. j + 1 \in Live /\ j + 1 # i
          BY <3>2, <1>4
        <4> QED
          BY <3>2, <4>1, <1>6
      <3> QED
        BY <3>1, <3>2
    <2>2. m_handles[k] \in Held \ Range(port)
      BY DEF IInv, TableMatchesKernel
    <2>3. m_handles[k] # h
      BY <2>1 DEF IInv, TableMatchesKernel
    <2> QED
      BY <2>1, <2>2, <2>3
  <1>10. \A s \in (Held \ Range(port)) \ {h} : \E j \in Live' : m_handles'[j] = s
    <2> SUFFICES ASSUME NEW s \in (Held \ Range(port)) \ {h}
                 PROVE  \E j \in Live' : m_handles'[j] = s
      OBVIOUS
    <2>1. PICK k \in Live : m_handles[k] = s
      BY DEF IInv, TableMatchesKernel
    <2>2. CASE k < i
      BY <2>1, <2>2, <1>4, <1>6
    <2>3. CASE k > i
      <3>1. k - 1 \in Live' /\ m_handles'[k - 1] = m_handles[k]
        BY <2>3, <1>4, <1>6 DEF IInv
      <3> QED
        BY <3>1, <2>1
    <2>4. k # i
      BY <2>1
    <2> QED
      BY <2>2, <2>3, <2>4 DEF IInv
  <1>11. {s \in Session : session'[s] \in {"normal", "clientClosed"}} = Held \ {h}
    BY <1>1, <1>3
  <1>12. TableMatchesKernel'
    BY <1>7, <1>8, <1>9, <1>10, <1>11 DEF TableMatchesKernel
  <1>13. PortOK'
    BY <1>2, <1>3 DEF IInv, PortOK, Range
  <1> QED
    BY <1>3, <1>4, <1>5, <1>12, <1>13

LEMMA AcceptKeepsTable ==
    ASSUME IInv, AcceptSession
    PROVE  /\ m_handles' \in [Slot -> Session \cup {INVALID_HANDLE}]
           /\ m_num_sessions' \in 0 .. kMaxSessions
           /\ port' \in Seq(Session)
           /\ TableMatchesKernel'
           /\ PortOK'
  <1> USE ServerAssumption DEF TypeOK, Slot, Live
  <1>1. /\ port \in Seq(Session) /\ Len(port) \in Nat \ {0}
        /\ Head(port) = port[1] /\ port[1] \in Session
    BY DEF IInv, AcceptSession
  <1>2. /\ port' \in Seq(Session) /\ Len(port') = Len(port) - 1
        /\ \A j \in 1 .. Len(port') : port'[j] = port[j + 1]
    BY <1>1 DEF AcceptSession
  <1>3. m_num_sessions' = m_num_sessions + 1 /\ m_num_sessions' \in 0 .. kMaxSessions
    BY DEF IInv, AcceptSession
  <1>4. m_handles' = [m_handles EXCEPT ![m_num_sessions] = port[1]]
    BY <1>1 DEF AcceptSession
  <1>5. Range(port) = Range(port') \cup {port[1]} /\ port[1] \notin Range(port')
    <2>1. DOMAIN port = 1 .. Len(port) /\ DOMAIN port' = 1 .. Len(port')
      BY <1>1, <1>2
    <2>2. \A j \in DOMAIN port' : /\ j + 1 \in DOMAIN port /\ j + 1 # 1
                                  /\ port'[j] = port[j + 1]
      BY <2>1, <1>1, <1>2
    <2>3. \A j \in DOMAIN port' : port'[j] \in Range(port) /\ port'[j] # port[1]
      BY <2>1, <2>2, <1>1 DEF IInv, PortOK, Range
    <2>4. \A j \in DOMAIN port \ {1} : j - 1 \in DOMAIN port' /\ port[j] = port'[j - 1]
      BY <2>1, <1>1, <1>2
    <2>5. 1 \in DOMAIN port
      BY <2>1, <1>1
    <2> QED
      BY <2>3, <2>4, <2>5 DEF Range
  <1>6. session' = session /\ session[port[1]] \in {"normal", "clientClosed"}
    BY <1>1 DEF IInv, PortOK, AcceptSession
  <1>7. TableMatchesKernel'
    <2>1. \A j \in Live : m_handles'[j] = m_handles[j] /\ m_handles[j] # port[1]
      BY <1>1, <1>4, <1>5 DEF IInv, TableMatchesKernel
    <2>2. m_handles'[m_num_sessions] = port[1] /\ Live' = Live \cup {m_num_sessions}
      BY <1>3, <1>4 DEF IInv
    <2>3. \A j \in Slot \ Live' : m_handles'[j] = INVALID_HANDLE
      BY <1>3, <1>4, <2>2 DEF IInv, TableMatchesKernel
    <2>4. \A j, k \in Live' : m_handles'[j] = m_handles'[k] => j = k
      BY <2>1, <2>2 DEF IInv, TableMatchesKernel
    <2>5. {m_handles'[j] : j \in Live'} = {m_handles[j] : j \in Live} \cup {port[1]}
      BY <2>1, <2>2
    <2>6. {s \in Session : session'[s] \in {"normal", "clientClosed"}} \ Range(port')
            = ({s \in Session : session[s] \in {"normal", "clientClosed"}}
                 \ Range(port)) \cup {port[1]}
      BY <1>1, <1>5, <1>6
    <2> QED
      BY <2>3, <2>4, <2>5, <2>6 DEF IInv, TableMatchesKernel
  <1>8. PortOK'
    <2>1. \A j \in 1 .. Len(port') : /\ j + 1 \in 1 .. Len(port)
                                    /\ port'[j] = port[j + 1]
      BY <1>1, <1>2
    <2>2. \A j, k \in 1 .. Len(port') : port'[j] = port'[k] => j + 1 = k + 1
      BY <2>1 DEF IInv, PortOK
    <2>3. \A j \in 1 .. Len(port') : session'[port'[j]] \in {"normal", "clientClosed"}
      BY <2>1, <1>6 DEF IInv, PortOK
    <2> QED
      BY <2>2, <2>3, <1>2 DEF PortOK
  <1> QED
    BY <1>2, <1>3, <1>4, <1>1, <1>7, <1>8 DEF IInv

(* Most steps leave sessions, port and table alone. *)
LEMMA TableUnchanged ==
    ASSUME IInv, UNCHANGED <<session, port, tableVars>>
    PROVE  TableMatchesKernel' /\ PortOK' /\ PortLimit'
  BY DEF IInv, tableVars, TableMatchesKernel, PortOK, PortLimit, Existing, Live, Slot

(* No session comes into being except by Connect, within the kernel's limit. *)
LEMMA PortLimitKept ==
    ASSUME IInv, Existing' \subseteq Existing
    PROVE  PortLimit'
  <1>1. IsFiniteSet(Existing)
    BY FS_Subset, ServerAssumption DEF Existing
  <1>2. Cardinality(Existing') <= Cardinality(Existing)
    BY <1>1, FS_Subset
  <1>3. Cardinality(Existing') \in Nat /\ Cardinality(Existing) \in Nat
    BY <1>1, FS_Subset, FS_CardinalityType
  <1> QED
    BY <1>2, <1>3, ServerAssumption DEF IInv, PortLimit

-----------------------------------------------------------------------------
(* The invariant is inductive: one step per action. *)

LEMMA DebuggerStep ==
    ASSUME IInv, [Next]_vars
    PROVE  DebuggerInv'
  <1>1. DebuggerInv
    BY DEF IInv, TypeOK, DebuggerInv
  <1>2. CASE Dispatch
    BY <1>1, <1>2, ExecuteKeeps DEF Dispatch
  <1>3. CASE GameExits
    BY <1>1, <1>3, LayerKeeps DEF GameExits
  <1>4. CASE UNCHANGED debuggerVars
    BY <1>1, <1>4, LayerKeeps
  <1>5. Dispatch \/ GameExits \/ UNCHANGED debuggerVars
    BY DEF Next, Server, Clients, SendReply, ReplyFails, AcceptSession, AcceptFails,
           Receive, ReceiveFails, CopyRequest, Connect, Send, Hangup, vars
  <1> QED
    BY <1>2, <1>3, <1>4, <1>5

LEMMA NextKeepsIInv ==
    ASSUME IInv, [Next]_vars
    PROVE  IInv'
  <1>1. DebuggerTypeOK' /\ OneDebugged'
    BY DebuggerStep DEF DebuggerInv
  <1> USE ServerAssumption DEF TypeOK, kernelVars, tableVars
  <1>2. ASSUME NEW s \in Session, Connect(s)
        PROVE  IInv'
    <2> USE <1>2 DEF Connect
    <2>1. TypeOK'
      BY <1>1 DEF IInv
    <2>2. /\ port \in Seq(Session) /\ Len(port) \in Nat
          /\ Len(port') = Len(port) + 1 /\ port'[Len(port) + 1] = s
          /\ \A j \in 1 .. Len(port) : port'[j] = port[j]
      BY DEF IInv
    <2>3. \A j \in 1 .. Len(port) : port[j] # s
      BY DEF IInv, PortOK
    <2>4. PortOK'
      BY <2>2, <2>3 DEF IInv, PortOK
    <2>5. Range(port') = Range(port) \cup {s}
      <3>1. DOMAIN port = 1 .. Len(port) /\ DOMAIN port' = 1 .. Len(port) + 1
        BY <2>2, <2>1
      <3> QED
        BY <3>1, <2>2 DEF Range
    <2>6. {t \in Session : session'[t] \in {"normal", "clientClosed"}}
            = {t \in Session : session[t] \in {"normal", "clientClosed"}} \cup {s}
      BY DEF IInv
    <2>7. s \notin {t \in Session : session[t] \in {"normal", "clientClosed"}}
      OBVIOUS
    <2>8. TableMatchesKernel'
      BY <2>5, <2>6, <2>7 DEF IInv, TableMatchesKernel, Live, Slot
    <2>9. PortLimit'
      <3>1. IsFiniteSet(Existing) /\ s \notin Existing /\ Existing' = Existing \cup {s}
        BY FS_Subset DEF IInv, Existing
      <3>2. Cardinality(Existing') = Cardinality(Existing) + 1
        BY <3>1, FS_AddElement
      <3>3. Cardinality(Existing) \in Nat
        BY <3>1, FS_CardinalityType
      <3> QED
        BY <3>2, <3>3 DEF PortLimit
    <2>10. HandlingItsRequest' /\ ReplyReady'
      BY DEF IInv, HandlingItsRequest, ReplyReady, Live
    <2> QED
      BY <1>1, <2>1, <2>4, <2>8, <2>9, <2>10 DEF IInv
  <1>3. ASSUME NEW s \in Session, NEW m \in Message, Send(s, m)
        PROVE  IInv'
    <2> USE <1>3 DEF Send
    <2>1. TypeOK'
      BY <1>1 DEF IInv
    <2>2. HandlingItsRequest'
      <3>1. pc \in {"copy", "dispatch"} => m_handles[idx] # s
        BY DEF IInv, HandlingItsRequest
      <3>2. pc \in {"copy", "dispatch"} => m_handles[idx] \in Session
        BY LiveSlot DEF IInv, HandlingItsRequest
      <3> QED
        BY <3>1, <3>2 DEF IInv, HandlingItsRequest, Live
    <2>3. ReplyReady'
      BY DEF IInv, ReplyReady
    <2> QED
      BY <1>1, <2>1, <2>2, <2>3, TableUnchanged DEF IInv
  <1>4. ASSUME NEW s \in Session, Hangup(s)
        PROVE  IInv'
    <2> USE <1>4 DEF Hangup
    <2>1. TypeOK'
      BY <1>1 DEF IInv
    <2>2. HandlingItsRequest'
      <3>1. pc \in {"copy", "dispatch"} =>
              m_handles[idx] \in Session /\ stage[m_handles[idx]] = "received"
        BY LiveSlot DEF IInv, HandlingItsRequest
      <3> QED
        BY <3>1 DEF IInv, HandlingItsRequest, Live
    <2>3. ReplyReady'
      BY DEF IInv, ReplyReady
    <2>4. {t \in Session : session'[t] \in {"normal", "clientClosed"}}
            = {t \in Session : session[t] \in {"normal", "clientClosed"}}
      BY DEF IInv
    <2>5. TableMatchesKernel'
      BY <2>4 DEF IInv, TableMatchesKernel, Live, Slot
    <2>6. PortOK'
      BY DEF IInv, PortOK
    <2>7. PortLimit'
      BY PortLimitKept DEF IInv, Existing
    <2> QED
      BY <1>1, <2>1, <2>2, <2>3, <2>5, <2>6, <2>7 DEF IInv
  <1>5. CASE GameExits
    <2>1. TypeOK' /\ HandlingItsRequest' /\ ReplyReady'
      BY <1>1, <1>5 DEF IInv, GameExits, HandlingItsRequest, ReplyReady, Live
    <2> QED
      BY <1>1, <1>5, <2>1, TableUnchanged DEF IInv, GameExits
  <1>6. CASE SendReply
    <2> USE <1>6 DEF SendReply, Settle
    <2>1. TypeOK'
      BY <1>1 DEF IInv
    <2>2. HandlingItsRequest' /\ ReplyReady'
      BY DEF IInv, HandlingItsRequest, ReplyReady
    <2> QED
      BY <1>1, <2>1, <2>2, TableUnchanged DEF IInv
  <1>7. CASE ReplyFails
    <2> USE <1>7 DEF ReplyFails, Settle, NextTurn
    <2>1. TypeOK'
      BY <1>1 DEF IInv
    <2>2. HandlingItsRequest' /\ ReplyReady'
      BY DEF IInv, HandlingItsRequest, ReplyReady
    <2> QED
      BY <1>1, <2>1, <2>2, TableUnchanged DEF IInv
  <1>8. CASE AcceptSession
    <2>1. TypeOK'
      BY <1>1, <1>8, AcceptKeepsTable DEF IInv, AcceptSession, NextTurn
    <2>2. HandlingItsRequest' /\ ReplyReady'
      BY <1>8 DEF IInv, AcceptSession, NextTurn, HandlingItsRequest, ReplyReady
    <2>3. PortLimit'
      BY <1>8, PortLimitKept DEF AcceptSession, Existing
    <2> QED
      BY <1>1, <1>8, <2>1, <2>2, <2>3, AcceptKeepsTable DEF IInv
  <1>9. CASE AcceptFails
    <2> USE <1>9 DEF AcceptFails, NextTurn
    <2>1. TypeOK' /\ HandlingItsRequest' /\ ReplyReady'
      BY <1>1 DEF IInv, HandlingItsRequest, ReplyReady
    <2> QED
      BY <1>1, <2>1, TableUnchanged DEF IInv
  <1>10. ASSUME NEW i \in Live, Receive(i)
         PROVE  IInv'
    <2> USE <1>10 DEF Receive
    <2>1. i \in 0 .. kMaxSessions - 1 /\ m_handles[i] \in Session
      BY LiveSlot DEF IInv, TypeOK, Live
    <2>2. TypeOK'
      BY <1>1, <2>1 DEF IInv
    <2>3. \A s \in Session : stage[s] # "received"
      BY DEF IInv, HandlingItsRequest
    <2>4. HandlingItsRequest' /\ ReplyReady'
      BY <2>1, <2>3 DEF IInv, HandlingItsRequest, ReplyReady, Live
    <2> QED
      BY <1>1, <2>2, <2>4, TableUnchanged DEF IInv
  <1>11. ASSUME NEW i \in Live, ReceiveFails(i)
         PROVE  IInv'
    <2> USE <1>11 DEF ReceiveFails, NextTurn
    <2>1. m_handles[i] \in Session /\ session[m_handles[i]] # "none"
      BY LiveSlot DEF IInv
    <2>2. TypeOK'
      BY <1>1, CloseKeepsTable DEF IInv, closeSession, Settle
    <2>3. HandlingItsRequest' /\ ReplyReady'
      BY <2>1 DEF IInv, HandlingItsRequest, ReplyReady, closeSession, Settle
    <2>4. PortLimit'
      BY <2>1, PortLimitKept DEF IInv, closeSession, Existing
    <2> QED
      BY <1>1, <2>2, <2>3, <2>4, CloseKeepsTable DEF IInv
  <1>12. CASE CopyRequest
    <2> USE <1>12 DEF CopyRequest
    <2>1. idx \in Live /\ m_handles[idx] \in Session /\ tls = req[m_handles[idx]]
      BY LiveSlot DEF IInv, HandlingItsRequest
    <2>2. TypeOK'
      BY <1>1, <2>1 DEF IInv
    <2>3. HandlingItsRequest' /\ ReplyReady'
      BY <2>1 DEF IInv, HandlingItsRequest, ReplyReady, Live
    <2> QED
      BY <1>1, <2>2, <2>3, TableUnchanged DEF IInv
  <1>13. CASE Dispatch
    <2> USE <1>13 DEF Dispatch, NextTurn
    <2>1. /\ idx \in Live /\ m_handles[idx] \in Session
          /\ m_handles[idx] # INVALID_HANDLE /\ stage[m_handles[idx]] = "received"
      BY LiveSlot DEF IInv, HandlingItsRequest
    <2>2. reply_target' = m_handles[idx] /\ pc' = "reply" /\ tls' \in Reply
      BY <2>1 DEF IInv, Live
    <2>3. TypeOK'
      BY <1>1, <2>1, <2>2 DEF IInv
    <2>4. HandlingItsRequest' /\ ReplyReady'
      BY <2>1, <2>2 DEF IInv, HandlingItsRequest, ReplyReady
    <2> QED
      BY <1>1, <2>3, <2>4, TableUnchanged DEF IInv
  <1>14. CASE UNCHANGED vars
    <2> USE <1>14 DEF vars
    <2>1. TypeOK' /\ HandlingItsRequest' /\ ReplyReady'
      BY <1>1 DEF IInv, HandlingItsRequest, ReplyReady, Live
    <2> QED
      BY <1>1, <2>1, TableUnchanged DEF IInv
  <1> QED
    BY <1>2, <1>3, <1>4, <1>5, <1>6, <1>7, <1>8, <1>9, <1>10, <1>11, <1>12,
       <1>13, <1>14 DEF Next, Server, Clients

-----------------------------------------------------------------------------
(* Every reachable state satisfies the inductive invariant. *)
THEOREM Inductive == Spec => []IInv
  <1>1. Init => IInv
    BY InitIInv
  <1>2. IInv /\ [Next]_vars => IInv'
    BY NextKeepsIInv
  <1> QED
    BY <1>1, <1>2, PTL DEF Spec

(* The server's variables, the kernel's and the debug layer's stay in range:
   in particular m_num_sessions never leaves 0 .. kMaxSessions. *)
THEOREM TypeCorrect == Spec => []TypeOK
  <1>1. IInv => TypeOK
    BY DEF IInv
  <1> QED
    BY <1>1, Inductive, PTL

(* The table of sessions and the kernel agree, whatever sessions are opened,
   left and closed in whatever order. *)
THEOREM TableCorrect == Spec => []TableMatchesKernel
  <1>1. IInv => TableMatchesKernel
    BY DEF IInv
  <1> QED
    BY <1>1, Inductive, PTL

(* The request in hand is the one its client sent, despite the logs that
   overwrite TLS, and the answer goes where it came from. *)
THEOREM RequestIntegrity == Spec => []HandlingItsRequest
  <1>1. IInv => HandlingItsRequest
    BY DEF IInv
  <1> QED
    BY <1>1, Inductive, PTL

(* When the loop is about to reply, the answer to the request in hand is in
   TLS: no log comes between the end of handleSession and svcReplyAndReceive. *)
THEOREM ReplyReadyAlways == Spec => []ReplyReady
  <1>1. IInv => ReplyReady
    BY DEF IInv
  <1> QED
    BY <1>1, Inductive, PTL

(* At most one process is debugged, and it is the one the layer knows of. *)
THEOREM OneDebuggedAlways == Spec => []OneDebugged
  <1>1. IInv => OneDebugged
    BY DEF IInv
  <1> QED
    BY <1>1, Inductive, PTL

(* A waiting client finds room in the table: its slots in use and the session
   that waits are distinct sessions, and the kernel admits no more than fit. *)
LEMMA RoomForTheWaiting ==
    ASSUME IInv
    PROVE  NeverRejected
  <1> USE ServerAssumption DEF TypeOK, Live, Slot
  <1> SUFFICES ASSUME port # <<>>
               PROVE  m_num_sessions < kMaxSessions
    BY DEF NeverRejected
  <1> DEFINE Held == {m_handles[i] : i \in Live}
             f == [i \in 1 .. m_num_sessions |-> m_handles[i - 1]]
  <1>1. m_num_sessions \in Nat
    BY DEF IInv
  <1>2. f \in Bijection(1 .. m_num_sessions, Held)
    <2>1. f \in [1 .. m_num_sessions -> Held]
      BY <1>1
    <2>2. \A j, k \in 1 .. m_num_sessions : f[j] = f[k] => j = k
      <3> SUFFICES ASSUME NEW j \in 1 .. m_num_sessions, NEW k \in 1 .. m_num_sessions,
                          f[j] = f[k]
                   PROVE  j = k
        OBVIOUS
      <3>1. j - 1 \in Live /\ k - 1 \in Live /\ m_handles[j - 1] = m_handles[k - 1]
        BY <1>1
      <3>2. j - 1 = k - 1
        BY <3>1 DEF IInv, TableMatchesKernel
      <3> QED
        BY <3>2
    <2>3. \A h \in Held : \E j \in 1 .. m_num_sessions : f[j] = h
      <3> SUFFICES ASSUME NEW i \in Live
                   PROVE  \E j \in 1 .. m_num_sessions : f[j] = m_handles[i]
        OBVIOUS
      <3>1. i + 1 \in 1 .. m_num_sessions /\ f[i + 1] = m_handles[i]
        BY <1>1
      <3> QED
        BY <3>1
    <2> QED
      BY <2>1, <2>2, <2>3 DEF Bijection, Injection, Surjection, IsInjective
  <1>3. IsFiniteSet(Held) /\ Cardinality(Held) = m_num_sessions
    <2>1. IsFiniteSet(1 .. m_num_sessions) /\ Cardinality(1 .. m_num_sessions) = m_num_sessions
      BY <1>1, FS_Interval
    <2>2. ExistsBijection(1 .. m_num_sessions, Held)
      BY <1>2 DEF ExistsBijection
    <2> QED
      BY <2>1, <2>2, FS_Bijection
  <1>4. /\ port[1] \in Session \ Held
        /\ session[port[1]] \in {"normal", "clientClosed"}
    <2>1. 1 \in 1 .. Len(port) /\ 1 \in DOMAIN port
      BY DEF IInv
    <2>2. port[1] \in Range(port) /\ port[1] \in Session
      BY <2>1 DEF IInv, Range
    <2> QED
      BY <2>1, <2>2 DEF IInv, TableMatchesKernel, PortOK
  <1>5. Held \cup {port[1]} \subseteq Existing
    BY <1>4 DEF IInv, TableMatchesKernel, Existing
  <1>6. Cardinality(Held \cup {port[1]}) = m_num_sessions + 1
    BY <1>3, <1>4, FS_AddElement
  <1>7. IsFiniteSet(Existing)
    BY FS_Subset DEF Existing
  <1>8. Cardinality(Held \cup {port[1]}) <= Cardinality(Existing)
    BY <1>5, <1>7, FS_Subset
  <1> QED
    BY <1>1, <1>6, <1>7, <1>8, FS_CardinalityType DEF IInv, PortLimit

(* The rejecting branch of acceptNewSession is dead code as long as the port's
   limit does not exceed the table. *)
THEOREM NeverRejectedAlways == Spec => []NeverRejected
  BY Inductive, RoomForTheWaiting, PTL

(* Only a request to attach, detach or scan changes what is debugged. *)
THEOREM OnlyAskedForAlways == Spec => OnlyAskedFor
  <1> DEFINE Asked == \/ UNCHANGED <<g_debug, g_pid, debugged>>
                      \/ \E s \in Session :
                           stage[s] = "received" /\ ChangesAttachment(req[s])
  <1>1. IInv /\ [Next]_vars => [Asked]_vars
    <2> SUFFICES ASSUME IInv, Next
                 PROVE  Asked
      BY DEF vars
    <2>1. CASE Dispatch
      <3>1. PICK r \in Reply : Execute(g_ipc_stash, r)
        BY <2>1 DEF Dispatch
      <3>2. UNCHANGED debuggerVars \/ ChangesAttachment(g_ipc_stash)
        BY <3>1 DEF Execute, AnswerInline, RefuseFrame, RefuseUnknown, AnswerQuestion,
           AnswerAttached, NoBuffer, List, Attach, Detach, Reach, Query, Read,
           Write, accessMemory, Scan, ChangesAttachment
      <3>3. /\ m_handles[idx] \in Session /\ stage[m_handles[idx]] = "received"
            /\ req[m_handles[idx]] = g_ipc_stash
        BY <2>1, LiveSlot DEF IInv, HandlingItsRequest, Dispatch
      <3> QED
        BY <3>2, <3>3 DEF debuggerVars
    <2>2. CASE GameExits
      BY <2>2 DEF GameExits, ProcessExit
    <2>3. CASE UNCHANGED debuggerVars
      BY <2>3 DEF debuggerVars
    <2>4. Dispatch \/ GameExits \/ UNCHANGED debuggerVars
      BY DEF Next, Server, Clients, SendReply, ReplyFails, AcceptSession, AcceptFails,
             Receive, ReceiveFails, CopyRequest, Connect, Send, Hangup
    <2> QED
      BY <2>1, <2>2, <2>3, <2>4
  <1>2. [][Asked]_vars => OnlyAskedFor
    BY PTL DEF OnlyAskedFor
  <1> QED
    BY <1>1, <1>2, Inductive, PTL DEF Spec

-----------------------------------------------------------------------------
(* The rest of the module shows that the server loop implements SengService:
   each step of the loop is a step of the service or leaves the service's state
   as it is. *)
(* A request waits in the kernel only while its client is there. *)
QueuedFromNormal == \A s \in Session : stage[s] = "sent" => session[s] = "normal"

RInv == IInv /\ QueuedFromNormal

(* The refinement mapping of IpcServer, by name. *)
callMap == [s \in Session |->
              IF stage[s] = "idle" THEN "idle"
              ELSE IF pc = "reply" /\ reply_target = s THEN "served"
              ELSE "sent"]
doneMap == [s \in Session |->
              IF pc = "reply" /\ reply_target = s THEN tls ELSE None]

LEMMA QueuedKept ==
    ASSUME RInv, [Next]_vars
    PROVE  QueuedFromNormal'
  <1> USE DEF RInv, IInv, TypeOK, QueuedFromNormal, Settle
  <1>1. CASE UNCHANGED <<session, stage>>
    BY <1>1
  <1>2. ASSUME NEW s \in Session, Connect(s)
        PROVE  QueuedFromNormal'
    BY <1>2 DEF Connect
  <1>3. ASSUME NEW s \in Session, NEW m \in Message, Send(s, m)
        PROVE  QueuedFromNormal'
    BY <1>3 DEF Send
  <1>4. ASSUME NEW s \in Session, Hangup(s)
        PROVE  QueuedFromNormal'
    BY <1>4 DEF Hangup
  <1>5. CASE SendReply \/ ReplyFails
    BY <1>5 DEF SendReply, ReplyFails
  <1>6. ASSUME NEW i \in Live, Receive(i)
        PROVE  QueuedFromNormal'
    BY <1>6, LiveSlot DEF Receive
  <1>7. ASSUME NEW i \in Live, ReceiveFails(i)
        PROVE  QueuedFromNormal'
    BY <1>7, LiveSlot DEF ReceiveFails, closeSession
  <1>8. \/ UNCHANGED <<session, stage>>
        \/ \E s \in Session : Connect(s) \/ Hangup(s) \/ \E m \in Message : Send(s, m)
        \/ SendReply \/ ReplyFails
        \/ \E i \in Live : Receive(i) \/ ReceiveFails(i)
    BY DEF Next, Server, Clients, AcceptSession, AcceptFails, CopyRequest, Dispatch,
           GameExits, vars, kernelVars
  <1> QED
    BY <1>1, <1>2, <1>3, <1>4, <1>5, <1>6, <1>7, <1>8

LEMMA InitMaps == Init => Promised!Init
  BY DEF Init, Promised!Init, DebuggerInit, Promised!DebuggerInit

(* A step that leaves sessions, mapping and debug layer alone is a stutter. *)
LEMMA Stutters ==
    ASSUME UNCHANGED <<session, callMap, req, doneMap, debuggerVars>>
    PROVE  [Promised!Next]_(Promised!serviceVars)
  BY DEF Promised!serviceVars, callMap, doneMap, debuggerVars, Promised!debuggerVars

LEMMA SameExecute ==
    ASSUME NEW m, NEW r, Execute(m, r)
    PROVE  Promised!Execute(m, r)
  BY DEF Execute, AnswerInline, RefuseFrame, RefuseUnknown, AnswerQuestion,
         AnswerAttached, NoBuffer, List, Attach, Detach, Reach, Query, Read,
         Write, Scan, attach, detach, accessMemory, isAttached, debuggerVars,
         Answer, GetVersion, GetForegroundPid, GetTitleId, AttachProcess,
         DetachProcess, QueryMemory, ReadMemory, WriteMemory, IsAttached,
         ListProcessesLegacy, ListProcesses, StartMemoryScan, kIpcVersion,
         Promised!Execute, Promised!AnswerInline, Promised!RefuseFrame,
         Promised!RefuseUnknown, Promised!AnswerQuestion,
         Promised!AnswerAttached, Promised!NoBuffer, Promised!List,
         Promised!Attach, Promised!Detach, Promised!Reach, Promised!Query,
         Promised!Read, Promised!Write, Promised!Scan, Promised!attach,
         Promised!detach, Promised!accessMemory, Promised!isAttached,
         Promised!debuggerVars, Promised!Answer, Promised!GetVersion,
         Promised!GetForegroundPid, Promised!GetTitleId,
         Promised!AttachProcess, Promised!DetachProcess, Promised!QueryMemory,
         Promised!ReadMemory, Promised!WriteMemory, Promised!IsAttached,
         Promised!ListProcessesLegacy, Promised!ListProcesses,
         Promised!StartMemoryScan, Promised!kIpcVersion

(* Outside "reply" nothing has been executed that is not yet answered. *)
LEMMA NothingDone ==
    ASSUME pc # "reply"
    PROVE  /\ doneMap = [s \in Session |-> None]
           /\ callMap = [s \in Session |-> IF stage[s] = "idle" THEN "idle" ELSE "sent"]
  BY DEF doneMap, callMap

LEMMA CallMapUpdate ==
    ASSUME NEW s \in Session, NEW c, callMap'[s] = c,
           \A t \in Session \ {s} : callMap'[t] = callMap[t]
    PROVE  callMap' = [callMap EXCEPT ![s] = c]
  BY DEF callMap

LEMMA StepMaps ==
    ASSUME RInv, RInv', [Next]_vars
    PROVE  [Promised!Next]_(Promised!serviceVars)
  <1> USE ServerAssumption DEF RInv, IInv, TypeOK
  <1>1. ASSUME NEW s \in Session, Connect(s)
        PROVE  Promised!Connect(s)
    <2>1. /\ session[s] = "none" /\ Cardinality(Existing) < kPortMaxSessions
          /\ session' = [session EXCEPT ![s] = "normal"]
          /\ UNCHANGED <<callMap, req, doneMap, debuggerVars>>
      BY <1>1 DEF Connect, callMap, doneMap
    <2>2. Promised!Cardinality(Promised!Connected) < kPortMaxSessions
      BY <2>1 DEF Promised!Connected, Existing, Cardinality, Promised!Cardinality
    <2> HIDE DEF RInv, IInv, TypeOK
    <2> QED
      BY <2>1, <2>2 DEF Promised!Connect, callMap, doneMap, debuggerVars,
                        Promised!debuggerVars
  <1>2. ASSUME NEW s \in Session, NEW m \in Message, Send(s, m)
        PROVE  Promised!Send(s, m)
    <2> USE <1>2 DEF Send
    <2>1. ~(pc = "reply" /\ reply_target = s)
      BY DEF ReplyReady
    <2>2. callMap[s] = "idle" /\ callMap'[s] = "sent"
          /\ \A t \in Session \ {s} : callMap'[t] = callMap[t]
      BY <2>1 DEF callMap
    <2>3. UNCHANGED doneMap
      BY DEF doneMap
    <2>4. callMap' = [callMap EXCEPT ![s] = "sent"]
      BY <2>2, CallMapUpdate
    <2> QED
      BY <2>2, <2>3, <2>4 DEF callMap, doneMap, Promised!Send, debuggerVars,
                              Promised!debuggerVars
  <1>3. ASSUME NEW s \in Session, Hangup(s)
        PROVE  Promised!Hangup(s)
    <2> USE <1>3 DEF Hangup
    <2>1. UNCHANGED doneMap
      BY DEF doneMap
    <2>2. CASE stage[s] = "sent"
      <3>1. ~(pc = "reply" /\ reply_target = s)
        BY <2>2 DEF ReplyReady
      <3>2. callMap[s] = "sent" /\ callMap'[s] = "idle"
            /\ \A t \in Session \ {s} : callMap'[t] = callMap[t]
        BY <2>2, <3>1 DEF callMap
      <3>3. doneMap' = [doneMap EXCEPT ![s] = None]
        BY <3>1, <2>1 DEF doneMap
      <3>4. callMap' = [callMap EXCEPT ![s] = "idle"]
        BY <3>2, CallMapUpdate
      <3> QED
        BY <2>2, <3>2, <3>3, <3>4 DEF callMap, doneMap, Promised!Hangup, Promised!Forget,
                                debuggerVars, Promised!debuggerVars
    <2>3. CASE stage[s] # "sent"
      <3>1. UNCHANGED callMap
        BY <2>3 DEF callMap
      <3> QED
        BY <2>1, <2>3, <3>1 DEF callMap, doneMap, Promised!Hangup,
                                debuggerVars, Promised!debuggerVars
    <2> QED
      BY <2>2, <2>3
  <1>4. ASSUME GameExits
        PROVE  Promised!Next
    <2>1. UNCHANGED <<session, callMap, req, doneMap>>
      BY <1>4 DEF GameExits, kernelVars, callMap, doneMap
    <2> QED
      BY <1>4, <2>1 DEF GameExits, ProcessExit, Promised!ProcessExit, Promised!Next,
                        callMap, doneMap
  <1>5. ASSUME NEW s \in Session, s = reply_target, SendReply \/ ReplyFails
        PROVE  Promised!Finish(s)
    <2> USE <1>5 DEF SendReply, ReplyFails, Settle
    <2>1. pc = "reply" /\ stage[s] = "received"
      BY <1>5 DEF ReplyReady
    <2>2. pc' = "wait"
      BY DEF NextTurn
    <2>6. callMap[s] = "served" /\ callMap'[s] = "idle"
          /\ \A t \in Session \ {s} : callMap'[t] = callMap[t]
      BY <1>5, <2>1, <2>2 DEF callMap
    <2>3. callMap' = [callMap EXCEPT ![s] = "idle"]
      BY <2>6, CallMapUpdate
    <2>4. doneMap' = [doneMap EXCEPT ![s] = None]
      BY <1>5, <2>1, <2>2 DEF doneMap
    <2>5. req' = [req EXCEPT ![s] = None] /\ UNCHANGED <<session, debuggerVars>>
      BY <1>5
    <2> QED
      BY <2>3, <2>4, <2>5, <2>6 DEF callMap, doneMap, Promised!Finish, Promised!Forget,
                              debuggerVars, Promised!debuggerVars
  <1>6. ASSUME AcceptSession \/ AcceptFails \/ CopyRequest
        PROVE  UNCHANGED <<session, callMap, req, doneMap, debuggerVars>>
    BY <1>6, NothingDone DEF AcceptSession, AcceptFails, CopyRequest, NextTurn,
                             kernelVars, callMap, doneMap
  <1>7. ASSUME NEW i \in Live, Receive(i)
        PROVE  UNCHANGED <<session, callMap, req, doneMap, debuggerVars>>
    BY <1>7, LiveSlot DEF Receive, callMap, doneMap
  <1>8. ASSUME NEW i \in Live, NEW h \in Session, h = m_handles[i], ReceiveFails(i)
        PROVE  Promised!Reap(h)
    <2> USE <1>8 DEF ReceiveFails, closeSession, Settle, NextTurn
    <2>1. session[h] \in {"normal", "clientClosed"}
      BY <1>8, LiveSlot
    <2>2. \/ session[h] = "clientClosed" /\ stage[h] = "idle"
          \/ session[h] = "normal" /\ stage[h] = "sent"
      BY <1>8, <2>1 DEF QueuedFromNormal, HandlingItsRequest
    <2>3. callMap[h] = stage[h] /\ callMap' = [callMap EXCEPT ![h] = "idle"]
      BY <1>8, <2>1, <2>2 DEF callMap
    <2>4. doneMap' = [doneMap EXCEPT ![h] = None]
      BY <1>8, <2>1 DEF doneMap
    <2>5. session' = [session EXCEPT ![h] = IF session[h] = "clientClosed"
                                            THEN "none" ELSE "serverClosed"]
      BY <1>8, <2>1
    <2> QED
      BY <1>8, <2>1, <2>2, <2>3, <2>4, <2>5
         DEF callMap, doneMap, Promised!Reap, Promised!Forget,
             debuggerVars, Promised!debuggerVars
  <1>9. ASSUME NEW s \in Session, s = m_handles[idx], Dispatch
        PROVE  Promised!Serve(s)
    <2> USE <1>9 DEF Dispatch, NextTurn
    <2>1. /\ s # INVALID_HANDLE /\ idx < m_num_sessions
          /\ stage[s] = "received" /\ req[s] = g_ipc_stash
      BY <1>9, LiveSlot DEF HandlingItsRequest, Live
    <2>2. pc' = "reply" /\ reply_target' = s
      BY <1>9, <2>1
    <2>3. pc = "dispatch" /\ stage' = stage
      BY DEF kernelVars
    <2>8. callMap[s] = "sent" /\ callMap'[s] = "served"
          /\ \A t \in Session \ {s} : callMap'[t] = callMap[t]
      BY <1>9, <2>1, <2>2, <2>3 DEF callMap
    <2>9. callMap' = [callMap EXCEPT ![s] = "served"]
      BY <1>9, <2>1, <2>8, CallMapUpdate
    <2>4. PICK r \in Reply : Execute(req[s], r) /\ tls' = r
      BY <1>9, <2>1
    <2>5. doneMap' = [doneMap EXCEPT ![s] = r]
      BY <1>9, <2>1, <2>2, <2>4 DEF doneMap
    <2>6. r \in Promised!Reply
      BY <2>4 DEF Reply, Rc, kIpcVersion, Promised!Reply, Promised!Rc,
                  Promised!kIpcVersion
    <2>7. Promised!Execute(req[s], r)
      BY <2>4, SameExecute
    <2> QED
      BY <2>5, <2>6, <2>7, <2>8, <2>9 DEF callMap, doneMap, kernelVars, Promised!Serve
  <1>10. CASE UNCHANGED vars
    <2>1. UNCHANGED <<session, callMap, req, doneMap, debuggerVars>>
      BY <1>10 DEF vars, kernelVars, callMap, doneMap
    <2> QED
      BY <2>1, Stutters
  <1>11. CASE Next
    <2>1. ASSUME NEW s \in Session,
                 \/ Promised!Connect(s) \/ Promised!Serve(s) \/ Promised!Finish(s)
                 \/ Promised!Hangup(s) \/ Promised!Reap(s)
                 \/ \E m \in Message : Promised!Send(s, m)
          PROVE  Promised!Next
      BY <2>1 DEF Promised!Next
    <2>2. ASSUME Clients
          PROVE  Promised!Next
      BY <2>2, <2>1, <1>1, <1>2, <1>3, <1>4 DEF Clients
    <2>3. ASSUME SendReply \/ ReplyFails
          PROVE  Promised!Next
      <3>1. reply_target \in Session
        BY <2>3 DEF SendReply, ReplyFails, ReplyReady
      <3> QED
        BY <3>1, <2>3, <2>1, <1>5
    <2>4. ASSUME NEW i \in Live, ReceiveFails(i)
          PROVE  Promised!Next
      BY <2>4, <2>1, <1>8, LiveSlot
    <2>5. ASSUME Dispatch
          PROVE  Promised!Next
      <3>1. m_handles[idx] \in Session
        BY <2>5, LiveSlot DEF Dispatch, HandlingItsRequest
      <3> QED
        BY <3>1, <2>5, <2>1, <1>9
    <2> QED
      BY <1>11, <1>6, <1>7, <2>2, <2>3, <2>4, <2>5, Stutters DEF Next, Server
  <1> QED
    BY <1>10, <1>11

(* The loop with its table, its buffer and its reply target is, to its
   clients, a service that executes their calls one at a time, each at most
   once, and answers each its own. *)
THEOREM Implements == Spec => ImplementsService
  <1>1. Init => RInv
    BY InitIInv DEF RInv, QueuedFromNormal, Init
  <1>2. RInv /\ [Next]_vars => RInv'
    BY NextKeepsIInv, QueuedKept DEF RInv
  <1>3. RInv /\ RInv' /\ [Next]_vars => [Promised!Next]_(Promised!serviceVars)
    BY StepMaps
  <1> QED
    BY <1>1, <1>2, <1>3, InitMaps, PTL DEF Spec, ImplementsService, Promised!Spec
=============================================================================
