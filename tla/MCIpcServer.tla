---------------------------- MODULE MCIpcServer ----------------------------
(* Small instances of IpcServer for TLC. *)
EXTENDS IpcServer, TLC

Msg(type, cmd, pid) == [type |-> type, cmd |-> cmd, pid |-> pid, buf |-> TRUE]

(* Two processes, and a message for every branch of handleSession, among them
   a Control message that has the id of an attach. *)
MCPid == {2, 3}
EveryBranch ==
    {Msg("Request", c, 2) : c \in {GetForegroundPid, AttachProcess, DetachProcess,
        QueryMemory, WriteMemory, IsAttached, ListProcesses, StartMemoryScan, 12}}
    \cup {Msg("Request", AttachProcess, 3), Msg("Request", StartMemoryScan, 1),
          Msg("Control", 3, 3), Msg("Close", 0, 0), Msg("Unparsable", 3, 2),
          [Msg("Request", ReadMemory, 2) EXCEPT !.buf = FALSE]}

(* For the refinement and liveness: an attach, a question, the Control message. *)
OnePid == {2}
FewMessages == {Msg("Request", AttachProcess, 2), Msg("Request", IsAttached, 0),
                Msg("Control", 3, 2)}

Symmetry == Permutations(Session)
=============================================================================
