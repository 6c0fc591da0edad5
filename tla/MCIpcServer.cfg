\* Safety: every handler, a table of two, one session more than it can hold,
\* two games.
SPECIFICATION Spec
CONSTANTS
    Session = {s1, s2, s3}
    kMaxSessions = 2
    kPortMaxSessions = 2
    Pid <- MCPid
    Message <- EveryBranch
    INVALID_HANDLE = INVALID_HANDLE
    None = None
SYMMETRY Symmetry
INVARIANTS TypeOK OneDebugged TableMatchesKernel NeverRejected HandlingItsRequest ReplyReady
PROPERTIES OnlyAskedFor
