\* The service the loop implements, and its liveness under the fairness of its
\* thread.
SPECIFICATION FairSpec
CONSTANTS
    Session = {s1, s2, s3}
    kMaxSessions = 2
    kPortMaxSessions = 2
    Pid <- OnePid
    Message <- FewMessages
    INVALID_HANDLE = INVALID_HANDLE
    None = None
PROPERTIES ImplementsService CallsSettle LeaversReaped
