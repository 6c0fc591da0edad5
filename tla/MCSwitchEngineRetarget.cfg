\* Results outlive the target they were found in.
SPECIFICATION Spec
CONSTANTS
    Pid <- TwoGames
    Addr <- OneWord
    Value <- TwoValues
    OverlayMayDie = FALSE
    SysmodMayDie = FALSE
    CardMayFill = FALSE
    INVALID_HANDLE = INVALID_HANDLE
    NoFile = NoFile
INVARIANTS PokeHitsFoundAddress
