\* Two processes, one of which a scan refuses, and every fault.
SPECIFICATION FairSpec
CONSTANTS
    Pid <- GameAndSystem
    Addr <- OneWord
    Value <- TwoValues
    OverlayMayDie = TRUE
    SysmodMayDie = TRUE
    CardMayFill = TRUE
    INVALID_HANDLE = INVALID_HANDLE
    NoFile = NoFile
INVARIANTS TypeOK ResultsWhole FirstScanReported
PROPERTIES ReplacementReady CommitIsTrue PokeLands LetGo
