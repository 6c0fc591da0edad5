\* What the status line says of a next scan.
SPECIFICATION Spec
CONSTANTS
    Pid <- OneGame
    Addr <- OneWord
    Value <- TwoValues
    OverlayMayDie = FALSE
    SysmodMayDie = FALSE
    CardMayFill = FALSE
    INVALID_HANDLE = INVALID_HANDLE
    NoFile = NoFile
PROPERTIES NextScanReported
