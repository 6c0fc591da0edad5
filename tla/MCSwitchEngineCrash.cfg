\* An overlay that dies between attach and detach leaves the game frozen.
SPECIFICATION FairSpec
CONSTANTS
    Pid <- OneGame
    Addr <- OneWord
    Value <- TwoValues
    OverlayMayDie = TRUE
    SysmodMayDie = FALSE
    CardMayFill = FALSE
    INVALID_HANDLE = INVALID_HANDLE
    NoFile = NoFile
PROPERTIES FrozenGameReleased
