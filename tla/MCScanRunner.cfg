\* Three pages of two words, every layout and every content.
SPECIFICATION Spec
CONSTANTS
    Top = 24
    kPage = 8
    kScanBuf = 16
    kFlushEntries = 3
INVARIANTS TypeOK FoundSoFar EachHitOnce FileWhole
PROPERTIES Terminates
CHECK_DEADLOCK FALSE
