\* Pages of two; a file is replaced by any other at any step of the screen.
SPECIFICATION Spec
CONSTANTS
    Files <- MCFiles
    kPageSize = 2
    NoFile = NoFile
INVARIANTS PagesPartition RowsOnAPage
PROPERTIES CatchesUp
CHECK_DEADLOCK FALSE
