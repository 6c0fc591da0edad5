\* Three attempts, a port of three sessions, every config.ini of up to two
\* lines, any number of overlays and sysmods after one another.
SPECIFICATION Spec
CONSTANTS
    MaxSlices = 3
    kPortMaxSessions = 3
    NoFile = NoFile
    MaxLines = 2
INVARIANTS OneSession
PROPERTIES StartUpEnds ChoiceKept
