\* Five processes, a list of at most three of them.
SPECIFICATION Spec
CONSTANTS
    Pid = {0, 1, 2, 3, 4}
    Title <- MCTitle
    kMaxProcessList = 3
INVARIANTS ListFaithful LabelNamesTarget ForegroundFound
PROPERTIES AskEnds
