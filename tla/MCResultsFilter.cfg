\* Every file of up to five entries, every outcome of the comparisons.
SPECIFICATION Spec
CONSTANTS
    Address = {1, 2, 3, 4, 5}
    kReadBatch = 2
    MaxMissing = 2
    NoFile = NoFile
INVARIANTS KeptSoFar HeaderRepaired
PROPERTIES Terminates
CHECK_DEADLOCK FALSE
