\* u64 of 8 bits and u32 of 5: every value, and maxima below, at and
\* between the widths.
SPECIFICATION Spec
CONSTANTS
    U64Max = 255
    U32Max = 31
    MaxValues = {15, 31, 99, 255}
INVARIANTS TypeOK
PROPERTIES CastExact IsADigitPad
