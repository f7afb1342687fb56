SPECIFICATION Spec
CONSTANTS
    Entries <- SomeEntries
    MaxEntries = 2
    Half = 4
    Max = 2
    Windows = FALSE
INVARIANTS
    SuccessIsWhole
    NothingForgotten
    GoodAccepted
