CONSTANTS
    Threads = {t1, t2}
    Windows = {w1, w2}
    Sizes = {1, 2}
    IntBits = 2
    SizeBits = 4
    None = None
SPECIFICATION Spec
INVARIANTS
    ResultsReflectAnswers
    WindowsAgree
CHECK_DEADLOCK FALSE
