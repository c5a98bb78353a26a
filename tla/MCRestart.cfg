\* One region of one to three pages over two frames and no swap, with failing
\* allocations, shutdowns and crashes.
SPECIFICATION Spec
CONSTANTS
    Ids = {r1}
    MaxPages = 3
    Sizes = {1, 2, 3}
    Frames = {f1, f2}
    SwapSlots = {}
    WriteData = {"w"}
SYMMETRY Symmetry
VIEW View
INVARIANTS
    CapacityReserved
    NoLostWrite
    AnchoredSurvives
PROPERTY ImplementsRegionStore
