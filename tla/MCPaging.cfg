\* Two regions of up to two pages, two frames, one swap entry: every way of
\* sharing too little RAM between anonymous and persistent pages.
SPECIFICATION PagingSpec
CONSTANTS
    Ids = {r1, r2}
    MaxPages = 2
    Sizes = {1, 2}
    Frames = {f1, f2}
    SwapSlots = {x1}
    WriteData = {"w"}
SYMMETRY Symmetry
VIEW View
INVARIANTS
    PageOwnership
    SwapOwnership
    VictimExists
    CleanPagesAreSafe
    NoLostWrite
PROPERTIES
    PersistPrefixDurable
    FilesFollowMemory
