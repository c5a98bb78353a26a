SPECIFICATION PagingSpec
CONSTANTS
    Ids = {r1, r2}
    MaxPages = 2
    Sizes = {1, 2}
    Frames = {f1, f2}
    SwapSlots = {x1}
    WriteData = {"w"}
INVARIANT
    NoLostWriteEver
