\* Two processes that share a region.
SPECIFICATION FairSpec
CONSTANTS
    Ids = {x}
    Clients = {c, d}
    Windows = {w}
    MaxPages = 1
    Sizes = {1}
    Space = 2
    None = None
VIEW View
INVARIANTS HandlesBacked NoOrphanRegion
PROPERTY AbandonedIsReclaimed
