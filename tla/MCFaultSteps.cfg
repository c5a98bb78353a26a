CONSTANTS
    p1 = p1
    p2 = p2
    Clients = {c1, c2}
    Pages = {p1, p2}
    RegionOf <- TwoRegions
    Frames = {f1}
    Values = {0, 1}
    Zero = 0
    WriteData = {1}
    MaxQueue = 1
    None = None
SPECIFICATION FairSpec
INVARIANTS ClientsSeeTheirPages WritesAreNoticed CleanMeansWritten
PROPERTIES FaultsAreAnswered
