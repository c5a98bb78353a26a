\* One process that maps two regions, or one of them twice.
SPECIFICATION Spec
CONSTANTS
    Ids = {x, y}
    Clients = {c}
    Windows = {w, z}
    MaxPages = 2
    Sizes = {1, 2}
    Space = 3
    None = None
SYMMETRY Symmetry
VIEW View
INVARIANTS FaultFindsRegion MapcountExact
