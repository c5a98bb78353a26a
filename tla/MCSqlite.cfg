SPECIFICATION VfsSpec
CONSTANTS
    Paths <- OneFile
    IdLength = 2
    Slots = 3
    Bytes = {"x", "y"}
    None = None
    MaxSize = 2
    BufferSize = 2
    Zero = Zero
    JournalBytes = {Zero, One}
INVARIANT ContentKept
PROPERTIES SyncedSurvives ImplementsPlainFile
VIEW View
