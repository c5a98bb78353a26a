CONSTANTS
    NPages = 2
    PageSize = 3
    Width = 3
    Contents = {"x"}
SPECIFICATION IoSpec
INVARIANTS WrittenInPlace CompleteUnlessFailed
PROPERTY LoopsEnd
