CONSTANTS
    Items = {a, b, c, d}
    Other = none
    NoItem = NoItem
    RootOf <- Roots
    Editors = {e1}
    Upkeep = {"delete_item"}
    MaxEntries = 4
    PageSize = 3
    MaxBlock = 2
    MaxRevision = 4
    Sources <- MCSources
    EntryLimit = 3
    HistoryLimit = 2
    EntryPage = 1
    MaxDrafts = 5
    MaxSteps = 5
    Kinds = {"movie", "season", "extra"}
    Fields = {"title", "number"}
    None = None
SPECIFICATION EditingSpec
SYMMETRY ItemSymmetry
INVARIANTS PositionsContiguous SavedParentFits LocksAreKept
PROPERTIES SequenceSpec SavesReplaceWhatWasSeen MergeKeepsEntries
CHECK_DEADLOCK FALSE
