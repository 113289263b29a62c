CONSTANTS
    Items = {a, b, c, d}
    Other = d
    NoItem = NoItem
    RootOf <- Roots
    Editors = {e1, e2}
    Upkeep = {"delete_item", "merge", "delete_root"}
    MaxEntries = 3
    PageSize = 2
    MaxBlock = 2
    MaxRevision = 3
SYMMETRY OneRootSymmetry
SPECIFICATION Spec
INVARIANTS NoEditCollides LimitRespected
PROPERTY AcceptedEditsSawTheOrder
