CONSTANTS
    Items = {a, b, c, d}
    Other = none
    NoItem = NoItem
    RootOf <- Roots
    Editors = {e1}
    Upkeep = {"merge"}
    MaxEntries = 4
    PageSize = 4
    MaxBlock = 2
    MaxRevision = 4
SPECIFICATION Spec
PROPERTY MovesKeepTheirAnchor
