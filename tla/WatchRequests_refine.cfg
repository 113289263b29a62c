CONSTANTS
    i1 = i1
    i2 = i2
    i3 = i3
    i4 = i4
    i5 = i5
    q1 = q1
    q2 = q2
    Items = {i1, i2, i3, i4, i5}
    Users = {u1}
    NoItem = NoItem
    Catalogues <- RequestCatalogues
    MaxRevision = 5
    Requests = {q1, q2}
    Operations = {"progress", "mark"}
SPECIFICATION LockedSpec
CHECK_DEADLOCK FALSE
SYMMETRY RequestSymmetry
INVARIANT RollupAligned
PROPERTY PlaybackSpec
