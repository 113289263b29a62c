CONSTANTS
    i1 = i1
    i2 = i2
    i3 = i3
    i4 = i4
    q1 = q1
    q2 = q2
    Items = {i1, i2, i3, i4}
    Users = {u1}
    NoItem = NoItem
    Catalogues <- EditCatalogues
    MaxRevision = 3
    Requests = {q1, q2}
    Operations = {"mark", "clear"}
    MaxChanges <- ChangeBounds
    Writers = {q1, q2}
SPECIFICATION EditsSpec
SYMMETRY EditSymmetry
INVARIANTS HierarchyUnlessRaced NoOrphanRows SavedGridsAreCurrent
PROPERTY MarkCompletesAll
CHECK_DEADLOCK FALSE
