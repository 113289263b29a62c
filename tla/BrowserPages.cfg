CONSTANTS
  LastEntry = 1
  AudioStreams = {m1, m2}
  Looks = {n1, n2}
  MaxOffset = 1
  MaxChanges = 3
  Full = 1
  Items = {m1, m2}
  Names = {n1, n2}
  LookupLimit = 1
  MaxEdits = 2
  MaxActs = 4
  MaxJobs = 1
  Panels = {"hierarchy", "duplicates"}
  RootPanels = {"hierarchy"}
  MaxRevision = 3
  LastCollection = 2
  PageSize = 1
  MaxRows = 1
  MaxOpens = 2
  MaxToggles = 2
  None = None
SPECIFICATION BoundedSpec
SYMMETRY Symmetry
INVARIANTS
  IssuesAreFresh
  SelectionSavedOrTold
  AudioFollowsSelection
  SubtitlesFollowSelection
  MenusStayWithControls
  ContextIsNotOlder
  SuccessIsTrue
PROPERTY UndoRestores
CHECK_DEADLOCK FALSE
