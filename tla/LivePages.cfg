CONSTANTS
  LastEntry = 1
  MaxPosition = 1
  ReportInterval = 1
  Resumes <- MCResumes
  MaxRequests = 2
  MaxDisturbances = 2
  Last = 5
  GridSources = {"all", "even"}
  Unshown = {2}
  PageSize = 1
  Cap = 2
  MaxVisits = 2
  MaxEdits = 1
  AlertSources = {"a", "b"}
  Feeds = {"calm", "incident"}
  MaxEvents = 5
  Notices = {"saved", "info", "error"}
  Errors = {"error"}
  MaxVisible = 2
  MaxActions = 4
  None = None
SPECIFICATION LiveSpec
INVARIANTS
  ReportsNameTheirMedia
  QueueIsRead
PROPERTIES
  WaitingReportsAreKept
  MountedIsSegment
  CompletionEnds
  GridFills
  AlertsSettle
CHECK_DEADLOCK FALSE
