SPECIFICATION Spec
CONSTANTS
  MaxTasks = 2
  MaxCancels = 1
  MaxLists = 0
  MaxBatch = 2
  Names = {"f"}
  Existing = {"f"}
  Auth = {}
  Dirs = {"/"}
  NoDir = NoDir
  Home = "/"
  Root = "/"
  Jobs <- UpDown
INVARIANT TypeOK
INVARIANT SingleInFlight
INVARIANT JobCarriedOnce
INVARIANT CancelHitsItsTask
INVARIANT ProgressIsOwn
INVARIANT StallOnlyAfterFailure
INVARIANT OkMeansWhole
PROPERTY NoClobberWithoutConsent
PROPERTY Implements
