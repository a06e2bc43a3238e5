SPECIFICATION FairSpec
CONSTANTS
  MaxTasks = 1
  MaxCancels = 2
  MaxLists = 0
  MaxBatch = 1
  Names = {"f"}
  Existing = {"f"}
  Auth = {"password", "inline key"}
  Dirs = {"/"}
  NoDir = NoDir
  Home = "/"
  Root = "/"
  Jobs <- FilesAndTrees
PROPERTY ClosingEnds
PROPERTY CancelEnds
PROPERTY ConnectSettles
PROPERTY TransferEnds
INVARIANT FilesSpanSession
