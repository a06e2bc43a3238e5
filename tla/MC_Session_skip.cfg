SPECIFICATION Spec
CONSTANTS
  MaxTasks = 2
  MaxCancels = 2
  MaxLists = 0
  MaxBatch = 1
  Names = {"f"}
  Existing = {"f"}
  Auth = {}
  Dirs = {"/"}
  NoDir = NoDir
  Home = "/"
  Root = "/"
  Jobs <- UpDown
INVARIANT UploadsNeverSkipped
