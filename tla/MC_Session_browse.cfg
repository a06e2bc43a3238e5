SPECIFICATION FairSpec
CONSTANTS
  MaxTasks = 0
  MaxCancels = 2
  MaxLists = 2
  MaxBatch = 1
  Names = {"f"}
  Existing = {"f"}
  Auth = {}
  Dirs = {"/", "/home", "/srv"}
  NoDir = NoDir
  Home = "/home"
  Root = "/"
  Jobs <- UpDown
PROPERTY StaleListingNotShown
PROPERTY PaneSettles
