SPECIFICATION Spec
CONSTANTS
  Canvases = {1, 2}
  Delays = {1, 2}
  Heights = {1, 2}
  Fit <- MCFit
  Loading = "loading"
  UserScenes = {"live", "other"}
  ChangeIn = {"Inactive", "Filling", "Active", "Error"}
  MaxUpsets = 1
  MaxInbox = 1
  Generations = 2
INVARIANTS InSync
CHECK_DEADLOCK FALSE
