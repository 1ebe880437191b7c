CONSTANTS
  a = a
  b = b
  p = p
  Callers <- TwoCallers
  Exposed <- OneCaller
  Paths <- OnePath
  Tasks <- AllTasks
  Chunks = 2
  Window = 1
SPECIFICATION MCSpec
INVARIANTS
  PushMeansStored
  PullIsWholeOrRemoved
  ShellIsComplete
  UploadIsRemoved
  InstallsItsOwn
PROPERTY CallsEnd
