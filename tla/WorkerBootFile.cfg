\* Two workers in one directory, calls may fail and writes be cut off.
SPECIFICATION Spec
CONSTANTS
  w1 = w1
  w2 = w2
  repo = repo
  p1 = p1
  p2 = p2
  WorkerIds <- TwoWorkers
  Cwds <- OneRepo
  Prompts <- OnePrompt
  NoPrompt = NoPrompt
  NoWorker = NoWorker
  NoFile = NoFile
  Torn = Torn
  MaxFailures = 2
  MaxEvents = 4
  MaxClock = 0
SYMMETRY WorkerSymmetry
INVARIANT
  FileIsAPastMoment
PROPERTY
  FileNeverGoesBack
