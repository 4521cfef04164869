\* One worker in depth: two prompts, six events, one second may pass.
SPECIFICATION Spec
CONSTANTS
  w1 = w1
  w2 = w2
  repo = repo
  p1 = p1
  p2 = p2
  WorkerIds <- OneWorker
  Cwds <- OneRepo
  Prompts <- TwoPrompts
  NoPrompt = NoPrompt
  NoWorker = NoWorker
  NoFile = NoFile
  Torn = Torn
  MaxFailures = 0
  MaxEvents = 6
  MaxClock = 1
SYMMETRY PromptSymmetry
INVARIANTS
  TypeOK
  HandshakePerDispatch
  ErrorExplainsStatus
  Bookkeeping
