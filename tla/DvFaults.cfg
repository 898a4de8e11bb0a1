SPECIFICATION Spec
CONSTANTS
  Clients = {c1, c2}
  Requests = {r1, r2}
  Bodies = {b1, b2}
  Sends <- AnySends
  c1 = c1
  c2 = c2
  r1 = r1
  r2 = r2
  b1 = b1
  b2 = b2
  NoBody = NoBody
  NoOne = NoOne
  Completed = Completed
  Lost = Lost
  MaxWaiters = 2
  MaxBatch = 1
  MaxQuiesce = 2
  MaxIntents = 1
  MaxFaults = 1
  MaxRestarts = 1
CHECK_DEADLOCK FALSE
SYMMETRY Symmetry
INVARIANTS NoMissedSignal AnswerIsMine UnpersistedIsTrue TokenLive
PROPERTIES QuietWhenReady
