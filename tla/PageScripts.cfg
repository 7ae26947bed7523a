SPECIFICATION Spec
CONSTANTS
  Subjects = {"ajax", "list", "deferred", "fx", "events", "effects"}
  e1 = e1
  e2 = e2
  Requests = {r1, r2, r3}
  MaxTimers = 4
  MaxLost = 2
  Funs = {f1, f2, f3}
  MaxFires = 3
  Handlers = {h1, h2}
  MaxNotices = 2
  Elements = {e1, e2}
  Stoppable = {e1}
  MaxWaiting = 1
  Path = 2
  MaxHandlers = 3
  Effected = {e1, e2}
  Changing = {e1}
  Pages <- SomePages
  Slots = {1, 2}
INVARIANTS
  RequestsCounted
  CallbacksCorrect
  FadesCorrect
  HandlersCorrect
  EffectsCorrect
PROPERTIES BarFollows CallsInOrder
CHECK_DEADLOCK FALSE
