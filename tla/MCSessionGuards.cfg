\* Every call of OptionalCalls, on a database that predates the unique index and may hold
\* two active rows; no query fails, so that the service checks stand alone.
CONSTANTS
  a1 = a1
  p1 = p1
  NoApp = NoApp
  NoPath = NoPath
  NoGame = NoGame
  NoSession = NoSession
  NoEnd = NoEnd
  GameId = {1, 2}
  App = {a1}
  Path = {p1}
  StartGracePeriod = 1
  EndGracePeriod = 2
  PollInterval = 1
  MaxSessions = 2
  MaxTime = 1
  MaxQueryFaults = 0
  MaxWriteFaults = 0
  GameForms <- MCForms
  Processes <- MCOneProcess
  InitialTables <- MCTwoActive
  OneActiveIndex = FALSE
  ClientCalls = {"updateGame", "removeGame", "reassociate", "resetAutomaticTracking", "clockStepsBack"}

SPECIFICATION Spec
INVARIANTS AtMostOneActive ActiveRowIsCached
