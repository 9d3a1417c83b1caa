\* The calls GameLog makes today, on an installed schema, with one failure of a
\* query or of a write, a clock that may step back, and exits at any moment.
CONSTANTS
  a1 = a1
  p1 = p1
  NoApp = NoApp
  NoPath = NoPath
  NoGame = NoGame
  NoSession = NoSession
  NoEnd = NoEnd
  GameId = {1, 2}
  App = {a1}
  Path = {p1}
  StartGracePeriod = 2
  EndGracePeriod = 2
  PollInterval = 1
  MaxSessions = 2
  MaxTime = 1
  MaxQueryFaults = 1
  MaxWriteFaults = 1
  GameForms <- MCForms
  Processes <- MCProcesses
  InitialTables <- MCBothGames
  OneActiveIndex = TRUE
  ClientCalls = {"clockStepsBack", "resetAutomaticTracking"}

SPECIFICATION GraceSpec
INVARIANTS TypeOK CacheMatchesRow ActiveGameOfSession NoInheritedAbsence
PROPERTIES SessionEndsAfterGrace LifecycleIsKept
