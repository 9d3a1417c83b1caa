\* Two keys, so that the session of one game may be followed by one of the
\* other; one process, which runs the Steam game; a query and a write may fail
\* once; the clock only goes forward; games may be removed.
CONSTANTS
  a1 = a1
  p1 = p1
  NoApp = NoApp
  NoPath = NoPath
  NoGame = NoGame
  NoSession = NoSession
  NoEnd = NoEnd
  GameId = {1, 2}
  App = {a1}
  Path = {p1}
  StartGracePeriod = 2
  EndGracePeriod = 2
  PollInterval = 1
  MaxSessions = 2
  MaxTime = 1
  MaxQueryFaults = 1
  MaxWriteFaults = 1
  GameForms <- MCOneForm
  Processes <- MCOneProcess
  InitialTables <- MCBothGames
  OneActiveIndex = TRUE
  ClientCalls = {"removeGame"}

SPECIFICATION FairSpec
PROPERTIES AbandonedSessionEnds PlayedGameGetsSession
