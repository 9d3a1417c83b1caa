\* The deployed numbers: a poll every 5 seconds (main.cpp) and grace periods of
\* 30 seconds (AutomaticSessionTracker.h).
CONSTANTS
  a1 = a1
  a2 = a2
  p1 = p1
  p2 = p2
  NoApp = NoApp
  NoPath = NoPath
  NoGame = NoGame
  GameId = {1, 2, 3}
  App = {a1, a2}
  Path = {p1, p2}
  StartGracePeriod = 30
  EndGracePeriod = 30
  Catalog <- MCCatalog
  Processes <- MCProcesses
  Elapsed = {5}

SPECIFICATION Spec
INVARIANT RunsForFullGrace
