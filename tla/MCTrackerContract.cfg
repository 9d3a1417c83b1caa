\* Irregular polls: the owner may pass no time, one unit or two; the grace
\* periods are three units, so that a decision takes two or three polls.
CONSTANTS
  a1 = a1
  a2 = a2
  p1 = p1
  p2 = p2
  NoApp = NoApp
  NoPath = NoPath
  NoGame = NoGame
  GameId = {1, 2, 3}
  App = {a1, a2}
  Path = {p1, p2}
  StartGracePeriod = 3
  EndGracePeriod = 3
  Catalog <- MCCatalog
  Processes <- MCProcesses
  Elapsed = {0, 1, 2}

SPECIFICATION Spec
INVARIANTS TypeOK StartsAfterGrace StopsAfterGrace
PROPERTIES CandidacyIsKept
