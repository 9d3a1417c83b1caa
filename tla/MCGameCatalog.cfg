\* Downloads of two types, of three kinds at a time and two of a kind at most,
\* one failing step: a failed query, failed writes, both, or an exit amid a write.
CONSTANTS
  a1 = a1
  a2 = a2
  p1 = p1
  NoApp = NoApp
  NoPath = NoPath
  NoGame = NoGame
  NoFile = NoFile
  BadFile = BadFile
  NoCard = NoCard
  Placeholder = Placeholder
  GameId = {1, 2}
  App = {a1, a2}
  Path = {p1}
  ArtworkType = {"Cover", "Header"}
  MaxKinds = 3
  MaxEqual = 2
  MaxRecycled = 1
  MaxFaults = 1
  GameForms <- MCForms
  Payloads <- MCPayloads

SPECIFICATION Spec
INVARIANTS TypeOK IndexesAreWhole FlagMeansCover CoverIsFlagged CoverIsOfGame CardShowsCover
PROPERTY ImportIsComplete
