\* Two sessions, two passages, a clock of two readings that may be set back,
\* one failure, and a database that begins with an active session whose
\* document is missing.
CONSTANTS
  NoRow = NoRow
  NoDocument = NoDocument
  NoSession = NoSession
  MaxSessions = 2
  Word = {w1, w2}
  MaxTime = 1
  LegacyRows = {1}
  MaxFaults = 1

SPECIFICATION Spec
INVARIANTS TypeOK CachedNotesAreStored WrittenNotesAreSaved
PROPERTY SavedTimesAdvance
