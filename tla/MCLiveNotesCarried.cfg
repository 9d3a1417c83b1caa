\* As in MCLiveNotes.cfg, from an empty database: the one property is what
\* README.md says of the notes.
CONSTANTS
  NoRow = NoRow
  NoDocument = NoDocument
  NoSession = NoSession
  MaxSessions = 2
  Word = {w1, w2}
  MaxTime = 1
  LegacyRows = {}
  MaxFaults = 1

SPECIFICATION Spec
INVARIANT NotesArePerSession
