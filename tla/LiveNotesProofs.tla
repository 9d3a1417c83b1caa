--------------------------- MODULE LiveNotesProofs ---------------------------
(***************************************************************************)
(* Proofs about LiveNotes, for any number of sessions, passages, clock     *)
(* readings and failures: types, the cached copy, the times of saving, and *)
(* that nothing written is missing from a stopped session's document.      *)
(***************************************************************************)
EXTENDS LiveNotes, TLAPS

Types ==
  /\ rows \in [SessionId -> Row \cup {NoRow}]
  /\ documents \in [SessionId -> Document \cup {NoDocument}]
  /\ activeSession \in Session \cup {NoSession}
  /\ answering \in Session \cup {NoSession}
  /\ window \in {"none", "main", "live"}
  /\ text \in Text /\ enabled \in BOOLEAN
  /\ now \in Time /\ faults \in 0..MaxFaults
  /\ written \in [SessionId -> Text] /\ lost \in SUBSET SessionId

\* Row and document come and go together, but for the rows of a beginning.
DocumentsFollowRows ==
  \A i \in SessionId :
    /\ rows[i] = NoRow => documents[i] = NoDocument
    /\ documents[i] = NoDocument => rows[i] = NoRow \/ i \in LegacyRows

\* The cached session is an active row with its notes, in a running program.
CacheIsActiveRow ==
  activeSession # NoSession =>
    /\ rows[activeSession.id] = activeSession.row
    /\ activeSession.row.status = "active"
    /\ NotesOf(activeSession.id) = activeSession.notes
    /\ window # "none" /\ answering = NoSession

\* While the window answers, the row is as it was when the session stopped.
AnsweredIsStopped ==
  answering # NoSession =>
    /\ rows[answering.id] = answering.row
    /\ answering.row.status = "completed"
    /\ window = "live"

EditorIsOfSession == enabled => window = "live" /\ activeSession # NoSession

Cached(i) == activeSession # NoSession /\ activeSession.id = i
Answered(i) == answering # NoSession /\ answering.id = i

\* An active row nobody has in the cache was left by an exit.
UncachedIsLost ==
  \A i \in SessionId :
    rows[i] # NoRow /\ rows[i].status = "active" => i \in lost \/ Cached(i)

\* What was written is in the editor as long as the live window has the
\* session, and in the document otherwise.
WrittenIsKept ==
  \A i \in SessionId \ lost :
    rows[i] # NoRow =>
      IF window = "live" /\ (Cached(i) \/ Answered(i))
      THEN written[i] \subseteq text
      ELSE written[i] \subseteq NotesOf(i)

IInv == /\ Types
        /\ DocumentsFollowRows
        /\ CacheIsActiveRow
        /\ AnsweredIsStopped
        /\ EditorIsOfSession
        /\ UncachedIsLost
        /\ WrittenIsKept

-----------------------------------------------------------------------------
LEMMA NoneFacts == /\ NoRow \notin Row /\ NoSession \notin Session
                   /\ NoDocument \notin Document
  BY NoneAssumption

\* What the transaction of update() does to rows and documents.
LEMMA Updated ==
  ASSUME Types, DocumentsFollowRows,
         NEW i \in SessionId, NEW row \in Row, NEW notes \in Text,
         Update(i, row, notes)
  PROVE  /\ rows' \in [SessionId -> Row \cup {NoRow}]
         /\ documents' \in [SessionId -> Document \cup {NoDocument}]
         /\ rows'[i] = row /\ rows[i] # NoRow
         /\ documents'[i] \in Document /\ documents'[i].content = notes
         /\ \A j \in SessionId \ {i} : rows'[j] = rows[j] /\ documents'[j] = documents[j]
         /\ documents[i] # NoDocument =>
              IF documents[i].content = notes
              THEN documents'[i].savedAt = documents[i].savedAt
              ELSE documents'[i].savedAt > documents[i].savedAt
<1> DEFINE d == saveSessionDocumentIfChanged(i, notes)
<1>1. now \in Nat
  BY NotesAssumption DEF Types, Time
<1>2. d \in Document /\ d.content = notes
  <2>1. CASE documents[i] = NoDocument
    BY <1>1, <2>1 DEF saveSessionDocumentIfChanged, insertSessionDocument, Document
  <2>2. CASE documents[i] # NoDocument
    <3>1. documents[i] \in Document
      BY <2>2 DEF Types
    <3>2. documents[i].savedAt \in Nat
      BY <3>1 DEF Document
    <3> QED
      BY <1>1, <2>2, <3>1, <3>2 DEF saveSessionDocumentIfChanged, Document
  <2> QED
    BY <2>1, <2>2
<1>3. documents[i] # NoDocument =>
        IF documents[i].content = notes
        THEN d.savedAt = documents[i].savedAt
        ELSE d.savedAt > documents[i].savedAt
  <2> SUFFICES ASSUME documents[i] # NoDocument
               PROVE  IF documents[i].content = notes
                      THEN d.savedAt = documents[i].savedAt
                      ELSE d.savedAt > documents[i].savedAt
    OBVIOUS
  <2>1. documents[i].savedAt \in Nat
    BY DEF Types, Document
  <2> QED
    BY <1>1, <2>1 DEF saveSessionDocumentIfChanged
<1> HIDE DEF d
<1>4. documents' = [documents EXCEPT ![i] = d] /\ rows' = [rows EXCEPT ![i] = row]
      /\ rows[i] # NoRow
  BY DEF Update, d
<1> QED
  BY <1>2, <1>3, <1>4 DEF Types

\* What the transaction of insert() does.
LEMMA Inserted ==
  ASSUME Types, NEW i \in SessionId, NEW row \in Row, NEW notes \in Text,
         Insert(i, row, notes)
  PROVE  /\ rows' \in [SessionId -> Row \cup {NoRow}]
         /\ documents' \in [SessionId -> Document \cup {NoDocument}]
         /\ rows[i] = NoRow /\ rows'[i] = row
         /\ documents'[i] \in Document /\ documents'[i].content = notes
         /\ \A j \in SessionId \ {i} : rows'[j] = rows[j] /\ documents'[j] = documents[j]
<1>1. insertSessionDocument(notes) \in Document /\ insertSessionDocument(notes).content = notes
  BY NotesAssumption DEF Types, Time, insertSessionDocument, Document
<1>2. /\ documents' = [documents EXCEPT ![i] = insertSessionDocument(notes)]
      /\ rows' = [rows EXCEPT ![i] = row] /\ rows[i] = NoRow
  BY DEF Insert, IsNextId
<1> HIDE DEF insertSessionDocument
<1> QED
  BY <1>1, <1>2 DEF Types

LEMMA NotesOfType == ASSUME Types, NEW i \in SessionId PROVE NotesOf(i) \in Text
  BY NoneFacts DEF Types, NotesOf, Document, Text

LEMMA InitIInv == Init => IInv
<1> SUFFICES ASSUME Init PROVE IInv
  OBVIOUS
<1>1. Types
  <2>1. now \in Time /\ faults \in 0..MaxFaults
    BY NotesAssumption DEF Init, Time
  <2>2. [status |-> "active", start |-> 0] \in Row
    BY NotesAssumption DEF Row, Status, Time
  <2>3. rows \in [SessionId -> Row \cup {NoRow}]
    BY <2>2 DEF Init
  <2>4. lost \in SUBSET SessionId
    BY NotesAssumption DEF Init
  <2> QED
    BY <2>1, <2>3, <2>4 DEF Init, Types, Text
<1>2. DocumentsFollowRows
  BY NoneFacts DEF Init, DocumentsFollowRows
<1>3. CacheIsActiveRow /\ AnsweredIsStopped /\ EditorIsOfSession
  BY DEF Init, CacheIsActiveRow, AnsweredIsStopped, EditorIsOfSession
<1>4. UncachedIsLost /\ WrittenIsKept
  BY DEF Init, UncachedIsLost, WrittenIsKept
<1> QED
  BY <1>1, <1>2, <1>3, <1>4 DEF IInv

-----------------------------------------------------------------------------
(* Every action keeps the invariant.                                       *)

LEMMA StartKeepsIInv == ASSUME IInv, StartAutomaticSession PROVE IInv'
<1> USE NoneFacts DEF IInv
<1>1. PICK i \in SessionId :
        LET row == [status |-> "active", start |-> now] IN
        /\ Insert(i, row, {})
        /\ activeSession' = [id |-> i, row |-> row, notes |-> {}]
        /\ written' = [written EXCEPT ![i] = {}]
        /\ lost' = lost \ {i}
  BY DEF StartAutomaticSession
<1> DEFINE row == [status |-> "active", start |-> now]
<1>2. row \in Row /\ {} \in Text /\ row.status = "active"
  BY DEF Types, Row, Status, Text
<1>3. /\ rows' \in [SessionId -> Row \cup {NoRow}]
      /\ documents' \in [SessionId -> Document \cup {NoDocument}]
      /\ rows[i] = NoRow /\ rows'[i] = row
      /\ documents'[i] \in Document /\ documents'[i].content = {}
      /\ \A j \in SessionId \ {i} : rows'[j] = rows[j] /\ documents'[j] = documents[j]
  BY <1>1, <1>2, Inserted
<1>4. /\ activeSession = NoSession /\ answering = NoSession /\ answering' = NoSession
      /\ ActiveIds = {} /\ window # "none"
      /\ window' = window /\ text' = text /\ enabled' = (window = "live")
      /\ now' = now /\ faults' = faults
  BY DEF StartAutomaticSession, Running, OnSessionStarted
<1>5. activeSession' = [id |-> i, row |-> row, notes |-> {}] /\ activeSession' \in Session
      /\ activeSession' # NoSession
  BY <1>1, <1>2 DEF Session
<1>6. /\ written' = [written EXCEPT ![i] = {}] /\ lost' = lost \ {i}
  BY <1>1
<1> HIDE DEF row
<1>7. Types'
  BY <1>2, <1>3, <1>4, <1>5, <1>6 DEF Types, Text
<1>8. DocumentsFollowRows'
  BY <1>2, <1>3 DEF DocumentsFollowRows
<1>9. CacheIsActiveRow'
  BY <1>2, <1>3, <1>4, <1>5 DEF CacheIsActiveRow, NotesOf
<1>10. AnsweredIsStopped' /\ EditorIsOfSession'
  BY <1>4, <1>5 DEF AnsweredIsStopped, EditorIsOfSession
<1>11. UncachedIsLost'
  BY <1>3, <1>4, <1>5 DEF UncachedIsLost, ActiveIds, Cached
<1>12. WrittenIsKept'
  <2> SUFFICES ASSUME NEW j \in SessionId \ lost', rows'[j] # NoRow
               PROVE  IF window' = "live" /\ (Cached(j)' \/ Answered(j)')
                      THEN written'[j] \subseteq text'
                      ELSE written'[j] \subseteq NotesOf(j)'
    BY DEF WrittenIsKept
  <2>1. CASE j = i
    BY <2>1, <1>6 DEF Types
  <2>2. CASE j # i
    <3>1. written[j] \subseteq NotesOf(j)
      BY <2>2, <1>3, <1>4, <1>6 DEF WrittenIsKept, Cached, Answered
    <3> QED
      BY <2>2, <3>1, <1>3, <1>4, <1>5, <1>6 DEF Types, NotesOf, Cached, Answered
  <2> QED
    BY <2>1, <2>2
<1> QED
  BY <1>7, <1>8, <1>9, <1>10, <1>11, <1>12

LEMMA AddKeepsIInv ==
  ASSUME IInv, NEW status \in Status, NEW start \in Time, NEW notes \in Text,
         AddSession(status, start, notes)
  PROVE  IInv'
<1> USE NoneFacts DEF IInv
<1> DEFINE row == [status |-> status, start |-> start]
<1>1. PICK i \in SessionId :
        /\ Insert(i, row, notes)
        /\ activeSession' = IF status = "active"
                            THEN [id |-> i, row |-> row, notes |-> notes]
                            ELSE activeSession
        /\ written' = [written EXCEPT ![i] = notes]
        /\ lost' = lost \ {i}
  BY DEF AddSession
<1>2. row \in Row /\ row.status = status
  BY DEF Row
<1>3. /\ rows' \in [SessionId -> Row \cup {NoRow}]
      /\ documents' \in [SessionId -> Document \cup {NoDocument}]
      /\ rows[i] = NoRow /\ rows'[i] = row
      /\ documents'[i] \in Document /\ documents'[i].content = notes
      /\ \A j \in SessionId \ {i} : rows'[j] = rows[j] /\ documents'[j] = documents[j]
  BY <1>1, <1>2, Inserted
<1>4. /\ answering = NoSession /\ answering' = NoSession /\ window = "main"
      /\ status = "active" => activeSession = NoSession /\ ActiveIds = {}
      /\ window' = window /\ text' = text /\ enabled' = enabled
      /\ now' = now /\ faults' = faults
  BY DEF AddSession, Running, editor
<1>5. /\ status = "active" => /\ activeSession' = [id |-> i, row |-> row, notes |-> notes]
                              /\ activeSession' \in Session
      /\ status # "active" => activeSession' = activeSession
  BY <1>1, <1>2 DEF Session
<1>6. /\ written' = [written EXCEPT ![i] = notes] /\ lost' = lost \ {i}
  BY <1>1
<1>7. activeSession # NoSession => activeSession.id # i /\ activeSession.id \in SessionId
  BY <1>3 DEF CacheIsActiveRow, Types, Session
<1> HIDE DEF row
<1>8. Types'
  BY <1>2, <1>3, <1>4, <1>5, <1>6 DEF Types
<1>9. DocumentsFollowRows'
  BY <1>2, <1>3 DEF DocumentsFollowRows
<1>10. CacheIsActiveRow'
  <2>1. CASE status = "active"
    BY <2>1, <1>2, <1>3, <1>4, <1>5 DEF CacheIsActiveRow, NotesOf
  <2>2. CASE status # "active"
    BY <2>2, <1>3, <1>4, <1>5, <1>7 DEF CacheIsActiveRow, NotesOf
  <2> QED
    BY <2>1, <2>2
<1>11. AnsweredIsStopped' /\ EditorIsOfSession'
  BY <1>4, <1>5 DEF AnsweredIsStopped, EditorIsOfSession
<1>12. UncachedIsLost'
  BY <1>2, <1>3, <1>4, <1>5, <1>6, <1>7 DEF UncachedIsLost, ActiveIds, Cached
<1>13. WrittenIsKept'
  <2> SUFFICES ASSUME NEW j \in SessionId \ lost', rows'[j] # NoRow
               PROVE  written'[j] \subseteq NotesOf(j)'
    BY <1>4 DEF WrittenIsKept
  <2>1. CASE j = i
    BY <2>1, <1>3, <1>6 DEF Types, NotesOf
  <2>2. CASE j # i
    <3>1. written[j] \subseteq NotesOf(j)
      BY <2>2, <1>3, <1>4, <1>6 DEF WrittenIsKept
    <3> QED
      BY <2>2, <3>1, <1>3, <1>6 DEF Types, NotesOf
  <2> QED
    BY <2>1, <2>2
<1> QED
  BY <1>8, <1>9, <1>10, <1>11, <1>12, <1>13

LEMMA EndKeepsIInv == ASSUME IInv, EndActiveSession PROVE IInv'
<1> USE NoneFacts DEF IInv
<1> DEFINE i == activeSession.id
           done == [activeSession.row EXCEPT !.status = "completed"]
<1>1. /\ activeSession # NoSession /\ window # "none" /\ answering = NoSession
      /\ Update(i, done, activeSession.notes)
      /\ answering' = IF window = "live"
                      THEN [activeSession EXCEPT !.row = done] ELSE NoSession
      /\ activeSession' = NoSession /\ enabled' = FALSE
      /\ window' = window /\ text' = text /\ now' = now /\ faults' = faults
      /\ written' = written /\ lost' = lost
  BY DEF EndActiveSession, Running
<1>2. /\ activeSession \in Session /\ i \in SessionId /\ activeSession.notes \in Text
      /\ activeSession.row \in Row
  BY <1>1 DEF Types, Session
<1>3. done \in Row /\ done.status = "completed"
  BY <1>2 DEF Row, Status
<1>4. [activeSession EXCEPT !.row = done] \in Session
      /\ [activeSession EXCEPT !.row = done].id = i
      /\ [activeSession EXCEPT !.row = done].row = done
  BY <1>2, <1>3 DEF Session
<1>5. /\ rows' \in [SessionId -> Row \cup {NoRow}]
      /\ documents' \in [SessionId -> Document \cup {NoDocument}]
      /\ rows'[i] = done /\ rows[i] # NoRow
      /\ documents'[i] \in Document /\ documents'[i].content = activeSession.notes
      /\ \A j \in SessionId \ {i} : rows'[j] = rows[j] /\ documents'[j] = documents[j]
  BY <1>1, <1>2, <1>3, Updated
<1>6. NotesOf(i) = activeSession.notes
  BY <1>1 DEF CacheIsActiveRow
<1>7. Cached(i) /\ \A j \in SessionId \ {i} : ~Cached(j) /\ ~Answered(j)
  BY <1>1 DEF Cached, Answered
<1>8. answering' # NoSession => window = "live" /\ answering'.id = i /\ answering'.row = done
  BY <1>1, <1>4
<1>9. window = "live" => answering' # NoSession
  BY <1>1, <1>4
<1>10. answering' \in Session \cup {NoSession}
  BY <1>1, <1>4
<1> HIDE DEF i, done
<1>11. Types'
  BY <1>1, <1>5, <1>10 DEF Types
<1>12. DocumentsFollowRows'
  BY <1>2, <1>3, <1>5 DEF DocumentsFollowRows
<1>13. CacheIsActiveRow' /\ EditorIsOfSession'
  BY <1>1 DEF CacheIsActiveRow, EditorIsOfSession
<1>14. AnsweredIsStopped'
  BY <1>1, <1>3, <1>5, <1>8 DEF AnsweredIsStopped
<1>15. UncachedIsLost'
  BY <1>1, <1>3, <1>5, <1>7 DEF UncachedIsLost
<1>16. WrittenIsKept'
  <2> SUFFICES ASSUME NEW j \in SessionId \ lost, rows'[j] # NoRow
               PROVE  IF window = "live" /\ Answered(j)'
                      THEN written[j] \subseteq text
                      ELSE written[j] \subseteq NotesOf(j)'
    BY <1>1 DEF WrittenIsKept, Cached
  <2>1. CASE j = i
    <3>1. IF window = "live" THEN written[i] \subseteq text ELSE written[i] \subseteq NotesOf(i)
      BY <2>1, <1>5, <1>7 DEF WrittenIsKept, Cached, Answered
    <3>2. NotesOf(j)' = activeSession.notes
      <4>1. documents'[j] # NoDocument
        BY <2>1, <1>5
      <4> QED
        BY <2>1, <4>1, <1>5 DEF NotesOf
    <3>3. window = "live" => Answered(j)'
      BY <2>1, <1>8, <1>9 DEF Answered
    <3> QED
      BY <2>1, <3>1, <3>2, <3>3, <1>6
  <2>2. CASE j # i
    <3>1. written[j] \subseteq NotesOf(j)
      BY <2>2, <1>5, <1>7 DEF WrittenIsKept
    <3>2. ~Answered(j)'
      BY <2>2, <1>8 DEF Answered
    <3> QED
      BY <2>2, <3>1, <3>2, <1>5 DEF NotesOf
  <2> QED
    BY <2>1, <2>2
<1> QED
  BY <1>11, <1>12, <1>13, <1>14, <1>15, <1>16

LEMMA RemoveKeepsIInv ==
  ASSUME IInv, NEW i \in SessionId, RemoveSession(i) PROVE IInv'
<1> USE NoneFacts DEF IInv
<1>1. /\ answering = NoSession /\ rows[i] # NoRow /\ rows[i].status # "active"
      /\ rows' = [rows EXCEPT ![i] = NoRow]
      /\ documents' = [documents EXCEPT ![i] = NoDocument]
      /\ UNCHANGED <<activeSession, window, text, enabled, answering, now, faults, written, lost>>
  BY DEF RemoveSession, Running, editor
<1>2. activeSession # NoSession => activeSession.id # i /\ activeSession.id \in SessionId
  BY <1>1 DEF CacheIsActiveRow, Types, Session
<1>3. Types' /\ DocumentsFollowRows'
  BY <1>1 DEF Types, DocumentsFollowRows
<1>4. CacheIsActiveRow' /\ AnsweredIsStopped' /\ EditorIsOfSession'
  BY <1>1, <1>2 DEF CacheIsActiveRow, AnsweredIsStopped, EditorIsOfSession, NotesOf, Types
<1>5. UncachedIsLost'
  BY <1>1 DEF UncachedIsLost, Cached, Types
<1>6. WrittenIsKept'
  <2> SUFFICES ASSUME NEW j \in SessionId \ lost, rows'[j] # NoRow
               PROVE  IF window = "live" /\ (Cached(j) \/ Answered(j))
                      THEN written[j] \subseteq text
                      ELSE written[j] \subseteq NotesOf(j)'
    BY <1>1 DEF WrittenIsKept, Cached, Answered
  <2>1. j # i /\ NotesOf(j)' = NotesOf(j) /\ rows[j] # NoRow
    BY <1>1 DEF Types, NotesOf
  <2> QED
    BY <2>1 DEF WrittenIsKept
<1> QED
  BY <1>3, <1>4, <1>5, <1>6

LEMMA SaveKeepsIInv == ASSUME IInv, SaveNotes PROVE IInv'
<1> USE NoneFacts DEF IInv
<1> DEFINE i == answering.id
<1>1. /\ answering # NoSession /\ answering' = NoSession
      /\ Update(i, answering.row, text)
      /\ UNCHANGED <<activeSession, window, text, enabled, now, faults, written, lost>>
  BY DEF SaveNotes, getMarkdown, editor
<1>2. answering \in Session /\ i \in SessionId /\ answering.row \in Row /\ text \in Text
  BY <1>1 DEF Types, Session
<1>3. /\ rows[i] = answering.row /\ answering.row.status = "completed" /\ window = "live"
      /\ activeSession = NoSession
  BY <1>1 DEF AnsweredIsStopped, CacheIsActiveRow
<1>4. /\ rows' \in [SessionId -> Row \cup {NoRow}]
      /\ documents' \in [SessionId -> Document \cup {NoDocument}]
      /\ rows'[i] = answering.row /\ rows[i] # NoRow
      /\ documents'[i] \in Document /\ documents'[i].content = text
      /\ \A j \in SessionId \ {i} : rows'[j] = rows[j] /\ documents'[j] = documents[j]
  BY <1>1, <1>2, Updated
<1>5. Answered(i) /\ \A j \in SessionId \ {i} : ~Answered(j)
  BY <1>1 DEF Answered
<1> HIDE DEF i
<1>6. Types'
  BY <1>1, <1>4 DEF Types
<1>7. DocumentsFollowRows'
  BY <1>2, <1>4 DEF DocumentsFollowRows
<1>8. CacheIsActiveRow' /\ AnsweredIsStopped' /\ EditorIsOfSession'
  BY <1>1, <1>3 DEF CacheIsActiveRow, AnsweredIsStopped, EditorIsOfSession
<1>9. UncachedIsLost'
  BY <1>1, <1>3, <1>4 DEF UncachedIsLost, Cached
<1>10. WrittenIsKept'
  <2> SUFFICES ASSUME NEW j \in SessionId \ lost, rows'[j] # NoRow
               PROVE  written[j] \subseteq NotesOf(j)'
    BY <1>1, <1>3 DEF WrittenIsKept, Cached, Answered
  <2>1. CASE j = i
    <3>1. written[i] \subseteq text
      BY <2>1, <1>3, <1>4, <1>5 DEF WrittenIsKept
    <3>2. NotesOf(j)' = text
      <4>1. documents'[j] # NoDocument
        BY <2>1, <1>4
      <4> QED
        BY <2>1, <4>1, <1>4 DEF NotesOf
    <3> QED
      BY <2>1, <3>1, <3>2
  <2>2. CASE j # i
    <3>1. written[j] \subseteq NotesOf(j)
      BY <2>2, <1>3, <1>4, <1>5 DEF WrittenIsKept, Cached
    <3>2. documents'[j] = documents[j]
      BY <2>2, <1>4
    <3> QED
      BY <3>1, <3>2 DEF NotesOf
  <2> QED
    BY <2>1, <2>2
<1> QED
  BY <1>6, <1>7, <1>8, <1>9, <1>10

LEMMA SaveFailsKeepsIInv == ASSUME IInv, SaveNotesFails PROVE IInv'
<1> USE NoneFacts DEF IInv
<1>1. /\ answering # NoSession /\ answering' = NoSession
      /\ faults < MaxFaults /\ faults' = faults + 1
      /\ lost' = lost \cup {answering.id}
      /\ UNCHANGED <<rows, documents, activeSession, window, text, enabled, now, written>>
  BY DEF SaveNotesFails, Fails, tables, editor
<1>2. answering.id \in SessionId
  BY <1>1 DEF Types, Session
<1>3. faults' \in 0..MaxFaults
  BY <1>1, NotesAssumption DEF Types
<1>4. Types' /\ DocumentsFollowRows'
  BY <1>1, <1>2, <1>3 DEF Types, DocumentsFollowRows
<1>5. CacheIsActiveRow' /\ AnsweredIsStopped' /\ EditorIsOfSession'
  BY <1>1 DEF CacheIsActiveRow, AnsweredIsStopped, EditorIsOfSession, NotesOf
<1>6. UncachedIsLost'
  BY <1>1 DEF UncachedIsLost, Cached
<1>7. WrittenIsKept'
  BY <1>1 DEF WrittenIsKept, Cached, Answered, NotesOf
<1> QED
  BY <1>4, <1>5, <1>6, <1>7

\* Typing and erasing: the open editor is that of the cached session.
LEMMA EditKeepsIInv == ASSUME IInv, NEW w \in Word, Type(w) \/ Erase(w) PROVE IInv'
<1> USE NoneFacts DEF IInv
<1> DEFINE i == activeSession.id
<1>1. /\ window = "live" /\ answering = NoSession /\ enabled
      /\ UNCHANGED <<rows, documents, activeSession, window, enabled, answering, now, faults, lost>>
      /\ \/ text' = text \cup {w} /\ written' = [written EXCEPT ![i] = @ \cup {w}]
         \/ text' = text \ {w} /\ written' = [written EXCEPT ![i] = @ \ {w}]
  BY DEF Type, Erase, Typing, Running, tables
<1>2. activeSession # NoSession
  BY <1>1 DEF EditorIsOfSession
<1>3. i \in SessionId
  BY <1>2 DEF Types, Session
<1>4. Cached(i) /\ \A j \in SessionId \ {i} : ~Cached(j) /\ ~Answered(j)
  BY <1>1, <1>2 DEF Cached, Answered
<1>5. /\ \A j \in SessionId \ {i} : written'[j] = written[j]
      /\ written' \in [SessionId -> Text] /\ text' \in Text
      /\ written[i] \subseteq text => written'[i] \subseteq text'
  BY <1>1, <1>3 DEF Types, Text
<1> HIDE DEF i
<1>6. Types' /\ DocumentsFollowRows'
  BY <1>1, <1>5 DEF Types, DocumentsFollowRows
<1>7. CacheIsActiveRow' /\ AnsweredIsStopped' /\ EditorIsOfSession'
  BY <1>1 DEF CacheIsActiveRow, AnsweredIsStopped, EditorIsOfSession, NotesOf
<1>8. UncachedIsLost'
  BY <1>1 DEF UncachedIsLost, Cached
<1>9. WrittenIsKept'
  <2> SUFFICES ASSUME NEW j \in SessionId \ lost, rows[j] # NoRow
               PROVE  IF Cached(j) THEN written'[j] \subseteq text'
                                   ELSE written'[j] \subseteq NotesOf(j)
    BY <1>1 DEF WrittenIsKept, Cached, Answered, NotesOf
  <2>1. CASE j = i
    BY <2>1, <1>1, <1>4, <1>5 DEF WrittenIsKept
  <2>2. CASE j # i
    BY <2>2, <1>1, <1>4, <1>5 DEF WrittenIsKept
  <2> QED
    BY <2>1, <2>2
<1> QED
  BY <1>6, <1>7, <1>8, <1>9

\* No program runs before a launch, so every active row was left by an exit.
LEMMA LaunchKeepsIInv ==
  ASSUME IInv, NEW kind \in {"main", "live"}, Launch(kind) PROVE IInv'
<1> USE NoneFacts DEF IInv
<1>1. /\ window = "none" /\ window' = kind
      /\ UNCHANGED <<rows, documents, text, enabled, answering, now, written, lost>>
  BY DEF Launch, tables, editor
<1>2. activeSession = NoSession /\ answering = NoSession /\ ~enabled
  BY <1>1 DEF CacheIsActiveRow, AnsweredIsStopped, EditorIsOfSession
<1>3. ActiveIds \subseteq lost
  BY <1>2 DEF UncachedIsLost, ActiveIds, Cached
<1>4. /\ faults' \in 0..MaxFaults
      /\ \/ activeSession' = NoSession
         \/ \E i \in ActiveIds : activeSession' = [id |-> i, row |-> rows[i], notes |-> NotesOf(i)]
  <2>1. CASE Fails /\ UNCHANGED activeSession
    BY <2>1, <1>2, NotesAssumption DEF Fails, Types
  <2>2. CASE /\ activeSession' \in IF ActiveIds = {} THEN {NoSession}
                ELSE {[id |-> i, row |-> rows[i], notes |-> RestoredNotes(i)] : i \in ActiveIds}
             /\ UNCHANGED faults
    BY <2>2 DEF Types, RestoredNotes
  <2> QED
    BY <2>1, <2>2 DEF Launch
<1>5. activeSession' # NoSession =>
        /\ activeSession' \in Session /\ activeSession'.id \in ActiveIds
        /\ activeSession'.row = rows[activeSession'.id]
        /\ activeSession'.notes = NotesOf(activeSession'.id)
  <2> SUFFICES ASSUME NEW i \in ActiveIds,
                      activeSession' = [id |-> i, row |-> rows[i], notes |-> NotesOf(i)]
               PROVE  /\ activeSession' \in Session /\ activeSession'.id \in ActiveIds
                      /\ activeSession'.row = rows[activeSession'.id]
                      /\ activeSession'.notes = NotesOf(activeSession'.id)
    BY <1>4
  <2>1. i \in SessionId /\ rows[i] \in Row
    BY DEF ActiveIds, Types
  <2>2. NotesOf(i) \in Text
    BY <2>1, NotesOfType
  <2> QED
    BY <2>1, <2>2 DEF Session
<1>6. Types' /\ DocumentsFollowRows'
  BY <1>1, <1>4, <1>5 DEF Types, DocumentsFollowRows
<1>7. CacheIsActiveRow'
  <2> SUFFICES ASSUME activeSession' # NoSession
               PROVE  /\ rows[activeSession'.id] = activeSession'.row
                      /\ activeSession'.row.status = "active"
                      /\ NotesOf(activeSession'.id) = activeSession'.notes
    BY <1>1, <1>2 DEF CacheIsActiveRow, NotesOf
  <2> QED
    BY <1>5 DEF ActiveIds
<1>8. AnsweredIsStopped' /\ EditorIsOfSession'
  BY <1>1, <1>2 DEF AnsweredIsStopped, EditorIsOfSession
<1>9. UncachedIsLost'
  BY <1>1, <1>3 DEF UncachedIsLost, ActiveIds
<1>10. WrittenIsKept'
  <2> SUFFICES ASSUME NEW j \in SessionId \ lost, rows[j] # NoRow
               PROVE  written[j] \subseteq NotesOf(j) /\ ~Cached(j)' /\ ~Answered(j)'
    BY <1>1 DEF WrittenIsKept, NotesOf
  <2>1. ~Cached(j)' /\ ~Answered(j)'
    BY <1>1, <1>2, <1>3, <1>5 DEF Cached, Answered
  <2> QED
    BY <2>1, <1>1 DEF WrittenIsKept
<1> QED
  BY <1>6, <1>7, <1>8, <1>9, <1>10

LEMMA ExitKeepsIInv == ASSUME IInv, Exit PROVE IInv'
<1> USE NoneFacts DEF IInv
<1>1. /\ window' = "none" /\ activeSession' = NoSession /\ answering' = NoSession
      /\ text' = {} /\ enabled' = FALSE
      /\ lost' = lost \cup ActiveIds
                     \cup IF answering = NoSession THEN {} ELSE {answering.id}
      /\ UNCHANGED <<rows, documents, now, faults, written>>
  BY DEF Exit, tables
<1>2. answering # NoSession => answering.id \in SessionId
  BY DEF Types, Session
<1>3. Types' /\ DocumentsFollowRows'
  BY <1>1, <1>2 DEF Types, DocumentsFollowRows, ActiveIds, Text
<1>4. CacheIsActiveRow' /\ AnsweredIsStopped' /\ EditorIsOfSession'
  BY <1>1 DEF CacheIsActiveRow, AnsweredIsStopped, EditorIsOfSession
<1>5. UncachedIsLost'
  BY <1>1 DEF UncachedIsLost, ActiveIds
<1>6. WrittenIsKept'
  <2> SUFFICES ASSUME NEW j \in SessionId \ lost', rows[j] # NoRow
               PROVE  written[j] \subseteq NotesOf(j)
    BY <1>1 DEF WrittenIsKept, NotesOf
  <2>1. j \notin lost /\ ~Answered(j)
    BY <1>1 DEF Answered
  <2>2. ~Cached(j)
    BY <1>1 DEF Cached, CacheIsActiveRow, ActiveIds
  <2> QED
    BY <2>1, <2>2 DEF WrittenIsKept
<1> QED
  BY <1>3, <1>4, <1>5, <1>6

LEMMA ClockKeepsIInv == ASSUME IInv, NEW t \in Time, SetClock(t) PROVE IInv'
<1> USE DEF IInv
<1>1. /\ now' = t
      /\ UNCHANGED <<rows, documents, activeSession, window, text, enabled, answering,
                     faults, written, lost>>
  BY DEF SetClock, tables, editor
<1>2. Types' /\ DocumentsFollowRows'
  BY <1>1 DEF Types, DocumentsFollowRows
<1>3. CacheIsActiveRow' /\ AnsweredIsStopped' /\ EditorIsOfSession'
  BY <1>1 DEF CacheIsActiveRow, AnsweredIsStopped, EditorIsOfSession, NotesOf
<1>4. UncachedIsLost' /\ WrittenIsKept'
  BY <1>1 DEF UncachedIsLost, WrittenIsKept, Cached, Answered, NotesOf
<1> QED
  BY <1>2, <1>3, <1>4

LEMMA StutterKeepsIInv == ASSUME IInv, UNCHANGED vars PROVE IInv'
<1>1. UNCHANGED <<rows, documents, activeSession, window, text, enabled, answering, now,
                  faults, written, lost>>
  BY DEF vars, tables, editor
<1>2. Types' /\ DocumentsFollowRows'
  BY <1>1 DEF IInv, Types, DocumentsFollowRows
<1>3. CacheIsActiveRow' /\ AnsweredIsStopped' /\ EditorIsOfSession'
  BY <1>1 DEF IInv, CacheIsActiveRow, AnsweredIsStopped, EditorIsOfSession, NotesOf
<1>4. UncachedIsLost' /\ WrittenIsKept'
  BY <1>1 DEF IInv, UncachedIsLost, WrittenIsKept, Cached, Answered, NotesOf
<1> QED
  BY <1>2, <1>3, <1>4 DEF IInv

LEMMA NextKeepsIInv == IInv /\ [Next]_vars => IInv'
<1> SUFFICES ASSUME IInv, [Next]_vars PROVE IInv'
  OBVIOUS
<1>1. CASE StartAutomaticSession
  BY <1>1, StartKeepsIInv
<1>2. ASSUME NEW s \in Status, NEW b \in Time, NEW t \in Text, AddSession(s, b, t) PROVE IInv'
  BY <1>2, AddKeepsIInv
<1>3. CASE EndActiveSession
  BY <1>3, EndKeepsIInv
<1>4. ASSUME NEW i \in SessionId, RemoveSession(i) PROVE IInv'
  BY <1>4, RemoveKeepsIInv
<1>5. CASE SaveNotes
  BY <1>5, SaveKeepsIInv
<1>6. CASE SaveNotesFails
  BY <1>6, SaveFailsKeepsIInv
<1>7. ASSUME NEW w \in Word, Type(w) \/ Erase(w) PROVE IInv'
  BY <1>7, EditKeepsIInv
<1>8. ASSUME NEW k \in {"main", "live"}, Launch(k) PROVE IInv'
  BY <1>8, LaunchKeepsIInv
<1>9. CASE Exit
  BY <1>9, ExitKeepsIInv
<1>10. ASSUME NEW t \in Time, SetClock(t) PROVE IInv'
  BY <1>10, ClockKeepsIInv
<1>11. CASE UNCHANGED vars
  BY <1>11, StutterKeepsIInv
<1> QED
  BY <1>1, <1>2, <1>3, <1>4, <1>5, <1>6, <1>7, <1>8, <1>9, <1>10, <1>11 DEF Next

LEMMA InvariantHolds == Spec => []IInv
  BY InitIInv, NextKeepsIInv, PTL DEF Spec

-----------------------------------------------------------------------------
(* Values are well formed, and a session of this program always has its    *)
(* document, written in the same transaction as the row.                   *)
THEOREM TypeCorrect == Spec => []TypeOK
<1>1. IInv => TypeOK
  BY DEF IInv, Types, DocumentsFollowRows, TypeOK
<1> QED
  BY <1>1, InvariantHolds, PTL

(* The copy that endActiveSession writes back is the stored session with   *)
(* its stored notes, through dialogs, restarts and failed restorations.    *)
THEOREM CopyHasTheStoredNotes == Spec => []CachedNotesAreStored
<1>1. IInv => CachedNotesAreStored
  BY DEF IInv, CacheIsActiveRow, CachedNotesAreStored
<1> QED
  BY <1>1, InvariantHolds, PTL

(* Nothing written for a session is missing from its document once it has  *)
(* stopped, unless an exit or a failed write came between.                 *)
THEOREM NothingWrittenIsMissing == Spec => []WrittenNotesAreSaved
<1>1. IInv => WrittenNotesAreSaved
  <2> SUFFICES ASSUME IInv, NEW i \in SessionId,
                      rows[i] # NoRow, rows[i].status # "active", i \notin lost,
                      answering = NoSession \/ answering.id # i
               PROVE  written[i] \subseteq NotesOf(i)
    BY DEF WrittenNotesAreSaved
  <2>1. ~Cached(i) /\ ~Answered(i)
    BY DEF IInv, CacheIsActiveRow, Cached, Answered
  <2> QED
    BY <2>1 DEF IInv, WrittenIsKept
<1> QED
  BY <1>1, InvariantHolds, PTL

-----------------------------------------------------------------------------
\* The step SavedTimesAdvance speaks of.
SavedStep ==
  \A i \in SessionId :
    documents[i] # NoDocument /\ documents'[i] # NoDocument =>
      IF documents'[i].content = documents[i].content
      THEN documents'[i].savedAt = documents[i].savedAt
      ELSE documents'[i].savedAt > documents[i].savedAt

LEMMA InsertSaves ==
  ASSUME IInv, NEW i \in SessionId, NEW row \in Row, NEW notes \in Text, Insert(i, row, notes)
  PROVE  SavedStep
<1>1. /\ rows[i] = NoRow
      /\ \A j \in SessionId \ {i} : documents'[j] = documents[j]
  BY Inserted DEF IInv
<1>2. documents[i] = NoDocument
  BY <1>1 DEF IInv, DocumentsFollowRows
<1> QED
  BY <1>1, <1>2 DEF SavedStep

LEMMA UpdateSaves ==
  ASSUME IInv, NEW i \in SessionId, NEW row \in Row, NEW notes \in Text, Update(i, row, notes)
  PROVE  SavedStep
<1>1. /\ documents'[i].content = notes
      /\ \A j \in SessionId \ {i} : documents'[j] = documents[j]
      /\ documents[i] # NoDocument =>
           IF documents[i].content = notes
           THEN documents'[i].savedAt = documents[i].savedAt
           ELSE documents'[i].savedAt > documents[i].savedAt
  BY Updated DEF IInv
<1> QED
  BY <1>1 DEF SavedStep

LEMMA NextSaves == IInv /\ [Next]_vars => SavedStep
<1> SUFFICES ASSUME IInv, [Next]_vars PROVE SavedStep
  OBVIOUS
<1>1. CASE StartAutomaticSession
  <2>1. [status |-> "active", start |-> now] \in Row /\ {} \in Text
    BY DEF IInv, Types, Row, Status, Text
  <2> QED
    BY <1>1, <2>1, InsertSaves DEF StartAutomaticSession
<1>2. ASSUME NEW s \in Status, NEW b \in Time, NEW t \in Text, AddSession(s, b, t)
      PROVE  SavedStep
  <2>1. [status |-> s, start |-> b] \in Row
    BY DEF Row
  <2> QED
    BY <1>2, <2>1, InsertSaves DEF AddSession
<1>3. CASE EndActiveSession
  <2>1. /\ activeSession.id \in SessionId /\ activeSession.notes \in Text
        /\ [activeSession.row EXCEPT !.status = "completed"] \in Row
    BY <1>3 DEF EndActiveSession, IInv, Types, Session, Row, Status
  <2> QED
    BY <1>3, <2>1, UpdateSaves DEF EndActiveSession
<1>4. ASSUME NEW i \in SessionId, RemoveSession(i) PROVE SavedStep
  BY <1>4 DEF RemoveSession, SavedStep, IInv, Types
<1>5. CASE SaveNotes
  <2>1. answering.id \in SessionId /\ answering.row \in Row /\ text \in Text
    BY <1>5 DEF SaveNotes, IInv, Types, Session
  <2> QED
    BY <1>5, <2>1, UpdateSaves DEF SaveNotes, getMarkdown
<1>6. CASE UNCHANGED documents
  BY <1>6 DEF SavedStep
<1>7. /\ SaveNotesFails \/ Exit \/ UNCHANGED vars => UNCHANGED documents
      /\ \A w \in Word : Type(w) \/ Erase(w) => UNCHANGED documents
      /\ \A k \in {"main", "live"} : Launch(k) => UNCHANGED documents
      /\ \A t \in Time : SetClock(t) => UNCHANGED documents
  BY DEF SaveNotesFails, Exit, Type, Erase, Launch, SetClock, vars, tables
<1> QED
  BY <1>1, <1>2, <1>3, <1>4, <1>5, <1>6, <1>7 DEF Next

(* The time of saving advances with every change of a document and with    *)
(* nothing else, wherever the clock is set.                                *)
THEOREM TimesOfSavingAdvance == Spec => SavedTimesAdvance
<1>1. Spec => [][SavedStep]_vars
  BY InvariantHolds, NextSaves, PTL DEF Spec
<1> QED
  BY <1>1 DEF SavedTimesAdvance, SavedStep
=============================================================================
