------------------------------ MODULE LiveNotes ------------------------------
(***************************************************************************)
(* The notes of a session: SessionRepository's rows and documents, the copy *)
(* of the active session that SessionService keeps with its notes, the      *)
(* dialog that adds a session, and the live window, whose editor is read    *)
(* when a session stops.                                                    *)
(*                                                                          *)
(* Ending a session is one transaction; the window that hears of it writes  *)
(* the notes in another.  "answering" is the session between the two, where *)
(* the program can die and does nothing else.  A text is the set of its     *)
(* words; a word stands for a passage with the Markdown made of it.         *)
(***************************************************************************)
EXTENDS Integers, FiniteSets

CONSTANTS
    MaxSessions,     \* bound: keys of the sessions table
    Word,            \* passages that may be written
    MaxTime,         \* bound: readings of the clock
    LegacyRows,      \* active sessions without a document the database begins with
    NoRow, NoDocument, NoSession,
    MaxFaults        \* bound: failed queries and writes with an effect

SessionId == 1..MaxSessions
Text == SUBSET Word
Time == 0..MaxTime

ASSUME NotesAssumption ==
    /\ MaxSessions \in Nat /\ MaxTime \in Nat /\ MaxFaults \in Nat
    /\ LegacyRows \subseteq SessionId /\ Cardinality(LegacyRows) <= 1

Status == {"active", "completed", "interrupted"}

Row == [status : Status, start : Time]
Document == [content : Text, savedAt : Nat]
Session == [id : SessionId, row : Row, notes : Text]

ASSUME NoneAssumption == /\ NoRow \notin Row /\ NoSession \notin Session
                         /\ NoDocument \notin Document

VARIABLES
    rows,            \* the sessions table
    documents,       \* the session_documents table
    activeSession,   \* SessionService::activeSession_
    window,          \* "none": no program runs; "main": it runs without a live
                     \* window; "live": with one
    text,            \* the live window's editor
    enabled,         \* whether the editor takes input
    answering,       \* the stopped session whose notes the window is to save
    now,             \* the system's clock
    faults,          \* failures with an effect so far
    written,         \* history: what was written for each session
    lost             \* history: sessions whose notes a failure or an exit may
                     \* have cost

tables == <<rows, documents>>
editor == <<text, enabled>>
vars == <<tables, activeSession, window, editor, answering, now, faults,
          written, lost>>

-----------------------------------------------------------------------------
(* SessionRepository                                                        *)

ActiveIds == {i \in SessionId : rows[i] # NoRow /\ rows[i].status = "active"}

IsNextId(i) == /\ rows[i] = NoRow
               /\ \A j \in SessionId : rows[j] # NoRow => j < i
               /\ i > 1 => rows[i - 1] # NoRow

\* COALESCE(d.content, '') of the left join
NotesOf(i) == IF documents[i] = NoDocument THEN {} ELSE documents[i].content

insertSessionDocument(notes) == [content |-> notes, savedAt |-> now]

\* Faulty: the time of saving is the clock's, wherever the clock has gone.
SavedAtClock(i, notes) ==
    IF documents[i] = NoDocument THEN insertSessionDocument(notes)
    ELSE IF documents[i].content = notes THEN documents[i]
    ELSE [content |-> notes, savedAt |-> now]

saveSessionDocumentIfChanged(i, notes) ==
    IF documents[i] = NoDocument THEN insertSessionDocument(notes)
    ELSE IF documents[i].content = notes THEN documents[i]
    ELSE [content |-> notes,
          savedAt |-> IF now <= documents[i].savedAt
                      THEN documents[i].savedAt + 1 ELSE now]

\* Faulty: a session without notes gets no document.
InsertWithoutEmptyDocument(i, row, notes) ==
    /\ IsNextId(i)
    /\ row.status = "active" => ActiveIds = {}
    /\ rows' = [rows EXCEPT ![i] = row]
    /\ documents' = IF notes = {} THEN documents
                    ELSE [documents EXCEPT ![i] = insertSessionDocument(notes)]

\* The transactions of insert() and update().
Insert(i, row, notes) ==
    /\ IsNextId(i)
    /\ row.status = "active" => ActiveIds = {}
    /\ rows' = [rows EXCEPT ![i] = row]
    /\ documents' = [documents EXCEPT ![i] = insertSessionDocument(notes)]

Update(i, row, notes) ==
    /\ rows[i] # NoRow
    /\ rows' = [rows EXCEPT ![i] = row]
    /\ documents' = [documents EXCEPT ![i] = saveSessionDocumentIfChanged(i, notes)]

-----------------------------------------------------------------------------
(* SessionService, with what the window's slots do at once.                 *)

Running == window # "none" /\ answering = NoSession

\* sessionStarted: the editor takes input and keeps the text it has.
OnSessionStarted == /\ enabled' = (window = "live")
                    /\ UNCHANGED text

StartAutomaticSession ==
    /\ Running
    /\ activeSession = NoSession
    /\ ActiveIds = {}
    /\ \E i \in SessionId :
          LET row == [status |-> "active", start |-> now] IN
          /\ Insert(i, row, {})
          /\ activeSession' = [id |-> i, row |-> row, notes |-> {}]
          /\ written' = [written EXCEPT ![i] = {}]
          /\ lost' = lost \ {i}
    /\ OnSessionStarted
    /\ UNCHANGED <<window, answering, now, faults>>

\* AddSessionDialog::accept, in the main window only.
AddSession(status, start, notes) ==
    /\ Running
    /\ window = "main"
    /\ status = "active" => activeSession = NoSession /\ ActiveIds = {}
    /\ \E i \in SessionId :
          LET row == [status |-> status, start |-> start] IN
          /\ Insert(i, row, notes)
          /\ activeSession' = IF status = "active"
                              THEN [id |-> i, row |-> row, notes |-> notes]
                              ELSE activeSession
          /\ written' = [written EXCEPT ![i] = notes]
          /\ lost' = lost \ {i}
    /\ UNCHANGED <<window, editor, answering, now, faults>>

\* endActiveSession: the cached copy is written back, completed, and the
\* window, told by sessionStopped, closes its editor.
EndActiveSession ==
    /\ Running
    /\ activeSession # NoSession
    /\ activeSession.row.start <= now
    /\ LET done == [activeSession.row EXCEPT !.status = "completed"] IN
       /\ Update(activeSession.id, done, activeSession.notes)
       /\ answering' = IF window = "live"
                       THEN [activeSession EXCEPT !.row = done] ELSE NoSession
    /\ activeSession' = NoSession
    /\ enabled' = FALSE
    /\ UNCHANGED <<window, text, now, faults, written, lost>>

RemoveSession(i) ==
    /\ Running
    /\ rows[i] # NoRow /\ rows[i].status # "active"
    /\ rows' = [rows EXCEPT ![i] = NoRow]
    /\ documents' = [documents EXCEPT ![i] = NoDocument]
    /\ UNCHANGED <<activeSession, window, editor, answering, now, faults,
                   written, lost>>

-----------------------------------------------------------------------------
(* LiveWindow                                                               *)

\* Faulty: the stopped session is saved as it was received.
ReceivedNotes == answering.notes

getMarkdown == text

\* The rest of onSessionFinished: updateSession with the editor's text.
SaveNotes ==
    /\ answering # NoSession
    /\ Update(answering.id, answering.row, getMarkdown)
    /\ answering' = NoSession
    /\ UNCHANGED <<activeSession, window, editor, now, faults, written, lost>>

Fails == faults < MaxFaults /\ faults' = faults + 1

\* Its query or its write fails: the failure is logged and the notes are gone.
SaveNotesFails ==
    /\ answering # NoSession
    /\ Fails
    /\ lost' = lost \cup {answering.id}
    /\ answering' = NoSession
    /\ UNCHANGED <<tables, activeSession, window, editor, now, written>>

Typing == Running /\ window = "live" /\ enabled

Type(w) ==
    /\ Typing
    /\ w \notin text
    /\ text' = text \cup {w}
    /\ written' = [written EXCEPT ![activeSession.id] = @ \cup {w}]
    /\ UNCHANGED <<tables, activeSession, window, enabled, answering, now,
                   faults, lost>>

Erase(w) ==
    /\ Typing
    /\ w \in text
    /\ text' = text \ {w}
    /\ written' = [written EXCEPT ![activeSession.id] = @ \ {w}]
    /\ UNCHANGED <<tables, activeSession, window, enabled, answering, now,
                   faults, lost>>

-----------------------------------------------------------------------------
\* Faulty: a session is restored without the notes of its document.
NoNotesOf(i) == {}

RestoredNotes(i) == NotesOf(i)

\* restoreActiveSession, before the window is made: no signal reaches it.
Launch(kind) ==
    /\ window = "none"
    /\ window' = kind
    /\ \/ /\ activeSession' \in
                IF ActiveIds = {} THEN {NoSession}
                ELSE {[id |-> i, row |-> rows[i], notes |-> RestoredNotes(i)]
                         : i \in ActiveIds}
          /\ UNCHANGED faults
       \/ ActiveIds # {} /\ Fails /\ UNCHANGED activeSession
    /\ UNCHANGED <<tables, editor, answering, now, written, lost>>

\* The program ends, by the user's will or not; what was not saved is lost.
Exit ==
    /\ window # "none"
    /\ window' = "none"
    /\ activeSession' = NoSession
    /\ text' = {} /\ enabled' = FALSE
    /\ answering' = NoSession
    /\ lost' = lost \cup ActiveIds
                    \cup IF answering = NoSession THEN {} ELSE {answering.id}
    /\ UNCHANGED <<tables, now, faults, written>>

SetClock(t) ==
    /\ answering = NoSession
    /\ t # now
    /\ now' = t
    /\ UNCHANGED <<tables, activeSession, window, editor, answering, faults,
                   written, lost>>

Init ==
    /\ rows = [i \in SessionId |-> IF i \in LegacyRows
                                   THEN [status |-> "active", start |-> 0] ELSE NoRow]
    /\ documents = [i \in SessionId |-> NoDocument]
    /\ activeSession = NoSession
    /\ window = "none"
    /\ text = {} /\ enabled = FALSE
    /\ answering = NoSession
    /\ now = 0
    /\ faults = 0
    /\ written = [i \in SessionId |-> {}]
    /\ lost = LegacyRows

Next ==
    \/ StartAutomaticSession
    \/ \E s \in Status, b \in Time, t \in Text : AddSession(s, b, t)
    \/ EndActiveSession
    \/ \E i \in SessionId : RemoveSession(i)
    \/ SaveNotes
    \/ SaveNotesFails
    \/ \E w \in Word : Type(w) \/ Erase(w)
    \/ \E k \in {"main", "live"} : Launch(k)
    \/ Exit
    \/ \E t \in Time : SetClock(t)

Spec == Init /\ [][Next]_vars

-----------------------------------------------------------------------------
(* Every variable keeps its type, and a row and its document are one        *)
(* persistence operation: a session of this program always has a document,  *)
(* with empty notes too, and no document outlives its row.                  *)
TypeOK ==
    /\ rows \in [SessionId -> Row \cup {NoRow}]
    /\ \A i \in SessionId :
          /\ documents[i] = NoDocument \/ documents[i] \in Document
          /\ rows[i] = NoRow => documents[i] = NoDocument
          /\ documents[i] = NoDocument => rows[i] = NoRow \/ i \in LegacyRows
    /\ activeSession \in Session \cup {NoSession}
    /\ answering \in Session \cup {NoSession}
    /\ window \in {"none", "main", "live"}
    /\ text \in Text /\ enabled \in BOOLEAN
    /\ now \in Time /\ faults \in 0..MaxFaults
    /\ written \in [SessionId -> Text] /\ lost \subseteq SessionId

(* Contract 27: the time of saving moves when the notes change, always      *)
(* forward, even if the clock was set back, and not otherwise.              *)
SavedTimesAdvance ==
    [][\A i \in SessionId :
          documents[i] # NoDocument /\ documents'[i] # NoDocument =>
             IF documents'[i].content = documents[i].content
             THEN documents'[i].savedAt = documents[i].savedAt
             ELSE documents'[i].savedAt > documents[i].savedAt]_vars

(* endActiveSession writes the cached session with its notes over row and   *)
(* document.  That loses nothing because the copy has the stored notes all  *)
(* along, after a restart too.                                              *)
CachedNotesAreStored ==
    activeSession # NoSession =>
        /\ rows[activeSession.id] = activeSession.row
        /\ NotesOf(activeSession.id) = activeSession.notes

(* What was written for a session, in the dialog or in the live window,     *)
(* is in its document once the session has stopped, unless the program was  *)
(* left during the session or the window's write failed.                    *)
WrittenNotesAreSaved ==
    \A i \in SessionId :
        /\ rows[i] # NoRow /\ rows[i].status # "active" /\ i \notin lost
        /\ answering = NoSession \/ answering.id # i
        => written[i] \subseteq NotesOf(i)

(* README.md: "keeps per-session notes", "saved atomically with the session *)
(* they belong to": a stopped session's document holds nothing that was not *)
(* written for that session.                                                *)
NotesArePerSession ==
    \A i \in SessionId :
        rows[i] # NoRow /\ rows[i].status # "active" =>
            NotesOf(i) \subseteq written[i]
=============================================================================
