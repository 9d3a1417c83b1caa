--------------------------- MODULE TrackerContract ---------------------------
(***************************************************************************)
(* The tracker of AutomaticSessionTracker under an owner that may do       *)
(* anything its interface allows: feed it any snapshot and any elapsed     *)
(* time, carry a decision out or fail to, reset it, start or end the       *)
(* active game by hand, and move the active session to another game.  Two  *)
(* history variables say what was really seen, independently of the        *)
(* tracker's own timers:                                                   *)
(*   seen[g]  the time credited to g over the latest run of polls in each  *)
(*            of which g was detected,                                     *)
(*   absent   the time over the latest run of polls, since the session     *)
(*            began, in each of which the game that was active in that     *)
(*            poll was not found.  Moving the session to another game does *)
(*            not interrupt the run, as it does not reset the tracker.     *)
(* seen is capped just above the grace period, where its value no longer   *)
(* matters.                                                                *)
(***************************************************************************)
EXTENDS AutomaticSessionTracker

CONSTANTS Catalog,     \* the games table, fixed while the tracker runs
          Processes,   \* the processes a snapshot may hold
          Elapsed      \* the elapsed times the owner may pass

ASSUME CatalogAssumption ==
  /\ Catalog \subseteq Game
  /\ \A g, h \in Catalog : g.id = h.id => g = h
  /\ \A g, h \in Catalog : g.app = h.app /\ g.app # NoApp => g = h
  /\ IsPathIndex(TrackedWithPath(Catalog), Catalog)

ASSUME ElapsedAssumption == Processes \subseteq Process /\ Elapsed \subseteq Int

VARIABLES tracker, activeGame, decision, seen, absent

vars == <<tracker, activeGame, decision, seen, absent>>

steam == TrackedSteamGames(Catalog)
paths == TrackedWithPath(Catalog)

NoDecision == [action |-> "None", game |-> NoGame]

Init == /\ tracker = FreshTracker
        /\ activeGame = NoGame
        /\ decision = NoDecision
        /\ seen = [g \in GameId |-> 0]
        /\ absent = 0

-----------------------------------------------------------------------------
Detected(ps) == {g.id : g \in SteamCandidates(ps, steam) \cup PathCandidates(ps, steam, paths)}

Capped(n, cap) == IF n < cap THEN n ELSE cap

(* What one poll adds to the histories: they look at the snapshot only,    *)
(* never at the tracker.                                                   *)
Observe(ps, elapsed) ==
  /\ seen' = [g \in GameId |->
                IF g \in Detected(ps)
                THEN Capped(seen[g] + elapsed, StartGracePeriod + elapsed) ELSE 0]
  /\ absent' = IF \/ activeGame = NoGame
                  \/ \E p \in ps : processMatchesGame(p, activeGame)
               THEN 0
               ELSE Capped(absent + elapsed, EndGracePeriod)

(* One poll: SessionService::updateAutomaticTracking.  The owner may fail  *)
(* to carry the decision out (the write fails, another session is active); *)
(* an ended session resets the tracker, a started one does not.  A poll    *)
(* without elapsed time is ignored.                                        *)
Poll(ps, elapsed) ==
  LET d == advance(tracker, ps, elapsed, activeGame, steam, paths)
  IN  /\ decision' = [action |-> d.action, game |-> d.game]
      /\ \/ /\ tracker' = d.tracker
            /\ activeGame' = activeGame
         \/ /\ d.action = "Start"
            /\ tracker' = d.tracker
            /\ activeGame' = d.game
         \/ /\ d.action = "Stop"
            /\ tracker' = FreshTracker
            /\ activeGame' = NoGame
      /\ IF elapsed > 0 THEN Observe(ps, elapsed) ELSE UNCHANGED <<seen, absent>>

(* SessionService::addSession and updateSession, when they activate.  With *)
(* a game already active, updateSession can still do so: when the cached   *)
(* session was removed with its game and its key was given to another row. *)
Activate(g) == /\ activeGame' = g
               /\ tracker' = FreshTracker
               /\ decision' = NoDecision /\ absent' = 0
               /\ UNCHANGED seen

(* SessionService::startAutomaticSession(int), which leaves the timers of  *)
(* the start decision as they are.                                         *)
ActivateByRequest(g) == /\ activeGame = NoGame
                        /\ activeGame' = g
                        /\ decision' = NoDecision /\ absent' = 0
                        /\ UNCHANGED <<tracker, seen>>

(* updateSession, when the active session stays active: it may be moved to *)
(* another game, and the tracker goes on with the timers it has.           *)
Reassociate(g) == /\ activeGame # NoGame
                  /\ activeGame' = g
                  /\ decision' = NoDecision
                  /\ UNCHANGED <<tracker, seen, absent>>

(* endActiveSession, updateSession when it deactivates, and                *)
(* restoreActiveSession when it finds nothing to restore.                  *)
Deactivate == /\ activeGame' = NoGame
              /\ tracker' = FreshTracker
              /\ decision' = NoDecision /\ absent' = 0
              /\ UNCHANGED seen

Next == \/ \E ps \in SUBSET Processes, elapsed \in Elapsed : Poll(ps, elapsed)
        \/ \E g \in Catalog : Activate(g) \/ ActivateByRequest(g) \/ Reassociate(g)
        \/ Deactivate

Spec == Init /\ [][Next]_vars

-----------------------------------------------------------------------------
\* The tracker between polls: neither timer has reached its grace period.
Undecided == {t \in Tracker : t.open < StartGracePeriod /\ t.closed < EndGracePeriod}

(* Every reachable value is well formed, and neither timer is ever left    *)
(* standing at or above its grace period: a decision is never overdue.     *)
TypeOK ==
  /\ tracker \in Undecided
  /\ activeGame \in Catalog \cup {NoGame}
  /\ decision \in [action : {"None", "Start", "Stop"}, game : Catalog \cup {NoGame}]
  /\ seen \in [GameId -> Nat]
  /\ absent \in Nat

(* A start decision is only taken for a game that every poll of the last   *)
(* full grace period has detected: leftovers of an earlier candidate, of   *)
(* an earlier session or of a poll that missed the game never count        *)
(* (advance, resetPendingStart and the owner's resets).                    *)
StartsAfterGrace ==
  decision.action = "Start" => seen[decision.game.id] >= StartGracePeriod

(* A stop decision is only taken after every poll of a full grace period   *)
(* has missed the game that was active in it, all of them since the        *)
(* session began: time accumulated for an earlier session, or before the   *)
(* game came back, never counts.  A session that was never moved has had   *)
(* one game, so that it is this game that was away all the time.  A moved  *)
(* session takes the absence of its former game along, and may therefore   *)
(* stop before its new game has been away for a full grace period          *)
(* (updateSession does not reset the tracker).                             *)
StopsAfterGrace ==
  decision.action = "Stop" => absent >= EndGracePeriod

(* Candidacy passes from one game to another, or another game is started,  *)
(* only when the pending game is missing from that very snapshot: whatever *)
(* its id and the kind of its match, a newcomer never takes it over        *)
(* (selectDetectedGame).                                                   *)
CandidacyIsKept ==
  [][\A g \in GameId :
        /\ tracker.pending = g
        /\ \/ tracker'.pending \in GameId \ {g}
           \/ decision'.action = "Start" /\ decision'.game.id # g
        => seen'[g] = 0]_vars

(* What README.md says of the start rule: the game has been running for    *)
(* the whole grace period.  The poll that first detects a game is credited *)
(* with the time since the previous poll, which did not see it; running    *)
(* time is what remains without that credit.                               *)
RunsForFullGrace ==
  decision.action = "Start" =>
    \A credit \in Elapsed : seen[decision.game.id] - credit >= StartGracePeriod
=============================================================================
