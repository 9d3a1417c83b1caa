----------------------- MODULE AutomaticSessionTracker -----------------------
(***************************************************************************)
(* AutomaticSessionTracker (application/services/local): the grace-period  *)
(* state machine that turns process snapshots into the decisions to start  *)
(* and to stop a session.  It owns no database and emits nothing, so it is *)
(* a module of operators on the value of its three members; whoever owns a *)
(* tracker (SessionService, TrackerContract) keeps that value in a         *)
(* variable.  Durations are natural numbers in the unit the owner chooses. *)
(***************************************************************************)
EXTENDS ProcessMatching, Integers

CONSTANTS StartGracePeriod,   \* kStartGracePeriod
          EndGracePeriod      \* kEndGracePeriod

ASSUME GracePeriodAssumption == /\ StartGracePeriod \in Nat \ {0}
                                /\ EndGracePeriod \in Nat \ {0}

Tracker == [pending : GameId \cup {NoGame},   \* pendingGameId_
            open    : Nat,                    \* gameOpenDuration_
            closed  : Nat]                    \* gameClosedDuration_

FreshTracker == [pending |-> NoGame, open |-> 0, closed |-> 0]

(* AutomaticSessionTracker::resetPendingStart                              *)
resetPendingStart(t) == [t EXCEPT !.pending = NoGame, !.open = 0]

(* TrackingDecision, with the tracker the call leaves behind.              *)
Decision(t, action, game) == [tracker |-> t, action |-> action, game |-> game]

(* AutomaticSessionTracker::selectDetectedGame.  A pending game that is    *)
(* still detected is kept; otherwise Steam matches come before path-only   *)
(* matches and the smallest game id breaks the tie.                        *)
LeastId(games) == CHOOSE g \in games : \A h \in games : g.id <= h.id

\* Faulty: the pending game has no precedence.
selectDetectedGameAfresh(t, ps, steam, paths) ==
  LET bySteam   == SteamCandidates(ps, steam)
      preferred == IF bySteam # {} THEN bySteam ELSE PathCandidates(ps, steam, paths)
  IN  IF preferred # {} THEN LeastId(preferred) ELSE NoGame

selectDetectedGame(t, ps, steam, paths) ==
  LET bySteam    == SteamCandidates(ps, steam)
      byPath     == PathCandidates(ps, steam, paths)
      held       == {g \in bySteam \cup byPath : g.id = t.pending}
      preferred  == IF bySteam # {} THEN bySteam ELSE byPath
  IN  IF held # {} THEN CHOOSE g \in held : TRUE
      ELSE IF preferred # {} THEN LeastId(preferred)
      ELSE NoGame

\* Faulty: time credited to an earlier candidate counts for the next.
advanceIdleInheriting(t, detected, elapsed) ==
  LET open == t.open + elapsed
  IN  IF detected = NoGame
      THEN Decision(resetPendingStart(t), "None", NoGame)
      ELSE IF open < StartGracePeriod
      THEN Decision([t EXCEPT !.pending = detected.id, !.open = open], "None", NoGame)
      ELSE Decision(resetPendingStart(t), "Start", detected)

\* Faulty: every poll begins the candidacy again.
advanceIdleRestarting(t, detected, elapsed) ==
  IF detected = NoGame
  THEN Decision(resetPendingStart(t), "None", NoGame)
  ELSE IF elapsed < StartGracePeriod
  THEN Decision([t EXCEPT !.pending = detected.id, !.open = elapsed], "None", NoGame)
  ELSE Decision(resetPendingStart(t), "Start", detected)

(* The half of advance() that runs while no session is active.             *)
advanceIdle(t, detected, elapsed) ==
  LET open == (IF t.pending = detected.id THEN t.open ELSE 0) + elapsed
  IN  IF detected = NoGame
      THEN Decision(resetPendingStart(t), "None", NoGame)
      ELSE IF open < StartGracePeriod
      THEN Decision([t EXCEPT !.pending = detected.id, !.open = open], "None", NoGame)
      ELSE Decision(resetPendingStart(t), "Start", detected)

\* Faulty: an absence that was interrupted goes on where it was.
advanceActiveResuming(t, found, elapsed) ==
  LET closed == t.closed + elapsed
  IN  IF found
      THEN Decision(t, "None", NoGame)
      ELSE IF closed < EndGracePeriod
      THEN Decision([t EXCEPT !.closed = closed], "None", NoGame)
      ELSE Decision([t EXCEPT !.closed = 0], "Stop", NoGame)

\* Faulty: one poll too late.
advanceActiveLate(t, found, elapsed) ==
  LET closed == t.closed + elapsed
  IN  IF found
      THEN Decision([t EXCEPT !.closed = 0], "None", NoGame)
      ELSE IF closed <= EndGracePeriod
      THEN Decision([t EXCEPT !.closed = closed], "None", NoGame)
      ELSE Decision([t EXCEPT !.closed = 0], "Stop", NoGame)

\* Faulty: absence does not add up.
advanceActiveForgetting(t, found, elapsed) ==
  IF found
  THEN Decision([t EXCEPT !.closed = 0], "None", NoGame)
  ELSE IF elapsed < EndGracePeriod
  THEN Decision([t EXCEPT !.closed = elapsed], "None", NoGame)
  ELSE Decision([t EXCEPT !.closed = 0], "Stop", NoGame)

(* The half that runs while one is: the closed timer of the active game.   *)
advanceActive(t, found, elapsed) ==
  LET closed == t.closed + elapsed
  IN  IF found
      THEN Decision([t EXCEPT !.closed = 0], "None", NoGame)
      ELSE IF closed < EndGracePeriod
      THEN Decision([t EXCEPT !.closed = closed], "None", NoGame)
      ELSE Decision([t EXCEPT !.closed = 0], "Stop", NoGame)

(* AutomaticSessionTracker::advance                                        *)
advance(t, ps, elapsed, activeGame, steam, paths) ==
  IF elapsed <= 0
  THEN Decision(t, "None", NoGame)
  ELSE IF activeGame = NoGame
  THEN advanceIdle(t, selectDetectedGame(t, ps, steam, paths), elapsed)
  ELSE advanceActive(t, \E p \in ps : processMatchesGame(p, activeGame), elapsed)
=============================================================================
