---------------------------- MODULE SessionGrace ----------------------------
(***************************************************************************)
(* SessionService with one history variable, absent: for how long the game *)
(* of the active session, as the games table describes it, has been        *)
(* missing from every poll since the session was last associated with it.  *)
(* It judges the end grace period by what really ran instead of by the     *)
(* tracker's timer and the cached copy of the game.  The module also       *)
(* relates SessionService to the abstract SessionLifecycle.                *)
(***************************************************************************)
EXTENDS SessionService

VARIABLE absent

graceVars == <<vars, absent>>

Association == IF activeSession = NoSession
               THEN NoSession
               ELSE <<activeSession.id, activeSession.row.game>>

ActiveGameRuns ==
  /\ findById(activeSession.row.game) # NoGame
  /\ \E p \in processes : processMatchesGame(p, findById(activeSession.row.game))

Capped(n, cap) == IF n < cap THEN n ELSE cap

ObservePoll ==
  absent' = IF activeSession = NoSession \/ ActiveGameRuns
            THEN 0
            ELSE Capped(absent + PollInterval, EndGracePeriod)

ObserveOther == absent' = IF Association' = Association THEN absent ELSE 0

GraceInit == Init /\ absent = 0

GraceNext == \/ Poll /\ ObservePoll
             \/ CallOrEvent /\ ObserveOther

GraceSpec == GraceInit /\ [][GraceNext]_graceVars

-----------------------------------------------------------------------------
(* A poll ends a session only after the session's game has been missing    *)
(* from every poll of a full end grace period since the session was        *)
(* associated with it (README.md: a session ends 30 seconds after the game *)
(* disappears).  It holds while no query fails: an index left empty by a   *)
(* failed query also turns the reading of Steam App IDs off.               *)
SessionEndsAfterGrace ==
  [][ /\ faults.query = 0 /\ activeSession' # activeSession
      /\ ObservePoll /\ PollStops
      => absent' >= EndGracePeriod ]_graceVars

Phase(r) == IF r = NoSession THEN "absent"
            ELSE IF r.status = "active" THEN "live" ELSE "finished"

Lifecycle == INSTANCE SessionLifecycle
             WITH Id <- SessionId, phase <- [i \in SessionId |-> Phase(rows[i])]

(* The sessions table follows SessionLifecycle through every call, poll,   *)
(* failure, exit and restart: one row at a time, one live row at most, and *)
(* no live row is ever lost.                                               *)
LifecycleIsKept == Lifecycle!Spec
=============================================================================
