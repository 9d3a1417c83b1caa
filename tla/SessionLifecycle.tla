-------------------------- MODULE SessionLifecycle --------------------------
(***************************************************************************)
(* What GameLog promises about the sessions it stores, whatever happens to *)
(* the process that stores them: every session is absent, live or          *)
(* finished; at most one is live; each step of the system changes at most  *)
(* one session; and a live session can only finish, it is never deleted    *)
(* and never lost.  A finished session may be reopened or forgotten, but   *)
(* only one by one.                                                        *)
(***************************************************************************)
CONSTANTS Id

VARIABLE phase

Phase == {"absent", "live", "finished"}

Live == {i \in Id : phase[i] = "live"}

Init == /\ phase \in [Id -> Phase]
        /\ \A i, j \in Live : i = j

Become(i, p) == phase' = [phase EXCEPT ![i] = p]

\* A session starts: addSession, startAutomaticSession.
Begin(i) == phase[i] = "absent" /\ Live = {} /\ Become(i, "live")

\* A session played elsewhere or earlier is entered by hand: addSession.
Record(i) == phase[i] = "absent" /\ Become(i, "finished")

\* endActiveSession, updateSession, and restoreActiveSession's repair.
Finish(i) == phase[i] = "live" /\ Become(i, "finished")

\* updateSession
Reopen(i) == phase[i] = "finished" /\ Live = {} /\ Become(i, "live")

\* removeSession
Forget(i) == phase[i] = "finished" /\ Become(i, "absent")

Next == \E i \in Id : Begin(i) \/ Record(i) \/ Finish(i) \/ Reopen(i) \/ Forget(i)

Spec == Init /\ [][Next]_phase
=============================================================================
