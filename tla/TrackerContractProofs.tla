------------------------ MODULE TrackerContractProofs ------------------------
(***************************************************************************)
(* The grace-period contract of AutomaticSessionTracker, proved for every  *)
(* catalogue, every set of processes, every length of the grace periods    *)
(* and every sequence of elapsed times.                                    *)
(*                                                                         *)
(* None of the properties of TrackerContract is inductive: they compare a  *)
(* history with a decision, and say nothing of the timers in between.  The *)
(* strengthening (TimersAreEarned) relates the timers themselves to the    *)
(* histories.  While a game is active the start timer is out of use and    *)
(* may go stale; what makes that harmless is that every way back to no     *)
(* active game resets the tracker.  Moving the session to another game     *)
(* resets neither the end timer nor the history of absence.                *)
(***************************************************************************)
EXTENDS TrackerContract, AutomaticSessionTrackerProofs

\* No timer holds more than was really seen.
TimersAreEarned ==
  /\ activeGame = NoGame => /\ tracker.closed = 0
                            /\ \A g \in GameId :
                                 tracker.pending = g => tracker.open <= seen[g]
  /\ activeGame # NoGame => tracker.closed <= absent

Inv == TypeOK /\ TimersAreEarned /\ StartsAfterGrace /\ StopsAfterGrace

-----------------------------------------------------------------------------
LEMMA UndecidedTrackers ==
  ASSUME NEW p \in GameId \cup {NoGame},
         NEW open \in Nat, open < StartGracePeriod,
         NEW closed \in Nat, closed < EndGracePeriod
  PROVE  [pending |-> p, open |-> open, closed |-> closed] \in Undecided
BY DEF Undecided, Tracker

LEMMA FreshTrackerIsUndecided == FreshTracker \in Undecided
BY UndecidedTrackers, GracePeriodAssumption DEF FreshTracker

LEMMA IndexesHoldGames == /\ steam \in SUBSET Game /\ paths \in SUBSET Game
                          /\ steam \subseteq Catalog /\ paths \subseteq Catalog
BY CatalogAssumption DEF steam, paths, TrackedSteamGames, TrackedWithPath

LEMMA NoGameIsNoKey == /\ NoGame \notin GameId
                       /\ NoGame \notin Catalog
BY GameIdAssumption, SentinelAssumption, NoGameAssumption, CatalogAssumption

LEMMA InitEstablishesInv == Init => Inv
<1> SUFFICES ASSUME Init PROVE Inv
  OBVIOUS
<1>1. TypeOK
  BY FreshTrackerIsUndecided DEF Init, TypeOK, NoDecision
<1>2. TimersAreEarned
  BY NoGameIsNoKey DEF Init, TimersAreEarned, FreshTracker
<1>3. StartsAfterGrace /\ StopsAfterGrace
  BY DEF Init, StartsAfterGrace, StopsAfterGrace, NoDecision
<1> QED BY <1>1, <1>2, <1>3 DEF Inv

LEMMA CallsPreserveInv ==
  ASSUME Inv,
         \/ \E g \in Catalog : Activate(g) \/ ActivateByRequest(g) \/ Reassociate(g)
         \/ Deactivate
  PROVE  Inv'
<1>1. StartsAfterGrace' /\ StopsAfterGrace'
  BY DEF StartsAfterGrace, StopsAfterGrace, Activate, ActivateByRequest, Reassociate,
         Deactivate, NoDecision
<1>2. CASE \E g \in Catalog : Activate(g) \/ ActivateByRequest(g)
  <2>1. PICK g \in Catalog : Activate(g) \/ ActivateByRequest(g)
    BY <1>2
  <2>2. /\ activeGame = NoGame \/ tracker' = FreshTracker
        /\ activeGame' = g /\ g # NoGame
        /\ decision' = NoDecision /\ absent' = 0 /\ seen' = seen
        /\ tracker' = FreshTracker \/ tracker' = tracker
    BY <2>1, NoGameIsNoKey DEF Activate, ActivateByRequest
  <2>3. TypeOK'
    BY <2>2, FreshTrackerIsUndecided DEF Inv, TypeOK, NoDecision
  <2>4. TimersAreEarned'
    BY <2>2 DEF Inv, TypeOK, TimersAreEarned, FreshTracker
  <2> QED BY <1>1, <2>3, <2>4 DEF Inv
<1>3. CASE \E g \in Catalog : Reassociate(g)
  <2>1. PICK g \in Catalog : Reassociate(g)
    BY <1>3
  <2>2. /\ activeGame # NoGame /\ activeGame' = g /\ g # NoGame
        /\ decision' = NoDecision /\ UNCHANGED <<tracker, seen, absent>>
    BY <2>1, NoGameIsNoKey DEF Reassociate
  <2>3. TypeOK' /\ TimersAreEarned'
    BY <2>2 DEF Inv, TypeOK, TimersAreEarned, NoDecision
  <2> QED BY <1>1, <2>3 DEF Inv
<1>4. CASE Deactivate
  <2>1. TypeOK'
    BY <1>4, FreshTrackerIsUndecided DEF Inv, TypeOK, Deactivate, NoDecision
  <2>2. TimersAreEarned'
    BY <1>4, NoGameIsNoKey DEF TimersAreEarned, Deactivate, FreshTracker
  <2> QED BY <1>1, <2>1, <2>2 DEF Inv
<1> QED BY <1>2, <1>3, <1>4

(* What a poll with elapsed time adds to the histories.                    *)
LEMMA ObservationAddsUp ==
  ASSUME TypeOK, NEW ps, NEW elapsed \in Int, elapsed > 0, Observe(ps, elapsed)
  PROVE  /\ seen' \in [GameId -> Nat]
         /\ \A g \in GameId \ Detected(ps) : seen'[g] = 0
         /\ \A g \in GameId \cap Detected(ps) :
              \/ seen'[g] = seen[g] + elapsed
              \/ seen'[g] = StartGracePeriod + elapsed
         /\ absent' \in Nat
         /\ activeGame # NoGame /\ ~ (\E p \in ps : processMatchesGame(p, activeGame))
              => absent' \in {absent + elapsed, EndGracePeriod}
<1>1. seen \in [GameId -> Nat] /\ absent \in Nat
  BY DEF TypeOK
<1>2. /\ seen' = [g \in GameId |->
                    IF g \in Detected(ps)
                    THEN IF seen[g] + elapsed < StartGracePeriod + elapsed
                         THEN seen[g] + elapsed ELSE StartGracePeriod + elapsed
                    ELSE 0]
      /\ absent' = IF activeGame = NoGame \/ \E p \in ps : processMatchesGame(p, activeGame)
                   THEN 0
                   ELSE IF absent + elapsed < EndGracePeriod
                        THEN absent + elapsed ELSE EndGracePeriod
  BY DEF Observe, Capped
<1> QED BY <1>1, <1>2, GracePeriodAssumption

(* A poll without an active game: the candidate's time is part of what was *)
(* seen of it.                                                             *)
LEMMA IdlePollPreservesInv ==
  ASSUME Inv, NEW ps \in SUBSET Processes, NEW elapsed \in Elapsed,
         elapsed > 0, activeGame = NoGame, Poll(ps, elapsed)
  PROVE  /\ Inv'
         /\ \A g \in GameId :
              /\ tracker.pending = g
              /\ \/ tracker'.pending \in GameId \ {g}
                 \/ decision'.action = "Start" /\ decision'.game.id # g
              => seen'[g] = 0
<1> DEFINE detected == selectDetectedGame(tracker, ps, steam, paths)
           open == (IF tracker.pending = detected.id THEN tracker.open ELSE 0) + elapsed
           d == advance(tracker, ps, elapsed, activeGame, steam, paths)
<1>1. /\ elapsed \in Nat \ {0} /\ elapsed \in Int
      /\ tracker \in Tracker
      /\ tracker.pending \in GameId \cup {NoGame} /\ tracker.open \in Nat
      /\ tracker.closed = 0 /\ Observe(ps, elapsed)
  BY ElapsedAssumption DEF Inv, TypeOK, Undecided, Tracker, TimersAreEarned, Poll
<1>2. /\ detected # NoGame => /\ detected \in Catalog /\ detected \in Game
                              /\ detected.id \in Detected(ps)
      /\ tracker.pending \in Detected(ps) => detected.id = tracker.pending
  <2> DEFINE candidates == Candidates(ps, steam, paths)
  <2>1. /\ candidates # {} => detected \in candidates
        /\ candidates = {} => detected = NoGame
        /\ (\E g \in candidates : g.id = tracker.pending) => detected.id = tracker.pending
    BY SelectionIsACandidate, IndexesHoldGames
  <2>2. candidates \subseteq Catalog /\ candidates \subseteq Game
    BY CandidatesAreIndexed, IndexesHoldGames
  <2>3. Detected(ps) = {g.id : g \in candidates}
    BY DEF Detected, Candidates
  <2> HIDE DEF candidates, detected
  <2> QED BY <2>1, <2>2, <2>3
<1>3. d = advanceIdle(tracker, detected, elapsed)
  BY <1>1, IdleOutcome
<1>4. d = IF detected = NoGame
          THEN [tracker |-> [tracker EXCEPT !.pending = NoGame, !.open = 0],
                action |-> "None", game |-> NoGame]
          ELSE IF open < StartGracePeriod
          THEN [tracker |-> [tracker EXCEPT !.pending = detected.id, !.open = open],
                action |-> "None", game |-> NoGame]
          ELSE [tracker |-> [tracker EXCEPT !.pending = NoGame, !.open = 0],
                action |-> "Start", game |-> detected]
  <2> HIDE DEF detected, d
  <2> QED BY <1>3 DEF advanceIdle, Decision, resetPendingStart
<1>5. /\ decision' = [action |-> d.action, game |-> d.game]
      /\ tracker' = d.tracker
      /\ activeGame' = NoGame \/ (d.action = "Start" /\ activeGame' = d.game)
  <2>1. d.action # "Stop"
    <3> HIDE DEF d, detected, open
    <3> QED BY <1>4
  <2> QED BY <2>1 DEF Poll
<1>6. detected # NoGame => detected.id \in GameId
  BY <1>2 DEF Game
<1> HIDE DEF d, detected
<1>7. /\ seen \in [GameId -> Nat] /\ seen' \in [GameId -> Nat]
      /\ absent' \in Nat
      /\ \A g \in GameId \ Detected(ps) : seen'[g] = 0
      /\ \A g \in GameId \cap Detected(ps) : \/ seen'[g] = seen[g] + elapsed
                                            \/ seen'[g] = StartGracePeriod + elapsed
  BY <1>1, ObservationAddsUp DEF Inv, TypeOK
<1>8. \A g \in GameId : tracker.pending = g => tracker.open <= seen[g]
  BY DEF Inv, TimersAreEarned
<1>9. detected # NoGame => /\ open \in Nat
                           /\ open <= seen[detected.id] + elapsed
  BY <1>1, <1>6, <1>7, <1>8
<1> HIDE DEF open
<1>10. CASE detected = NoGame
  <2>1. /\ tracker' = [tracker EXCEPT !.pending = NoGame, !.open = 0]
        /\ decision' = [action |-> "None", game |-> NoGame]
        /\ activeGame' = NoGame
    BY <1>4, <1>5, <1>10
  <2>2. TypeOK'
    <3>1. tracker' = [pending |-> NoGame, open |-> 0, closed |-> 0]
      BY <1>1, <2>1 DEF Tracker
    <3>2. tracker' \in Undecided
      BY <3>1, UndecidedTrackers, GracePeriodAssumption
    <3> QED BY <2>1, <3>2, <1>7 DEF TypeOK
  <2>3. TimersAreEarned' /\ StartsAfterGrace' /\ StopsAfterGrace'
    BY <1>1, <2>1, NoGameIsNoKey DEF Tracker, TimersAreEarned, StartsAfterGrace, StopsAfterGrace
  <2>4. tracker'.pending = NoGame /\ decision'.action = "None"
    BY <1>1, <2>1 DEF Tracker
  <2> QED BY <2>2, <2>3, <2>4, NoGameIsNoKey DEF Inv
<1>11. CASE detected # NoGame /\ open < StartGracePeriod
  <2>1. /\ tracker' = [tracker EXCEPT !.pending = detected.id, !.open = open]
        /\ decision' = [action |-> "None", game |-> NoGame]
        /\ activeGame' = NoGame
    BY <1>4, <1>5, <1>11
  <2>2. /\ tracker'.pending = detected.id /\ tracker'.open = open
        /\ tracker'.closed = 0 /\ decision'.action = "None"
    BY <1>1, <2>1 DEF Tracker
  <2>3. TypeOK'
    <3>1. tracker' = [pending |-> detected.id, open |-> open, closed |-> 0]
      BY <1>1, <2>1 DEF Tracker
    <3>2. tracker' \in Undecided
      BY <3>1, <1>6, <1>9, <1>11, UndecidedTrackers, GracePeriodAssumption
    <3> QED BY <2>1, <3>2, <1>7 DEF TypeOK
  <2>4. open <= seen'[detected.id]
    BY <1>1, <1>2, <1>6, <1>7, <1>9, <1>11, GracePeriodAssumption
  <2>5. TimersAreEarned' /\ StartsAfterGrace' /\ StopsAfterGrace'
    BY <2>1, <2>2, <2>4 DEF TimersAreEarned, StartsAfterGrace, StopsAfterGrace
  <2>6. \A g \in GameId : tracker.pending = g /\ detected.id # g => seen'[g] = 0
    BY <1>2, <1>7
  <2> QED BY <2>2, <2>3, <2>5, <2>6 DEF Inv
<1>12. CASE detected # NoGame /\ ~ (open < StartGracePeriod)
  <2>1. /\ tracker' = [tracker EXCEPT !.pending = NoGame, !.open = 0]
        /\ decision' = [action |-> "Start", game |-> detected]
        /\ activeGame' \in {NoGame, detected}
    BY <1>4, <1>5, <1>12
  <2>2. /\ tracker'.pending = NoGame /\ tracker'.open = 0 /\ tracker'.closed = 0
        /\ decision'.action = "Start" /\ decision'.game = detected
    BY <1>1, <2>1 DEF Tracker
  <2>3. TypeOK'
    <3>1. tracker' = [pending |-> NoGame, open |-> 0, closed |-> 0]
      BY <1>1, <2>1 DEF Tracker
    <3>2. tracker' \in Undecided
      BY <3>1, UndecidedTrackers, GracePeriodAssumption
    <3> QED BY <2>1, <3>2, <1>2, <1>7, <1>12 DEF TypeOK
  <2>4. StartsAfterGrace' /\ StopsAfterGrace'
    BY <1>1, <1>2, <1>6, <1>7, <1>9, <1>12, <2>2, GracePeriodAssumption
       DEF StartsAfterGrace, StopsAfterGrace
  <2>5. TimersAreEarned'
    BY <2>2, <1>7, NoGameIsNoKey DEF TimersAreEarned
  <2>6. \A g \in GameId : tracker.pending = g /\ detected.id # g => seen'[g] = 0
    BY <1>2, <1>7
  <2> QED BY <2>2, <2>3, <2>4, <2>5, <2>6, NoGameIsNoKey DEF Inv
<1> QED BY <1>10, <1>11, <1>12

(* A poll with an active game: the absence timed is part of the absence    *)
(* seen.                                                                   *)
LEMMA ActivePollPreservesInv ==
  ASSUME Inv, NEW ps \in SUBSET Processes, NEW elapsed \in Elapsed,
         elapsed > 0, activeGame # NoGame, Poll(ps, elapsed)
  PROVE  /\ Inv'
         /\ tracker'.pending \in {tracker.pending, NoGame}
         /\ decision'.action # "Start"
<1> DEFINE d == advance(tracker, ps, elapsed, activeGame, steam, paths)
           found == \E p \in ps : processMatchesGame(p, activeGame)
           closed == tracker.closed + elapsed
           at(n) == [tracker EXCEPT !.closed = n]
<1>1. /\ elapsed \in Nat \ {0} /\ elapsed \in Int
      /\ tracker \in Tracker
      /\ tracker.closed \in Nat /\ tracker.closed <= absent /\ absent \in Nat
      /\ Observe(ps, elapsed)
  BY ElapsedAssumption DEF Inv, TypeOK, Undecided, Tracker, TimersAreEarned, Poll
<1>2. d = IF found
          THEN [tracker |-> at(0), action |-> "None", game |-> NoGame]
          ELSE IF closed < EndGracePeriod
          THEN [tracker |-> at(closed), action |-> "None", game |-> NoGame]
          ELSE [tracker |-> at(0), action |-> "Stop", game |-> NoGame]
  BY <1>1, ActiveOutcome
<1>3. /\ decision' = [action |-> d.action, game |-> d.game]
      /\ d.action # "Start"
      /\ \/ /\ tracker' = d.tracker
            /\ activeGame' = activeGame
         \/ /\ d.action = "Stop"
            /\ tracker' = FreshTracker
            /\ activeGame' = NoGame
  <2>1. d.action # "Start"
    <3> HIDE DEF d, found, closed, at
    <3> QED BY <1>2
  <2> QED BY <2>1 DEF Poll
<1>4. /\ seen' \in [GameId -> Nat] /\ absent' \in Nat
      /\ ~ found => absent' \in {absent + elapsed, EndGracePeriod}
  BY <1>1, ObservationAddsUp DEF Inv, TypeOK
<1>5. \A n \in Nat : /\ at(n).pending = tracker.pending /\ at(n).closed = n
                      /\ n < EndGracePeriod => at(n) \in Undecided
  BY DEF Inv, TypeOK, Undecided, Tracker
<1>6. closed \in Nat
  BY <1>1
<1> HIDE DEF d, found, at
<1>7. CASE tracker' = d.tracker /\ activeGame' = activeGame
  <2>1. \E n \in Nat : /\ tracker' = at(n) /\ n < EndGracePeriod /\ n <= absent'
    <3>1. CASE found \/ ~ (closed < EndGracePeriod)
      <4>1. tracker' = at(0) /\ 0 < EndGracePeriod /\ 0 <= absent'
        <5> HIDE DEF closed
        <5> QED BY <1>2, <1>4, <1>7, <3>1, GracePeriodAssumption
      <4> QED BY <4>1
    <3>2. CASE ~ found /\ closed < EndGracePeriod
      <4>1. tracker' = at(closed) /\ closed < EndGracePeriod
        <5> HIDE DEF closed
        <5> QED BY <1>2, <1>7, <3>2
      <4>2. closed <= absent'
        BY <1>1, <1>4, <3>2
      <4> QED BY <1>6, <4>1, <4>2
    <3> QED BY <3>1, <3>2
  <2>2. PICK n \in Nat : tracker' = at(n) /\ n < EndGracePeriod /\ n <= absent'
    BY <2>1
  <2>3. /\ tracker'.pending = tracker.pending /\ tracker'.closed <= absent'
        /\ tracker' \in Undecided
    <3>1. /\ at(n).pending = tracker.pending /\ at(n).closed = n
          /\ at(n) \in Undecided
      BY <1>5, <2>2 DEF at
    <3> QED BY <2>2, <3>1
  <2> HIDE DEF closed
  <2>4. d.action \in {"None", "Stop"} /\ d.game = NoGame
    BY <1>2
  <2>5. TypeOK' /\ TimersAreEarned'
    BY <1>3, <1>4, <1>7, <2>3, <2>4 DEF Inv, TypeOK, TimersAreEarned
  <2>6. StartsAfterGrace' /\ StopsAfterGrace'
    <3>1. d.action = "Stop" => ~ found /\ ~ (closed < EndGracePeriod)
      BY <1>2
    <3>2. d.action = "Stop" => absent' >= EndGracePeriod
      BY <1>1, <1>4, <3>1, GracePeriodAssumption DEF closed
    <3> QED BY <1>3, <2>4, <3>2 DEF StartsAfterGrace, StopsAfterGrace
  <2> QED BY <1>3, <2>3, <2>5, <2>6 DEF Inv
<1>8. CASE d.action = "Stop" /\ tracker' = FreshTracker /\ activeGame' = NoGame
  <2>1. d.game = NoGame /\ ~ found /\ ~ (closed < EndGracePeriod)
    <3> HIDE DEF closed
    <3> QED BY <1>2, <1>8
  <2>2. absent' >= EndGracePeriod
    BY <1>1, <1>4, <2>1, GracePeriodAssumption
  <2>3. decision' = [action |-> "Stop", game |-> NoGame]
    BY <1>3, <1>8, <2>1
  <2>4. TypeOK'
    BY <1>4, <1>8, <2>3, FreshTrackerIsUndecided DEF TypeOK
  <2>5. TimersAreEarned'
    BY <1>8, NoGameIsNoKey DEF TimersAreEarned, FreshTracker
  <2>6. StartsAfterGrace' /\ StopsAfterGrace'
    BY <2>2, <2>3 DEF StartsAfterGrace, StopsAfterGrace
  <2> QED BY <1>8, <2>3, <2>4, <2>5, <2>6 DEF Inv, FreshTracker
<1> QED BY <1>3, <1>7, <1>8

(* A poll without elapsed time changes nothing but the last decision.      *)
LEMMA EmptyPollPreservesInv ==
  ASSUME Inv, NEW ps \in SUBSET Processes, NEW elapsed \in Elapsed,
         ~ (elapsed > 0), Poll(ps, elapsed)
  PROVE  Inv' /\ tracker' = tracker /\ decision' = NoDecision
<1> DEFINE d == advance(tracker, ps, elapsed, activeGame, steam, paths)
<1>1. d = [tracker |-> tracker, action |-> "None", game |-> NoGame]
  BY ElapsedAssumption, NoTimeNoOutcome
<1>2. /\ decision' = [action |-> d.action, game |-> d.game]
      /\ \/ tracker' = d.tracker /\ activeGame' = activeGame
         \/ d.action \in {"Start", "Stop"}
      /\ UNCHANGED <<seen, absent>>
  BY DEF Poll
<1> HIDE DEF d
<1>3. /\ decision' = [action |-> "None", game |-> NoGame]
      /\ UNCHANGED <<tracker, activeGame, seen, absent>>
  BY <1>1, <1>2
<1>4. TypeOK'
  BY <1>3 DEF Inv, TypeOK
<1>5. TimersAreEarned'
  BY <1>3 DEF Inv, TimersAreEarned
<1>6. StartsAfterGrace' /\ StopsAfterGrace'
  BY <1>3 DEF StartsAfterGrace, StopsAfterGrace
<1> QED BY <1>3, <1>4, <1>5, <1>6 DEF Inv, NoDecision

\* The step that CandidacyIsKept forbids, negated.
CandidacyStep ==
  \A g \in GameId :
     /\ tracker.pending = g
     /\ \/ tracker'.pending \in GameId \ {g}
        \/ decision'.action = "Start" /\ decision'.game.id # g
     => seen'[g] = 0

LEMMA StepPreservesInv ==
  ASSUME Inv, [Next]_vars
  PROVE  Inv' /\ (CandidacyStep \/ UNCHANGED vars)
<1>1. CASE UNCHANGED vars
  <2>1. TypeOK'
    BY <1>1 DEF Inv, TypeOK, vars
  <2>2. TimersAreEarned'
    BY <1>1 DEF Inv, TimersAreEarned, vars
  <2>3. StartsAfterGrace' /\ StopsAfterGrace'
    BY <1>1 DEF Inv, StartsAfterGrace, StopsAfterGrace, vars
  <2> QED BY <1>1, <2>1, <2>2, <2>3 DEF Inv
<1>2. CASE \E ps \in SUBSET Processes, elapsed \in Elapsed : Poll(ps, elapsed)
  <2>1. PICK ps \in SUBSET Processes, elapsed \in Elapsed : Poll(ps, elapsed)
    BY <1>2
  <2>2. CASE ~ (elapsed > 0)
    <3>1. Inv' /\ tracker' = tracker /\ decision' = NoDecision
      BY <2>1, <2>2, EmptyPollPreservesInv
    <3> QED BY <3>1 DEF CandidacyStep, NoDecision
  <2>3. CASE elapsed > 0 /\ activeGame = NoGame
    BY <2>1, <2>3, IdlePollPreservesInv DEF CandidacyStep
  <2>4. CASE elapsed > 0 /\ activeGame # NoGame
    <3>1. /\ Inv' /\ decision'.action # "Start"
          /\ tracker'.pending \in {tracker.pending, NoGame}
      BY <2>1, <2>4, ActivePollPreservesInv
    <3> QED BY <3>1, NoGameIsNoKey DEF CandidacyStep
  <2> QED BY <2>2, <2>3, <2>4
<1>3. CASE \/ \E g \in Catalog : Activate(g) \/ ActivateByRequest(g) \/ Reassociate(g)
           \/ Deactivate
  <2>1. Inv'
    BY <1>3, CallsPreserveInv
  <2>2. /\ decision'.action = "None"
        /\ tracker' = tracker \/ tracker'.pending = NoGame
    BY <1>3 DEF Activate, ActivateByRequest, Reassociate, Deactivate, FreshTracker, NoDecision
  <2> QED BY <2>1, <2>2, NoGameIsNoKey DEF CandidacyStep
<1> QED BY <1>1, <1>2, <1>3 DEF Next

LEMMA InvariantHolds == Spec => []Inv
BY InitEstablishesInv, StepPreservesInv, PTL DEF Spec

-----------------------------------------------------------------------------
(* Whatever its owner does, the tracker holds well-formed values and never *)
(* a timer that has reached its grace period: advance decides in the very  *)
(* poll in which a period is over.                                         *)
THEOREM TypeCorrect == Spec => []TypeOK
<1>1. Inv => TypeOK
  BY DEF Inv
<1> QED BY <1>1, InvariantHolds, PTL

(* A start decision names a game that every poll of the last full start    *)
(* grace period has detected, for every catalogue, whatever the order of   *)
(* snapshots, refused decisions, resets and sessions started by hand.      *)
THEOREM StartsAreEarned == Spec => []StartsAfterGrace
<1>1. Inv => StartsAfterGrace
  BY DEF Inv
<1> QED BY <1>1, InvariantHolds, PTL

(* A stop decision means that every poll of a full end grace period, since *)
(* the session began, missed the game that was active in it: for a session *)
(* that was never moved, its one game; a moved session takes the absence   *)
(* of its former game along.                                               *)
THEOREM StopsAreEarned == Spec => []StopsAfterGrace
<1>1. Inv => StopsAfterGrace
  BY DEF Inv
<1> QED BY <1>1, InvariantHolds, PTL

(* A pending game loses its candidacy only by missing a poll: no newcomer  *)
(* with a smaller id or a better kind of match ever displaces it.          *)
THEOREM CandidatesAreNotDisplaced == Spec => CandidacyIsKept
<1>1. Inv /\ [Next]_vars => [CandidacyStep]_vars
  BY StepPreservesInv
<1>2. Spec => [][CandidacyStep]_vars
  BY <1>1, InvariantHolds, PTL DEF Spec
<1> QED BY <1>2 DEF CandidacyIsKept, CandidacyStep
=============================================================================
