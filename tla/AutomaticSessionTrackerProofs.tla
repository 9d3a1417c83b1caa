-------------------- MODULE AutomaticSessionTrackerProofs --------------------
(***************************************************************************)
(* What the operators of ProcessMatching and AutomaticSessionTracker       *)
(* return, for every catalogue, every snapshot and every length of the     *)
(* grace periods.  The proofs about the modules that own a tracker cite    *)
(* these lemmas instead of the definitions.                                *)
(***************************************************************************)
EXTENDS AutomaticSessionTracker, WellFoundedInduction, TLAPS

(* Whatever game matchTrackedGame reports for a process,                   *)
(* processMatchesGame confirms, so that the process that starts a session  *)
(* also keeps it alive.  The index by App ID holds games with an App ID.   *)
THEOREM StartingAndKeepingAgree ==
  ASSUME NEW ps, NEW steam, NEW paths,
         \A g \in steam : g.app # NoApp
  PROVE  MatchesAgree(ps, steam, paths)
BY DEF MatchesAgree, SteamMatches, PathMatches, processMatchesGame

(* A set of games that is not empty has one with the least key, so the     *)
(* choice of selectDetectedGame is always well defined.                    *)
LEMMA LeastIdIsLeast ==
  ASSUME NEW games \in SUBSET Game, games # {}
  PROVE  /\ LeastId(games) \in games
         /\ \A h \in games : LeastId(games).id <= h.id
<1> DEFINE ids == {g.id : g \in games}
           less == OpToRel(<, Nat)
<1>1. ids \subseteq Nat /\ ids # {}
  BY GameIdAssumption DEF Game
<1>2. PICK least \in ids : \A i \in ids : <<i, least>> \notin less
  <2> HIDE DEF ids, less
  <2>1. IsWellFoundedOn(less, Nat)
    BY NatLessThanWellFounded DEF less
  <2> QED BY <1>1, <2>1, WFMin
<1>3. \A i \in ids : least <= i
  <2> SUFFICES ASSUME NEW i \in ids PROVE least <= i
    OBVIOUS
  <2>1. less = {ij \in Nat \X Nat : ij[1] < ij[2]}
    BY DEF OpToRel
  <2> HIDE DEF ids, less
  <2>2. i \in Nat /\ least \in Nat
    BY <1>1
  <2>3. ~ (i < least)
    BY <1>2, <2>1, <2>2
  <2> QED BY <2>2, <2>3
<1>4. \E g \in games : \A h \in games : g.id <= h.id
  BY <1>3
<1> QED BY <1>4 DEF LeastId

-----------------------------------------------------------------------------
\* Every game some process of the snapshot is matched to.
Candidates(ps, steam, paths) ==
  SteamCandidates(ps, steam) \cup PathCandidates(ps, steam, paths)

LEMMA CandidatesAreIndexed ==
  ASSUME NEW ps, NEW steam, NEW paths
  PROVE  Candidates(ps, steam, paths) \subseteq steam \cup paths
BY DEF Candidates, SteamCandidates, PathCandidates, SteamMatches, PathMatches

(* selectDetectedGame reports one of the candidates if there is one, and   *)
(* the pending game whenever that is a candidate.                          *)
LEMMA SelectionIsACandidate ==
  ASSUME NEW t, NEW ps, NEW steam \in SUBSET Game, NEW paths \in SUBSET Game
  PROVE  LET detected == selectDetectedGame(t, ps, steam, paths)
             candidates == Candidates(ps, steam, paths)
         IN  /\ candidates # {} => detected \in candidates
             /\ candidates = {} => detected = NoGame
             /\ (\E g \in candidates : g.id = t.pending) => detected.id = t.pending
<1> DEFINE bySteam == SteamCandidates(ps, steam)
           byPath == PathCandidates(ps, steam, paths)
           held == {g \in bySteam \cup byPath : g.id = t.pending}
           preferred == IF bySteam # {} THEN bySteam ELSE byPath
           detected == selectDetectedGame(t, ps, steam, paths)
<1>1. /\ bySteam \cup byPath = Candidates(ps, steam, paths)
      /\ preferred \in SUBSET Game
      /\ preferred \subseteq bySteam \cup byPath
      /\ preferred = {} => bySteam \cup byPath = {}
  BY CandidatesAreIndexed DEF Candidates
<1>2. detected = IF held # {} THEN CHOOSE g \in held : TRUE
                 ELSE IF preferred # {} THEN LeastId(preferred) ELSE NoGame
  BY DEF selectDetectedGame
<1>3. preferred # {} => LeastId(preferred) \in preferred
  BY <1>1, LeastIdIsLeast
<1>4. held # {} => (CHOOSE g \in held : TRUE) \in held
  OBVIOUS
<1> HIDE DEF bySteam, byPath, preferred, detected
<1>5. /\ bySteam \cup byPath # {} => detected \in bySteam \cup byPath
      /\ bySteam \cup byPath = {} => detected = NoGame
  BY <1>1, <1>2, <1>3, <1>4
<1>6. (\E g \in bySteam \cup byPath : g.id = t.pending) => detected.id = t.pending
  BY <1>2, <1>4
<1> QED BY <1>1, <1>5, <1>6 DEF detected

-----------------------------------------------------------------------------
(* advance() without and with an active game, as one case distinction.     *)
LEMMA IdleOutcome ==
  ASSUME NEW t, NEW ps, NEW elapsed \in Int, elapsed > 0, NEW steam, NEW paths
  PROVE  advance(t, ps, elapsed, NoGame, steam, paths)
           = advanceIdle(t, selectDetectedGame(t, ps, steam, paths), elapsed)
<1>1. ~ (elapsed <= 0)
  OBVIOUS
<1> QED BY <1>1, Zenon DEF advance

LEMMA ActiveOutcome ==
  ASSUME NEW t, NEW ps, NEW elapsed \in Int, elapsed > 0,
         NEW activeGame, activeGame # NoGame, NEW steam, NEW paths,
         NEW d, d = advance(t, ps, elapsed, activeGame, steam, paths)
  PROVE  d = IF \E p \in ps : processMatchesGame(p, activeGame)
             THEN [tracker |-> [t EXCEPT !.closed = 0], action |-> "None", game |-> NoGame]
             ELSE IF t.closed + elapsed < EndGracePeriod
             THEN [tracker |-> [t EXCEPT !.closed = t.closed + elapsed],
                   action |-> "None", game |-> NoGame]
             ELSE [tracker |-> [t EXCEPT !.closed = 0], action |-> "Stop", game |-> NoGame]
<1> DEFINE found == \E p \in ps : processMatchesGame(p, activeGame)
<1>1. ~ (elapsed <= 0)
  OBVIOUS
<1>2. d = advanceActive(t, found, elapsed)
  BY <1>1, Zenon DEF advance
<1> QED BY <1>2, Zenon DEF advanceActive, Decision

LEMMA NoTimeNoOutcome ==
  ASSUME NEW t, NEW ps, NEW elapsed \in Int, ~ (elapsed > 0),
         NEW activeGame, NEW steam, NEW paths,
         NEW d, d = advance(t, ps, elapsed, activeGame, steam, paths)
  PROVE  d = [tracker |-> t, action |-> "None", game |-> NoGame]
<1>1. elapsed <= 0
  OBVIOUS
<1> QED BY <1>1, Zenon DEF advance, Decision

(* The outcomes of advance(), spelled out: nothing at all without elapsed  *)
(* time; otherwise the idle half touches the start timer alone and may     *)
(* start a candidate, the active half touches the end timer alone and may  *)
(* stop.                                                                   *)
LEMMA AdvanceOutcome ==
  ASSUME NEW t \in Tracker, NEW ps, NEW elapsed \in Int, NEW activeGame,
         NEW steam \in SUBSET Game, NEW paths \in SUBSET Game,
         NEW d, d = advance(t, ps, elapsed, activeGame, steam, paths)
  PROVE  /\ d.tracker \in Tracker
         /\ d.action \in {"None", "Start", "Stop"}
         /\ d.action = "Start" => /\ activeGame = NoGame
                                  /\ d.game \in Candidates(ps, steam, paths)
         /\ d.action = "Stop" => activeGame # NoGame
         /\ d.action # "Start" => d.game = NoGame
         /\ activeGame = NoGame => d.tracker.closed = t.closed
         /\ activeGame # NoGame => /\ d.tracker.pending = t.pending
                                   /\ d.tracker.open = t.open
<1> DEFINE detected == selectDetectedGame(t, ps, steam, paths)
<1>1. CASE ~ (elapsed > 0)
  <2>1. d = [tracker |-> t, action |-> "None", game |-> NoGame]
    BY <1>1, NoTimeNoOutcome
  <2> QED BY <2>1
<1>2. CASE elapsed > 0 /\ activeGame = NoGame
  <2> DEFINE open == (IF t.pending = detected.id THEN t.open ELSE 0) + elapsed
             candidate == [t EXCEPT !.pending = detected.id, !.open = open]
             none == [t EXCEPT !.pending = NoGame, !.open = 0]
  <2>1. d = IF detected = NoGame
            THEN [tracker |-> none, action |-> "None", game |-> NoGame]
            ELSE IF open < StartGracePeriod
            THEN [tracker |-> candidate, action |-> "None", game |-> NoGame]
            ELSE [tracker |-> none, action |-> "Start", game |-> detected]
    <3>1. d = advanceIdle(t, detected, elapsed)
      BY <1>2, IdleOutcome
    <3> HIDE DEF detected
    <3> QED BY <3>1 DEF advanceIdle, Decision, resetPendingStart
  <2>2. detected # NoGame => /\ detected \in Candidates(ps, steam, paths)
                             /\ detected \in Game
    BY SelectionIsACandidate, CandidatesAreIndexed
  <2> HIDE DEF detected
  <2>3. detected # NoGame => detected.id \in GameId
    BY <2>2 DEF Game
  <2>4. open \in Nat
    BY <1>2 DEF Tracker
  <2>5. /\ none \in Tracker /\ none.closed = t.closed
        /\ detected # NoGame => candidate \in Tracker /\ candidate.closed = t.closed
    BY <2>3, <2>4 DEF Tracker
  <2> HIDE DEF open, none, candidate
  <2> QED BY <1>2, <2>1, <2>2, <2>5
<1>3. CASE elapsed > 0 /\ activeGame # NoGame
  <2> DEFINE found == \E p \in ps : processMatchesGame(p, activeGame)
             closed == t.closed + elapsed
             at(n) == [t EXCEPT !.closed = n]
  <2>1. d = IF found
            THEN [tracker |-> at(0), action |-> "None", game |-> NoGame]
            ELSE IF closed < EndGracePeriod
            THEN [tracker |-> at(closed), action |-> "None", game |-> NoGame]
            ELSE [tracker |-> at(0), action |-> "Stop", game |-> NoGame]
    BY <1>3, ActiveOutcome
  <2>2. \A n \in Nat : /\ at(n) \in Tracker
                        /\ at(n).pending = t.pending /\ at(n).open = t.open
    BY DEF Tracker
  <2>3. closed \in Nat
    BY <1>3 DEF Tracker
  <2> HIDE DEF found, closed, at
  <2> QED BY <1>3, <2>1, <2>2, <2>3
<1> QED BY <1>1, <1>2, <1>3
=============================================================================
