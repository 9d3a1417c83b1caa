------------------------ MODULE SteamApiServiceProofs ------------------------
(***************************************************************************)
(* What holds of every request, however late keychain and network answer.  *)
(***************************************************************************)
EXTENDS SteamApiService, FiniteSetTheorems, TLAPS

USE SecretAssumption, KeyAssumption

Pending == {r \in Request : replies[r] > 0}

(* Replies belong to requests that were made, and not to one that still    *)
(* waits for its credentials.                                              *)
RepliesAreOfRequests ==
  /\ requestInProgress => requests > 0
  /\ \A r \in Pending : /\ r <= requests
                        /\ r = requests => networkRequestStarted \/ ~requestInProgress

(* Every reply that nobody waits for is paid for by a stray.               *)
OutcomesAreAccounted ==
  outcomes + Open + Cardinality(Pending)
    <= requests + strays + (IF networkRequestStarted THEN 1 ELSE 0)

FlagsOK == /\ requestInProgress \in BOOLEAN /\ networkRequestStarted \in BOOLEAN
           /\ credentialTimeout \in BOOLEAN

CountersOK == /\ replies \in [Request -> Nat]
              /\ requests \in 0 .. MaxRequests /\ outcomes \in Nat /\ strays \in Nat

IInv == /\ TypeOK
        /\ TimerGuardsCredentials
        /\ AwaitedReplyIsOnItsWay
        /\ OneHttpRequestEach
        /\ NoRequestIsForgotten
        /\ RepliesAreOfRequests
        /\ OutcomesAreAccounted

-----------------------------------------------------------------------------
(* What an action may do to the request, whatever caused it.               *)
Waits == /\ UNCHANGED <<requestInProgress, networkRequestStarted, credentialTimeout,
                        replies, requests, outcomes, strays>>
         /\ credentials' \in Credentials

Fails == /\ requestInProgress /\ failRequest
         /\ strays' = strays + (IF networkRequestStarted THEN 1 ELSE 0)
         /\ UNCHANGED <<replies, requests>>

Sends == /\ requestInProgress /\ ~networkRequestStarted
         /\ networkRequestStarted' = TRUE /\ credentialTimeout' = FALSE
         /\ credentials' \in Credentials
         /\ replies' = [replies EXCEPT ![requests] = @ + 1]
         /\ UNCHANGED <<requestInProgress, requests, outcomes, strays>>

-----------------------------------------------------------------------------
LEMMA PendingIsFinite ==
  IsFiniteSet(Pending) /\ Cardinality(Pending) \in Nat
<1>1. IsFiniteSet(Request)
  BY FS_Interval DEF Request
<1>2. Pending \in SUBSET Request
  BY DEF Pending
<1>3. IsFiniteSet(Pending)
  BY <1>1, <1>2, FS_Subset
<1> QED BY <1>3, FS_CardinalityType

LEMMA NoCredentialsAreWellFormed ==
  NoCredentials \in Credentials
BY DEF NoCredentials, Credentials

LEMMA WaitingKeepsInvariant ==
  ASSUME IInv, CredentialTypeOK', Waits
  PROVE  IInv'
<1>1. Pending' = Pending
  BY DEF Waits, Pending, Request
<1>2. TypeOK'
  BY DEF IInv, TypeOK, Waits, Request
<1>3. (TimerGuardsCredentials /\ AwaitedReplyIsOnItsWay /\ OneHttpRequestEach)'
  BY DEF IInv, Waits, TimerGuardsCredentials, AwaitedReplyIsOnItsWay, OneHttpRequestEach, Request
<1>4. (NoRequestIsForgotten /\ RepliesAreOfRequests /\ OutcomesAreAccounted)'
  BY <1>1 DEF IInv, Waits, NoRequestIsForgotten, RepliesAreOfRequests, OutcomesAreAccounted, Open
<1> QED BY <1>2, <1>3, <1>4 DEF IInv

LEMMA FailingKeepsInvariant ==
  ASSUME IInv, CredentialTypeOK', Fails
  PROVE  IInv'
<1> USE DEF Fails, failRequest, resetRequestState
<1>1. Pending' = Pending
  BY DEF Pending, Request
<1>2. TypeOK'
  <2>1. FlagsOK'
    BY DEF FlagsOK
  <2>2. credentials' \in Credentials
    BY NoCredentialsAreWellFormed
  <2>3. CountersOK'
    BY DEF IInv, TypeOK, CountersOK, Request
  <2> QED BY <2>1, <2>2, <2>3 DEF TypeOK, FlagsOK, CountersOK
<1>3. (TimerGuardsCredentials /\ AwaitedReplyIsOnItsWay /\ OneHttpRequestEach)'
  BY DEF IInv, TimerGuardsCredentials, AwaitedReplyIsOnItsWay, OneHttpRequestEach, Request
<1>4. (NoRequestIsForgotten /\ RepliesAreOfRequests)'
  BY <1>1 DEF IInv, TypeOK, NoRequestIsForgotten, RepliesAreOfRequests, Open, Pending, Request
<1>5. OutcomesAreAccounted'
  BY <1>1, PendingIsFinite DEF IInv, TypeOK, OutcomesAreAccounted, Open
<1> QED BY <1>2, <1>3, <1>4, <1>5 DEF IInv

(* The request that sends had no reply pending, so one more is pending and *)
(* each still has one at most.                                             *)
LEMMA SendingKeepsInvariant ==
  ASSUME IInv, CredentialTypeOK', Sends
  PROVE  IInv'
<1> USE DEF Sends
<1>1. requests \in Request /\ replies \in [Request -> Nat]
  BY DEF IInv, TypeOK, RepliesAreOfRequests, Request
<1>2. requests \notin Pending
  BY DEF IInv, RepliesAreOfRequests
<1>3. replies[requests] = 0
  BY <1>1, <1>2 DEF Pending
<1>4. Pending' = Pending \cup {requests}
  BY <1>1 DEF Pending, Request
<1>5. Cardinality(Pending') = Cardinality(Pending) + 1
  BY <1>2, <1>4, PendingIsFinite, FS_AddElement
<1>6. TypeOK'
  <2>1. FlagsOK'
    BY DEF IInv, TypeOK, FlagsOK
  <2>2. CountersOK'
    BY <1>1 DEF IInv, TypeOK, CountersOK, Request
  <2> QED BY <2>1, <2>2 DEF TypeOK, FlagsOK, CountersOK
<1>7. (TimerGuardsCredentials /\ AwaitedReplyIsOnItsWay)'
  BY <1>1 DEF IInv, TimerGuardsCredentials, AwaitedReplyIsOnItsWay
<1>8. OneHttpRequestEach'
  BY <1>1, <1>3 DEF IInv, OneHttpRequestEach, Request
<1>9. (NoRequestIsForgotten /\ RepliesAreOfRequests)'
  BY <1>1, <1>4 DEF IInv, NoRequestIsForgotten, RepliesAreOfRequests, Open, Request
<1>10. OutcomesAreAccounted'
  BY <1>5, PendingIsFinite DEF IInv, TypeOK, OutcomesAreAccounted, Open
<1> QED BY <1>6, <1>7, <1>8, <1>9, <1>10 DEF IInv

LEMMA BeginningKeepsInvariant ==
  ASSUME IInv, GetOwnedGames
  PROVE  IInv'
<1> USE DEF GetOwnedGames
<1>1. Pending' = Pending
  BY DEF Pending, Request
<1>2. CredentialTypeOK'
  <2>1. requests + 1 \in Asker
    BY DEF IInv, TypeOK
  <2>2. \A k \in Key : ReadJob(k, requests + 1) \in Job
    BY <2>1 DEF ReadJob, Job
  <2> QED BY <2>2 DEF IInv, TypeOK, CredentialTypeOK
<1>3. TypeOK'
  <2>1. FlagsOK'
    BY DEF FlagsOK
  <2>2. credentials' \in Credentials
    BY NoCredentialsAreWellFormed
  <2>3. CountersOK'
    BY DEF IInv, TypeOK, CountersOK, Request
  <2> QED BY <1>2, <2>1, <2>2, <2>3 DEF TypeOK, FlagsOK, CountersOK
<1>4. (TimerGuardsCredentials /\ AwaitedReplyIsOnItsWay /\ OneHttpRequestEach)'
  BY DEF IInv, TimerGuardsCredentials, AwaitedReplyIsOnItsWay, OneHttpRequestEach, Request
<1>5. (NoRequestIsForgotten /\ RepliesAreOfRequests)'
  BY <1>1 DEF IInv, TypeOK, NoRequestIsForgotten, RepliesAreOfRequests, Open, Pending, Request
<1>6. ~networkRequestStarted
  BY DEF IInv, AwaitedReplyIsOnItsWay
<1>7. OutcomesAreAccounted'
  BY <1>1, <1>6, PendingIsFinite DEF IInv, TypeOK, OutcomesAreAccounted, Open
<1> QED BY <1>3, <1>4, <1>5, <1>7 DEF IInv

(* A reply takes itself out of what is pending, reports an outcome and     *)
(* ends a request in progress, if there is one: its own, or a later one    *)
(* whose own reply then remains pending.                                   *)
LEMMA ReplyKeepsInvariant ==
  ASSUME IInv, NEW r \in Request, HandleOwnedGamesReply(r)
  PROVE  IInv'
<1> USE DEF HandleOwnedGamesReply, resetRequestState
<1>1. r \in Pending /\ replies[r] = 1 /\ replies \in [Request -> Nat]
  BY DEF IInv, TypeOK, OneHttpRequestEach, Pending
<1>2. Pending' = Pending \ {r}
  BY <1>1 DEF Pending, Request
<1>3. Cardinality(Pending') = Cardinality(Pending) - 1
  BY <1>1, <1>2, PendingIsFinite, FS_RemoveElement
<1>4. CredentialTypeOK'
  BY DEF IInv, TypeOK, CredentialTypeOK, keychain, Job
<1>5. TypeOK'
  <2>1. FlagsOK'
    BY DEF FlagsOK
  <2>2. credentials' \in Credentials
    BY NoCredentialsAreWellFormed
  <2>3. CountersOK'
    BY <1>1 DEF IInv, TypeOK, CountersOK, Request
  <2> QED BY <1>4, <2>1, <2>2, <2>3 DEF TypeOK, FlagsOK, CountersOK
<1>6. (TimerGuardsCredentials /\ AwaitedReplyIsOnItsWay /\ OneHttpRequestEach)'
  BY <1>1 DEF IInv, TimerGuardsCredentials, AwaitedReplyIsOnItsWay, OneHttpRequestEach, Request
<1>7. (NoRequestIsForgotten /\ RepliesAreOfRequests)'
  BY <1>2 DEF IInv, TypeOK, NoRequestIsForgotten, RepliesAreOfRequests, Open
<1>8. OutcomesAreAccounted'
  BY <1>3, PendingIsFinite
     DEF IInv, TypeOK, AwaitedReplyIsOnItsWay, OutcomesAreAccounted, Open
<1> QED BY <1>5, <1>6, <1>7, <1>8 DEF IInv

-----------------------------------------------------------------------------
LEMMA ClientJobKeepsInvariant ==
  ASSUME IInv, NEW job \in Job, StartClientJob(job),
         UNCHANGED <<stored, request, replies, history>>
  PROVE  IInv'
<1>1. CredentialTypeOK'
  BY DEF IInv, TypeOK, CredentialTypeOK, StartClientJob, Job
<1>2. Waits
  BY DEF IInv, TypeOK, Waits, request, history
<1> QED BY <1>1, <1>2, WaitingKeepsInvariant

LEMMA CredentialFailureKeepsInvariant ==
  ASSUME IInv, CredentialTypeOK', OnCredentialFailure, requests' = requests
  PROVE  IInv'
<1>1. CASE requestInProgress
  BY <1>1, FailingKeepsInvariant DEF OnCredentialFailure, Fails
<1>2. CASE ~requestInProgress
  <2>1. Waits
    BY <1>2 DEF IInv, TypeOK, OnCredentialFailure, Waits, request
  <2> QED BY <2>1, WaitingKeepsInvariant
<1> QED BY <1>1, <1>2

LEMMA RetrievalKeepsInvariant ==
  ASSUME IInv, CredentialTypeOK', NEW k \in Key, NEW s \in Secret,
         OnSecretRetrieved(k, s), requests' = requests
  PROVE  IInv'
<1>1. CASE ~requestInProgress \/ networkRequestStarted
  <2>1. Waits
    BY <1>1 DEF IInv, TypeOK, OnSecretRetrieved, Waits, request
  <2> QED BY <2>1, WaitingKeepsInvariant
<1>2. CASE requestInProgress /\ ~networkRequestStarted /\ s = "blank"
  BY <1>2, FailingKeepsInvariant DEF IInv, TypeOK, OnSecretRetrieved, Fails
<1>3. CASE requestInProgress /\ ~networkRequestStarted /\ s # "blank"
  <2> DEFINE c == [credentials EXCEPT ![k] = s]
  <2>1. c \in Credentials
    BY <1>3 DEF IInv, TypeOK, Credentials
  <2>2. TryStartOwnedGamesRequest(c) /\ UNCHANGED strays
    BY <1>3 DEF OnSecretRetrieved
  <2> HIDE DEF c
  <2>3. CASE NoSecret \in {c[j] : j \in Key}
    <3>1. Waits
      BY <1>3, <2>1, <2>2, <2>3 DEF TryStartOwnedGamesRequest, Waits
    <3> QED BY <3>1, WaitingKeepsInvariant
  <2>4. CASE NoSecret \notin {c[j] : j \in Key} /\ c[PlayerId] # "number"
    <3>1. failRequest /\ UNCHANGED replies
      BY <1>3, <2>2, <2>4 DEF TryStartOwnedGamesRequest
    <3>2. Fails
      BY <1>3, <2>2, <3>1 DEF IInv, TypeOK, Fails
    <3> QED BY <3>2, FailingKeepsInvariant
  <2>5. CASE NoSecret \notin {c[j] : j \in Key} /\ c[PlayerId] = "number"
    <3>1. Sends
      BY <1>3, <2>1, <2>2, <2>5 DEF TryStartOwnedGamesRequest, Sends
    <3> QED BY <3>1, SendingKeepsInvariant
  <2> QED BY <2>3, <2>4, <2>5
<1> QED BY <1>1, <1>2, <1>3

LEMMA JobKeepsInvariant ==
  ASSUME IInv, NEW job \in jobs, FinishJob(job)
  PROVE  IInv'
<1>1. PICK name \in {"secretRetrieved", "secretNotFound", "credentialError",
                     "secretStored", "secretRemoved"},
           secret \in Secret \cup {NoSecret} :
        /\ Finishes(job, Signal(name, job.key, secret))
        /\ OnSignal(Signal(name, job.key, secret))
  BY DEF FinishJob
<1>2. job \in Job /\ job.key \in Key /\ requests' = requests
  BY DEF IInv, TypeOK, CredentialTypeOK, Job, FinishJob
<1>3. CredentialTypeOK'
  BY <1>1, <1>2 DEF IInv, TypeOK, CredentialTypeOK, Finishes, Job
<1>4. CASE name = "secretRetrieved"
  <2>1. secret \in Secret
    BY <1>1, <1>2, <1>4 DEF IInv, TypeOK, CredentialTypeOK, Finishes, Signal
  <2>2. OnSecretRetrieved(job.key, secret)
    BY <1>1, <1>4 DEF OnSignal, Signal
  <2> QED BY <1>2, <1>3, <2>1, <2>2, RetrievalKeepsInvariant
<1>5. CASE name \in {"secretNotFound", "credentialError"}
  BY <1>1, <1>2, <1>3, <1>5, CredentialFailureKeepsInvariant DEF OnSignal, Signal
<1>6. CASE name \in {"secretStored", "secretRemoved"}
  <2>1. Waits
    BY <1>1, <1>2, <1>6 DEF OnSignal, Signal, IInv, TypeOK, Waits, request
  <2> QED BY <1>3, <2>1, WaitingKeepsInvariant
<1> QED BY <1>1, <1>4, <1>5, <1>6

LEMMA StepKeepsInvariant == IInv /\ [Next]_vars => IInv'
<1> SUFFICES ASSUME IInv, [Next]_vars
             PROVE  IInv'
  OBVIOUS
<1>1. CASE GetOwnedGames
  BY <1>1, BeginningKeepsInvariant
<1>2. ASSUME NEW k \in Key, RemoveSecret(k)
      PROVE  IInv'
  <2>1. DeleteJob(k) \in Job
    BY DEF DeleteJob, Job
  <2> QED BY <1>2, <2>1, ClientJobKeepsInvariant DEF RemoveSecret
<1>3. ASSUME NEW k \in Key, NEW s \in Secret, SetSecret(k, s)
      PROVE  IInv'
  <2>1. WriteJob(k, s) \in Job
    BY DEF WriteJob, Job
  <2> QED BY <1>3, <2>1, ClientJobKeepsInvariant DEF SetSecret
<1>4. CASE RefuseBlankSecret
  <2>1. CredentialTypeOK'
    BY <1>4 DEF IInv, TypeOK, CredentialTypeOK, RefuseBlankSecret, keychain, Job
  <2> QED BY <1>4, <2>1, CredentialFailureKeepsInvariant DEF RefuseBlankSecret
<1>5. ASSUME NEW job \in jobs, FinishJob(job)
      PROVE  IInv'
  BY <1>5, JobKeepsInvariant
<1>6. CASE CredentialsTimeOut
  <2>1. CredentialTypeOK'
    BY <1>6 DEF IInv, TypeOK, CredentialTypeOK, CredentialsTimeOut, keychain, Job
  <2>2. Fails
    BY <1>6 DEF IInv, TypeOK, TimerGuardsCredentials, CredentialsTimeOut, Fails
  <2> QED BY <2>1, <2>2, FailingKeepsInvariant
<1>7. ASSUME NEW r \in Request, HandleOwnedGamesReply(r)
      PROVE  IInv'
  BY <1>7, ReplyKeepsInvariant
<1>8. CASE UNCHANGED vars
  <2>1. CredentialTypeOK'
    BY <1>8 DEF IInv, TypeOK, CredentialTypeOK, vars, keychain, Job
  <2>2. Waits
    BY <1>8 DEF IInv, TypeOK, Waits, vars, request, history
  <2> QED BY <2>1, <2>2, WaitingKeepsInvariant
<1> QED BY <1>1, <1>2, <1>3, <1>4, <1>5, <1>6, <1>7, <1>8 DEF Next

LEMMA InitialInvariant == Init => IInv
<1> SUFFICES ASSUME Init
             PROVE  IInv
  OBVIOUS
<1>1. Pending = {}
  BY DEF Init, Pending
<1>2. TypeOK
  <2>1. CredentialTypeOK
    BY DEF Init, CredentialTypeOK
  <2>2. FlagsOK
    BY DEF Init, FlagsOK
  <2>3. credentials \in Credentials
    BY NoCredentialsAreWellFormed DEF Init
  <2>4. CountersOK
    BY DEF Init, CountersOK, Request
  <2> QED BY <2>1, <2>2, <2>3, <2>4 DEF TypeOK, FlagsOK, CountersOK
<1>3. OutcomesAreAccounted
  BY <1>1, FS_EmptySet DEF Init, OutcomesAreAccounted, Open
<1> QED BY <1>1, <1>2, <1>3
        DEF Init, IInv, TimerGuardsCredentials, AwaitedReplyIsOnItsWay, OneHttpRequestEach,
            NoRequestIsForgotten, RepliesAreOfRequests, Open

LEMMA InvariantHolds == Spec => []IInv
BY InitialInvariant, StepKeepsInvariant, PTL DEF Spec

-----------------------------------------------------------------------------
(* Every reachable value is well formed, for any number of requests and    *)
(* of jobs.                                                                *)
THEOREM TypeCorrect == Spec => []TypeOK
<1>1. IInv => TypeOK
  BY DEF IInv
<1> QED BY <1>1, InvariantHolds, PTL

(* The credential timer runs exactly while a request waits for its         *)
(* credentials: resetRequestState and the sending of the request stop it.  *)
THEOREM TimerIsTheRequests == Spec => []TimerGuardsCredentials
<1>1. IInv => TimerGuardsCredentials
  BY DEF IInv
<1> QED BY <1>1, InvariantHolds, PTL

(* A request past its credentials has its own reply on the way, whatever   *)
(* replies of abandoned requests have come in between.                     *)
THEOREM NoRequestWaitsForNothing == Spec => []AwaitedReplyIsOnItsWay
<1>1. IInv => AwaitedReplyIsOnItsWay
  BY DEF IInv
<1> QED BY <1>1, InvariantHolds, PTL

(* Late and repeated credentials never make a request send twice.          *)
THEOREM OneHttpRequestPerRequest == Spec => []OneHttpRequestEach
<1>1. IInv => OneHttpRequestEach
  BY DEF IInv
<1> QED BY <1>1, InvariantHolds, PTL

(* No accepted request ends without an outcome being reported.             *)
THEOREM EveryRequestIsAnswered == Spec => []NoRequestIsForgotten
<1>1. IInv => NoRequestIsForgotten
  BY DEF IInv
<1> QED BY <1>1, InvariantHolds, PTL

(* Outcomes in excess of the requests come from credential signals that    *)
(* failed a request in its HTTP phase, and from nothing else.              *)
THEOREM OutcomesAreOfRequests == Spec => []SurplusOutcomesAreStray
<1>1. ASSUME IInv
      PROVE  SurplusOutcomesAreStray
  <2>1. Cardinality(Pending) \in Nat
    BY PendingIsFinite
  <2>2. CASE networkRequestStarted
    <3>1. requests \in Pending
      BY <1>1, <2>2 DEF IInv, TypeOK, AwaitedReplyIsOnItsWay, RepliesAreOfRequests,
                        Pending, Request
    <3>2. Cardinality(Pending) # 0
      BY <3>1, PendingIsFinite, FS_EmptySet
    <3> QED BY <1>1, <2>1, <2>2, <3>2
            DEF IInv, TypeOK, OutcomesAreAccounted, SurplusOutcomesAreStray, Open
  <2>3. CASE ~networkRequestStarted
    BY <1>1, <2>1, <2>3 DEF IInv, TypeOK, OutcomesAreAccounted, SurplusOutcomesAreStray, Open
  <2> QED BY <2>2, <2>3
<1> QED BY <1>1, InvariantHolds, PTL
=============================================================================
