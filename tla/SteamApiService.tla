--------------------------- MODULE SteamApiService ---------------------------
(***************************************************************************)
(* SteamApiService (application/services/web): one request for the owned   *)
(* games at a time, in two phases.  It first waits for two credentials,    *)
(* under a timer, and then for the HTTP reply.  Nothing it waits for can   *)
(* be called off: keychain jobs and replies of a request that has failed   *)
(* still arrive, and nothing in a signal or a reply says which request it  *)
(* belongs to.                                                             *)
(*                                                                         *)
(* A request that is refused because another is in progress changes        *)
(* nothing and is a stuttering step.  Three histories count: requests      *)
(* accepted, outcomes reported (ownedGamesReceived and requestFailed, but  *)
(* for refusals), and strays, the requests that a signal of the credential *)
(* service failed after their HTTP request had been sent.                  *)
(***************************************************************************)
EXTENDS CredentialService, FiniteSets

CONSTANTS ApiKey, PlayerId,   \* CredentialService::kSteamApiKey, kSteamPlayerIdKey
          MaxRequests,        \* bound: requests accepted
          MaxClientJobs       \* bound: keychain jobs of clients in flight

ASSUME KeyAssumption == /\ Key = {ApiKey, PlayerId} /\ ApiKey # PlayerId
                        /\ MaxRequests \in Nat /\ MaxClientJobs \in Nat
                        /\ Asker = 0 .. MaxRequests

VARIABLES
  requestInProgress,      \* requestInProgress_
  networkRequestStarted,  \* networkRequestStarted_
  credentials,            \* steamApiKey_ and steamPlayerId_
  credentialTimeout,      \* whether credentialTimeout_ is running
  replies,                \* the HTTP replies on their way, by request
  requests, outcomes, strays

keychain == <<stored, jobs>>
request  == <<requestInProgress, networkRequestStarted, credentials, credentialTimeout>>
history  == <<requests, outcomes, strays>>

vars == <<keychain, request, replies, history>>

Request == 1 .. MaxRequests

\* What a request can know of its credentials.
Credentials == [Key -> (Secret \ {"blank"}) \cup {NoSecret}]

NoCredentials == [k \in Key |-> NoSecret]

Init == /\ stored \in [Key -> Secret \cup {NoSecret}] /\ jobs = {}
        /\ requestInProgress = FALSE /\ networkRequestStarted = FALSE
        /\ credentials = NoCredentials /\ credentialTimeout = FALSE
        /\ replies = [r \in Request |-> 0]
        /\ requests = 0 /\ outcomes = 0 /\ strays = 0

-----------------------------------------------------------------------------
\* Faulty: the timer, or the phase, outlives the request.
ResetKeepingTimer == /\ requestInProgress' = FALSE /\ networkRequestStarted' = FALSE
                     /\ credentials' = NoCredentials
                     /\ UNCHANGED credentialTimeout

ResetKeepingPhase == /\ requestInProgress' = FALSE /\ UNCHANGED networkRequestStarted
                     /\ credentials' = NoCredentials /\ credentialTimeout' = FALSE

resetRequestState == /\ requestInProgress' = FALSE /\ networkRequestStarted' = FALSE
                     /\ credentials' = NoCredentials /\ credentialTimeout' = FALSE

\* Faulty: the request is dropped and nobody is told.
FailSilently == resetRequestState /\ UNCHANGED outcomes

failRequest == resetRequestState /\ outcomes' = outcomes + 1

(* tryStartOwnedGamesRequest, with the credentials c.  The reply of the    *)
(* HTTP request will arrive as that of the request now in progress.        *)
TryStartOwnedGamesRequest(c) ==
  \/ /\ NoSecret \in {c[k] : k \in Key} \/ networkRequestStarted
     /\ credentials' = c
     /\ UNCHANGED <<requestInProgress, networkRequestStarted, credentialTimeout,
                    replies, outcomes>>
  \/ /\ NoSecret \notin {c[k] : k \in Key} /\ ~networkRequestStarted
     /\ c[PlayerId] # "number"
     /\ failRequest /\ UNCHANGED replies
  \/ /\ NoSecret \notin {c[k] : k \in Key} /\ ~networkRequestStarted
     /\ c[PlayerId] = "number"
     /\ networkRequestStarted' = TRUE /\ credentialTimeout' = FALSE
     /\ credentials' = c
     /\ replies' = [replies EXCEPT ![requests] = @ + 1]
     /\ UNCHANGED <<requestInProgress, outcomes>>

\* Faulty: every complete pair of credentials sends a request.
OnSecretRetrievedUnguarded(k, s) ==
  LET c == [credentials EXCEPT ![k] = s]
  IN  /\ UNCHANGED <<requestInProgress, outcomes, strays>>
      /\ \/ /\ ~requestInProgress \/ s = "blank"
            /\ UNCHANGED <<request, replies>>
         \/ /\ requestInProgress /\ s # "blank" /\ NoSecret \in {c[j] : j \in Key}
            /\ credentials' = c
            /\ UNCHANGED <<networkRequestStarted, credentialTimeout, replies>>
         \/ /\ requestInProgress /\ s # "blank" /\ NoSecret \notin {c[j] : j \in Key}
            /\ credentials' = c /\ networkRequestStarted' = TRUE
            /\ credentialTimeout' = FALSE
            /\ replies' = [replies EXCEPT ![requests] = @ + 1]

\* Faulty: a blank secret is taken for a credential.
AcceptBlankSecret(k, s) ==
  /\ UNCHANGED strays
  /\ \/ /\ ~requestInProgress \/ networkRequestStarted
        /\ UNCHANGED <<request, replies, outcomes>>
     \/ /\ requestInProgress /\ ~networkRequestStarted
        /\ TryStartOwnedGamesRequest([credentials EXCEPT ![k] = s])

OnSecretRetrieved(k, s) ==
  /\ UNCHANGED strays
  /\ \/ /\ ~requestInProgress \/ networkRequestStarted
        /\ UNCHANGED <<request, replies, outcomes>>
     \/ /\ requestInProgress /\ ~networkRequestStarted
        /\ s = "blank"
        /\ failRequest /\ UNCHANGED replies
     \/ /\ requestInProgress /\ ~networkRequestStarted
        /\ s # "blank"
        /\ TryStartOwnedGamesRequest([credentials EXCEPT ![k] = s])

(* onSecretNotFound and onCredentialError: they fail the request in        *)
(* progress, in either phase.                                              *)
OnCredentialFailure ==
  /\ UNCHANGED replies
  /\ \/ /\ ~requestInProgress
        /\ UNCHANGED <<request, outcomes, strays>>
     \/ /\ requestInProgress
        /\ failRequest
        /\ strays' = strays + (IF networkRequestStarted THEN 1 ELSE 0)

OnSignal(signal) ==
  \/ /\ signal.name = "secretRetrieved"
     /\ OnSecretRetrieved(signal.key, signal.secret)
  \/ /\ signal.name \in {"secretNotFound", "credentialError"}
     /\ OnCredentialFailure
  \/ /\ signal.name \in {"secretStored", "secretRemoved"}
     /\ UNCHANGED <<request, replies, outcomes, strays>>

-----------------------------------------------------------------------------
\* Faulty: no timer guards the credentials.
GetOwnedGamesUntimed ==
  /\ ~requestInProgress /\ requests < MaxRequests
  /\ requestInProgress' = TRUE /\ networkRequestStarted' = FALSE
  /\ credentials' = NoCredentials /\ UNCHANGED credentialTimeout
  /\ jobs' = jobs \cup {ReadJob(k, requests + 1) : k \in Key}
  /\ requests' = requests + 1
  /\ UNCHANGED <<stored, replies, outcomes, strays>>

GetOwnedGames ==
  /\ ~requestInProgress /\ requests < MaxRequests
  /\ requestInProgress' = TRUE /\ networkRequestStarted' = FALSE
  /\ credentials' = NoCredentials /\ credentialTimeout' = TRUE
  /\ jobs' = jobs \cup {ReadJob(k, requests + 1) : k \in Key}
  /\ requests' = requests + 1
  /\ UNCHANGED <<stored, replies, outcomes, strays>>

\* A client has a keychain job run.
StartClientJob(job) ==
  /\ job \notin jobs /\ Cardinality({j \in jobs : j.asker = 0}) < MaxClientJobs
  /\ jobs' = jobs \cup {job}

SetSecret(k, s) == /\ s # "blank"
                   /\ StartClientJob(WriteJob(k, s))
                   /\ UNCHANGED <<stored, request, replies, history>>

RemoveSecret(k) == /\ StartClientJob(DeleteJob(k))
                   /\ UNCHANGED <<stored, request, replies, history>>

(* setSecret refuses a blank secret by the signal a failed job sends.      *)
RefuseBlankSecret ==
  /\ OnCredentialFailure
  /\ UNCHANGED <<keychain, requests>>

FinishJob(job) ==
  /\ \E name \in {"secretRetrieved", "secretNotFound", "credentialError",
                  "secretStored", "secretRemoved"},
        secret \in Secret \cup {NoSecret} :
       /\ Finishes(job, Signal(name, job.key, secret))
       /\ OnSignal(Signal(name, job.key, secret))
  /\ UNCHANGED requests

\* Faulty: the timer reports a failure and leaves the request as it is.
ReportTimeoutOnly ==
  /\ credentialTimeout /\ credentialTimeout' = FALSE
  /\ outcomes' = outcomes + 1
  /\ UNCHANGED <<requestInProgress, networkRequestStarted, credentials,
                 keychain, replies, requests, strays>>

CredentialsTimeOut ==
  /\ credentialTimeout
  /\ failRequest
  /\ UNCHANGED <<keychain, replies, requests, strays>>

(* handleOwnedGamesReply: success and failure both end whatever request is *)
(* in progress and report an outcome.                                      *)
HandleOwnedGamesReply(r) ==
  /\ replies[r] > 0 /\ replies' = [replies EXCEPT ![r] = @ - 1]
  /\ resetRequestState /\ outcomes' = outcomes + 1
  /\ UNCHANGED <<keychain, requests, strays>>

Next == \/ GetOwnedGames
        \/ \E k \in Key : RemoveSecret(k) \/ \E s \in Secret : SetSecret(k, s)
        \/ RefuseBlankSecret
        \/ \E job \in jobs : FinishJob(job)
        \/ CredentialsTimeOut
        \/ \E r \in Request : HandleOwnedGamesReply(r)

Spec == Init /\ [][Next]_vars

(* A running timer fires.  The keychain and the network may stay silent    *)
(* for ever.                                                               *)
FairSpec == Spec /\ WF_vars(CredentialsTimeOut)

-----------------------------------------------------------------------------
(* Every reachable value is well formed.                                   *)
TypeOK == /\ CredentialTypeOK
          /\ requestInProgress \in BOOLEAN /\ networkRequestStarted \in BOOLEAN
          /\ credentials \in Credentials
          /\ credentialTimeout \in BOOLEAN
          /\ replies \in [Request -> Nat]
          /\ requests \in 0 .. MaxRequests /\ outcomes \in Nat /\ strays \in Nat

(* The timer runs exactly while a request waits for its credentials: a     *)
(* silent keychain cannot keep the request for ever, and no timer left     *)
(* over from one request cuts the next one short or fails it after its     *)
(* HTTP request has been sent (credentialTimeout_, resetRequestState).     *)
TimerGuardsCredentials ==
  credentialTimeout <=> requestInProgress /\ ~networkRequestStarted

(* A request waits for a reply only while its own reply is on the way:     *)
(* replies of abandoned requests, which end whatever they find, never      *)
(* leave one waiting for nothing.                                          *)
AwaitedReplyIsOnItsWay ==
  networkRequestStarted => requestInProgress /\ replies[requests] > 0

(* However often credentials arrive, late or twice, a request sends one    *)
(* HTTP request (networkRequestStarted_).                                  *)
OneHttpRequestEach == \A r \in Request : replies[r] <= 1

Open == IF requestInProgress THEN 1 ELSE 0

(* Every accepted request gets an outcome, reported when it ends at the    *)
(* latest (SteamApiService.h: every outcome is reported).                  *)
NoRequestIsForgotten == outcomes + Open >= requests

(* There are no more outcomes than requests, but for those that a signal   *)
(* of the credential service failed while their HTTP request was on its    *)
(* way: those may be reported once more, when the reply arrives.           *)
SurplusOutcomesAreStray == outcomes + Open <= requests + strays

(* SteamApiService.h: one request may be in flight at a time.              *)
OneHttpRequestInFlight ==
  \A r, s \in Request : replies[r] > 0 /\ replies[s] > 0 => r = s

(* As long as the network answers in the end, no request stays in progress *)
(* for ever, whatever the keychain does: further requests are not refused  *)
(* for the rest of the process's life.                                     *)
RequestsEnd ==
  []<>(\A r \in Request : replies[r] = 0) => []<>(~requestInProgress)
=============================================================================
