-------------------------- MODULE CredentialService --------------------------
(***************************************************************************)
(* CredentialService (application/services/local): secrets in the system   *)
(* keychain, read, written and removed by jobs that finish later and in    *)
(* any order, each with one signal.  The signals name the secret's key and *)
(* nothing else: not the job, nor its kind, nor who asked for it.          *)
(*                                                                         *)
(* A module of operators on two variables; SteamApiService composes them   *)
(* with its handlers, which the signals call directly.  Blank keys, which  *)
(* no caller passes, and keychain jobs that cannot be created are left     *)
(* out, as are the contents of secrets: a secret is blank (nothing but     *)
(* white space, as only another program can have stored it), a number, as  *)
(* Steam player IDs are, or some other text.                               *)
(***************************************************************************)
EXTENDS Naturals

CONSTANTS Key,       \* the keys under which secrets are stored
          NoSecret,  \* no entry in the keychain
          Asker      \* who asks: Steam requests by their number, clients by 0

Secret == {"blank", "text", "number"}

ASSUME SecretAssumption == NoSecret \notin Secret /\ Asker \subseteq Nat

VARIABLES stored,   \* the keychain
          jobs      \* the keychain jobs in flight

Job == [kind : {"read", "write", "delete"}, key : Key,
        secret : Secret \cup {NoSecret}, asker : Asker]

ReadJob(k, asker) == [kind |-> "read", key |-> k, secret |-> NoSecret, asker |-> asker]
WriteJob(k, s)    == [kind |-> "write", key |-> k, secret |-> s, asker |-> 0]
DeleteJob(k)      == [kind |-> "delete", key |-> k, secret |-> NoSecret, asker |-> 0]

Signal(name, k, s) == [name |-> name, key |-> k, secret |-> s]

(* The job finishes and sends a signal: an error, or what it found or did. *)
(* Removing what is not there sends the signal of a read that found        *)
(* nothing.                                                                *)
Finishes(job, signal) ==
  /\ job \in jobs /\ jobs' = jobs \ {job}
  /\ \/ /\ signal = Signal("credentialError", job.key, NoSecret)
        /\ UNCHANGED stored
     \/ /\ job.kind \in {"read", "delete"} /\ stored[job.key] = NoSecret
        /\ signal = Signal("secretNotFound", job.key, NoSecret)
        /\ UNCHANGED stored
     \/ /\ job.kind = "read" /\ stored[job.key] # NoSecret
        /\ signal = Signal("secretRetrieved", job.key, stored[job.key])
        /\ UNCHANGED stored
     \/ /\ job.kind = "write"
        /\ signal = Signal("secretStored", job.key, NoSecret)
        /\ stored' = [stored EXCEPT ![job.key] = job.secret]
     \/ /\ job.kind = "delete" /\ stored[job.key] # NoSecret
        /\ signal = Signal("secretRemoved", job.key, NoSecret)
        /\ stored' = [stored EXCEPT ![job.key] = NoSecret]

CredentialTypeOK == /\ stored \in [Key -> Secret \cup {NoSecret}]
                    /\ jobs \subseteq Job
=============================================================================
