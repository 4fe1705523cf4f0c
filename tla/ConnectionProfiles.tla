-------------------------- MODULE ConnectionProfiles --------------------------
(***************************************************************************)
(* ConnectionProfileManager (crates/connection-profiles/src/manager.rs):   *)
(* a profile's metadata in one store and its password in another, behind   *)
(* save, delete and resolve.                                               *)
(*                                                                         *)
(* Each store call is atomic (FileStore implements AtomicMap), but save,   *)
(* delete and resolve make two or three of them with no lock across, and   *)
(* the server runs the tools of different HTTP requests on several         *)
(* threads.  A call may end with an I/O error at a store call and the      *)
(* process may crash between two; both leave the stores as they are.       *)
(*                                                                         *)
(*   save:     read metadata -> [set secret] -> upsert metadata            *)
(*   delete:   remove metadata -> delete secret                            *)
(*   resolve:  read metadata -> get secret                                 *)
(*                                                                         *)
(* Of a profile only the fields with a rule of their own are kept; host,   *)
(* port and the rest are copied from the parameters.  A stored secret is   *)
(* the password and the master key it was encrypted with.                  *)
(***************************************************************************)
EXTENDS Naturals

CONSTANTS Clients,      \* concurrent tool calls
          Names,        \* profile names
          Passwords,
          MasterKeys,   \* values of DB_HEADLESS_MASTER_KEY over restarts
          Unset,        \* None: a parameter left out, no entry in a store
          MaxCalls      \* bound on the number of calls

ASSUME ProfilesAssumption ==
    /\ Unset \notin Passwords /\ Unset \notin BOOLEAN
    /\ MaxCalls \in Nat
    /\ MasterKeys # {}

Profiles == [read_only : BOOLEAN, has_password : BOOLEAN]
Secrets  == [key : MasterKeys, password : Passwords]

ASSUME UnsetIsNoRecord == Unset \notin Profiles /\ Unset \notin Secrets

VARIABLES metadata,     \* name -> profile or Unset
          secrets,      \* name -> stored secret or Unset
          masterKey,    \* the key this process was started with
          at,           \* where each client's call is
          name,         \* the profile it is about
          password,     \* SaveProfileParams.password
          readOnly,     \* SaveProfileParams.read_only
          existing,     \* the profile the call read (save, resolve)
          calls,        \* calls made so far
          overlapped,   \* history: names on which calls overlapped
          raced,        \* history: names on which a delete overlapped another call
          failed        \* history: names on which a writer was cut short

callVars == <<at, name, password, readOnly, existing>>
vars == <<metadata, secrets, masterKey, at, name, password, readOnly, existing,
          calls, overlapped, raced, failed>>

Locations == {"idle", "setting", "upserting", "deleting", "fetching"}

TypeOK ==
    /\ metadata \in [Names -> Profiles \cup {Unset}]
    /\ secrets \in [Names -> Secrets \cup {Unset}]
    /\ masterKey \in MasterKeys
    /\ at \in [Clients -> Locations]
    /\ name \in [Clients -> Names \cup {Unset}]
    /\ password \in [Clients -> Passwords \cup {Unset}]
    /\ readOnly \in [Clients -> BOOLEAN \cup {Unset}]
    /\ existing \in [Clients -> Profiles \cup {Unset}]
    /\ calls \in 0 .. MaxCalls
    /\ overlapped \subseteq Names
    /\ raced \subseteq Names
    /\ failed \subseteq Names

Init ==
    /\ metadata = [n \in Names |-> Unset]
    /\ secrets = [n \in Names |-> Unset]
    /\ masterKey \in MasterKeys
    /\ at = [p \in Clients |-> "idle"]
    /\ name = [p \in Clients |-> Unset]
    /\ password = [p \in Clients |-> Unset]
    /\ readOnly = [p \in Clients |-> Unset]
    /\ existing = [p \in Clients |-> Unset]
    /\ calls = 0
    /\ overlapped = {}
    /\ raced = {}
    /\ failed = {}

-----------------------------------------------------------------------------
Busy(n) == \E p \in Clients : at[p] # "idle" /\ name[p] = n

BeingDeleted(n) == \E p \in Clients : at[p] = "deleting" /\ name[p] = n

\* History: a call on n starts while another one is running, and the new one
\* or one of the others is a delete.
NoteOverlap(n, deletes) ==
    /\ overlapped' = IF Busy(n) THEN overlapped \cup {n} ELSE overlapped
    /\ raced' = IF Busy(n) /\ (deletes \/ BeingDeleted(n)) THEN raced \cup {n} ELSE raced

Start(p) ==
    /\ at[p] = "idle"
    /\ calls < MaxCalls
    /\ calls' = calls + 1

Goto(p, loc) == at' = [at EXCEPT ![p] = loc]

\* The call returns and its locals are gone.
Return(p) ==
    /\ Goto(p, "idle")
    /\ name' = [name EXCEPT ![p] = Unset]
    /\ password' = [password EXCEPT ![p] = Unset]
    /\ readOnly' = [readOnly EXCEPT ![p] = Unset]
    /\ existing' = [existing EXCEPT ![p] = Unset]

-----------------------------------------------------------------------------
(* save *)

\* let existing = self.metadata.get(&params.name)?;
SaveRead(p, n, pw, ro) ==
    /\ Start(p)
    /\ NoteOverlap(n, FALSE)
    /\ name' = [name EXCEPT ![p] = n]
    /\ password' = [password EXCEPT ![p] = pw]
    /\ readOnly' = [readOnly EXCEPT ![p] = ro]
    /\ existing' = [existing EXCEPT ![p] = metadata[n]]
    /\ Goto(p, IF pw = Unset THEN "upserting" ELSE "setting")
    /\ UNCHANGED <<metadata, secrets, masterKey, failed>>

\* Mutant: the future of secrets.set is dropped without being awaited.
SetSecretNotAwaited(p) ==
    /\ at[p] = "setting"
    /\ Goto(p, "upserting")
    /\ UNCHANGED <<secrets, metadata, masterKey, name, password, readOnly, existing,
                   calls, overlapped, raced, failed>>

\* self.secrets.set(&secret_key(&params.name), password).await?
SaveSetSecret(p) ==
    /\ at[p] = "setting"
    /\ secrets' = [secrets EXCEPT ![name[p]] = [key |-> masterKey, password |-> password[p]]]
    /\ Goto(p, "upserting")
    /\ UNCHANGED <<metadata, masterKey, name, password, readOnly, existing,
                   calls, overlapped, raced, failed>>

\* Mutant: a password left out clears the flag.
MergedForgetsPassword(old, pw, ro) ==
    [read_only    |-> IF ro # Unset THEN ro ELSE old # Unset /\ old.read_only,
     has_password |-> pw # Unset]

\* Mutant: read_only left out means false.
MergedDefaultsReadOnly(old, pw, ro) ==
    [read_only    |-> IF ro # Unset THEN ro ELSE FALSE,
     has_password |-> pw # Unset \/ (old # Unset /\ old.has_password)]

\* The profile written: what was not given comes from the profile read.
Merged(old, pw, ro) ==
    [read_only    |-> IF ro # Unset THEN ro ELSE old # Unset /\ old.read_only,
     has_password |-> pw # Unset \/ (old # Unset /\ old.has_password)]

\* self.metadata.upsert(profile)
SaveUpsert(p) ==
    /\ at[p] = "upserting"
    /\ metadata' = [metadata EXCEPT ![name[p]] =
                        Merged(existing[p], password[p], readOnly[p])]
    /\ Return(p)
    /\ UNCHANGED <<secrets, masterKey, calls, overlapped, raced, failed>>

-----------------------------------------------------------------------------
(* delete *)

\* metadata.remove(name) found the profile.
DeleteMetadata(p, n) ==
    /\ Start(p)
    /\ NoteOverlap(n, TRUE)
    /\ metadata[n] # Unset
    /\ metadata' = [metadata EXCEPT ![n] = Unset]
    /\ name' = [name EXCEPT ![p] = n]
    /\ Goto(p, "deleting")
    /\ UNCHANGED <<secrets, masterKey, password, readOnly, existing, failed>>

\* delete or resolve of a name without a profile is NotFound.
NotFound(p, n) ==
    /\ Start(p)
    /\ metadata[n] = Unset
    /\ UNCHANGED <<metadata, secrets, masterKey, callVars, overlapped, raced, failed>>

\* Mutant: the password of a deleted profile stays.
DeleteLeavesSecret(p) ==
    /\ at[p] = "deleting"
    /\ Return(p)
    /\ UNCHANGED <<secrets, metadata, masterKey, calls, overlapped, raced, failed>>

\* self.secrets.delete(&secret_key(name)).await?
DeleteSecret(p) ==
    /\ at[p] = "deleting"
    /\ secrets' = [secrets EXCEPT ![name[p]] = Unset]
    /\ Return(p)
    /\ UNCHANGED <<metadata, masterKey, calls, overlapped, raced, failed>>

-----------------------------------------------------------------------------
(* resolve *)

\* self.metadata.get(name)? is Some(profile)
ResolveRead(p, n) ==
    /\ Start(p)
    /\ NoteOverlap(n, FALSE)
    /\ metadata[n] # Unset
    /\ existing' = [existing EXCEPT ![p] = metadata[n]]
    /\ name' = [name EXCEPT ![p] = n]
    /\ Goto(p, "fetching")
    /\ UNCHANGED <<metadata, secrets, masterKey, password, readOnly, failed>>

\* What self.secrets.get(&secret_key(name)) returns: Ok(None), Ok(Some(_)),
\* or DecryptionFailed for a secret of another master key.
Fetched(p) ==
    IF secrets[name[p]] = Unset THEN "none"
    ELSE IF secrets[name[p]].key = masterKey THEN "password" ELSE "undecryptable"

\* self.secrets.get(..).await?, and the config is built.
ResolveSecret(p) ==
    /\ at[p] = "fetching"
    /\ Return(p)
    /\ UNCHANGED <<metadata, secrets, masterKey, calls, overlapped, raced, failed>>

-----------------------------------------------------------------------------
(* failures *)

IsWriter(p) == at[p] \in {"setting", "upserting", "deleting"}

\* A store call returns an error and `?` ends the call.
IoError(p) ==
    /\ at[p] # "idle"
    /\ failed' = IF IsWriter(p) THEN failed \cup {name[p]} ELSE failed
    /\ Return(p)
    /\ UNCHANGED <<metadata, secrets, masterKey, calls, overlapped, raced>>

\* The process dies and is started again, perhaps with another master key.
Restart ==
    /\ failed' = failed \cup {name[p] : p \in {q \in Clients : IsWriter(q)}}
    /\ masterKey' \in MasterKeys
    /\ at' = [p \in Clients |-> "idle"]
    /\ name' = [p \in Clients |-> Unset]
    /\ password' = [p \in Clients |-> Unset]
    /\ readOnly' = [p \in Clients |-> Unset]
    /\ existing' = [p \in Clients |-> Unset]
    /\ UNCHANGED <<metadata, secrets, calls, overlapped, raced>>

Next ==
    \/ \E p \in Clients, n \in Names :
          \/ \E pw \in Passwords \cup {Unset}, ro \in BOOLEAN \cup {Unset} :
                SaveRead(p, n, pw, ro)
          \/ DeleteMetadata(p, n) \/ ResolveRead(p, n) \/ NotFound(p, n)
    \/ \E p \in Clients :
          \/ SaveSetSecret(p) \/ SaveUpsert(p) \/ DeleteSecret(p)
          \/ ResolveSecret(p) \/ IoError(p)
    \/ Restart

Spec == Init /\ [][Next]_vars

-----------------------------------------------------------------------------
(* Properties *)

\* An update of n that turned read_only off although its caller left
\* read_only out.
SilentlyOff(n) ==
    /\ metadata[n] # Unset /\ metadata'[n] # Unset
    /\ metadata[n].read_only /\ ~metadata'[n].read_only
    /\ \E p \in Clients :
          at[p] = "upserting" /\ at'[p] = "idle" /\ name[p] = n /\ readOnly[p] = Unset

(***************************************************************************)
(* Crashes and I/O errors never turn read_only off silently: only two      *)
(* calls on the same name at the same time can.                            *)
(***************************************************************************)
ReadOnlyLostOnlyByOverlap ==
    [][\A n \in Names : SilentlyOff(n) => n \in overlapped]_vars

(***************************************************************************)
(* save stores the password before the metadata that claims it and delete  *)
(* removes the metadata first: crashes and I/O errors never leave a        *)
(* profile whose has_password promises a password that is not there.       *)
(***************************************************************************)
PromisedPasswordStored ==
    \A n \in Names \ overlapped :
        (metadata[n] # Unset /\ metadata[n].has_password) => secrets[n] # Unset

(***************************************************************************)
(* Without overlap and without a failure the two stores agree whenever no  *)
(* call is running: has_password says exactly whether a password is        *)
(* stored, and a deleted profile leaves no password behind.                *)
(***************************************************************************)
StoresAgree ==
    \A n \in Names \ (overlapped \cup failed) :
        ~Busy(n) =>
            IF metadata[n] = Unset THEN secrets[n] = Unset
            ELSE metadata[n].has_password <=> secrets[n] # Unset

(***************************************************************************)
(* The password of the config resolve builds (manager.rs:156) goes with    *)
(* the profile it read before the await.  A profile that has a password is *)
(* never resolved without one, whatever saves, failures and restarts come  *)
(* in between: only a delete that overlapped a call on the name can do     *)
(* that.  A profile without one gets none unless a call overlapped, or one *)
(* that failed left its password behind.  A secret of another master key   *)
(* gives no config at all: resolve returns DecryptionFailed.               *)
(***************************************************************************)
ResolveMatchesProfile ==
    \A p \in Clients : at[p] = "fetching" =>
        /\ (existing[p].has_password /\ name[p] \notin raced) => Fetched(p) # "none"
        /\ (~existing[p].has_password /\ name[p] \notin overlapped \cup failed)
              => Fetched(p) = "none"
=============================================================================
