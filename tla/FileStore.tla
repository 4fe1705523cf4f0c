------------------------------ MODULE FileStore ------------------------------
(***************************************************************************)
(* The JSON file behind ProfileMetadataStore (metadata_store.rs) and       *)
(* EncryptedFileSecretStore (file_store.rs), which share one design: every *)
(* call takes write_lock, reads the whole file, and a writer puts the      *)
(* changed map into a temp file that it renames over the target.  The      *)
(* process may crash between any two of these steps; the disk keeps what   *)
(* was renamed last and forgets the lock.                                  *)
(*                                                                         *)
(*   at[p]:  idle -> reading -> writing -> renaming -> idle                *)
(***************************************************************************)
EXTENDS Naturals

CONSTANTS Procs,        \* threads calling the store
          Keys,         \* profile names, or secret keys
          Values,       \* profiles, or stored secrets
          NoValue,      \* no entry under a key
          Unlocked      \* nobody holds write_lock

ASSUME FileStoreAssumption == NoValue \notin Values /\ Unlocked \notin Procs

Map == [Keys -> Values \cup {NoValue}]
EmptyMap == [k \in Keys |-> NoValue]

VARIABLES file,         \* the map on disk
          lock,         \* holder of write_lock
          at,           \* where each thread is
          request,      \* what it was called for: kind, key, value
          copy          \* the map it read, then the map in its temp file

vars == <<file, lock, at, request, copy>>

Requests == [kind : {"get", "upsert", "remove"}, key : Keys, value : Values]
NoRequest == [kind |-> "none"]

TypeOK ==
    /\ file \in Map
    /\ lock \in Procs \cup {Unlocked}
    /\ at \in [Procs -> {"idle", "reading", "writing", "renaming"}]
    /\ request \in [Procs -> Requests \cup {NoRequest}]
    /\ copy \in [Procs -> Map]

Init ==
    /\ file = EmptyMap
    /\ lock = Unlocked
    /\ at = [p \in Procs |-> "idle"]
    /\ request = [p \in Procs |-> NoRequest]
    /\ copy = [p \in Procs |-> EmptyMap]

\* The call returns: its guard and its locals are dropped.
Return(p) ==
    /\ lock' = Unlocked
    /\ at' = [at EXCEPT ![p] = "idle"]
    /\ request' = [request EXCEPT ![p] = NoRequest]
    /\ copy' = [copy EXCEPT ![p] = EmptyMap]

\* Mutant: a writer that does not take the lock.
CallWithoutLock(p, r) ==
    /\ at[p] = "idle"
    /\ request' = [request EXCEPT ![p] = r]
    /\ at' = [at EXCEPT ![p] = "reading"]
    /\ UNCHANGED <<file, lock, copy>>

\* A call of get, upsert or remove takes write_lock.
Call(p, r) ==
    /\ at[p] = "idle"
    /\ lock = Unlocked
    /\ lock' = p
    /\ request' = [request EXCEPT ![p] = r]
    /\ at' = [at EXCEPT ![p] = "reading"]
    /\ UNCHANGED <<file, copy>>

\* read_file for a writer.
ReadFile(p) ==
    /\ at[p] = "reading"
    /\ request[p].kind # "get"
    /\ copy' = [copy EXCEPT ![p] = file]
    /\ at' = [at EXCEPT ![p] = "writing"]
    /\ UNCHANGED <<file, lock, request>>

\* read_file for get, or an Io or Corrupted error of read_file.
ReadReturns(p) ==
    /\ at[p] = "reading"
    /\ Return(p)
    /\ UNCHANGED file

\* The changed map, as written to the temp file.
Changed(m, r) ==
    [m EXCEPT ![r.key] = IF r.kind = "upsert" THEN r.value ELSE NoValue]

\* write_atomic up to sync_all: the temp file is complete.
WriteTemp(p) ==
    /\ at[p] = "writing"
    /\ copy' = [copy EXCEPT ![p] = Changed(copy[p], request[p])]
    /\ at' = [at EXCEPT ![p] = "renaming"]
    /\ UNCHANGED <<file, lock, request>>

\* tmp.persist(path), then the guard drops.
Rename(p) ==
    /\ at[p] = "renaming"
    /\ file' = copy[p]
    /\ Return(p)

\* An I/O error before the rename: the temp file is deleted, Err returned.
WriteFails(p) ==
    /\ at[p] \in {"writing", "renaming"}
    /\ Return(p)
    /\ UNCHANGED file

\* The process dies and starts again.
Crash ==
    /\ lock' = Unlocked
    /\ at' = [p \in Procs |-> "idle"]
    /\ request' = [p \in Procs |-> NoRequest]
    /\ copy' = [p \in Procs |-> EmptyMap]
    /\ UNCHANGED file

Next ==
    \/ \E p \in Procs, r \in Requests : Call(p, r)
    \/ \E p \in Procs : \/ ReadFile(p) \/ ReadReturns(p) \/ WriteTemp(p)
                        \/ Rename(p) \/ WriteFails(p)
    \/ Crash

Spec == Init /\ [][Next]_vars

(***************************************************************************)
(* Calls, failures and crashes change the file one key at a time: no lost  *)
(* update between threads, no torn file after a crash.                     *)
(***************************************************************************)
Abstract == INSTANCE AtomicMap WITH map <- file

ImplementsAtomicMap == Abstract!MapSpec

=============================================================================
