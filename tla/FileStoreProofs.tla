--------------------------- MODULE FileStoreProofs ---------------------------
(***************************************************************************)
(* The file store implements the atomic map for any number of threads,     *)
(* keys and values, with crashes and I/O errors at any step.  The argument *)
(* is the lock: whoever is past the read holds it, so what it read is      *)
(* still what is on disk when it renames.                                  *)
(***************************************************************************)
EXTENDS FileStore, TLAPS

HolderOnly ==
    /\ \A p \in Procs : at[p] # "idle" <=> lock = p
    /\ \A p \in Procs : at[p] # "idle" => request[p] \in Requests

CopyFresh ==
    \A p \in Procs :
        /\ at[p] = "writing" => copy[p] = file
        /\ at[p] = "renaming" => copy[p] = Changed(file, request[p])

IndInv == TypeOK /\ HolderOnly /\ CopyFresh

-----------------------------------------------------------------------------
USE FileStoreAssumption

(* Changing one key of a map gives a map. *)
LEMMA ChangedType ==
    ASSUME NEW m \in Map, NEW r \in Requests PROVE Changed(m, r) \in Map
  BY DEF Map, Requests, Changed

(* The invariant holds when the store is created. *)
LEMMA InitIndInv == Init => IndInv
  BY DEF Init, IndInv, TypeOK, HolderOnly, CopyFresh, Map, EmptyMap, NoRequest

(* A returning call preserves the parts about the other threads. *)
LEMMA ReturnPreserves ==
    ASSUME IndInv, NEW p \in Procs, at[p] # "idle", Return(p), file' \in Map
    PROVE  IndInv'
  <1>. USE DEF Return
  <1>1. TypeOK'
    BY DEF IndInv, TypeOK, Map, EmptyMap
  <1>2. \A q \in Procs : (at')[q] = "idle"
    BY DEF IndInv, TypeOK, HolderOnly
  <1>3. HolderOnly'
    BY <1>2 DEF HolderOnly
  <1>4. CopyFresh'
    BY <1>2 DEF CopyFresh
  <1>. QED  BY <1>1, <1>3, <1>4 DEF IndInv

(* Every step preserves the invariant. *)
LEMMA NextIndInv == IndInv /\ [Next]_vars => IndInv'
  <1>. SUFFICES ASSUME IndInv, [Next]_vars PROVE IndInv'
    OBVIOUS
  <1>1. ASSUME NEW p \in Procs, NEW r \in Requests, Call(p, r) PROVE IndInv'
    BY <1>1 DEF IndInv, Call, TypeOK, HolderOnly, CopyFresh
  <1>2. ASSUME NEW p \in Procs, ReadFile(p) PROVE IndInv'
    BY <1>2 DEF IndInv, ReadFile, TypeOK, HolderOnly, CopyFresh
  <1>3. ASSUME NEW p \in Procs, ReadReturns(p) PROVE IndInv'
    BY <1>3, ReturnPreserves DEF IndInv, ReadReturns, TypeOK
  <1>4. ASSUME NEW p \in Procs, WriteTemp(p) PROVE IndInv'
    <2>1. request[p] \in Requests /\ copy[p] = file /\ file \in Map
      BY <1>4 DEF IndInv, WriteTemp, TypeOK, HolderOnly, CopyFresh
    <2>2. Changed(copy[p], request[p]) \in Map
      BY <2>1, ChangedType
    <2>. QED
      BY <1>4, <2>1, <2>2 DEF IndInv, WriteTemp, TypeOK, HolderOnly, CopyFresh
  <1>5. ASSUME NEW p \in Procs, Rename(p) PROVE IndInv'
    <2>1. file' \in Map
      BY <1>5 DEF IndInv, Rename, TypeOK
    <2>. QED  BY <1>5, <2>1, ReturnPreserves DEF Rename
  <1>6. ASSUME NEW p \in Procs, WriteFails(p) PROVE IndInv'
    BY <1>6, ReturnPreserves DEF IndInv, WriteFails, TypeOK
  <1>7. CASE Crash
    BY <1>7 DEF IndInv, Crash, TypeOK, HolderOnly, CopyFresh, Map, EmptyMap
  <1>8. CASE UNCHANGED vars
    BY <1>8 DEF vars, IndInv, TypeOK, HolderOnly, CopyFresh
  <1>. QED
    BY <1>1, <1>2, <1>3, <1>4, <1>5, <1>6, <1>7, <1>8 DEF Next

(* The invariant holds in every state. *)
LEMMA IndInvHolds == Spec => []IndInv
  BY InitIndInv, NextIndInv, PTL DEF Spec

(* The store's variables keep their types: what is on disk is always a map  *)
(* from keys to whole values.                                               *)
THEOREM FileStoreTypeCorrect == Spec => []TypeOK
  <1>1. IndInv => TypeOK
    BY DEF IndInv
  <1>. QED  BY <1>1, IndInvHolds, PTL

(* The file behind either store changes one key at a time, whatever threads, *)
(* I/O errors and crashes do.                                                *)
THEOREM FileStoreImplementsAtomicMap == Spec => ImplementsAtomicMap
  <1>1. Init => Abstract!MapInit
    BY DEF Init, Abstract!MapInit, EmptyMap
  <1>2. IndInv /\ [Next]_vars => [Abstract!MapNext]_file
    <2>. SUFFICES ASSUME IndInv, Next, file' # file PROVE Abstract!MapNext
      BY DEF vars
    <2>1. PICK p \in Procs : Rename(p)
      BY DEF Next, Call, ReadFile, ReadReturns, WriteTemp, WriteFails, Crash
    <2>2. request[p] \in Requests /\ file' = Changed(file, request[p])
      BY <2>1 DEF IndInv, HolderOnly, CopyFresh, Rename
    <2>3. CASE request[p].kind = "upsert"
      <3>1. Abstract!Put(request[p].key, request[p].value)
        BY <2>2, <2>3 DEF Changed, Abstract!Put
      <3>2. request[p].key \in Keys /\ request[p].value \in Values
        BY <2>2 DEF Requests
      <3>. QED  BY <3>1, <3>2 DEF Abstract!MapNext
    <2>4. CASE request[p].kind # "upsert"
      <3>1. Abstract!Delete(request[p].key)
        BY <2>2, <2>4 DEF Changed, Abstract!Delete
      <3>2. request[p].key \in Keys
        BY <2>2 DEF Requests
      <3>. QED  BY <3>1, <3>2 DEF Abstract!MapNext
    <2>. QED  BY <2>3, <2>4
  <1>. QED
    BY <1>1, <1>2, IndInvHolds, PTL DEF Spec, ImplementsAtomicMap, Abstract!MapSpec

=============================================================================
