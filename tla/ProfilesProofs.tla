--------------------------- MODULE ProfilesProofs ---------------------------
(***************************************************************************)
(* What save, delete and resolve guarantee about the two stores, for every *)
(* number of clients, names, passwords, master keys and calls.             *)
(*                                                                         *)
(* The properties speak of stores at rest; their invariant says what a     *)
(* call in flight may rely on: while nobody else is on its name, the       *)
(* profile it read is still the one stored, and the two stores disagree    *)
(* only between its own two writes.                                        *)
(***************************************************************************)
EXTENDS ConnectionProfiles, TLAPS

\* What a call has in hand at each of its store calls.
CallState ==
    \A p \in Clients :
        /\ at[p] # "idle" => name[p] \in Names
        /\ at[p] = "setting" => password[p] # Unset
        /\ at[p] = "fetching" => existing[p] # Unset

On(p, n) == at[p] # "idle" /\ name[p] = n

\* Calls on a name that saw no overlap come one at a time.
OneAtATime ==
    \A p, q \in Clients : \A n \in Names \ overlapped :
        On(p, n) /\ On(q, n) => p = q

\* The profile a call read is the one stored.
ReadIsCurrent ==
    \A p \in Clients :
        /\ at[p] \in {"setting", "upserting", "fetching"}
        /\ name[p] \notin overlapped
        => existing[p] = metadata[name[p]]

\* Between the two writes of a delete the profile is gone, between those of
\* a save the password is there.
FirstWriteDone ==
    \A p \in Clients :
        name[p] \notin overlapped =>
            /\ at[p] = "deleting" => metadata[name[p]] = Unset
            /\ at[p] = "upserting" /\ password[p] # Unset => secrets[name[p]] # Unset

\* A call on n is between its two writes.
HalfDone(n) ==
    \E p \in Clients :
        /\ name[p] = n
        /\ at[p] = "deleting" \/ (at[p] = "upserting" /\ password[p] # Unset)

Agree(n) ==
    IF metadata[n] = Unset THEN secrets[n] = Unset
    ELSE metadata[n].has_password <=> secrets[n] # Unset

\* Only a call between its two writes may leave the stores apart.
AgreeUnlessHalfDone ==
    \A n \in Names \ (overlapped \cup failed) : ~HalfDone(n) => Agree(n)

IndInv ==
    /\ TypeOK
    /\ CallState
    /\ OneAtATime
    /\ ReadIsCurrent
    /\ FirstWriteDone
    /\ AgreeUnlessHalfDone
    /\ PromisedPasswordStored

-----------------------------------------------------------------------------

(***************************************************************************)
(* The profile save writes is a profile, whatever was given and whatever   *)
(* was stored; it says has_password exactly if a password was given now or *)
(* before, and without a read_only parameter it keeps the stored one.      *)
(***************************************************************************)
LEMMA MergedFacts ==
    ASSUME NEW old \in Profiles \cup {Unset}, NEW pw \in Passwords \cup {Unset},
           NEW ro \in BOOLEAN \cup {Unset}
    PROVE  /\ Merged(old, pw, ro) \in Profiles
           /\ Merged(old, pw, ro) # Unset
           /\ Merged(old, pw, ro).has_password
                <=> (pw # Unset \/ (old # Unset /\ old.has_password))
           /\ ro = Unset /\ old # Unset /\ old.read_only => Merged(old, pw, ro).read_only
  <1>1. (IF ro # Unset THEN ro ELSE old # Unset /\ old.read_only) \in BOOLEAN
    BY Zenon
  <1>2. (pw # Unset \/ (old # Unset /\ old.has_password)) \in BOOLEAN
    BY Zenon
  <1>3. Merged(old, pw, ro) \in Profiles
    BY <1>1, <1>2, Zenon DEF Merged, Profiles
  <1>4. Merged(old, pw, ro) # Unset
    BY <1>3, UnsetIsNoRecord, Zenon
  <1>5. Merged(old, pw, ro).has_password
          <=> (pw # Unset \/ (old # Unset /\ old.has_password))
    BY Zenon DEF Merged
  <1>6. ro = Unset /\ old # Unset /\ old.read_only => Merged(old, pw, ro).read_only
    BY Zenon DEF Merged
  <1>. QED
    BY <1>3, <1>4, <1>5, <1>6

(***************************************************************************)
(* The same of the profile a call has put together from its locals.        *)
(***************************************************************************)
LEMMA UpsertFacts ==
    ASSUME TypeOK, NEW p \in Clients
    PROVE  LET new == Merged(existing[p], password[p], readOnly[p]) IN
           /\ new \in Profiles
           /\ new # Unset
           /\ new.has_password
                <=> (password[p] # Unset \/ (existing[p] # Unset /\ existing[p].has_password))
           /\ readOnly[p] = Unset /\ existing[p] # Unset /\ existing[p].read_only => new.read_only
  <1>1. /\ existing[p] \in Profiles \cup {Unset}
        /\ password[p] \in Passwords \cup {Unset}
        /\ readOnly[p] \in BOOLEAN \cup {Unset}
    BY DEF TypeOK
  <1>. QED
    BY <1>1, MergedFacts, Zenon

(***************************************************************************)
(* Two empty stores and no calls satisfy the invariant.                    *)
(***************************************************************************)
LEMMA InitIndInv == Init => IndInv
  BY ProfilesAssumption DEF Init, IndInv, TypeOK, Locations, CallState, OneAtATime, On,
     ReadIsCurrent, FirstWriteDone, AgreeUnlessHalfDone, HalfDone, Agree,
     PromisedPasswordStored

(***************************************************************************)
(* Every store call of save, delete and resolve, every I/O error and every *)
(* restart keeps the invariant.                                            *)
(***************************************************************************)
LEMMA NextIndInv == IndInv /\ [Next]_vars => IndInv'
  <1>. SUFFICES ASSUME IndInv, [Next]_vars PROVE IndInv'
    OBVIOUS
  <1>. USE DEF IndInv, TypeOK
  <1>1. ASSUME NEW p \in Clients, NEW n \in Names, NEW pw \in Passwords \cup {Unset},
               NEW ro \in BOOLEAN \cup {Unset}, SaveRead(p, n, pw, ro)
        PROVE  IndInv'
    <2>. USE <1>1 DEF SaveRead, Start, NoteOverlap, BeingDeleted, Busy, Goto
    <2>1. TypeOK'
      BY ProfilesAssumption DEF Locations
    <2>2. /\ CallState' /\ OneAtATime' /\ ReadIsCurrent'
          /\ FirstWriteDone' /\ AgreeUnlessHalfDone' /\ PromisedPasswordStored'
      BY DEF CallState, OneAtATime, On, ReadIsCurrent, FirstWriteDone,
         AgreeUnlessHalfDone, HalfDone, Agree, PromisedPasswordStored
    <2>. QED  BY <2>1, <2>2
  <1>2. ASSUME NEW p \in Clients, NEW n \in Names, DeleteMetadata(p, n)
        PROVE  IndInv'
    <2>. USE <1>2 DEF DeleteMetadata, Start, NoteOverlap, BeingDeleted, Busy, Goto
    <2>1. TypeOK'
      BY ProfilesAssumption DEF Locations
    <2>2. /\ CallState' /\ OneAtATime' /\ ReadIsCurrent'
          /\ FirstWriteDone' /\ AgreeUnlessHalfDone' /\ PromisedPasswordStored'
      BY DEF CallState, OneAtATime, On, ReadIsCurrent, FirstWriteDone,
         AgreeUnlessHalfDone, HalfDone, Agree, PromisedPasswordStored
    <2>. QED  BY <2>1, <2>2
  <1>3. ASSUME NEW p \in Clients, NEW n \in Names, ResolveRead(p, n)
        PROVE  IndInv'
    <2>. USE <1>3 DEF ResolveRead, Start, NoteOverlap, BeingDeleted, Busy, Goto
    <2>1. TypeOK'
      BY ProfilesAssumption DEF Locations
    <2>2. /\ CallState' /\ OneAtATime' /\ ReadIsCurrent'
          /\ FirstWriteDone' /\ AgreeUnlessHalfDone' /\ PromisedPasswordStored'
      BY DEF CallState, OneAtATime, On, ReadIsCurrent, FirstWriteDone,
         AgreeUnlessHalfDone, HalfDone, Agree, PromisedPasswordStored
    <2>. QED  BY <2>1, <2>2
  <1>4. ASSUME NEW p \in Clients, NEW n \in Names, NotFound(p, n)
        PROVE  IndInv'
    <2>. USE <1>4 DEF NotFound, Start, callVars
    <2>1. TypeOK'
      BY ProfilesAssumption
    <2>2. /\ CallState' /\ OneAtATime' /\ ReadIsCurrent'
          /\ FirstWriteDone' /\ AgreeUnlessHalfDone' /\ PromisedPasswordStored'
      BY DEF CallState, OneAtATime, On, ReadIsCurrent, FirstWriteDone,
         AgreeUnlessHalfDone, HalfDone, Agree, PromisedPasswordStored
    <2>. QED  BY <2>1, <2>2
  <1>5. ASSUME NEW p \in Clients, SaveSetSecret(p) PROVE IndInv'
    <2>. USE <1>5 DEF SaveSetSecret, Goto
    <2>1. [key |-> masterKey, password |-> password[p]] \in Secrets
      BY DEF CallState, Secrets
    <2>2. PICK s \in Secrets : s # Unset /\ secrets' = [secrets EXCEPT ![name[p]] = s]
      BY <2>1, UnsetIsNoRecord, Zenon
    <2>3. TypeOK'
      BY <2>2, ProfilesAssumption DEF Locations
    <2>4. CallState' /\ OneAtATime' /\ ReadIsCurrent'
      BY DEF CallState, OneAtATime, On, ReadIsCurrent
    <2>5. FirstWriteDone'
      BY <2>2 DEF FirstWriteDone, CallState
    <2>6. AgreeUnlessHalfDone'
      BY <2>2 DEF AgreeUnlessHalfDone, HalfDone, Agree, CallState
    <2>7. PromisedPasswordStored'
      BY <2>2 DEF PromisedPasswordStored
    <2>. QED  BY <2>3, <2>4, <2>5, <2>6, <2>7
  <1>6. ASSUME NEW p \in Clients, SaveUpsert(p) PROVE IndInv'
    <2>. USE <1>6 DEF SaveUpsert, Return, Goto
    <2>. DEFINE new == Merged(existing[p], password[p], readOnly[p])
    <2>1. /\ new \in Profiles /\ new # Unset
          /\ new.has_password <=>
               (password[p] # Unset \/ (existing[p] # Unset /\ existing[p].has_password))
      BY UpsertFacts, Zenon
    <2>2. metadata' = [metadata EXCEPT ![name[p]] = new]
      OBVIOUS
    <2>. HIDE DEF new
    <2>3. TypeOK'
      BY <2>1, <2>2, ProfilesAssumption DEF Locations
    <2>4. CallState'
      BY <2>1, <2>2 DEF CallState
    <2>5. OneAtATime'
      BY <2>1, <2>2 DEF OneAtATime, On
    <2>6. ReadIsCurrent'
      BY <2>1, <2>2 DEF ReadIsCurrent, OneAtATime, On
    <2>7. FirstWriteDone'
      BY <2>1, <2>2 DEF FirstWriteDone, OneAtATime, On
    <2>8. AgreeUnlessHalfDone'
      BY <2>1, <2>2 DEF AgreeUnlessHalfDone, HalfDone, Agree, ReadIsCurrent,
         FirstWriteDone
    <2>9. PromisedPasswordStored'
      BY <2>1, <2>2 DEF PromisedPasswordStored, ReadIsCurrent, FirstWriteDone
    <2>. QED  BY <2>3, <2>4, <2>5, <2>6, <2>7, <2>8, <2>9
  <1>7. ASSUME NEW p \in Clients, DeleteSecret(p) PROVE IndInv'
    <2>. USE <1>7 DEF DeleteSecret, Return, Goto
    <2>1. TypeOK'
      BY ProfilesAssumption DEF Locations
    <2>2. CallState' /\ OneAtATime' /\ ReadIsCurrent'
      BY DEF CallState, OneAtATime, On, ReadIsCurrent
    <2>3. FirstWriteDone'
      BY DEF FirstWriteDone, OneAtATime, On
    <2>4. AgreeUnlessHalfDone'
      BY DEF AgreeUnlessHalfDone, HalfDone, Agree, FirstWriteDone
    <2>5. PromisedPasswordStored'
      BY DEF PromisedPasswordStored, FirstWriteDone
    <2>. QED  BY <2>1, <2>2, <2>3, <2>4, <2>5
  <1>8. ASSUME NEW p \in Clients, ResolveSecret(p) PROVE IndInv'
    <2>. USE <1>8 DEF ResolveSecret, Return, Goto
    <2>1. TypeOK'
      BY ProfilesAssumption DEF Locations
    <2>2. /\ CallState' /\ OneAtATime' /\ ReadIsCurrent'
          /\ FirstWriteDone' /\ AgreeUnlessHalfDone' /\ PromisedPasswordStored'
      BY DEF CallState, OneAtATime, On, ReadIsCurrent, FirstWriteDone,
         AgreeUnlessHalfDone, HalfDone, Agree, PromisedPasswordStored
    <2>. QED  BY <2>1, <2>2
  <1>9. ASSUME NEW p \in Clients, IoError(p) PROVE IndInv'
    <2>. USE <1>9 DEF IoError, IsWriter, Return, Goto
    <2>1. TypeOK'
      BY ProfilesAssumption DEF Locations, CallState
    <2>2. /\ CallState' /\ OneAtATime' /\ ReadIsCurrent'
          /\ FirstWriteDone' /\ AgreeUnlessHalfDone' /\ PromisedPasswordStored'
      BY DEF CallState, OneAtATime, On, ReadIsCurrent, FirstWriteDone,
         AgreeUnlessHalfDone, HalfDone, Agree, PromisedPasswordStored
    <2>. QED  BY <2>1, <2>2
  <1>10. ASSUME Restart PROVE IndInv'
    <2>. USE <1>10 DEF Restart, IsWriter
    <2>1. TypeOK'
      BY ProfilesAssumption DEF Locations, CallState
    <2>2. /\ CallState' /\ OneAtATime' /\ ReadIsCurrent'
          /\ FirstWriteDone' /\ AgreeUnlessHalfDone' /\ PromisedPasswordStored'
      BY DEF CallState, OneAtATime, On, ReadIsCurrent, FirstWriteDone,
         AgreeUnlessHalfDone, HalfDone, Agree, PromisedPasswordStored
    <2>. QED  BY <2>1, <2>2
  <1>11. CASE UNCHANGED vars
    BY <1>11 DEF vars, callVars, CallState, OneAtATime, On, ReadIsCurrent,
       FirstWriteDone, AgreeUnlessHalfDone, HalfDone, Agree,
       PromisedPasswordStored
  <1>. QED
    BY <1>1, <1>2, <1>3, <1>4, <1>5, <1>6, <1>7, <1>8, <1>9, <1>10, <1>11
       DEF Next

(***************************************************************************)
(* The inductive invariant holds of every behaviour.                       *)
(***************************************************************************)
LEMMA IndInvHolds == Spec => []IndInv
  BY InitIndInv, NextIndInv, PTL DEF Spec

(***************************************************************************)
(* The stores and the locals of every call keep their types.               *)
(***************************************************************************)
THEOREM ProfilesTypeCorrect == Spec => []TypeOK
  <1>1. IndInv => TypeOK
    BY DEF IndInv
  <1>. QED
    BY <1>1, IndInvHolds, PTL

(***************************************************************************)
(* No crash and no I/O error between the two writes of save or delete      *)
(* leaves a profile whose has_password promises a password that is not     *)
(* stored.                                                                 *)
(***************************************************************************)
THEOREM ProfilesPromiseKept == Spec => []PromisedPasswordStored
  <1>1. IndInv => PromisedPasswordStored
    BY DEF IndInv
  <1>. QED
    BY <1>1, IndInvHolds, PTL

(***************************************************************************)
(* Calls that neither overlap nor fail leave the two stores in agreement.  *)
(***************************************************************************)
THEOREM ProfilesStoresAgree == Spec => []StoresAgree
  <1>1. IndInv => StoresAgree
    BY Zenon DEF IndInv, AgreeUnlessHalfDone, HalfDone, Agree, StoresAgree, Busy
  <1>. QED
    BY <1>1, IndInvHolds, PTL

-----------------------------------------------------------------------------
(* A name on which saves and resolves overlap but no delete does.          *)

\* A delete has the name to itself.
DeletesAlone ==
    \A p, q \in Clients : \A n \in Names \ raced :
        at[p] = "deleting" /\ name[p] = n /\ On(q, n) => p = q

\* While it runs, the profile is gone.
DeletedIsGone ==
    \A p \in Clients :
        at[p] = "deleting" /\ name[p] \notin raced => metadata[name[p]] = Unset

Promises(profile) == profile # Unset /\ profile.has_password

\* Whoever promises a password, the store or a call in flight, has it stored.
PromisesStored ==
    /\ \A n \in Names \ raced : Promises(metadata[n]) => secrets[n] # Unset
    /\ \A p \in Clients :
          (at[p] \in {"setting", "upserting", "fetching"} /\ name[p] \notin raced) =>
              /\ Promises(existing[p]) => secrets[name[p]] # Unset
              /\ at[p] = "upserting" /\ password[p] # Unset => secrets[name[p]] # Unset

RacedInv == DeletesAlone /\ DeletedIsGone /\ PromisesStored

(***************************************************************************)
(* Every step of save, delete and resolve keeps what holds of the names no *)
(* delete raced on: only a delete takes a password away, and then no call  *)
(* that relies on it is running.                                           *)
(***************************************************************************)
LEMMA NextRacedInv == IndInv /\ RacedInv /\ [Next]_vars => RacedInv'
  <1>. SUFFICES ASSUME IndInv, RacedInv, [Next]_vars PROVE RacedInv'
    OBVIOUS
  <1>. USE DEF IndInv, TypeOK, CallState
  <1>1. ASSUME NEW p \in Clients, NEW n \in Names, NEW pw \in Passwords \cup {Unset},
               NEW ro \in BOOLEAN \cup {Unset}, SaveRead(p, n, pw, ro)
        PROVE  RacedInv'
    BY <1>1 DEF SaveRead, Start, NoteOverlap, BeingDeleted, Busy, Goto,
       RacedInv, DeletesAlone, DeletedIsGone, PromisesStored, Promises, On
  <1>2. ASSUME NEW p \in Clients, NEW n \in Names, DeleteMetadata(p, n)
        PROVE  RacedInv'
    BY <1>2 DEF DeleteMetadata, Start, NoteOverlap, BeingDeleted, Busy, Goto,
       RacedInv, DeletesAlone, DeletedIsGone, PromisesStored, Promises, On
  <1>3. ASSUME NEW p \in Clients, NEW n \in Names, ResolveRead(p, n)
        PROVE  RacedInv'
    BY <1>3 DEF ResolveRead, Start, NoteOverlap, BeingDeleted, Busy, Goto,
       RacedInv, DeletesAlone, DeletedIsGone, PromisesStored, Promises, On
  <1>4. ASSUME NEW p \in Clients, NEW n \in Names, NotFound(p, n)
        PROVE  RacedInv'
    BY <1>4 DEF NotFound, Start, callVars,
       RacedInv, DeletesAlone, DeletedIsGone, PromisesStored, Promises, On
  <1>5. ASSUME NEW p \in Clients, SaveSetSecret(p) PROVE RacedInv'
    <2>. USE <1>5 DEF SaveSetSecret, Goto
    <2>1. [key |-> masterKey, password |-> password[p]] \in Secrets
      BY DEF Secrets
    <2>2. PICK s \in Secrets : s # Unset /\ secrets' = [secrets EXCEPT ![name[p]] = s]
      BY <2>1, UnsetIsNoRecord, Zenon
    <2>. QED
      BY <2>2 DEF RacedInv, DeletesAlone, DeletedIsGone, PromisesStored, Promises, On
  <1>6. ASSUME NEW p \in Clients, SaveUpsert(p) PROVE RacedInv'
    <2>. USE <1>6 DEF SaveUpsert, Return, Goto
    <2>. DEFINE new == Merged(existing[p], password[p], readOnly[p])
    <2>1. /\ new \in Profiles /\ new # Unset
          /\ new.has_password <=>
               (password[p] # Unset \/ (existing[p] # Unset /\ existing[p].has_password))
      BY UpsertFacts, Zenon
    <2>2. metadata' = [metadata EXCEPT ![name[p]] = new]
      OBVIOUS
    <2>. HIDE DEF new
    <2>3. DeletesAlone' /\ DeletedIsGone'
      BY <2>2 DEF RacedInv, DeletesAlone, DeletedIsGone, On
    <2>4. PromisesStored'
      BY <2>1, <2>2 DEF RacedInv, PromisesStored, Promises
    <2>. QED  BY <2>3, <2>4 DEF RacedInv
  <1>7. ASSUME NEW p \in Clients, DeleteSecret(p) PROVE RacedInv'
    <2>. USE <1>7 DEF DeleteSecret, Return, Goto
    <2>1. DeletesAlone' /\ DeletedIsGone'
      BY DEF RacedInv, DeletesAlone, DeletedIsGone, On
    <2>2. PromisesStored'
      BY DEF RacedInv, DeletesAlone, DeletedIsGone, PromisesStored, Promises, On
    <2>. QED  BY <2>1, <2>2 DEF RacedInv
  <1>8. ASSUME NEW p \in Clients, ResolveSecret(p) PROVE RacedInv'
    BY <1>8 DEF ResolveSecret, Return, Goto,
       RacedInv, DeletesAlone, DeletedIsGone, PromisesStored, Promises, On
  <1>9. ASSUME NEW p \in Clients, IoError(p) PROVE RacedInv'
    BY <1>9 DEF IoError, Return, Goto,
       RacedInv, DeletesAlone, DeletedIsGone, PromisesStored, Promises, On
  <1>10. ASSUME Restart PROVE RacedInv'
    BY <1>10 DEF Restart,
       RacedInv, DeletesAlone, DeletedIsGone, PromisesStored, Promises, On
  <1>11. CASE UNCHANGED vars
    BY <1>11 DEF vars, callVars,
       RacedInv, DeletesAlone, DeletedIsGone, PromisesStored, Promises, On
  <1>. QED
    BY <1>1, <1>2, <1>3, <1>4, <1>5, <1>6, <1>7, <1>8, <1>9, <1>10, <1>11 DEF Next

(***************************************************************************)
(* The config resolve builds goes with the profile it read: overlapping    *)
(* saves, failures and restarts take no password away, and none turns up   *)
(* without an overlap or a failure.                                        *)
(***************************************************************************)
THEOREM ProfilesResolveMatches == Spec => []ResolveMatchesProfile
  <1>1. Init => RacedInv
    BY DEF Init, RacedInv, DeletesAlone, DeletedIsGone, PromisesStored, Promises, On
  <1>2. IndInv /\ RacedInv => ResolveMatchesProfile
    <2>. SUFFICES ASSUME IndInv, RacedInv, NEW p \in Clients, at[p] = "fetching"
                  PROVE  /\ existing[p].has_password /\ name[p] \notin raced
                              => Fetched(p) # "none"
                         /\ ~existing[p].has_password /\ name[p] \notin overlapped \cup failed
                              => Fetched(p) = "none"
      BY DEF ResolveMatchesProfile
    <2>1. name[p] \in Names /\ existing[p] # Unset
      BY DEF IndInv, CallState
    <2>2. Fetched(p) # "none" <=> secrets[name[p]] # Unset
      BY DEF Fetched
    <2>3. existing[p].has_password /\ name[p] \notin raced => Fetched(p) # "none"
      BY <2>1, <2>2 DEF RacedInv, PromisesStored, Promises
    <2>4. ASSUME ~existing[p].has_password, name[p] \notin overlapped, name[p] \notin failed
          PROVE  Fetched(p) = "none"
      <3>1. existing[p] = metadata[name[p]]
        BY <2>1, <2>4 DEF IndInv, ReadIsCurrent
      <3>2. ~HalfDone(name[p])
        BY <2>1, <2>4 DEF IndInv, OneAtATime, On, HalfDone
      <3>3. metadata[name[p]].has_password <=> secrets[name[p]] # Unset
        BY <2>1, <2>4, <3>1, <3>2, Zenon DEF IndInv, AgreeUnlessHalfDone, Agree
      <3>. QED
        BY <2>2, <2>4, <3>1, <3>3
    <2>. QED
      BY <2>3, <2>4
  <1>. QED
    BY <1>1, <1>2, NextRacedInv, IndInvHolds, PTL DEF Spec

(***************************************************************************)
(* An update that left read_only out switches it off only if another call  *)
(* on the name overlapped with it: the profile it merged with is otherwise *)
(* the one it replaces.                                                    *)
(***************************************************************************)
THEOREM ProfilesReadOnlyKept == Spec => ReadOnlyLostOnlyByOverlap
  <1>1. IndInv /\ [Next]_vars
          => [\A n \in Names : SilentlyOff(n) => n \in overlapped]_vars
    <2>. SUFFICES ASSUME IndInv, Next, NEW n \in Names, SilentlyOff(n), n \notin overlapped
                  PROVE  FALSE
      OBVIOUS
    <2>1. PICK p \in Clients :
            at[p] = "upserting" /\ at'[p] = "idle" /\ name[p] = n /\ readOnly[p] = Unset
      BY DEF SilentlyOff
    <2>2. existing[p] = metadata[n] /\ metadata[n] # Unset /\ metadata[n].read_only
      BY <2>1 DEF IndInv, ReadIsCurrent, SilentlyOff
    <2>3. metadata'[n] # metadata[n] /\ metadata'[n] # Unset
      BY DEF SilentlyOff
    <2>4. SaveUpsert(p)
      BY <2>1, <2>3 DEF IndInv, TypeOK, Next, Start, Goto, Return, callVars, SaveRead,
         DeleteMetadata, ResolveRead, NotFound, SaveSetSecret, SaveUpsert,
         DeleteSecret, ResolveSecret, IoError, Restart
    <2>5. metadata'[n] = Merged(existing[p], password[p], readOnly[p])
      BY <2>1, <2>4 DEF IndInv, TypeOK, SaveUpsert
    <2>6. Merged(existing[p], password[p], readOnly[p]).read_only
      BY <2>1, <2>2, UpsertFacts, Zenon DEF IndInv
    <2>. QED
      BY <2>5, <2>6 DEF SilentlyOff
  <1>. QED
    BY <1>1, IndInvHolds, PTL DEF Spec, ReadOnlyLostOnlyByOverlap
=============================================================================
