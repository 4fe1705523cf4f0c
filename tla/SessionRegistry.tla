--------------------------- MODULE SessionRegistry ---------------------------
(***************************************************************************)
(* The registry crate: ConnectionAttemptRegistry and SessionRegistry used  *)
(* together by concurrent connect attempts.                                *)
(*                                                                         *)
(* An attempt a is one caller that mints a token with begin, builds a      *)
(* session outside every lock, and offers it to insert_if_current.  The    *)
(* session of attempt a is named by a itself.  The two maps have separate  *)
(* mutexes: every access to `generations` is one critical section of the   *)
(* attempts' mutex, while insert_if_current holds the sessions' mutex      *)
(* (`holder`) from LockSessions to its return, so that begin, invalidate   *)
(* and forget of other threads fall anywhere between its four steps.       *)
(*                                                                         *)
(*   at[a]:  idle -> begun -> checked -> locked -> fenced -> installed     *)
(*                     \-> refused <-----/                                 *)
(***************************************************************************)
EXTENDS AttemptRegistry

CONSTANTS Attempts,     \* connect attempts
          Nobody,       \* no session / no lock holder
          NoId          \* the target of an attempt that has not begun

ASSUME RegistryAssumption == Nobody \notin Attempts /\ NoId \notin Ids

VARIABLES generations,  \* attempts.generations
          sessions,     \* sessions.sessions: id -> session, or Nobody
          holder,       \* which attempt holds the sessions mutex
          at,           \* where each attempt is
          tokenId,      \* AttemptToken.connection_id
          tokenGen,     \* AttemptToken.generation
          previous      \* the session insert_if_current returned in Ok(Some(_))

regVars == <<generations, sessions, holder, at, tokenId, tokenGen, previous>>

Locations == {"idle", "begun", "checked", "locked", "fenced",
              "installed", "refused"}

RegTypeOK ==
    /\ generations \in [Ids -> Generation \cup {NoGeneration}]
    /\ sessions \in [Ids -> Attempts \cup {Nobody}]
    /\ holder \in Attempts \cup {Nobody}
    /\ at \in [Attempts -> Locations]
    /\ tokenId \in [Attempts -> Ids \cup {NoId}]
    /\ tokenGen \in [Attempts -> Generation \cup {NoGeneration}]
    /\ previous \in [Attempts -> Attempts \cup {Nobody}]

RegInit ==
    /\ generations = EmptyGenerations
    /\ sessions = [id \in Ids |-> Nobody]
    /\ holder = Nobody
    /\ at = [a \in Attempts |-> "idle"]
    /\ tokenId = [a \in Attempts |-> NoId]
    /\ tokenGen = [a \in Attempts |-> NoGeneration]
    /\ previous = [a \in Attempts |-> Nobody]

TokenIsCurrent(a) == IsCurrent(generations, tokenId[a], tokenGen[a])

-----------------------------------------------------------------------------
(***************************************************************************)
(* ConnectionAttemptRegistry's methods as steps.                           *)
(***************************************************************************)

\* begin(id)
Begin(a, id) ==
    /\ at[a] = "idle"
    /\ at' = [at EXCEPT ![a] = "begun"]
    /\ generations' = AfterBegin(generations, id)
    /\ tokenId' = [tokenId EXCEPT ![a] = id]
    /\ tokenGen' = [tokenGen EXCEPT ![a] = NextGeneration(generations[id])]
    /\ UNCHANGED <<sessions, holder, previous>>

\* invalidate(id)
Invalidate(id) ==
    /\ generations' = AfterInvalidate(generations, id)
    /\ UNCHANGED <<sessions, holder, at, tokenId, tokenGen, previous>>

\* forget(id)
Forget(id) ==
    /\ generations' = AfterForget(generations, id)
    /\ UNCHANGED <<sessions, holder, at, tokenId, tokenGen, previous>>

-----------------------------------------------------------------------------
(***************************************************************************)
(* SessionRegistry::insert_if_current, one action per critical section.    *)
(***************************************************************************)

\* if !registry.is_current(&token) { return Err(session); }   (no lock held)
CheckBeforeLock(a) ==
    /\ at[a] = "begun"
    /\ at' = [at EXCEPT ![a] = IF TokenIsCurrent(a) THEN "checked" ELSE "refused"]
    /\ UNCHANGED <<generations, sessions, holder, tokenId, tokenGen, previous>>

\* let mut sessions = self.lock();
LockSessions(a) ==
    /\ at[a] = "checked"
    /\ holder = Nobody
    /\ holder' = a
    /\ at' = [at EXCEPT ![a] = "locked"]
    /\ UNCHANGED <<generations, sessions, tokenId, tokenGen, previous>>

\* Mutant: the first check is taken to be enough.
TrustFirstCheck(a) ==
    /\ at[a] = "locked"
    /\ at' = [at EXCEPT ![a] = "fenced"]
    /\ UNCHANGED <<generations, sessions, holder, tokenId, tokenGen, previous>>

\* The second is_current, under the lock; Err(session) drops the guard.
CheckUnderLock(a) ==
    /\ at[a] = "locked"
    /\ \/ /\ TokenIsCurrent(a)
          /\ at' = [at EXCEPT ![a] = "fenced"]
          /\ UNCHANGED holder
       \/ /\ ~TokenIsCurrent(a)
          /\ at' = [at EXCEPT ![a] = "refused"]
          /\ holder' = Nobody
    /\ UNCHANGED <<generations, sessions, tokenId, tokenGen, previous>>

\* Ok(sessions.insert(token.connection_id(), session)), then the guard drops.
Install(a) ==
    /\ at[a] = "fenced"
    /\ sessions' = [sessions EXCEPT ![tokenId[a]] = a]
    /\ previous' = [previous EXCEPT ![a] = sessions[tokenId[a]]]
    /\ holder' = Nobody
    /\ at' = [at EXCEPT ![a] = "installed"]
    /\ UNCHANGED <<generations, tokenId, tokenGen>>

\* remove(id): waits for the sessions mutex.
Remove(id) ==
    /\ holder = Nobody
    /\ sessions' = [sessions EXCEPT ![id] = Nobody]
    /\ UNCHANGED <<generations, holder, at, tokenId, tokenGen, previous>>

\* insert_if_current runs to its end once called.
InsertIfCurrentStep(a) ==
    CheckBeforeLock(a) \/ LockSessions(a) \/ CheckUnderLock(a) \/ Install(a)

=============================================================================
