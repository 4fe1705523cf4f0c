--------------------------- MODULE RegistryHistory ---------------------------
(***************************************************************************)
(* The registry crate used by any number of attempts on any ids, with      *)
(* history variables that say when things happened.  `clock` counts the    *)
(* changes of the generation map; the history never enables or disables a  *)
(* step of SessionRegistry.                                                *)
(***************************************************************************)
EXTENDS SessionRegistry

CONSTANT MaxEvents      \* bound on begin, invalidate and forget together

\* Fewer events than counter values: the counter does not wrap.
ASSUME MaxEventsAssumption == MaxEvents \in Nat /\ MaxEvents < GenModulus

VARIABLES clock,        \* changes of the generation map so far
          born,         \* born[a]: the clock after a's begin
          bumpedAt,     \* the clock after the last begin or invalidate of an id
          forgotAt,     \* the clock after the last forget of an id
          fencedAt      \* the clock when a passed the check under the lock

histVars == <<clock, born, bumpedAt, forgotAt, fencedAt>>
vars == <<generations, sessions, holder, at, tokenId, tokenGen, previous,
          clock, born, bumpedAt, forgotAt, fencedAt>>

TypeOK ==
    /\ RegTypeOK
    /\ clock \in 0 .. MaxEvents
    /\ born \in [Attempts -> 0 .. MaxEvents]
    /\ bumpedAt \in [Ids -> 0 .. MaxEvents]
    /\ forgotAt \in [Ids -> 0 .. MaxEvents]
    /\ fencedAt \in [Attempts -> 0 .. MaxEvents]

Init ==
    /\ RegInit
    /\ clock = 0
    /\ born = [a \in Attempts |-> 0]
    /\ bumpedAt = [id \in Ids |-> 0]
    /\ forgotAt = [id \in Ids |-> 0]
    /\ fencedAt = [a \in Attempts |-> 0]

Tick == clock < MaxEvents /\ clock' = clock + 1

BeginH(a, id) ==
    /\ Begin(a, id)
    /\ Tick
    /\ born' = [born EXCEPT ![a] = clock + 1]
    /\ bumpedAt' = [bumpedAt EXCEPT ![id] = clock + 1]
    /\ UNCHANGED <<forgotAt, fencedAt>>

InvalidateH(id) ==
    /\ Invalidate(id)
    /\ Tick
    /\ bumpedAt' = [bumpedAt EXCEPT ![id] = clock + 1]
    /\ UNCHANGED <<born, forgotAt, fencedAt>>

ForgetH(id) ==
    /\ Forget(id)
    /\ Tick
    /\ forgotAt' = [forgotAt EXCEPT ![id] = clock + 1]
    /\ UNCHANGED <<born, bumpedAt, fencedAt>>

CheckBeforeLockH(a) == CheckBeforeLock(a) /\ UNCHANGED histVars

LockSessionsH(a) == LockSessions(a) /\ UNCHANGED histVars

CheckUnderLockH(a) ==
    /\ CheckUnderLock(a)
    /\ fencedAt' = [fencedAt EXCEPT ![a] = IF at'[a] = "fenced" THEN clock ELSE @]
    /\ UNCHANGED <<clock, born, bumpedAt, forgotAt>>

InstallH(a) == Install(a) /\ UNCHANGED histVars

RemoveH(id) == Remove(id) /\ UNCHANGED histVars

AttemptStep(a) ==
    CheckBeforeLockH(a) \/ LockSessionsH(a) \/ CheckUnderLockH(a) \/ InstallH(a)

Next ==
    \/ \E a \in Attempts, id \in Ids : BeginH(a, id)
    \/ \E a \in Attempts : AttemptStep(a)
    \/ \E id \in Ids : InvalidateH(id) \/ ForgetH(id) \/ RemoveH(id)

Spec == Init /\ [][Next]_vars

-----------------------------------------------------------------------------
Forgotten(a) == forgotAt[tokenId[a]] > born[a]

(***************************************************************************)
(* The fence: a session is never replaced by the session of an attempt     *)
(* that began earlier, unless forget(id) ran after that attempt began.     *)
(* This is what the second is_current under the sessions lock is for       *)
(* (session_registry.rs:52-56, 74).                                        *)
(***************************************************************************)
NoClobber ==
    [][\A id \in Ids :
          (/\ sessions[id] # Nobody
           /\ sessions'[id] # Nobody
           /\ sessions'[id] # sessions[id])
          => \/ born[sessions[id]] < born[sessions'[id]]
             \/ Forgotten(sessions'[id])]_vars

(***************************************************************************)
(* How stale an installed session can be: if a newer begin or an           *)
(* invalidate came after the attempt's own begin, it came after the check  *)
(* under the lock (the window the doc comment of insert_if_current says is *)
(* narrowed and not closed), or the id was forgotten in between.           *)
(***************************************************************************)
StaleInstallOnlyInWindow ==
    [][\A a \in Attempts :
          (at[a] = "fenced" /\ at'[a] = "installed")
          => \/ bumpedAt[tokenId[a]] = born[a]
             \/ bumpedAt[tokenId[a]] > fencedAt[a]
             \/ Forgotten(a)]_vars
=============================================================================
