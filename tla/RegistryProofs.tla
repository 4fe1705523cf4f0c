---------------------------- MODULE RegistryProofs ----------------------------
(***************************************************************************)
(* The registry's fence holds for every set of ids and attempts and for    *)
(* every bound on the number of events below the counter's modulus.        *)
(*                                                                         *)
(* NoClobber is not inductive: that an attempt which passed the check      *)
(* under the lock is newer than the installed session follows from the     *)
(* order of the tokens of one era of an id (the time since its last        *)
(* forget), and that no session changes while the lock is held.            *)
(***************************************************************************)
EXTENDS RegistryHistory, TLAPS

Begun(a) == at[a] # "idle"

\* The history lies in the past and begun attempts have a real id.
Past ==
    /\ \A id \in Ids : /\ generations[id] <= clock
                       /\ bumpedAt[id] <= clock
                       /\ forgotAt[id] <= clock
    /\ \A a \in Attempts : /\ born[a] <= clock
                           /\ fencedAt[a] <= clock
                           /\ Begun(a) => tokenId[a] \in Ids

\* In one era of an id, tokens grow with the attempts' order and stay below
\* the counter; the newest token is the last thing that bumped it.
EraOrder ==
    /\ \A a \in Attempts :
         (Begun(a) /\ ~Forgotten(a)) =>
            /\ tokenGen[a] <= generations[tokenId[a]]
            /\ tokenGen[a] = generations[tokenId[a]] => bumpedAt[tokenId[a]] = born[a]
    /\ \A a, b \in Attempts :
         (/\ Begun(a) /\ Begun(b)
          /\ tokenId[a] = tokenId[b]
          /\ ~Forgotten(a)
          /\ born[a] < born[b])
         => tokenGen[a] < tokenGen[b]
    /\ \A a, b \in Attempts :
         (Begun(a) /\ Begun(b) /\ born[a] = born[b]) => a = b

\* The sessions mutex and the session map.
LockDiscipline ==
    /\ \A a \in Attempts : at[a] \in {"locked", "fenced"} <=> holder = a
    /\ \A id \in Ids : sessions[id] # Nobody =>
         /\ at[sessions[id]] = "installed"
         /\ tokenId[sessions[id]] = id

\* What an attempt that passed the second check may rely on.
Fenced ==
    \A a \in Attempts : at[a] = "fenced" =>
        /\ \/ sessions[tokenId[a]] = Nobody
           \/ born[sessions[tokenId[a]]] < born[a]
           \/ Forgotten(a)
        /\ \/ bumpedAt[tokenId[a]] = born[a]
           \/ bumpedAt[tokenId[a]] > fencedAt[a]
           \/ Forgotten(a)

IndInv == TypeOK /\ Past /\ EraOrder /\ LockDiscipline /\ Fenced

-----------------------------------------------------------------------------
USE GenModulusAssumption, RegistryAssumption, MaxEventsAssumption

(* A number below the modulus is its own remainder. *)
LEMMA ModSmall ==
    ASSUME NEW x \in Nat, NEW m \in Nat, x < m
    PROVE  x % m = x
  OBVIOUS

(* Below the event bound wrapping_add(1) does not wrap. *)
LEMMA NoWrap ==
    ASSUME NEW g \in Generation \cup {NoGeneration},
           NEW c \in Nat, c < MaxEvents, g <= c
    PROVE  /\ NextGeneration(g) = IF g = NoGeneration THEN 1 ELSE g + 1
           /\ NextGeneration(g) \in Generation
           /\ NextGeneration(g) <= c + 1
           /\ g < NextGeneration(g)
  <1>1. CASE g = NoGeneration
    BY <1>1 DEF NextGeneration, Generation, NoGeneration
  <1>2. CASE g # NoGeneration
    <2>1. g + 1 \in Nat /\ g + 1 < GenModulus
      BY <1>2 DEF Generation, NoGeneration
    <2>2. (g + 1) % GenModulus = g + 1
      BY <2>1, ModSmall
    <2>. QED  BY <1>2, <2>1, <2>2 DEF NextGeneration, Generation, NoGeneration
  <1>. QED  BY <1>1, <1>2

(* The inductive invariant holds initially. *)
LEMMA InitIndInv == Init => IndInv
  BY DEF Init, RegInit, EmptyGenerations, IndInv, TypeOK, RegTypeOK, Past,
         EraOrder, LockDiscipline, Fenced, Begun, Locations, NoGeneration

(* Every step of the registry preserves the inductive invariant. *)
LEMMA NextIndInv == IndInv /\ [Next]_vars => IndInv'
  <1>. SUFFICES ASSUME IndInv, [Next]_vars PROVE IndInv'
    OBVIOUS
  <1>. USE DEF IndInv
  <1>1. ASSUME NEW a \in Attempts, NEW id \in Ids, BeginH(a, id)
        PROVE  IndInv'
    <2>. USE <1>1 DEF BeginH, Begin, Tick, AfterBegin
    <2>1. /\ NextGeneration(generations[id]) \in Generation
          /\ NextGeneration(generations[id]) <= clock + 1
          /\ generations[id] < NextGeneration(generations[id])
      BY NoWrap DEF TypeOK, RegTypeOK, Past
    <2>2. TypeOK'
      BY <2>1 DEF TypeOK, RegTypeOK, Locations
    <2>3. Past'
      BY <2>1, <2>2 DEF TypeOK, RegTypeOK, Past, Begun, Generation, NoGeneration
    <2>4. EraOrder'
      BY <2>1, <2>2 DEF TypeOK, RegTypeOK, Past, EraOrder, Begun, Forgotten, Generation, NoGeneration
    <2>5. LockDiscipline'
      BY DEF TypeOK, RegTypeOK, LockDiscipline
    <2>6. Fenced'
      BY DEF TypeOK, RegTypeOK, Past, LockDiscipline, Fenced, Begun, Forgotten
    <2>. QED  BY <2>2, <2>3, <2>4, <2>5, <2>6
  <1>2. ASSUME NEW id \in Ids, InvalidateH(id)
        PROVE  IndInv'
    <2>. USE <1>2 DEF InvalidateH, Invalidate, Tick, AfterInvalidate
    <2>1. /\ NextGeneration(generations[id]) \in Generation
          /\ NextGeneration(generations[id]) <= clock + 1
          /\ generations[id] < NextGeneration(generations[id])
      BY NoWrap DEF TypeOK, RegTypeOK, Past
    <2>2. TypeOK'
      BY <2>1 DEF TypeOK, RegTypeOK
    <2>3. Past'
      BY <2>1, <2>2 DEF TypeOK, RegTypeOK, Past, Begun, Generation, NoGeneration
    <2>4. EraOrder'
      BY <2>1, <2>2 DEF TypeOK, RegTypeOK, Past, EraOrder, Begun, Forgotten, Generation, NoGeneration
    <2>5. LockDiscipline'
      BY DEF LockDiscipline
    <2>6. Fenced'
      BY DEF TypeOK, RegTypeOK, Past, Fenced, Begun, Forgotten
    <2>. QED  BY <2>2, <2>3, <2>4, <2>5, <2>6
  <1>3. ASSUME NEW id \in Ids, ForgetH(id)
        PROVE  IndInv'
    <2>. USE <1>3 DEF ForgetH, Forget, Tick, AfterForget
    <2>1. TypeOK'
      BY DEF TypeOK, RegTypeOK
    <2>2. Past'
      BY DEF TypeOK, RegTypeOK, Past, Begun, Generation, NoGeneration
    <2>3. EraOrder'
      BY DEF TypeOK, RegTypeOK, Past, EraOrder, Begun, Forgotten, Generation, NoGeneration
    <2>4. LockDiscipline'
      BY DEF LockDiscipline
    <2>5. Fenced'
      BY DEF TypeOK, RegTypeOK, Past, Fenced, Begun, Forgotten
    <2>. QED  BY <2>1, <2>2, <2>3, <2>4, <2>5
  <1>4. ASSUME NEW a \in Attempts, CheckBeforeLockH(a)
        PROVE  IndInv'
    <2>. USE <1>4 DEF CheckBeforeLockH, CheckBeforeLock, histVars
    <2>1. TypeOK'
      BY DEF TypeOK, RegTypeOK, Locations
    <2>2. Past' /\ EraOrder'
      BY DEF TypeOK, RegTypeOK, Past, EraOrder, Begun, Forgotten
    <2>3. LockDiscipline' /\ Fenced'
      BY DEF TypeOK, RegTypeOK, LockDiscipline, Fenced, Forgotten
    <2>. QED  BY <2>1, <2>2, <2>3
  <1>5. ASSUME NEW a \in Attempts, LockSessionsH(a)
        PROVE  IndInv'
    <2>. USE <1>5 DEF LockSessionsH, LockSessions, histVars
    <2>1. TypeOK'
      BY DEF TypeOK, RegTypeOK, Locations
    <2>2. Past' /\ EraOrder'
      BY DEF TypeOK, RegTypeOK, Past, EraOrder, Begun, Forgotten
    <2>3. LockDiscipline' /\ Fenced'
      BY DEF TypeOK, RegTypeOK, LockDiscipline, Fenced, Forgotten
    <2>. QED  BY <2>1, <2>2, <2>3
  <1>6. ASSUME NEW a \in Attempts, CheckUnderLockH(a)
        PROVE  IndInv'
    <2>. USE <1>6 DEF CheckUnderLockH, CheckUnderLock
    <2>1. TypeOK'
      BY DEF TypeOK, RegTypeOK, Locations
    <2>2. Past'
      BY DEF TypeOK, RegTypeOK, Past, Begun
    <2>3. EraOrder'
      BY DEF TypeOK, RegTypeOK, EraOrder, Begun, Forgotten
    <2>4. LockDiscipline'
      BY DEF TypeOK, RegTypeOK, LockDiscipline
    <2>5. Fenced'
      <3>1. ASSUME TokenIsCurrent(a), ~Forgotten(a),
                   sessions[tokenId[a]] # Nobody
            PROVE  born[sessions[tokenId[a]]] < born[a]
        \* A newer installed session would have a larger token of a's era.
        <4>. DEFINE p == sessions[tokenId[a]]
        <4>1. tokenId[a] \in Ids /\ Begun(a)
          BY DEF Past, Begun
        <4>2. p \in Attempts /\ Begun(p) /\ tokenId[p] = tokenId[a] /\ p # a
          BY <3>1, <4>1 DEF TypeOK, RegTypeOK, LockDiscipline, Begun
        <4>3. born[a] \in Nat /\ born[p] \in Nat /\ born[p] # born[a]
          BY <4>1, <4>2 DEF TypeOK, EraOrder
        <4>4. ASSUME born[a] < born[p] PROVE FALSE
          <5>1. tokenGen[a] < tokenGen[p]
            BY <3>1, <4>1, <4>2, <4>4 DEF EraOrder
          <5>2. ~Forgotten(p)
            BY <3>1, <4>1, <4>2, <4>3, <4>4 DEF Forgotten, TypeOK
          <5>3. tokenGen[p] <= generations[tokenId[a]]
            BY <4>2, <5>2 DEF EraOrder
          <5>. QED
            BY <3>1, <4>1, <4>2, <5>1, <5>3
               DEF TokenIsCurrent, IsCurrent, TypeOK, RegTypeOK, Generation, NoGeneration
        <4>. QED  BY <4>3, <4>4
      <3>2. ASSUME TokenIsCurrent(a), ~Forgotten(a)
            PROVE  bumpedAt[tokenId[a]] = born[a]
        BY <3>2 DEF EraOrder, Begun, TokenIsCurrent, IsCurrent
      <3>. QED  BY <3>1, <3>2 DEF TypeOK, RegTypeOK, Fenced, Forgotten
    <2>. QED  BY <2>1, <2>2, <2>3, <2>4, <2>5
  <1>7. ASSUME NEW a \in Attempts, InstallH(a)
        PROVE  IndInv'
    <2>. USE <1>7 DEF InstallH, Install, histVars
    <2>1. TypeOK'
      BY DEF TypeOK, RegTypeOK, Locations, Past, Begun
    <2>2. Past' /\ EraOrder'
      BY DEF TypeOK, RegTypeOK, Past, EraOrder, Begun, Forgotten
    <2>3. LockDiscipline'
      BY DEF TypeOK, RegTypeOK, LockDiscipline, Past, Begun
    <2>4. Fenced'
      \* The lock is exclusive: nobody else is fenced.
      BY DEF TypeOK, RegTypeOK, LockDiscipline, Fenced
    <2>. QED  BY <2>1, <2>2, <2>3, <2>4
  <1>8. ASSUME NEW id \in Ids, RemoveH(id)
        PROVE  IndInv'
    <2>. USE <1>8 DEF RemoveH, Remove, histVars
    <2>1. TypeOK'
      BY DEF TypeOK, RegTypeOK
    <2>2. Past' /\ EraOrder'
      BY DEF Past, EraOrder, Begun, Forgotten
    <2>3. LockDiscipline' /\ Fenced'
      BY DEF TypeOK, RegTypeOK, LockDiscipline, Fenced, Forgotten
    <2>. QED  BY <2>1, <2>2, <2>3
  <1>9. CASE UNCHANGED vars
    BY <1>9 DEF vars, TypeOK, RegTypeOK, Past, EraOrder, LockDiscipline, Fenced,
                Begun, Forgotten
  <1>. QED
    BY <1>1, <1>2, <1>3, <1>4, <1>5, <1>6, <1>7, <1>8, <1>9 DEF Next, AttemptStep

(* The inductive invariant is an invariant. *)
LEMMA IndInvHolds == Spec => []IndInv
  BY InitIndInv, NextIndInv, PTL DEF Spec

(* The registry's variables keep their types: in particular a generation    *)
(* counter never leaves u64 and never wraps below the event bound.          *)
THEOREM RegistryTypeCorrect == Spec => []TypeOK
  <1>1. IndInv => TypeOK
    BY DEF IndInv
  <1>. QED  BY <1>1, IndInvHolds, PTL

(* insert_if_current never lets an older attempt replace a newer one's      *)
(* session, whatever begin and invalidate calls interleave with it.         *)
THEOREM RegistryNoClobber == Spec => NoClobber
  <1>. DEFINE Fence ==
         \A id \in Ids :
            (/\ sessions[id] # Nobody
             /\ sessions'[id] # Nobody
             /\ sessions'[id] # sessions[id])
            => \/ born[sessions[id]] < born[sessions'[id]]
               \/ Forgotten(sessions'[id])
  <1>1. IndInv /\ [Next]_vars => [Fence]_vars
    <2>. SUFFICES ASSUME IndInv, Next PROVE Fence
      OBVIOUS
    <2>1. ASSUME NEW a \in Attempts, InstallH(a) PROVE Fence
      BY <2>1 DEF InstallH, Install, IndInv, TypeOK, RegTypeOK, Fenced
    <2>2. ASSUME NEW id \in Ids, RemoveH(id) PROVE Fence
      BY <2>2 DEF RemoveH, Remove, IndInv, TypeOK, RegTypeOK
    <2>3. ASSUME UNCHANGED sessions PROVE Fence
      BY <2>3
    <2>. QED
      BY <2>1, <2>2, <2>3 DEF Next, AttemptStep, BeginH, Begin, InvalidateH,
         Invalidate, ForgetH, Forget, CheckBeforeLockH, CheckBeforeLock,
         LockSessionsH, LockSessions, CheckUnderLockH, CheckUnderLock
  <1>. QED  BY <1>1, IndInvHolds, PTL DEF Spec, NoClobber

(* A session can only be installed stale through the window after the       *)
(* second check of insert_if_current.                                       *)
THEOREM RegistryWindow == Spec => StaleInstallOnlyInWindow
  <1>. DEFINE Window ==
         \A a \in Attempts :
            (at[a] = "fenced" /\ at'[a] = "installed")
            => \/ bumpedAt[tokenId[a]] = born[a]
               \/ bumpedAt[tokenId[a]] > fencedAt[a]
               \/ Forgotten(a)
  <1>1. IndInv /\ [Next]_vars => [Window]_vars
    BY DEF IndInv, Fenced
  <1>. QED  BY <1>1, IndInvHolds, PTL DEF Spec, StaleInstallOnlyInWindow

=============================================================================
