---------------------------- MODULE ManagerProofs ----------------------------
(***************************************************************************)
(* The connection manager leaks no driver, keeps its three maps in         *)
(* lockstep and implements the connection table, for every number of       *)
(* connects, disconnects and queries and every set of guessable ids.       *)
(*                                                                         *)
(* None of the three is inductive.  A driver that is up and no longer      *)
(* published is somebody's because one particular disconnect took the      *)
(* entry and still has it; the other disconnects of the same id own        *)
(* nothing.  The invariant below names that call.                          *)
(***************************************************************************)
EXTENDS ConnectionManager, TLAPS

\* The connect call's two program counters agree, and the token it offers to
\* insert_if_current is that of its own id.
CallState ==
    \A c \in Ids :
        /\ phase[c] \in {"new", "rejected"} => at[c] = "idle"
        /\ phase[c] \in {"connecting", "applying", "failed", "dropped"} => at[c] = "begun"
        /\ phase[c] = "finishing" => at[c] # "idle"
        /\ phase[c] = "superseded" => at[c] = "refused"
        /\ phase[c] = "ok" => at[c] = "installed"
        /\ at[c] # "idle" => tokenId[c] = c

\* Nobody installs under an id but the connect call of that id, and it finds
\* the place empty.
OwnSession ==
    \A c \in Ids :
        /\ sessions[c] # Nobody => sessions[c] = c /\ at[c] = "installed"
        /\ previous[c] = Nobody

\* The driver follows the connect call up to the publication.
DriverState ==
    \A c \in Ids :
        /\ phase[c] \in {"new", "rejected", "connecting", "failed"} => driver[c] = "none"
        /\ phase[c] \in {"applying", "finishing"} => driver[c] = "up"
        /\ phase[c] \in {"superseded", "dropped"} => driver[c] = "down"
        /\ c \in entries => phase[c] = "ok" /\ driver[c] = "up"

\* What a disconnect that has begun knows of its target.
Closing ==
    \A d \in Disconnects : dpc[d] # "idle" =>
        /\ dtarget[d] \in Ids
        /\ dtarget[d] \in Guessable \/ phase[dtarget[d]] = "ok"
        /\ dtarget[d] \in entries => dtarget[d] \in Guessable
        /\ dentry[d] => phase[dtarget[d]] = "ok" /\ dtarget[d] \notin entries
        /\ dentry[d] /\ dpc[d] # "entryGone" => sessions[dtarget[d]] = Nobody
        /\ dpc[d] = "closing" => dentry[d]

\* get hands out drivers of published ids only.
UsedDriver ==
    \A q \in Queries : qpc[q] = "using" => qhandle[q] \in Ids /\ phase[qhandle[q]] = "ok"

\* The disconnect d took the entry of c and has got to one of the locations.
TookEntry(d, c, locations) == dtarget[d] = c /\ dentry[d] /\ dpc[d] \in locations

\* Who owns a driver that is up.
Owned ==
    \A c \in Ids : driver[c] = "up" =>
        \/ ConnectInFlight(c)
        \/ c \in entries
        \/ \E d \in Disconnects : TookEntry(d, c, {"entryGone", "sessionGone", "closing"})
        \/ Users(c) # {} /\ \E d \in Disconnects : TookEntry(d, c, {"done"})

\* Who will remove a session, and who a generation counter.
Removable ==
    \A c \in Ids : phase[c] = "ok" =>
        /\ sessions[c] # Nobody =>
              c \in entries \/ \E d \in Disconnects : TookEntry(d, c, {"entryGone"})
        /\ c \in entries /\ c \notin Guessable => sessions[c] = c
        /\ generations[c] # NoGeneration =>
              \/ c \in entries
              \/ c \in Guessable /\ \E d \in Disconnects : dtarget[d] = c
              \/ \E d \in Disconnects : TookEntry(d, c, {"entryGone", "sessionGone"})

\* Only a disconnect that named the id early takes the generation away from a
\* connect call, or the session from one that has not published it yet.
Undisturbed ==
    \A c \in Ids :
        /\ phase[c] \in {"new", "rejected"} => generations[c] = NoGeneration
        /\ \/ \E d \in Disconnects : dtarget[d] = c /\ dpc[d] # "idle"
           \/ /\ ConnectInFlight(c) => generations[c] = tokenGen[c]
              /\ at[c] # "refused"
              /\ at[c] = "installed" => sessions[c] = c

IndInv ==
    /\ TypeOK /\ CallState /\ OwnSession /\ DriverState /\ Closing
    /\ UsedDriver /\ Owned /\ Removable /\ Undisturbed

-----------------------------------------------------------------------------
USE GenModulusAssumption, RegistryAssumption, ManagerAssumption

(* wrapping_add(1) stays in u64: a counter is never mistaken for a missing  *)
(* entry.                                                                   *)
LEMMA NextGenerationType ==
    ASSUME NEW g \in Generation \cup {NoGeneration}
    PROVE  NextGeneration(g) \in Generation /\ NextGeneration(g) # NoGeneration
  <1>1. CASE g = NoGeneration
    BY <1>1 DEF NextGeneration, Generation, NoGeneration
  <1>2. CASE g # NoGeneration
    <2>1. (g + 1) % GenModulus \in 0 .. GenModulus - 1
      BY <1>2 DEF Generation, NoGeneration
    <2>. QED  BY <1>2, <2>1 DEF NextGeneration, Generation, NoGeneration
  <1>. QED  BY <1>1, <1>2

(* The inductive invariant holds initially. *)
LEMMA InitIndInv == Init => IndInv
  BY DEF Init, RegInit, EmptyGenerations, IndInv, TypeOK, RegTypeOK, CallState,
         OwnSession, DriverState, Closing, UsedDriver, Owned, Removable,
         Undisturbed, ConnectInFlight, Users, TookEntry, Locations, Phases,
         NoGeneration

(* Every step of a connect, a disconnect or a query preserves it. *)
LEMMA NextIndInv == IndInv /\ [Next]_vars => IndInv'
  <1>. SUFFICES ASSUME IndInv, [Next]_vars PROVE IndInv'
    OBVIOUS
  <1>. USE DEF IndInv, TypeOK, RegTypeOK
  <1>1. ASSUME NEW c \in Ids, ConnectUnknownType(c) PROVE IndInv'
    <2>. USE <1>1 DEF ConnectUnknownType, Goto, regVars, callVars
    <2>1. /\ TypeOK' /\ CallState' /\ OwnSession' /\ DriverState' /\ Closing'
          /\ UsedDriver' /\ Owned' /\ Removable' /\ Undisturbed'
      BY DEF Phases, CallState, OwnSession, DriverState, Closing, UsedDriver,
         Owned, ConnectInFlight, Users, TookEntry, Removable, Undisturbed
    <2>. QED  BY <2>1
  <1>2. ASSUME NEW c \in Ids, ConnectBegin(c) PROVE IndInv'
    <2>. USE <1>2 DEF ConnectBegin, Begin, AfterBegin, Goto, callVars
    <2>1. TypeOK'
      BY NextGenerationType DEF Locations, Phases
    <2>2. /\ CallState' /\ OwnSession' /\ DriverState' /\ Closing'
          /\ UsedDriver' /\ Owned' /\ Removable' /\ Undisturbed'
      BY DEF CallState, OwnSession, DriverState, Closing, UsedDriver, Owned,
         ConnectInFlight, Users, TookEntry, Removable, Undisturbed
    <2>. QED  BY <2>1, <2>2
  <1>3. ASSUME NEW c \in Ids, DriverConnected(c) PROVE IndInv'
    <2>. USE <1>3 DEF DriverConnected, Goto, regVars, callVars
    <2>1. /\ TypeOK' /\ CallState' /\ OwnSession' /\ DriverState' /\ Closing'
          /\ UsedDriver' /\ Owned' /\ Removable' /\ Undisturbed'
      BY DEF Phases, CallState, OwnSession, DriverState, Closing, UsedDriver,
         Owned, ConnectInFlight, Users, TookEntry, Removable, Undisturbed
    <2>. QED  BY <2>1
  <1>4. ASSUME NEW c \in Ids, DriverConnectFailed(c) PROVE IndInv'
    <2>. USE <1>4 DEF DriverConnectFailed, Invalidate, AfterInvalidate, Goto,
             callVars
    <2>1. TypeOK'
      BY NextGenerationType DEF Phases
    <2>2. /\ CallState' /\ OwnSession' /\ DriverState' /\ Closing'
          /\ UsedDriver' /\ Removable' /\ Undisturbed'
      BY DEF CallState, OwnSession, DriverState, Closing, UsedDriver,
         Removable, TookEntry, Undisturbed, ConnectInFlight
    <2>3. Owned'
      BY DEF Owned, ConnectInFlight, Users, TookEntry, DriverState
    <2>. QED  BY <2>1, <2>2, <2>3
  <1>5. ASSUME NEW c \in Ids, ApplyQueryTimeout(c) PROVE IndInv'
    <2>. USE <1>5 DEF ApplyQueryTimeout, Goto, regVars, callVars
    <2>1. /\ TypeOK' /\ CallState' /\ OwnSession' /\ DriverState' /\ Closing'
          /\ UsedDriver' /\ Owned' /\ Removable' /\ Undisturbed'
      BY DEF Phases, CallState, OwnSession, DriverState, Closing, UsedDriver,
         Owned, ConnectInFlight, Users, TookEntry, Removable, Undisturbed
    <2>. QED  BY <2>1
  <1>6. ASSUME NEW c \in Ids, ConnectDropped(c) PROVE IndInv'
    <2>. USE <1>6 DEF ConnectDropped, Goto, regVars, callVars
    <2>1. /\ TypeOK' /\ CallState' /\ OwnSession' /\ DriverState' /\ Closing'
          /\ UsedDriver' /\ Owned' /\ Removable' /\ Undisturbed'
      BY DEF Phases, CallState, OwnSession, DriverState, Closing, UsedDriver,
         Owned, ConnectInFlight, Users, TookEntry, Removable, Undisturbed
    <2>. QED  BY <2>1
  <1>7. ASSUME NEW c \in Ids, FinishConnectInsert(c) PROVE IndInv'
    <2>. USE <1>7 DEF FinishConnectInsert, InsertIfCurrentStep,
             CheckBeforeLock, LockSessions, CheckUnderLock, Install,
             TokenIsCurrent, IsCurrent, mgrVars
    <2>1. TypeOK'
      BY DEF Locations, CallState
    <2>2. CallState' /\ DriverState' /\ UsedDriver' /\ Owned'
      BY DEF CallState, DriverState, UsedDriver, Owned, ConnectInFlight,
         Users, TookEntry
    <2>3. OwnSession'
      BY DEF OwnSession, CallState
    <2>4. Closing'
      BY DEF Closing, CallState
    <2>5. Removable'
      BY DEF Removable, TookEntry, CallState
    <2>6. Undisturbed'
      BY DEF Undisturbed, ConnectInFlight, CallState
    <2>. QED  BY <2>1, <2>2, <2>3, <2>4, <2>5, <2>6
  <1>8. ASSUME NEW c \in Ids, FinishConnectSuperseded(c) PROVE IndInv'
    <2>. USE <1>8 DEF FinishConnectSuperseded, Goto, regVars, callVars
    <2>1. /\ TypeOK' /\ CallState' /\ OwnSession' /\ DriverState' /\ Closing'
          /\ UsedDriver' /\ Owned' /\ Removable' /\ Undisturbed'
      BY DEF Phases, CallState, OwnSession, DriverState, Closing, UsedDriver,
         Owned, ConnectInFlight, Users, TookEntry, Removable, Undisturbed
    <2>. QED  BY <2>1
  <1>9. ASSUME NEW c \in Ids, Publish(c) PROVE IndInv'
    <2>. USE <1>9 DEF Publish, Goto, regVars, callVars
    <2>1. /\ TypeOK' /\ CallState' /\ OwnSession' /\ Closing'
          /\ UsedDriver' /\ Owned' /\ Undisturbed'
      BY DEF Phases, CallState, OwnSession, Closing, UsedDriver, Owned,
         ConnectInFlight, Users, TookEntry, Undisturbed
    <2>2. DriverState'
      BY DEF DriverState, OwnSession
    <2>3. Removable'
      BY DEF Removable, TookEntry, Undisturbed, Closing
    <2>. QED  BY <2>1, <2>2, <2>3
  <1>10. ASSUME NEW d \in Disconnects, NEW c \in Ids, DisconnectEntry(d, c)
         PROVE  IndInv'
    <2>. USE <1>10 DEF DisconnectEntry, Nameable, regVars
    <2>1. /\ dentry'[d] <=> c \in entries
          /\ \A e \in Disconnects : e # d => dentry'[e] = dentry[e]
      BY Zenon
    <2>2. /\ TypeOK' /\ CallState' /\ OwnSession' /\ DriverState'
          /\ UsedDriver' /\ Undisturbed'
      BY DEF CallState, OwnSession, DriverState, UsedDriver, Undisturbed,
         ConnectInFlight
    <2>3. Closing'
      BY <2>1 DEF Closing, DriverState
    <2>4. Owned'
      \* The call that found the entry is the driver's new owner.
      BY <2>1 DEF Owned, ConnectInFlight, Users, TookEntry
    <2>5. Removable'
      BY <2>1 DEF Removable, TookEntry, Undisturbed, CallState
    <2>. QED  BY <2>2, <2>3, <2>4, <2>5
  <1>11. ASSUME NEW d \in Disconnects, DisconnectSession(d) PROVE IndInv'
    <2>. USE <1>11 DEF DisconnectSession, Remove
    <2>1. /\ TypeOK' /\ CallState' /\ OwnSession' /\ DriverState'
          /\ Closing' /\ UsedDriver' /\ Owned' /\ Undisturbed'
      BY DEF CallState, OwnSession, DriverState, Closing, UsedDriver, Owned,
         ConnectInFlight, Users, TookEntry, Undisturbed
    <2>2. Removable'
      BY DEF Removable, TookEntry, Closing
    <2>. QED  BY <2>1, <2>2
  <1>12. ASSUME NEW d \in Disconnects, DisconnectForget(d) PROVE IndInv'
    <2>. USE <1>12 DEF DisconnectForget, Forget, AfterForget
    <2>1. /\ TypeOK' /\ CallState' /\ OwnSession' /\ DriverState' /\ Closing'
          /\ UsedDriver' /\ Owned' /\ Removable' /\ Undisturbed'
      BY DEF CallState, OwnSession, DriverState, Closing, UsedDriver, Owned,
         ConnectInFlight, Users, TookEntry, Removable, Undisturbed
    <2>. QED  BY <2>1
  <1>13. ASSUME NEW d \in Disconnects, DisconnectDriver(d) PROVE IndInv'
    <2>. USE <1>13 DEF DisconnectDriver, regVars
    <2>1. /\ TypeOK' /\ CallState' /\ OwnSession' /\ Closing'
          /\ UsedDriver' /\ Owned' /\ Removable' /\ Undisturbed'
      BY DEF CallState, OwnSession, Closing, UsedDriver, Owned,
         ConnectInFlight, Users, TookEntry, Removable, Undisturbed
    <2>2. DriverState'
      BY DEF DriverState, Closing
    <2>. QED  BY <2>1, <2>2
  <1>14. ASSUME NEW d \in Disconnects, DisconnectDriverFails(d) PROVE IndInv'
    <2>. USE <1>14 DEF DisconnectDriverFails, regVars
    <2>1. /\ TypeOK' /\ CallState' /\ OwnSession' /\ Closing'
          /\ UsedDriver' /\ Owned' /\ Removable' /\ Undisturbed'
      BY DEF CallState, OwnSession, Closing, UsedDriver, Owned,
         ConnectInFlight, Users, TookEntry, Removable, Undisturbed
    <2>2. DriverState'
      BY DEF DriverState, Closing
    <2>. QED  BY <2>1, <2>2
  <1>15. ASSUME NEW q \in Queries, NEW c \in Ids, GetDriver(q, c)
         PROVE  IndInv'
    <2>. USE <1>15 DEF GetDriver, Nameable, regVars
    <2>1. /\ TypeOK' /\ CallState' /\ OwnSession' /\ DriverState'
          /\ Closing' /\ Removable' /\ Undisturbed'
      BY DEF CallState, OwnSession, DriverState, Closing, ConnectInFlight,
         TookEntry, Removable, Undisturbed
    <2>2. UsedDriver'
      BY DEF UsedDriver, DriverState
    <2>3. Owned'
      BY DEF Owned, ConnectInFlight, Users, TookEntry
    <2>. QED  BY <2>1, <2>2, <2>3
  <1>16. ASSUME NEW q \in Queries, QueryReturns(q) PROVE IndInv'
    <2>. USE <1>16 DEF QueryReturns, HeldElsewhere, regVars
    <2>1. /\ TypeOK' /\ CallState' /\ OwnSession' /\ Closing'
          /\ UsedDriver' /\ Removable' /\ Undisturbed'
      BY DEF CallState, OwnSession, Closing, UsedDriver, Removable, TookEntry,
         Undisturbed, ConnectInFlight
    <2>2. DriverState'
      BY DEF DriverState, UsedDriver
    <2>3. Owned'
      \* The last user of a driver whose disconnect failed: the session went
      \* before, so the driver closes with this query.
      BY DEF Owned, ConnectInFlight, Users, TookEntry, OwnSession, Closing
    <2>. QED  BY <2>1, <2>2, <2>3
  <1>17. CASE UNCHANGED vars
    BY <1>17 DEF vars, CallState, OwnSession, DriverState, Closing,
       UsedDriver, Owned, Removable, Undisturbed, ConnectInFlight, Users,
       TookEntry
  <1>. QED
    BY <1>1, <1>2, <1>3, <1>4, <1>5, <1>6, <1>7, <1>8, <1>9, <1>10, <1>11,
       <1>12, <1>13, <1>14, <1>15, <1>16, <1>17
       DEF Next, ConnectStep, DisconnectStep, Quiescent

(* The inductive invariant is an invariant. *)
LEMMA IndInvHolds == Spec => []IndInv
  BY InitIndInv, NextIndInv, PTL DEF Spec

(* The variables of the manager and of its registry keep their types.       *)
THEOREM ManagerTypeCorrect == Spec => []TypeOK
  <1>1. IndInv => TypeOK
    BY DEF IndInv
  <1>. QED  BY <1>1, IndInvHolds, PTL

(* finish_connect's promise: no driver that is up is out of reach of every  *)
(* caller, whatever connects, disconnects, queries and dropped futures      *)
(* interleave.                                                              *)
THEOREM ManagerLeaksNoDriver == Spec => []NoLeakedDriver
  <1>1. IndInv => NoLeakedDriver
    BY DEF IndInv, Owned, TookEntry, NoLeakedDriver, DisconnectInFlight
  <1>. QED  BY <1>1, IndInvHolds, PTL

(* Entries, sessions and generation counters stay in lockstep.              *)
THEOREM ManagerInLockstep == Spec => []Lockstep
  <1>1. IndInv => Lockstep
    <2>. SUFFICES ASSUME IndInv PROVE Lockstep
      OBVIOUS
    <2>1. Backed
      BY DEF IndInv, TypeOK, DriverState, Removable, Backed
    <2>2. NoStraySession
      \* Only a published or a publishing call has a session.
      BY DEF IndInv, TypeOK, Phases, CallState, OwnSession, Removable,
         TookEntry, NoStraySession, ConnectInFlight, DisconnectInFlight
    <2>3. CountersAccounted
      <3>. SUFFICES ASSUME NEW c \in Ids, generations[c] # NoGeneration,
                           ~ConnectInFlight(c), phase[c] \notin {"failed", "dropped"}
                    PROVE  \/ DisconnectInFlight(c) \/ c \in entries
                           \/ c \in Guessable /\ \E d \in Disconnects : dtarget[d] = c
        BY DEF CountersAccounted
      <3>1. CASE phase[c] = "ok"
        BY <3>1 DEF IndInv, Removable, TookEntry, DisconnectInFlight
      <3>2. CASE phase[c] = "superseded"
        \* Its attempt was refused: an early disconnect forgot its counter.
        BY <3>2 DEF IndInv, CallState, Undisturbed, Closing
      <3>3. phase[c] \in {"ok", "superseded"}
        BY DEF IndInv, TypeOK, Phases, Undisturbed, ConnectInFlight
      <3>. QED  BY <3>1, <3>2, <3>3
    <2>. QED  BY <2>1, <2>2, <2>3 DEF Lockstep
  <1>. QED  BY <1>1, IndInvHolds, PTL

(* For its callers the manager is the connection table: an id opens at most *)
(* once, with the publication of its entry, and closes at most once, with   *)
(* the removal of the entry.                                                *)
THEOREM ManagerImplementsTable == Spec => ImplementsTable
  <1>1. Init => Table!TableInit
    BY DEF Init, Table!TableInit, tableOf
  <1>2. IndInv /\ [Next]_vars => [Table!TableNext]_tableOf
    <2>. SUFFICES ASSUME IndInv, [Next]_vars PROVE [Table!TableNext]_tableOf
      OBVIOUS
    <2>. USE DEF IndInv, TypeOK, DriverState, tableOf
    <2>1. ASSUME NEW c \in Ids, Publish(c) PROVE Table!Open(c)
      BY <2>1 DEF Publish, Goto, Table!Open
    <2>2. ASSUME NEW d \in Disconnects, NEW c \in Ids, DisconnectEntry(d, c)
          PROVE  Table!Close(c) \/ UNCHANGED tableOf
      <3>1. CASE c \in entries
        BY <2>2, <3>1 DEF DisconnectEntry, Table!Close
      <3>2. CASE c \notin entries
        BY <2>2, <3>2 DEF DisconnectEntry
      <3>. QED  BY <3>1, <3>2
    <2>3. ASSUME NEW c \in Ids, ConnectStep(c), ~Publish(c) PROVE UNCHANGED tableOf
      \* No other step of connect publishes, or leaves "ok".
      <3>1. /\ entries' = entries
            /\ \A x \in Ids : phase'[x] = "ok" <=> phase[x] = "ok"
        BY <2>3 DEF ConnectStep, ConnectUnknownType, ConnectBegin, DriverConnected,
           DriverConnectFailed, ApplyQueryTimeout, ConnectDropped, FinishConnectInsert,
           FinishConnectSuperseded, Goto, mgrVars
      <3>. QED  BY <3>1
    <2>4. ASSUME UNCHANGED <<phase, entries>> PROVE UNCHANGED tableOf
      BY <2>4
    <2>5. ASSUME \/ \E d \in Disconnects : DisconnectStep(d)
                 \/ \E q \in Queries, c \in Ids : GetDriver(q, c)
                 \/ \E q \in Queries : QueryReturns(q)
                 \/ UNCHANGED vars
          PROVE  UNCHANGED tableOf
      BY <2>4, <2>5 DEF DisconnectStep, DisconnectSession, DisconnectForget,
         DisconnectDriver, DisconnectDriverFails, GetDriver, QueryReturns, vars
    <2>. QED
      BY <2>1, <2>2, <2>3, <2>5 DEF Next, Quiescent, Table!TableNext
  <1>. QED  BY <1>1, <1>2, IndInvHolds, PTL DEF Spec, ImplementsTable, Table!TableSpec
=============================================================================
