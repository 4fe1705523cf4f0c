-------------------------- MODULE ConnectionManager --------------------------
(***************************************************************************)
(* ConnectionManager (crates/connections/src/manager.rs) on top of the     *)
(* registry: connect, disconnect and get called concurrently by the tools. *)
(*                                                                         *)
(* A connect call c mints its own id with Uuid::new_v4 and builds its own  *)
(* driver, so call, id, attempt and driver are all named c.  The manager's *)
(* three maps (attempts, sessions, entries) have three mutexes, and each   *)
(* action below is one critical section or one await.  A future may be     *)
(* dropped at an await (the HTTP peer went away) and nowhere else.         *)
(***************************************************************************)
EXTENDS SessionRegistry

CONSTANTS Disconnects,  \* calls of disconnect
          Queries,      \* tool calls that get a driver and use it
          Guessable     \* ids a caller may name before they were published

\* Uuid::new_v4 gives every connect call an id of its own.
ASSUME ManagerAssumption ==
    Ids = Attempts /\ Guessable \subseteq Ids /\ Nobody \notin Ids

VARIABLES phase,        \* where each connect call is
          driver,       \* the driver of c: none, up or down
          entries,      \* manager.entries: published ids
          dpc,          \* where each disconnect call is
          dtarget,      \* the id it closes
          dentry,       \* whether entries.remove returned an entry
          qpc,          \* where each query call is
          qhandle       \* the driver it got

mgrVars == <<phase, driver, entries, dpc, dtarget, dentry, qpc, qhandle>>
vars == <<generations, sessions, holder, at, tokenId, tokenGen, previous,
          phase, driver, entries, dpc, dtarget, dentry, qpc, qhandle>>

Phases == {"new", "connecting", "applying", "finishing",
           "ok", "failed", "superseded", "rejected", "dropped"}

TypeOK ==
    /\ RegTypeOK
    /\ phase \in [Ids -> Phases]
    /\ driver \in [Ids -> {"none", "up", "down"}]
    /\ entries \subseteq Ids
    /\ dpc \in [Disconnects -> {"idle", "entryGone", "sessionGone", "closing", "done"}]
    /\ dtarget \in [Disconnects -> Ids \cup {NoId}]
    /\ dentry \in [Disconnects -> BOOLEAN]
    /\ qpc \in [Queries -> {"idle", "using", "done", "notFound"}]
    /\ qhandle \in [Queries -> Ids \cup {NoId}]

Init ==
    /\ RegInit
    /\ phase = [c \in Ids |-> "new"]
    /\ driver = [c \in Ids |-> "none"]
    /\ entries = {}
    /\ dpc = [d \in Disconnects |-> "idle"]
    /\ dtarget = [d \in Disconnects |-> NoId]
    /\ dentry = [d \in Disconnects |-> FALSE]
    /\ qpc = [q \in Queries |-> "idle"]
    /\ qhandle = [q \in Queries |-> NoId]

callVars == <<dpc, dtarget, dentry, qpc, qhandle>>

Goto(c, p) == phase' = [phase EXCEPT ![c] = p]

-----------------------------------------------------------------------------
(* connect *)

\* UnknownDatabaseType: no factory registered, nothing was touched.
ConnectUnknownType(c) ==
    /\ phase[c] = "new"
    /\ Goto(c, "rejected")
    /\ UNCHANGED <<regVars, driver, entries, callVars>>

\* let id = Uuid::new_v4(); let token = self.attempts.begin(id);
ConnectBegin(c) ==
    /\ phase[c] = "new"
    /\ Begin(c, c)
    /\ Goto(c, "connecting")
    /\ UNCHANGED <<driver, entries, callVars>>

\* driver.connect().await is Ok
DriverConnected(c) ==
    /\ phase[c] = "connecting"
    /\ driver' = [driver EXCEPT ![c] = "up"]
    /\ Goto(c, "applying")
    /\ UNCHANGED <<regVars, entries, callVars>>

\* driver.connect().await is Err: invalidate, and the driver is dropped.
DriverConnectFailed(c) ==
    /\ phase[c] = "connecting"
    /\ Invalidate(c)
    /\ Goto(c, "failed")
    /\ UNCHANGED <<driver, entries, callVars>>

\* driver.apply_query_timeout(..).await; an error is only logged.
ApplyQueryTimeout(c) ==
    /\ phase[c] = "applying"
    /\ Goto(c, "finishing")
    /\ UNCHANGED <<regVars, driver, entries, callVars>>

\* The connect future is dropped at one of the two awaits above; its driver
\* goes with it.
ConnectDropped(c) ==
    /\ phase[c] \in {"connecting", "applying"}
    /\ driver' = [driver EXCEPT ![c] = "down"]
    /\ Goto(c, "dropped")
    /\ UNCHANGED <<regVars, entries, callVars>>

\* finish_connect: the steps of insert_if_current.
FinishConnectInsert(c) ==
    /\ phase[c] = "finishing"
    /\ InsertIfCurrentStep(c)
    /\ UNCHANGED mgrVars

\* Mutant: the orphan is left to the registry.
FinishConnectLeavesOrphan(c) ==
    /\ phase[c] = "finishing"
    /\ at[c] = "refused"
    /\ Goto(c, "superseded")
    /\ UNCHANGED <<regVars, driver, entries, callVars>>

\* finish_connect, Err(orphaned): orphaned.disconnect().await, Superseded.
FinishConnectSuperseded(c) ==
    /\ phase[c] = "finishing"
    /\ at[c] = "refused"
    /\ driver' = [driver EXCEPT ![c] = "down"]
    /\ Goto(c, "superseded")
    /\ UNCHANGED <<regVars, entries, callVars>>

\* Mutant: Ok(id) without an entry.
PublishWithoutEntry(c) ==
    /\ phase[c] = "finishing"
    /\ at[c] = "installed"
    /\ Goto(c, "ok")
    /\ UNCHANGED <<regVars, driver, entries, callVars>>

\* finish_connect, Ok(previous): a previous session is disconnected, then
\* entries.insert(id, entry) and Ok(id).  Each call has its own id, so
\* `previous` is None here and its await is no step of its own.
Publish(c) ==
    /\ phase[c] = "finishing"
    /\ at[c] = "installed"
    /\ driver' = IF previous[c] = Nobody THEN driver
                 ELSE [driver EXCEPT ![previous[c]] = "down"]
    /\ entries' = entries \cup {c}
    /\ Goto(c, "ok")
    /\ UNCHANGED <<regVars, callVars>>

-----------------------------------------------------------------------------
(* disconnect *)

\* Ids a client can name: returned by connect or shown by list, or guessed.
Nameable == {c \in Ids : phase[c] = "ok"} \cup Guessable

\* self.lock_entries().remove(&connection_id)
DisconnectEntry(d, c) ==
    /\ dpc[d] = "idle"
    /\ c \in Nameable
    /\ dtarget' = [dtarget EXCEPT ![d] = c]
    /\ dentry' = [dentry EXCEPT ![d] = c \in entries]
    /\ entries' = entries \ {c}
    /\ dpc' = [dpc EXCEPT ![d] = "entryGone"]
    /\ UNCHANGED <<regVars, phase, driver, qpc, qhandle>>

\* self.sessions.remove(connection_id)
DisconnectSession(d) ==
    /\ dpc[d] = "entryGone"
    /\ Remove(dtarget[d])
    /\ dpc' = [dpc EXCEPT ![d] = "sessionGone"]
    /\ UNCHANGED <<phase, driver, entries, dtarget, dentry, qpc, qhandle>>

\* Mutant: the generation entry of a closed connection stays.
DisconnectKeepsGeneration(d) ==
    /\ dpc[d] = "sessionGone"
    /\ dpc' = [dpc EXCEPT ![d] = IF dentry[d] THEN "closing" ELSE "done"]
    /\ UNCHANGED <<regVars, phase, driver, entries, dtarget, dentry, qpc, qhandle>>

\* Mutant: a call that found no entry starts over.
DisconnectRetries(d) ==
    /\ dpc[d] = "sessionGone"
    /\ Forget(dtarget[d])
    /\ dpc' = [dpc EXCEPT ![d] = IF dentry[d] THEN "closing" ELSE "entryGone"]
    /\ UNCHANGED <<phase, driver, entries, dtarget, dentry, qpc, qhandle>>

\* self.attempts.forget(connection_id); with no entry the call returns Ok.
DisconnectForget(d) ==
    /\ dpc[d] = "sessionGone"
    /\ Forget(dtarget[d])
    /\ dpc' = [dpc EXCEPT ![d] = IF dentry[d] THEN "closing" ELSE "done"]
    /\ UNCHANGED <<phase, driver, entries, dtarget, dentry, qpc, qhandle>>

\* entry.driver.disconnect().await is Ok: closed under whoever still uses it.
DisconnectDriver(d) ==
    /\ dpc[d] = "closing"
    /\ driver' = [driver EXCEPT ![dtarget[d]] = "down"]
    /\ dpc' = [dpc EXCEPT ![d] = "done"]
    /\ UNCHANGED <<regVars, phase, entries, dtarget, dentry, qpc, qhandle>>

Users(c) == {q \in Queries : qpc[q] = "using" /\ qhandle[q] = c}

\* It is Err, or the disconnect future is dropped there: the entry's Arc goes
\* all the same, and the driver closes now or with the last query that uses it.
DisconnectDriverFails(d) ==
    /\ dpc[d] = "closing"
    /\ driver' = [driver EXCEPT ![dtarget[d]] = IF Users(dtarget[d]) = {} THEN "down" ELSE @]
    /\ dpc' = [dpc EXCEPT ![d] = "done"]
    /\ UNCHANGED <<regVars, phase, entries, dtarget, dentry, qpc, qhandle>>

-----------------------------------------------------------------------------
(* get, and the use of the driver it returns *)

GetDriver(q, c) ==
    /\ qpc[q] = "idle"
    /\ c \in Nameable
    /\ \/ /\ c \in entries
          /\ qhandle' = [qhandle EXCEPT ![q] = c]
          /\ qpc' = [qpc EXCEPT ![q] = "using"]
       \/ /\ c \notin entries
          /\ qpc' = [qpc EXCEPT ![q] = "notFound"]
          /\ UNCHANGED qhandle
    /\ UNCHANGED <<regVars, phase, driver, entries, dpc, dtarget, dentry>>

\* Arcs of c's driver other than the queries': the entry, the session, and
\* the locals of a connect or disconnect call.
HeldElsewhere(c) ==
    \/ c \in entries
    \/ \E id \in Ids : sessions[id] = c
    \/ phase[c] \in {"connecting", "applying", "finishing"}
    \/ \E d \in Disconnects :
          dtarget[d] = c /\ dentry[d] /\ dpc[d] \in {"entryGone", "sessionGone", "closing"}

\* The query ends, with a result or with the driver's error, and drops its Arc.
QueryReturns(q) ==
    /\ qpc[q] = "using"
    /\ qpc' = [qpc EXCEPT ![q] = "done"]
    /\ driver' = [driver EXCEPT ![qhandle[q]] =
                    IF HeldElsewhere(qhandle[q]) \/ Users(qhandle[q]) # {q} THEN @ ELSE "down"]
    /\ UNCHANGED <<regVars, phase, entries, dpc, dtarget, dentry, qhandle>>

-----------------------------------------------------------------------------
ConnectFinished(c) ==
    phase[c] \in {"ok", "failed", "superseded", "rejected", "dropped"}

\* Every call has returned and nothing is left to call.
Quiescent ==
    /\ \A c \in Ids : ConnectFinished(c)
    /\ \A d \in Disconnects : dpc[d] = "done" \/ (dpc[d] = "idle" /\ Nameable = {})
    /\ \A q \in Queries : qpc[q] \in {"done", "notFound"} \/ (qpc[q] = "idle" /\ Nameable = {})
    /\ UNCHANGED vars

ConnectStep(c) ==
    \/ ConnectUnknownType(c) \/ ConnectBegin(c)
    \/ DriverConnected(c) \/ DriverConnectFailed(c)
    \/ ApplyQueryTimeout(c) \/ ConnectDropped(c)
    \/ FinishConnectInsert(c) \/ FinishConnectSuperseded(c) \/ Publish(c)

DisconnectStep(d) == DisconnectSession(d) \/ DisconnectForget(d)
                     \/ DisconnectDriver(d) \/ DisconnectDriverFails(d)

Next ==
    \/ \E c \in Ids : ConnectStep(c)
    \/ \E d \in Disconnects, c \in Ids : DisconnectEntry(d, c)
    \/ \E d \in Disconnects : DisconnectStep(d)
    \/ \E q \in Queries, c \in Ids : GetDriver(q, c)
    \/ \E q \in Queries : QueryReturns(q)
    \/ Quiescent

Spec == Init /\ [][Next]_vars

\* What the driver of connect call c owes it: an answer to connect and to
\* apply_query_timeout, and to the disconnect of an orphan.
DriverAnswers(c) == DriverConnected(c) \/ DriverConnectFailed(c) \/ ApplyQueryTimeout(c)
                    \/ FinishConnectSuperseded(c)

\* And what the driver a disconnect closes owes it.
DriverCloses(d) == DisconnectDriver(d) \/ DisconnectDriverFails(d)

\* The executor polls every call that can run.  A driver is owed nothing here:
\* connect has no time limit in the manager and none in the PostgreSQL driver,
\* and a driver's disconnect waits for the queries that hold its lock.
Fairness ==
    /\ \A c \in Ids : WF_vars(FinishConnectInsert(c)) /\ WF_vars(Publish(c))
    /\ \A d \in Disconnects : WF_vars(DisconnectSession(d)) /\ WF_vars(DisconnectForget(d))

FairSpec == Spec /\ Fairness

-----------------------------------------------------------------------------
(* Properties *)

DisconnectInFlight(c) ==
    \E d \in Disconnects :
        dtarget[d] = c /\ dpc[d] \in {"entryGone", "sessionGone", "closing"}

ConnectInFlight(c) == phase[c] \in {"connecting", "applying", "finishing"}

(***************************************************************************)
(* No leaked driver (the property finish_connect's comment calls the most  *)
(* important one of the crate): a driver that is up belongs to a call      *)
(* still running or to an entry a client can find and close.  A query      *)
(* counts as the owner only of a driver whose disconnect has failed.       *)
(***************************************************************************)
NoLeakedDriver ==
    \A c \in Ids : driver[c] = "up" =>
        \/ ConnectInFlight(c) \/ c \in entries \/ DisconnectInFlight(c)
        \/ Users(c) # {} /\ \E d \in Disconnects : dtarget[d] = c /\ dpc[d] = "done"

\* A published id has its own session, and a driver that is up.
Backed ==
    \A c \in entries : driver[c] = "up" /\ (c \in Guessable \/ sessions[c] = c)

\* An id no call works on has a session only while it is published.
NoStraySession ==
    \A c \in Ids :
        (sessions[c] # Nobody /\ ~ConnectInFlight(c) /\ ~DisconnectInFlight(c)) => c \in entries

\* The attempts map only grows by connects that failed or were dropped, or
\* lost to a disconnect that named their id early.
CountersAccounted ==
    \A c \in Ids : generations[c] # NoGeneration =>
        \/ ConnectInFlight(c) \/ DisconnectInFlight(c) \/ c \in entries
        \/ phase[c] \in {"failed", "dropped"}
        \/ c \in Guessable /\ \E d \in Disconnects : dtarget[d] = c

(***************************************************************************)
(* "kept in lockstep with `sessions` at every mutation point"              *)
(* (manager.rs:16-18), and the generation counters with both: whatever     *)
(* connects, disconnects and failures interleave, a connection is in all   *)
(* three maps or, once it is closed, in none.  Exceptions: an id that was  *)
(* named before connect returned it, since a disconnect may then come      *)
(* between the insert and the publication, and the counter of a connect    *)
(* that failed or was dropped, which nothing removes.                      *)
(***************************************************************************)
Lockstep == Backed /\ NoStraySession /\ CountersAccounted

(***************************************************************************)
(* The manager implements the connection table.                            *)
(***************************************************************************)
tableOf == [c \in Ids |-> IF c \in entries THEN "open"
                          ELSE IF phase[c] = "ok" THEN "closed" ELSE "fresh"]

Table == INSTANCE ConnectionTable WITH table <- tableOf

ImplementsTable == Table!TableSpec

(***************************************************************************)
(* A connection a client closed is out of all three maps for good, also    *)
(* when its driver never answers the disconnect.                           *)
(***************************************************************************)
ClosedIdGoes ==
    \A d \in Disconnects, c \in Ids :
        (dpc[d] = "entryGone" /\ dtarget[d] = c /\ dentry[d]) ~>
            [](c \notin entries /\ sessions[c] = Nobody /\ generations[c] = NoGeneration)

(***************************************************************************)
(* A call waits for nobody but its own driver: a connect whose driver      *)
(* answers, and a disconnect whose driver closes, return although every    *)
(* other driver hangs, and a closed connection leaves the maps whatever    *)
(* its driver does (manager.rs:189-248: no lock is held over an await).    *)
(* A connect whose driver never answers does hang: nothing bounds it.      *)
(***************************************************************************)
CallsWaitForOwnDriver ==
    /\ ClosedIdGoes
    /\ \A c \in Ids :
          WF_vars(DriverAnswers(c)) => (phase[c] = "connecting" ~> ConnectFinished(c))
    /\ \A d \in Disconnects :
          WF_vars(DriverCloses(d)) => (dpc[d] = "entryGone" ~> dpc[d] = "done")
=============================================================================
