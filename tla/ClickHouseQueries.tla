-------------------------- MODULE ClickHouseQueries --------------------------
(***************************************************************************)
(* Queries of one ClickHouseDriver (crates/driver-clickhouse/src/driver.rs,*)
(* query.rs) under the client-side backstop of run_user_query              *)
(* (crates/connections/src/tools/support.rs): the single active_query_id   *)
(* slot that tells cancel_query what to kill.                              *)
(*                                                                         *)
(* A query q sends one request (buffered path) or two (header probe, then  *)
(* the row stream); a request is named <<q, k>>, its query_id a fresh UUID.*)
(* Queries hold the client's RwLock for reading, so they overlap freely;   *)
(* disconnect holds it for writing.  The future of a query is dropped, and *)
(* its lock released, by the backstop or because the HTTP client that      *)
(* asked went away; after the backstop's drop the runtime may let others   *)
(* run before cancel_query does.                                           *)
(*                                                                         *)
(*   stage[q]:  idle -> waiting -> sending -> reading                      *)
(*                   -> (sending -> reading ->) done                       *)
(***************************************************************************)
EXTENDS Naturals

CONSTANTS Queries,
          NoRequest     \* None in active_query_id

Requests == Queries \X {1, 2}

ASSUME ClickHouseAssumption == NoRequest \notin Requests

VARIABLES connected,    \* client and cancel_context are Some
          stage,        \* where each query call is
          request,      \* which of its requests a query is at (0: none yet)
          last,         \* the number of requests it will make
          slot,         \* active_query_id
          running,      \* requests the server is executing
          kills,        \* KILL QUERY commands on their way
          cancelled,    \* history: the request its backstop asked to kill
          unguarded     \* history: queries dropped while a request was sent

clickHouseVars ==
    <<connected, stage, request, last, slot, running, kills, cancelled, unguarded>>

Locations == {"idle", "waiting", "sending", "reading", "done", "failed",
              "tripped", "timedOut", "gone"}

ClickHouseTypeOK ==
    /\ connected \in BOOLEAN
    /\ stage \in [Queries -> Locations]
    /\ request \in [Queries -> 0 .. 2]
    /\ last \in [Queries -> 1 .. 2]
    /\ slot \in Requests \cup {NoRequest}
    /\ running \subseteq Requests
    /\ kills \subseteq Requests
    /\ cancelled \in [Queries -> Requests \cup {NoRequest}]
    /\ unguarded \subseteq Queries

ClickHouseInit ==
    /\ connected = TRUE
    /\ stage = [q \in Queries |-> "idle"]
    /\ request = [q \in Queries |-> 0]
    /\ last = [q \in Queries |-> 1]
    /\ slot = NoRequest
    /\ running = {}
    /\ kills = {}
    /\ cancelled = [q \in Queries |-> NoRequest]
    /\ unguarded = {}

Current(q) == <<q, request[q]>>

InFlight(q) == stage[q] \in {"sending", "reading"}

MoveTo(q, loc) == stage' = [stage EXCEPT ![q] = loc]

\* Mutant: the slot is cleared whoever it names.
ClearedAlways(r) == NoRequest

\* clear_active_query_id: only if the slot still names this request.
Cleared(r) == IF slot = r THEN NoRequest ELSE slot

\* send_request up to its await: a fresh query_id goes into the slot.
SendNext(q) ==
    LET r == <<q, request[q] + 1>> IN
    /\ request' = [request EXCEPT ![q] = @ + 1]
    /\ slot' = r
    /\ running' = running \cup {r}
    /\ MoveTo(q, "sending")

\* execute_user_query is called and waits for the read lock.
CallQuery(q) ==
    /\ stage[q] = "idle"
    /\ MoveTo(q, "waiting")
    /\ UNCHANGED <<connected, request, last, slot, running, kills, cancelled, unguarded>>

\* The read lock is granted, the connection is there: the first request.
Start(q, n) ==
    /\ stage[q] = "waiting"
    /\ connected
    /\ last' = [last EXCEPT ![q] = n]
    /\ SendNext(q)
    /\ UNCHANGED <<connected, kills, cancelled, unguarded>>

\* The driver is disconnected: not_connected_error.
StartNotConnected(q) ==
    /\ stage[q] = "waiting"
    /\ ~connected
    /\ MoveTo(q, "failed")
    /\ UNCHANGED <<connected, request, last, slot, running, kills, cancelled, unguarded>>

\* send(..).await is Ok: the ActiveQueryGuard is built only now.
ResponseArrives(q) ==
    /\ stage[q] = "sending"
    /\ MoveTo(q, "reading")
    /\ UNCHANGED <<connected, request, last, slot, running, kills, cancelled, unguarded>>

\* Mutant: the error path of send_request returns without clearing.
RequestFailsKeepsSlot(q) ==
    /\ InFlight(q)
    /\ running' \in {running, running \ {Current(q)}}
    /\ MoveTo(q, "failed")
    /\ UNCHANGED <<slot, connected, request, last, kills, cancelled, unguarded>>

\* send(..).await is Err, or the body breaks off: the slot is released.  The
\* server may not have noticed.
RequestFails(q) ==
    /\ InFlight(q)
    /\ slot' = Cleared(Current(q))
    /\ running' \in {running, running \ {Current(q)}}
    /\ MoveTo(q, "failed")
    /\ UNCHANGED <<connected, request, last, kills, cancelled, unguarded>>

\* The probe's body is read: its guard drops, the row request is sent.
ProbeDone(q) ==
    /\ stage[q] = "reading"
    /\ request[q] < last[q]
    /\ LET r == <<q, request[q] + 1>> IN
       /\ request' = [request EXCEPT ![q] = @ + 1]
       /\ slot' = r
       /\ running' = (running \ {Current(q)}) \cup {r}
       /\ MoveTo(q, "sending")
    /\ UNCHANGED <<connected, last, kills, cancelled, unguarded>>

\* The last body is read to its end, or dropped at the row cap: in the
\* second case the server may still be producing rows.
QueryDone(q) ==
    /\ stage[q] = "reading"
    /\ request[q] = last[q]
    /\ slot' = Cleared(Current(q))
    /\ running' \in {running, running \ {Current(q)}}
    /\ MoveTo(q, "done")
    /\ UNCHANGED <<connected, request, last, kills, cancelled, unguarded>>

\* Mutant: the guard is built before the send, so a drop always clears.
ClearedByEarlyGuard(q) == Cleared(Current(q))

\* What the slot holds once q's future is dropped: its guard clears the slot,
\* but send_request has none until the response is there.
SlotAfterDrop(q) == IF stage[q] = "reading" THEN Cleared(Current(q)) ELSE slot

DropFuture(q) ==
    /\ stage[q] \in {"waiting", "sending", "reading"}
    /\ slot' = SlotAfterDrop(q)
    /\ unguarded' = IF stage[q] = "sending" THEN unguarded \cup {q} ELSE unguarded
    /\ UNCHANGED <<connected, request, last, running, kills, cancelled>>

\* 45 s are over: timeout() drops the query future.
QueryBackstop(q) == DropFuture(q) /\ MoveTo(q, "tripped")

\* The HTTP client went away and the whole call is dropped; nobody cancels.
ClientGone(q) == DropFuture(q) /\ MoveTo(q, "gone")

\* cancel_query kills what the slot names now, with the context connect left.
CancelQuery(q) ==
    /\ stage[q] = "tripped"
    /\ cancelled' = [cancelled EXCEPT ![q] = IF connected THEN slot ELSE NoRequest]
    /\ kills' = IF connected /\ slot # NoRequest THEN kills \cup {slot} ELSE kills
    /\ MoveTo(q, "timedOut")
    /\ UNCHANGED <<connected, request, last, slot, running, unguarded>>

\* The spawned KILL QUERY reaches the server; a caller still waiting for the
\* killed request sees it fail (RequestFails).
KillArrives(r) ==
    /\ r \in kills
    /\ kills' = kills \ {r}
    /\ running' = running \ {r}
    /\ UNCHANGED <<connected, stage, request, last, slot, cancelled, unguarded>>

\* A request nobody waits for ends by itself.
ServerFinishes(r) ==
    /\ r \in running
    /\ ~(InFlight(r[1]) /\ Current(r[1]) = r)
    /\ running' = running \ {r}
    /\ UNCHANGED <<connected, stage, request, last, slot, kills, cancelled, unguarded>>

\* disconnect: under the write lock it clears client, slot and context.
Disconnect ==
    /\ connected
    /\ \A q \in Queries : ~InFlight(q)
    /\ connected' = FALSE
    /\ slot' = NoRequest
    /\ UNCHANGED <<stage, request, last, running, kills, cancelled, unguarded>>

QueryStep(q) ==
    \/ \E n \in 1 .. 2 : Start(q, n)
    \/ CallQuery(q) \/ StartNotConnected(q) \/ ResponseArrives(q) \/ RequestFails(q)
    \/ ProbeDone(q) \/ QueryDone(q)
    \/ QueryBackstop(q) \/ ClientGone(q) \/ CancelQuery(q)

ClickHouseNext ==
    \/ \E q \in Queries : QueryStep(q)
    \/ \E r \in Requests : KillArrives(r) \/ ServerFinishes(r)
    \/ Disconnect

ClickHouseSpec == ClickHouseInit /\ [][ClickHouseNext]_clickHouseVars

-----------------------------------------------------------------------------
(***************************************************************************)
(* "Clears active_query_id when dropped, so every exit path ... reliably   *)
(* releases the slot" (driver.rs:60-64): whatever queries overlap, fail,   *)
(* stop at the row cap or are dropped, the slot names a request in flight, *)
(* or the last request of a query that was dropped while send_request      *)
(* awaited the response and had no guard yet (driver.rs:168-179).          *)
(***************************************************************************)
SlotNamesLiveRequest ==
    slot # NoRequest =>
        /\ Current(slot[1]) = slot
        /\ InFlight(slot[1]) \/ slot[1] \in unguarded

(***************************************************************************)
(* A query that ends never takes the slot away from a request that is      *)
(* still in flight: clear_active_query_id compares before it clears.       *)
(***************************************************************************)
SlotReleasedByOwner ==
    [][(slot # NoRequest /\ slot' = NoRequest)
       => stage'[slot[1]] \notin {"sending", "reading"}]_clickHouseVars

(***************************************************************************)
(* A query whose backstop trips while its request is sent is the one       *)
(* cancel_query kills, if no other query has sent a request and the driver *)
(* was not disconnected before cancel_query ran.                           *)
(***************************************************************************)
SoloSendIsKilled ==
    [][\A q \in Queries :
          (/\ stage[q] = "tripped" /\ stage'[q] = "timedOut"
           /\ q \in unguarded /\ connected
           /\ \A o \in Queries \ {q} : request[o] = 0)
          => cancelled'[q] = Current(q)]_clickHouseVars

(***************************************************************************)
(* "On trip, it calls DatabaseDriver::cancel_query (..., ClickHouse        *)
(* cancel-by-query-id, ...)" (README.md:149-151): a query that exceeded    *)
(* the backstop after it sent a request is killed while the driver is      *)
(* connected.                                                              *)
(***************************************************************************)
TimedOutQueryIsKilled ==
    \A q \in Queries :
        (stage[q] = "timedOut" /\ request[q] > 0 /\ connected) => cancelled[q] = Current(q)
=============================================================================
