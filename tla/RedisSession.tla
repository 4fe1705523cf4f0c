---------------------------- MODULE RedisSession ----------------------------
(***************************************************************************)
(* driver-redis: one auto-reconnecting connection shared by all commands,  *)
(* and cancellation by CLIENT KILL of the client id that was cached when   *)
(* the connection was established.                                         *)
(*                                                                         *)
(* connect and switch_database establish a connection manager and then     *)
(* adopt it in two steps, the manager under the RwLock and the id under a  *)
(* mutex; disconnect clears both in two steps as well.  A server numbers   *)
(* its clients from 1, and again from 1 after a restart, so a connection   *)
(* is known by its number and by the server run it belongs to.             *)
(***************************************************************************)
EXTENDS Naturals, FiniteSets

CONSTANTS Calls,      \* connect and switch_database calls; each makes a manager
          Commands,   \* user queries
          None,       \* no manager
          MaxId,      \* bound: clients per server run
          MaxRuns     \* bound: runs of the server

ASSUME RedisAssumption == MaxId \in Nat /\ MaxRuns \in Nat \ {0} /\ None \notin Calls

VARIABLES connection,   \* RedisDriver.connection
          client_id,    \* RedisDriver.client_id, 0 for None
          call,         \* where each connect or switch_database is
          fetched,      \* the CLIENT ID each of them was told
          closing,      \* where disconnect is
          link,         \* the connection each manager uses
          query,        \* each query: state, manager, connection
          kill,         \* id in the CLIENT KILL a query's backstop has under way
          delivered,    \* history: queries whose CLIENT KILL was executed
          run, issued,  \* server: its run, and the ids it gave out in it
          live,         \* server: open connections
          foreign,      \* server: those of other programs
          reconnected,  \* history: managers that reconnected
          overlapped,   \* history: two of adopt and disconnect overlapped
          foreign_hit   \* history: a CLIENT KILL closed a foreign connection

driver_vars == <<connection, client_id, call, fetched, closing>>
server_vars == <<run, issued, live, foreign>>
history == <<delivered, reconnected, overlapped, foreign_hit>>
redisVars == <<driver_vars, link, query, kill, server_vars, history>>

Connections == [run : 1 .. MaxRuns, id : 0 .. MaxId]
NoConn == [run |-> 1, id |-> 0]

RedisTypeOK ==
    /\ connection \in Calls \cup {None}
    /\ client_id \in 0 .. MaxId
    /\ call \in [Calls -> {"idle", "established", "stored", "done", "failed"}]
    /\ fetched \in [Calls -> 0 .. MaxId]
    /\ closing \in {"no", "half", "done"}
    /\ link \in [Calls -> Connections]
    /\ query \in [Commands -> [st : {"idle", "running", "timed_out", "ok", "failed"},
                               by : Calls \cup {None}, on : Connections]]
    /\ \A q \in Commands : query[q].st \in {"running", "timed_out"} => query[q].by # None
    /\ kill \in [Commands -> 0 .. MaxId]
    /\ delivered \subseteq Commands
    /\ run \in 1 .. MaxRuns /\ issued \in 0 .. MaxId
    /\ live \subseteq Connections /\ foreign \subseteq live
    /\ reconnected \subseteq Calls
    /\ overlapped \in BOOLEAN /\ foreign_hit \in BOOLEAN

RedisInit ==
    /\ connection = None /\ client_id = 0
    /\ call = [c \in Calls |-> "idle"]
    /\ fetched = [c \in Calls |-> 0]
    /\ closing = "no"
    /\ link = [c \in Calls |-> NoConn]
    /\ query = [q \in Commands |-> [st |-> "idle", by |-> None, on |-> NoConn]]
    /\ kill = [q \in Commands |-> 0]
    /\ delivered = {}
    /\ run = 1 /\ issued = 0
    /\ live = {} /\ foreign = {}
    /\ reconnected = {}
    /\ overlapped = FALSE /\ foreign_hit = FALSE

NewConn == [run |-> run, id |-> issued + 1]

-----------------------------------------------------------------------------
(* connect, switch_database, disconnect *)

\* establish: the manager connects and asks for CLIENT ID.
Establish(c) ==
    /\ call[c] = "idle"
    /\ \/ /\ issued < MaxId
          /\ link' = [link EXCEPT ![c] = NewConn]
          /\ live' = live \cup {NewConn}
          /\ issued' = issued + 1
          /\ fetched' = [fetched EXCEPT ![c] = NewConn.id]
          /\ call' = [call EXCEPT ![c] = "established"]
       \/ /\ call' = [call EXCEPT ![c] = "failed"]
          /\ UNCHANGED <<link, live, issued, fetched>>
    /\ UNCHANGED <<connection, client_id, closing, query, kill, run, foreign, history>>

InWindow == {c \in Calls : call[c] = "stored"}

\* adopt, under the write lock
AdoptConnection(c) ==
    /\ call[c] = "established"
    /\ connection' = c
    /\ call' = [call EXCEPT ![c] = "stored"]
    /\ overlapped' = (overlapped \/ InWindow # {} \/ closing = "half")
    /\ UNCHANGED <<client_id, fetched, closing, link, query, kill, server_vars,
                   delivered, reconnected, foreign_hit>>

\* Mutant: the id of a replaced connection is kept.
AdoptIdOnce(c) ==
    /\ call[c] = "stored"
    /\ client_id' = IF client_id = 0 THEN fetched[c] ELSE client_id
    /\ call' = [call EXCEPT ![c] = "done"]
    /\ UNCHANGED <<connection, fetched, closing, link, query, kill, server_vars, history>>

\* adopt, under the mutex.  The id is the one establish was told; a manager
\* that has reconnected since has another one.
AdoptId(c) ==
    /\ call[c] = "stored"
    /\ client_id' = fetched[c]
    /\ call' = [call EXCEPT ![c] = "done"]
    /\ UNCHANGED <<connection, fetched, closing, link, query, kill, server_vars, history>>

DisconnectConnection ==
    /\ closing = "no"
    /\ connection' = None
    /\ closing' = "half"
    /\ overlapped' = (overlapped \/ InWindow # {})
    /\ UNCHANGED <<client_id, call, fetched, link, query, kill, server_vars,
                   delivered, reconnected, foreign_hit>>

DisconnectId ==
    /\ closing = "half"
    /\ client_id' = 0
    /\ closing' = "done"
    /\ UNCHANGED <<connection, call, fetched, link, query, kill, server_vars, history>>

-----------------------------------------------------------------------------
(* Commands *)

\* manager() clones the manager, which sends on its current connection.
StartCommand(q) ==
    /\ query[q].st = "idle" /\ connection # None
    /\ query' = [query EXCEPT ![q] = [st |-> "running", by |-> connection,
                                      on |-> link[connection]]]
    /\ UNCHANGED <<driver_vars, link, kill, server_vars, history>>

NotConnected(q) ==
    /\ query[q].st = "idle" /\ connection = None
    /\ query' = [query EXCEPT ![q].st = "failed"]
    /\ UNCHANGED <<driver_vars, link, kill, server_vars, history>>

Finish(q) ==
    /\ query[q].st \in {"running", "timed_out"} /\ query[q].on \in live
    /\ query' = [query EXCEPT ![q].st = "ok"]
    /\ UNCHANGED <<driver_vars, link, kill, server_vars, history>>

\* A command meets a closed connection: it fails, and the first to do so
\* makes its manager reconnect.
Broken(q) ==
    LET m == query[q].by IN
    /\ query[q].st = "running" /\ query[q].on \notin live
    /\ query' = [query EXCEPT ![q].st = "failed"]
    /\ \/ /\ link[m] = query[q].on /\ issued < MaxId
          /\ link' = [link EXCEPT ![m] = NewConn]
          /\ live' = live \cup {NewConn}
          /\ issued' = issued + 1
          /\ reconnected' = reconnected \cup {m}
       \/ /\ link[m] # query[q].on
          /\ UNCHANGED <<link, live, issued, reconnected>>
    /\ UNCHANGED <<driver_vars, kill, run, foreign, delivered, overlapped, foreign_hit>>

\* Mutant: an id that was counted on, not asked for.
BackstopKillsNext(q) ==
    /\ query[q].st = "running"
    /\ query' = [query EXCEPT ![q].st = "timed_out"]
    /\ kill' = [kill EXCEPT ![q] = IF client_id < MaxId THEN client_id + 1 ELSE 0]
    /\ UNCHANGED <<driver_vars, link, server_vars, history>>

\* run_user_query's timeout drops the future and calls cancel_query, which
\* spawns kill_client for the cached id, if there is one.
CommandBackstop(q) ==
    /\ query[q].st = "running"
    /\ query' = [query EXCEPT ![q].st = "timed_out"]
    /\ kill' = [kill EXCEPT ![q] = client_id]
    /\ UNCHANGED <<driver_vars, link, server_vars, history>>

\* kill_client: CLIENT KILL ID closes whatever connection has that number
\* now, or the attempt fails and is logged.
KillClient(q) ==
    LET target == [run |-> run, id |-> kill[q]] IN
    /\ kill[q] # 0
    /\ kill' = [kill EXCEPT ![q] = 0]
    /\ \/ /\ live' = live \ {target}
          /\ foreign' = foreign \ {target}
          /\ foreign_hit' = (foreign_hit \/ target \in foreign)
          /\ delivered' = delivered \cup {q}
       \/ UNCHANGED <<live, foreign, foreign_hit, delivered>>
    /\ UNCHANGED <<driver_vars, link, query, run, issued, reconnected, overlapped>>

-----------------------------------------------------------------------------
(* The server and its other clients *)

ForeignConnects ==
    /\ issued < MaxId
    /\ live' = live \cup {NewConn}
    /\ foreign' = foreign \cup {NewConn}
    /\ issued' = issued + 1
    /\ UNCHANGED <<driver_vars, link, query, kill, run, history>>

\* An idle connection is culled, lost, or closed with its last user.
Cull(k) ==
    /\ k \in live \ foreign
    /\ live' = live \ {k}
    /\ UNCHANGED <<driver_vars, link, query, kill, run, issued, foreign, history>>

ServerRestarts ==
    /\ run < MaxRuns
    /\ run' = run + 1
    /\ issued' = 0
    /\ live' = {} /\ foreign' = {}
    /\ UNCHANGED <<driver_vars, link, query, kill, history>>

RedisNext ==
    \/ \E c \in Calls : Establish(c) \/ AdoptConnection(c) \/ AdoptId(c)
    \/ DisconnectConnection \/ DisconnectId
    \/ \E q \in Commands : \/ StartCommand(q) \/ NotConnected(q) \/ Finish(q) \/ Broken(q)
                           \/ CommandBackstop(q) \/ KillClient(q)
    \/ ForeignConnects
    \/ \E k \in live : Cull(k)
    \/ ServerRestarts

RedisSpec == RedisInit /\ [][RedisNext]_redisVars

-----------------------------------------------------------------------------
(* Properties *)

(***************************************************************************)
(* cancel_query aims at the connection in use: outside adopt and           *)
(* disconnect, the cached id is that of the driver's connection, and there *)
(* is none without one, unless the manager reconnected by itself or two    *)
(* of connect, switch_database and disconnect overlapped.                  *)
(***************************************************************************)
CachedIdCurrent ==
    (InWindow = {} /\ closing # "half" /\ ~overlapped)
    => client_id = IF connection = None THEN 0
                   ELSE IF connection \in reconnected THEN client_id
                   ELSE link[connection].id

\* The timed-out command q still runs after their CLIENT KILL was executed.
Missed(q) == query[q].on \in live /\ query[q].st # "ok"

(***************************************************************************)
(* CLIENT KILL reaches the driver's own connection and no other: a         *)
(* timed-out command whose kill was executed no longer runs, unless its    *)
(* manager reconnected, another call had replaced or was replacing the     *)
(* connection, or the server restarted; and only after a restart, when     *)
(* client ids begin anew, may it close a connection of another program.    *)
(***************************************************************************)
KillReachesOwnConnection ==
    /\ foreign_hit => run > 1
    /\ \A q \in delivered : Missed(q) =>
          \/ query[q].by \in reconnected
          \/ \E c \in Calls \ {query[q].by} : call[c] \in {"stored", "done"}
          \/ run > 1
=============================================================================
