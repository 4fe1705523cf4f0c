-------------------------- MODULE PostgresSession --------------------------
(***************************************************************************)
(* What PostgresDriver keeps beside its client: the cancel token and the   *)
(* cached current_schema that resolve_schema falls back to.  connect,      *)
(* switch_database, switch_schema and disconnect write them in several     *)
(* steps, under a lock only in part, and any of these futures may be       *)
(* dropped at an await.                                                    *)
(*                                                                         *)
(* A server session is a number, in the order of the dials; 0 is none.     *)
(***************************************************************************)
EXTENDS Naturals, Sequences

CONSTANTS Callers, Schemas, Databases,
          MaxSessions,   \* bound: dials
          Unset          \* no schema

ASSUME SessionAssumption == MaxSessions \in Nat /\ Unset \notin Schemas

VARIABLES client,        \* the session under the lock, or 0
          token,         \* the session the cancel token belongs to, or 0
          current_schema,
          search_path,   \* server: session -> schema, Unset where none exists
          pg_live,       \* server: sessions that are connected
          databases,     \* server
          at,            \* caller -> the step it takes next
          doing,         \* caller -> its operation
          arg,           \* caller -> schema or database
          mine,          \* caller -> the session it dialled
          readers,       \* callers that hold the read lock
          disturbed      \* why the caches may be off: see Properties

sessionVars == <<client, token, current_schema, search_path, pg_live, databases,
              at, doing, arg, mine, readers, disturbed>>
serverVars == <<search_path, pg_live, databases>>
cacheVars == <<client, token, current_schema>>

Running == {c \in Callers : at[c] # "idle"}

StepTo(c, step) == at' = [at EXCEPT ![c] = step]
Returns(c) ==
    /\ StepTo(c, "idle")
    /\ doing' = [doing EXCEPT ![c] = "none"] /\ arg' = [arg EXCEPT ![c] = Unset]
    /\ mine' = [mine EXCEPT ![c] = 0]

SessionInit ==
    /\ client = 0 /\ token = 0 /\ current_schema = Unset
    /\ search_path = <<>> /\ pg_live = {} /\ databases = Databases
    /\ at = [c \in Callers |-> "idle"] /\ doing = [c \in Callers |-> "none"]
    /\ arg = [c \in Callers |-> Unset] /\ mine = [c \in Callers |-> 0]
    /\ readers = {} /\ disturbed = FALSE

\* The calls that write what the driver keeps, several steps each.
Writers == {c \in Running : doing[c] \in {"connect", "switch_database", "switch_schema", "disconnect"}}

\* A call begins; beside another writer its writes mix with that one's.
BeginCall(c, what, a, step) ==
    /\ at[c] = "idle"
    /\ StepTo(c, step)
    /\ doing' = [doing EXCEPT ![c] = what] /\ arg' = [arg EXCEPT ![c] = a]
    /\ disturbed' = (disturbed \/ (Writers # {} /\ what \notin {"create_database", "drop_database"}))
    /\ UNCHANGED <<cacheVars, serverVars, mine, readers>>

-----------------------------------------------------------------------------
(* connect and switch_database *)

\* connect_with_config: the database must exist, a dial may fail.
Dial(c) ==
    /\ at[c] = "dial"
    /\ Len(search_path) < MaxSessions
    /\ \/ Returns(c) /\ UNCHANGED serverVars
       \/ /\ doing[c] = "switch_database" => arg[c] \in databases
          /\ \E s \in Schemas \cup {Unset} : search_path' = Append(search_path, s)
          /\ mine' = [mine EXCEPT ![c] = Len(search_path) + 1]
          /\ pg_live' = pg_live \cup {Len(search_path) + 1}
          /\ StepTo(c, "refresh")
          /\ UNCHANGED <<databases, doing, arg>>
    /\ UNCHANGED <<cacheVars, readers, disturbed>>

\* refresh_session_caches asks the new session, before it is installed; a
\* failing query leaves nothing cached.  (server_version goes the same way.)
RefreshSessionCaches(c) ==
    /\ at[c] = "refresh"
    /\ \/ current_schema' = search_path[mine[c]] /\ disturbed' = (disturbed /\ Writers # {c})
       \/ current_schema' = Unset /\ disturbed' = TRUE
    /\ StepTo(c, IF doing[c] = "connect" THEN "token" ELSE "install")
    /\ UNCHANGED <<client, token, serverVars, doing, arg, mine, readers>>

\* connect sets the token before it waits for the lock.
ConnectSetToken(c) ==
    /\ at[c] = "token" /\ doing[c] = "connect"
    /\ token' = mine[c]
    /\ StepTo(c, "install")
    /\ UNCHANGED <<client, current_schema, serverVars, doing, arg, mine, readers, disturbed>>

\* *guard = Some(..) under the write lock; the client that was there is dropped
\* and its session ends.
Install(c) ==
    /\ at[c] = "install" /\ readers = {}
    /\ client' = mine[c] /\ pg_live' = pg_live \ {client}
    /\ IF doing[c] = "connect" THEN Returns(c)
       ELSE StepTo(c, "switch_token") /\ UNCHANGED <<doing, arg, mine>>
    /\ UNCHANGED <<token, current_schema, search_path, databases, readers, disturbed>>

\* Mutant: the token of the first session is kept.
SwitchKeepsToken(c) ==
    /\ at[c] = "switch_token"
    /\ Returns(c) /\ UNCHANGED <<cacheVars, serverVars, readers, disturbed>>

\* switch_database sets the token after it released the lock.
SwitchSetToken(c) ==
    /\ at[c] = "switch_token"
    /\ token' = mine[c]
    /\ Returns(c)
    /\ UNCHANGED <<client, current_schema, serverVars, readers, disturbed>>

-----------------------------------------------------------------------------
(* Calls on the installed client, under the read lock *)

ReadLock(c) ==
    /\ at[c] = "lock"
    /\ IF client = 0 THEN Returns(c) /\ UNCHANGED readers       \* not connected
       ELSE /\ StepTo(c, "query") /\ readers' = readers \cup {c}
            /\ UNCHANGED <<doing, arg, mine>>
    /\ UNCHANGED <<cacheVars, serverVars, disturbed>>

QueryFails(c) ==
    /\ at[c] = "query" /\ readers' = readers \ {c}
    /\ Returns(c) /\ UNCHANGED <<cacheVars, serverVars, disturbed>>

\* SET search_path TO ..; then the cache follows.
SwitchSchema(c) ==
    /\ at[c] = "query" /\ doing[c] = "switch_schema"
    /\ search_path' = [search_path EXCEPT ![client] = arg[c]]
    /\ StepTo(c, "cache")
    /\ UNCHANGED <<cacheVars, pg_live, databases, doing, arg, mine, readers, disturbed>>

CacheSchema(c) ==
    /\ at[c] = "cache"
    /\ current_schema' = arg[c] /\ readers' = readers \ {c}
    /\ Returns(c)
    /\ UNCHANGED <<client, token, serverVars, disturbed>>

CreateDatabase(c) ==
    /\ at[c] = "query" /\ doing[c] = "create_database"
    /\ databases' = databases \cup {arg[c]} /\ readers' = readers \ {c}
    /\ Returns(c)
    /\ UNCHANGED <<cacheVars, search_path, pg_live, disturbed>>

DropDatabase(c) ==
    /\ at[c] = "query" /\ doing[c] = "drop_database"
    /\ databases' = databases \ {arg[c]} /\ readers' = readers \ {c}
    /\ Returns(c)
    /\ UNCHANGED <<cacheVars, search_path, pg_live, disturbed>>

CloseSession(c) ==
    /\ at[c] = "disconnect" /\ readers = {}
    /\ client' = 0 /\ token' = 0 /\ current_schema' = Unset
    /\ pg_live' = pg_live \ {client}
    /\ Returns(c)
    /\ UNCHANGED <<search_path, databases, readers, disturbed>>

\* The future is dropped at an await: its lock, and a session that nobody
\* installed, go with it.  What it wrote before stays, and so does a SET that
\* was already sent.
Drop(c) ==
    /\ at[c] \in {"dial", "refresh", "install", "lock", "query", "disconnect"}
    /\ disturbed' = (disturbed \/ at[c] = "install" \/ (at[c] = "query" /\ c \in Writers))
    /\ pg_live' = IF at[c] \in {"refresh", "install"} THEN pg_live \ {mine[c]} ELSE pg_live
    /\ \/ UNCHANGED search_path
       \/ /\ at[c] = "query" /\ doing[c] = "switch_schema"
          /\ search_path' = [search_path EXCEPT ![client] = arg[c]]
    /\ readers' = readers \ {c}
    /\ Returns(c)
    /\ UNCHANGED <<cacheVars, databases>>

\* A user's own SET search_path, which nothing in the driver sees.
UserSetsSearchPath(s) ==
    /\ client # 0 /\ readers = {}
    /\ search_path' = [search_path EXCEPT ![client] = s]
    /\ disturbed' = TRUE
    /\ UNCHANGED <<cacheVars, pg_live, databases, at, doing, arg, mine, readers>>

SessionNext ==
    \/ \E c \in Callers :
          \/ BeginCall(c, "connect", Unset, "dial")
          \/ \E d \in Databases : BeginCall(c, "switch_database", d, "dial")
          \/ \E s \in Schemas : BeginCall(c, "switch_schema", s, "lock")
          \/ \E d \in Databases, o \in {"create_database", "drop_database"} : BeginCall(c, o, d, "lock")
          \/ BeginCall(c, "disconnect", Unset, "disconnect")
          \/ Dial(c) \/ RefreshSessionCaches(c) \/ ConnectSetToken(c) \/ Install(c)
          \/ SwitchSetToken(c) \/ ReadLock(c) \/ QueryFails(c) \/ SwitchSchema(c) \/ CacheSchema(c)
          \/ CreateDatabase(c) \/ DropDatabase(c) \/ CloseSession(c) \/ Drop(c)
    \/ \E s \in Schemas : UserSetsSearchPath(s)

SessionSpec == SessionInit /\ [][SessionNext]_sessionVars

-----------------------------------------------------------------------------
(* Properties *)

\* The schema an introspection call without a schema argument looks at.
ResolveSchema == IF current_schema = Unset THEN "public" ELSE current_schema

(***************************************************************************)
(* Between calls, what the driver keeps is about the session it uses: a    *)
(* cancel_query reaches that session, and an introspection call without a  *)
(* schema looks where the session itself would.  The causes of a           *)
(* difference are all in "disturbed": two calls that overlapped, a future  *)
(* dropped midway, a failed refresh, a SET search_path of the user; and a  *)
(* connect or switch_database on its own repairs it.  The server holds no  *)
(* session but that one.                                                   *)
(***************************************************************************)
CachesFollowSession ==
    Running = {} =>
        /\ pg_live = {client} \ {0}
        /\ (~disturbed /\ client # 0) =>
              /\ token = client
              /\ search_path[client] # Unset => ResolveSchema = search_path[client]
=============================================================================
