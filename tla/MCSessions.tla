----------------------------- MODULE MCSessions -----------------------------
(***************************************************************************)
(* TLC instance of what drivers keep about their sessions: the Redis       *)
(* connection and its cached client id, the PostgreSQL session with its    *)
(* cancel token and cached schema, and a Redis stream over a connection    *)
(* that others move.  A behaviour picks one of them and leaves the others  *)
(* at rest.                                                                *)
(***************************************************************************)
EXTENDS RedisSession, PostgresSession, RedisScan

VARIABLE part

\* Calls and commands of RedisSession are exchangeable.
Symmetric == Permutations(Calls) \cup Permutations(Commands)

-----------------------------------------------------------------------------
(* A key of each type, two rows where the type has them; a stream entry    *)
(* with a field twice.                                                     *)

MCContents ==
    { [type |-> "string", items |-> <<"v">>],
      [type |-> "hash", items |-> <<"f", "v", "g", "w">>],
      [type |-> "list", items |-> <<"v", "w">>],
      [type |-> "set", items |-> <<"w">>],
      [type |-> "zset", items |-> <<"m", "1">>],
      [type |-> "stream", items |-> << [id |-> "1", fields |-> <<"f", "v", "f", "w">>] >>] }
MCWritten == {c \in MCContents : c.type \in {"string", "hash"}}
MCKeyspaces ==
    {[db \in RedisDatabases |-> [k \in Keys |-> IF db = 0 THEN c ELSE Missing]] : c \in MCContents}
MCScanQueries ==
    { <<"string">>, <<"hash", "MATCH", "k1">>, <<"list">>, <<"set">>, <<"zset">>,
      <<"stream", "COUNT", "1">>, <<"hash", "COUNT", "0">>, <<"hash", "MATCH">>, <<"table">>, <<>> }

AtRest ==
    /\ manager_on = 0
    /\ \A k \in Keys : keyspace[0][k] # Missing /\ keyspace[0][k].type = "string"

-----------------------------------------------------------------------------

SessionsInit ==
    /\ part \in {"redis", "postgres", "scan"}
    /\ RedisInit /\ SessionInit /\ ScanInit
    /\ part # "scan" => AtRest

SessionsNext ==
    \/ part = "redis" /\ RedisNext /\ UNCHANGED <<part, sessionVars, scanVars>>
    \/ part = "postgres" /\ SessionNext /\ UNCHANGED <<part, redisVars, scanVars>>
    \/ part = "scan" /\ ScanNext /\ UNCHANGED <<part, redisVars, sessionVars>>

SessionsSpec == SessionsInit /\ [][SessionsNext]_<<part, redisVars, sessionVars, scanVars>>

=============================================================================
