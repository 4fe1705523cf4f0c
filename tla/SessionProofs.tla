---------------------------- MODULE SessionProofs ----------------------------
(***************************************************************************)
(* What drivers keep about their sessions and what they collect from them, *)
(* for every number of callers, sessions, schemas, keys and rows.          *)
(*                                                                         *)
(* PostgreSQL: the caches may be off only while one call is midway, and    *)
(* then that call knows what it will write; everything else that can put   *)
(* them off is counted as a disturbance.                                   *)
(*                                                                         *)
(* Redis stream_rows: a row is one its key had while the stream ran, and   *)
(* the cursor leaves no untouched key behind.                              *)
(*                                                                         *)
(* The row caps, for every EMERGENCY_MAX, batch size, result size and      *)
(* row_cap: a result is never larger than its cap, never short without     *)
(* saying so, and has min(cap, total) rows.                                *)
(***************************************************************************)
EXTENDS PostgresSession, RedisScan, RowCap, FiniteSetTheorems, TLAPS

-----------------------------------------------------------------------------
(* The PostgreSQL driver's cancel token and cached schema *)

Steps == {"idle", "dial", "refresh", "token", "install", "switch_token", "lock",
          "query", "cache", "disconnect"}
WriterCalls == {"connect", "switch_database", "switch_schema", "disconnect"}
Sessions == 1 .. Len(search_path)
SchemaOrUnset == Schemas \cup {Unset}

SessionTypeOK ==
    /\ search_path \in Seq(SchemaOrUnset)
    /\ client \in Sessions \cup {0} /\ token \in Sessions \cup {0}
    /\ current_schema \in SchemaOrUnset
    /\ pg_live \subseteq Sessions
    /\ at \in [Callers -> Steps]
    /\ doing \in [Callers -> WriterCalls \cup {"none", "create_database", "drop_database"}]
    /\ arg \in [Callers -> SchemaOrUnset \cup Databases]
    /\ mine \in [Callers -> Sessions \cup {0}]
    /\ readers \subseteq Callers /\ disturbed \in BOOLEAN

\* Which call is at which step.
CallAt ==
    \A c \in Callers :
        /\ at[c] \in {"dial", "refresh", "install"} => doing[c] \in {"connect", "switch_database"}
        /\ at[c] = "token" => doing[c] = "connect"
        /\ at[c] = "switch_token" => doing[c] = "switch_database"
        /\ at[c] \in {"lock", "query"} =>
              doing[c] \in {"switch_schema", "create_database", "drop_database"}
        /\ at[c] = "cache" => doing[c] = "switch_schema"
        /\ at[c] = "disconnect" => doing[c] = "disconnect"
        /\ doing[c] = "switch_schema" => arg[c] \in Schemas

\* The read lock is held from the lookup of the client to the end of the call,
\* and the client stays while it is.
ReadLocked ==
    /\ \A c \in Callers : c \in readers <=> at[c] \in {"query", "cache"}
    /\ readers # {} => client # 0

\* A session that was dialled and not yet installed belongs to one caller; the
\* server has these and the installed one.
Dialled == {c \in Callers : at[c] \in {"refresh", "token", "install"}}

LiveAccounted ==
    /\ \A c \in Dialled : mine[c] \in Sessions /\ mine[c] # client
    /\ \A c \in Callers : at[c] = "switch_token" => mine[c] \in Sessions
    /\ \A c, d \in Dialled : mine[c] = mine[d] => c = d
    /\ pg_live = ({client} \ {0}) \cup {mine[c] : c \in Dialled}

\* The caches are about the installed session.
InUse ==
    client # 0 =>
        /\ token = client
        /\ search_path[client] # Unset => ResolveSchema = search_path[client]

\* The steps at which a call has written one of client, token, current_schema
\* and search_path, and not yet the others.
Midway == {"token", "install", "switch_token", "cache"}

CachesOnTheWay ==
    ~disturbed =>
        /\ \A c, d \in Writers : c = d
        /\ (\A c \in Callers : at[c] \notin Midway) => InUse
        /\ \A c \in Callers :
              /\ at[c] \in {"token", "install", "switch_token"} =>
                    current_schema = search_path[mine[c]]
              /\ at[c] = "install" /\ doing[c] = "connect" => token = mine[c]
              /\ at[c] = "switch_token" => client = mine[c]
              /\ at[c] = "cache" => token = client /\ search_path[client] = arg[c]

SessionInv ==
    /\ SessionTypeOK
    /\ CallAt
    /\ ReadLocked
    /\ LiveAccounted
    /\ CachesOnTheWay

(***************************************************************************)
(* A call midway is one of those that write.                               *)
(***************************************************************************)
LEMMA MidwayWrites ==
    ASSUME SessionTypeOK, CallAt, NEW c \in Callers, at[c] \in Midway
    PROVE  c \in Writers
  BY DEF SessionTypeOK, CallAt, Midway, Writers, Running

(***************************************************************************)
(* A step of a call that is not midway before or after it and writes       *)
(* nothing of the caches leaves them right, if it disturbs nothing.        *)
(***************************************************************************)
LEMMA AsideKeepsCaches ==
    ASSUME SessionInv, NEW c \in Callers,
           at[c] \notin Midway, at'[c] \notin Midway,
           \A d \in Callers : d # c => /\ at'[d] = at[d] /\ doing'[d] = doing[d]
                                      /\ arg'[d] = arg[d] /\ mine'[d] = mine[d],
           UNCHANGED cacheVars, \A i \in Sessions : search_path'[i] = search_path[i],
           ~disturbed' => ~disturbed /\ \A d, e \in Writers' : d = e
    PROVE  CachesOnTheWay'
  <1>. USE DEF SessionInv, cacheVars
  <1>1. SUFFICES ASSUME ~disturbed'
                 PROVE  /\ (\A d \in Callers : at'[d] \notin Midway) => InUse'
                        /\ \A d \in Callers :
                              /\ at'[d] \in {"token", "install", "switch_token"} =>
                                    current_schema' = search_path'[mine'[d]]
                              /\ at'[d] = "install" /\ doing'[d] = "connect" => token' = mine'[d]
                              /\ at'[d] = "switch_token" => client' = mine'[d]
                              /\ at'[d] = "cache" =>
                                    token' = client' /\ search_path'[client'] = arg'[d]
    BY DEF CachesOnTheWay
  <1>2. ~disturbed
    BY <1>1
  <1>3. ASSUME \A d \in Callers : at'[d] \notin Midway
        PROVE  InUse'
    <2>1. InUse
      BY <1>2, <1>3 DEF CachesOnTheWay
    <2>2. client # 0 => search_path'[client] = search_path[client]
      BY DEF SessionTypeOK
    <2>. QED
      BY <2>1, <2>2 DEF InUse, ResolveSchema
  <1>4. ASSUME NEW d \in Callers, at'[d] \in Midway
        PROVE  /\ at'[d] \in {"token", "install", "switch_token"} =>
                     current_schema' = search_path'[mine'[d]]
               /\ at'[d] = "install" /\ doing'[d] = "connect" => token' = mine'[d]
               /\ at'[d] = "switch_token" => client' = mine'[d]
               /\ at'[d] = "cache" => token' = client' /\ search_path'[client'] = arg'[d]
    <2>1. d # c
      BY <1>4
    <2>2. at[d] \in {"token", "install", "switch_token"} => mine[d] \in Sessions
      BY DEF LiveAccounted, Dialled
    <2>3. at[d] = "cache" => client \in Sessions
      BY DEF ReadLocked, SessionTypeOK
    <2>4. at[d] = "switch_token" => client = mine[d]
      BY <1>2 DEF CachesOnTheWay
    <2>. QED
      BY <1>2, <2>1, <2>2, <2>3, <2>4 DEF CachesOnTheWay, SessionTypeOK
  <1>. QED
    BY <1>3, <1>4 DEF Midway

(***************************************************************************)
(* A driver that is not connected satisfies the invariant.                 *)
(***************************************************************************)
LEMMA SessionInvInit ==
    ASSUME SessionInit
    PROVE  SessionInv
  <1>. USE DEF SessionInit
  <1>1. Len(search_path) = 0 /\ search_path \in Seq(SchemaOrUnset)
    OBVIOUS
  <1>2. SessionTypeOK
    BY <1>1 DEF SessionTypeOK, Sessions, Steps, SchemaOrUnset
  <1>3. CallAt /\ ReadLocked
    BY SessionAssumption DEF CallAt, ReadLocked
  <1>4. LiveAccounted
    BY DEF LiveAccounted, Dialled
  <1>5. CachesOnTheWay
    BY DEF CachesOnTheWay, Writers, Running, InUse
  <1>. QED
    BY <1>2, <1>3, <1>4, <1>5 DEF SessionInv

(***************************************************************************)
(* Every step of connect, switch_database, switch_schema, disconnect and   *)
(* of the calls that only read, dropped futures and the user's own         *)
(* SET search_path keep the invariant.                                     *)
(***************************************************************************)
LEMMA SessionInvStep ==
    ASSUME SessionInv, [SessionNext]_sessionVars
    PROVE  SessionInv'
  <1>. USE SessionAssumption DEF SessionInv
  <1>1. ASSUME NEW c \in Callers, NEW what \in WriterCalls \cup {"create_database", "drop_database"},
               NEW a \in SchemaOrUnset \cup Databases, NEW step \in {"dial", "lock", "disconnect"},
               BeginCall(c, what, a, step),
               step = "dial" => what \in {"connect", "switch_database"},
               step = "lock" => what \in {"switch_schema", "create_database", "drop_database"},
               step = "disconnect" => what = "disconnect",
               what = "switch_schema" => a \in Schemas
        PROVE  SessionInv'
    <2>. USE <1>1 DEF BeginCall, StepTo, cacheVars, serverVars
    <2>1. SessionTypeOK'
      BY DEF SessionTypeOK, Steps, Sessions, WriterCalls
    <2>2. CallAt'
      BY DEF CallAt, SessionTypeOK
    <2>3. ReadLocked'
      BY DEF ReadLocked, SessionTypeOK
    <2>4. LiveAccounted'
      BY DEF LiveAccounted, Dialled, SessionTypeOK, Sessions
    <2>5. ~disturbed' => ~disturbed /\ \A d, e \in Writers' : d = e
      BY DEF CachesOnTheWay, Writers, Running, WriterCalls, SessionTypeOK
    <2>6. CachesOnTheWay'
      BY <2>5, AsideKeepsCaches DEF Midway, SessionTypeOK
    <2>. QED  BY <2>1, <2>2, <2>3, <2>4, <2>6
  <1>2. ASSUME NEW c \in Callers, Dial(c) PROVE SessionInv'
    <2>. USE <1>2 DEF Dial, StepTo, Returns, cacheVars, serverVars
    <2>1. Len(search_path) \in Nat
      BY DEF SessionTypeOK
    <2>2. CASE Returns(c) /\ UNCHANGED serverVars
      <3>. USE <2>2
      <3>1. SessionTypeOK'
        BY DEF SessionTypeOK, Steps, Sessions, WriterCalls, SchemaOrUnset
      <3>2. CallAt' /\ ReadLocked'
        BY DEF CallAt, ReadLocked, SessionTypeOK
      <3>3. LiveAccounted'
        BY DEF LiveAccounted, Dialled, SessionTypeOK, Sessions
      <3>4. ~disturbed' => ~disturbed /\ \A d, e \in Writers' : d = e
        BY DEF CachesOnTheWay, Writers, Running, WriterCalls, SessionTypeOK
      <3>5. CachesOnTheWay'
        BY <3>4, AsideKeepsCaches DEF Midway, SessionTypeOK
      <3>. QED  BY <3>1, <3>2, <3>3, <3>5
    <2>3. ASSUME NEW s \in SchemaOrUnset, search_path' = Append(search_path, s),
                 mine' = [mine EXCEPT ![c] = Len(search_path) + 1],
                 pg_live' = pg_live \cup {Len(search_path) + 1},
                 StepTo(c, "refresh"), UNCHANGED <<databases, doing, arg>>
          PROVE  SessionInv'
      <3>. USE <2>3
      <3>1. /\ search_path' \in Seq(SchemaOrUnset) /\ Len(search_path') = Len(search_path) + 1
            /\ \A i \in Sessions : search_path'[i] = search_path[i]
        BY <2>1 DEF SessionTypeOK, Sessions
      <3>2. Sessions' = Sessions \cup {Len(search_path) + 1} /\ Len(search_path) + 1 \notin Sessions
        BY <2>1, <3>1 DEF Sessions
      <3>3. SessionTypeOK'
        BY <3>1, <3>2 DEF SessionTypeOK, Steps
      <3>4. CallAt' /\ ReadLocked'
        BY DEF CallAt, ReadLocked, SessionTypeOK
      <3>5. LiveAccounted'
        <4>1. Dialled' = Dialled \cup {c} /\ c \notin Dialled
          BY DEF Dialled, SessionTypeOK
        <4>2. \A d \in Dialled : mine'[d] = mine[d] /\ mine[d] \in Sessions
          BY <4>1 DEF LiveAccounted, SessionTypeOK, Dialled
        <4>3. mine'[c] = Len(search_path) + 1
          BY DEF SessionTypeOK
        <4>4. \A d \in Dialled' : mine'[d] \in Sessions' /\ mine'[d] # client'
          BY <3>2, <4>1, <4>2, <4>3, <2>1 DEF LiveAccounted, SessionTypeOK
        <4>5. \A d, e \in Dialled' : mine'[d] = mine'[e] => d = e
          BY <3>2, <4>1, <4>2, <4>3 DEF LiveAccounted
        <4>6. pg_live' = ({client'} \ {0}) \cup {mine'[d] : d \in Dialled'}
          BY <4>1, <4>2, <4>3 DEF LiveAccounted
        <4>7. \A d \in Callers : at'[d] = "switch_token" => mine'[d] \in Sessions'
          BY <3>2 DEF LiveAccounted, SessionTypeOK
        <4>. QED  BY <4>4, <4>5, <4>6, <4>7 DEF LiveAccounted
      <3>6. ~disturbed' => ~disturbed /\ \A d, e \in Writers' : d = e
        BY DEF CachesOnTheWay, Writers, Running, SessionTypeOK
      <3>7. CachesOnTheWay'
        BY <3>1, <3>6, AsideKeepsCaches DEF Midway, SessionTypeOK
      <3>. QED  BY <3>3, <3>4, <3>5, <3>7
    <2>. QED
      BY <2>2, <2>3 DEF SchemaOrUnset
  <1>3. ASSUME NEW c \in Callers, RefreshSessionCaches(c) PROVE SessionInv'
    <2>. USE <1>3 DEF RefreshSessionCaches, StepTo, serverVars
    <2>1. c \in Writers /\ c \in Dialled /\ mine[c] \in Sessions
      BY DEF CallAt, Writers, Running, LiveAccounted, Dialled
    <2>2. SessionTypeOK'
      <3>1. search_path[mine[c]] \in SchemaOrUnset /\ Unset \in SchemaOrUnset
        BY <2>1 DEF SessionTypeOK, Sessions, SchemaOrUnset
      <3>2. current_schema' \in SchemaOrUnset
        BY <3>1
      <3>3. disturbed' \in BOOLEAN
        BY Zenon DEF SessionTypeOK
      <3>4. at' \in [Callers -> Steps]
        BY DEF SessionTypeOK, Steps
      <3>. QED
        BY <3>2, <3>3, <3>4 DEF SessionTypeOK, Sessions
    <2>3. CallAt' /\ ReadLocked'
      BY DEF CallAt, ReadLocked, SessionTypeOK
    <2>4. LiveAccounted'
      <3>1. Dialled' = Dialled
        BY <2>1 DEF Dialled, SessionTypeOK
      <3>. QED
        BY <3>1 DEF LiveAccounted, SessionTypeOK, Sessions
    <2>5. CachesOnTheWay'
      <3>1. SUFFICES ASSUME ~disturbed' PROVE CachesOnTheWay'
        BY DEF CachesOnTheWay
      <3>2. current_schema' = search_path[mine[c]] /\ \A d \in Writers : d = c
        BY <2>1, <3>1 DEF CachesOnTheWay
      <3>3. Writers' = Writers
        BY DEF Writers, Running, SessionTypeOK
      <3>4. \A d \in Callers : at'[d] \in Midway => d = c
        BY <3>2, MidwayWrites DEF SessionTypeOK
      <3>5. at'[c] \in {"token", "install"} /\ (at'[c] = "install" => doing[c] # "connect")
        BY DEF CallAt, SessionTypeOK
      <3>. QED
        BY <3>2, <3>3, <3>4, <3>5 DEF CachesOnTheWay, Midway
    <2>. QED  BY <2>2, <2>3, <2>4, <2>5
  <1>4. ASSUME NEW c \in Callers, ConnectSetToken(c) PROVE SessionInv'
    <2>. USE <1>4 DEF ConnectSetToken, StepTo, serverVars
    <2>1. c \in Writers /\ c \in Dialled /\ mine[c] \in Sessions
      BY DEF CallAt, Writers, Running, LiveAccounted, Dialled
    <2>2. SessionTypeOK'
      BY <2>1 DEF SessionTypeOK, Steps, Sessions
    <2>3. CallAt' /\ ReadLocked'
      BY DEF CallAt, ReadLocked, SessionTypeOK
    <2>4. LiveAccounted'
      <3>1. Dialled' = Dialled
        BY <2>1 DEF Dialled, SessionTypeOK
      <3>. QED
        BY <3>1 DEF LiveAccounted, SessionTypeOK, Sessions
    <2>5. CachesOnTheWay'
      <3>1. SUFFICES ASSUME ~disturbed PROVE CachesOnTheWay'
        BY DEF CachesOnTheWay
      <3>2. current_schema = search_path[mine[c]] /\ \A d \in Writers : d = c
        BY <2>1, <3>1 DEF CachesOnTheWay
      <3>3. Writers' = Writers
        BY DEF Writers, Running, SessionTypeOK
      <3>4. at'[c] = "install" /\ \A d \in Callers : at'[d] \in Midway => d = c
        BY <3>2, MidwayWrites DEF SessionTypeOK
      <3>. QED
        BY <3>2, <3>3, <3>4 DEF CachesOnTheWay, Midway
    <2>. QED  BY <2>2, <2>3, <2>4, <2>5
  <1>5. ASSUME NEW c \in Callers, Install(c) PROVE SessionInv'
    <2>. USE <1>5 DEF Install, StepTo, Returns
    <2>1. c \in Writers /\ c \in Dialled /\ mine[c] \in Sessions
      BY DEF CallAt, Writers, Running, LiveAccounted, Dialled
    <2>2. SessionTypeOK'
      BY <2>1 DEF SessionTypeOK, Steps, Sessions, SchemaOrUnset, WriterCalls
    <2>3. CallAt' /\ ReadLocked'
      BY DEF CallAt, ReadLocked, SessionTypeOK
    <2>4. LiveAccounted'
      <3>1. Dialled' = Dialled \ {c}
        BY <2>1 DEF Dialled, SessionTypeOK
      <3>2. \A d \in Dialled' : mine'[d] = mine[d]
        BY <3>1 DEF SessionTypeOK, Dialled
      <3>3. pg_live' = ({client'} \ {0}) \cup {mine'[d] : d \in Dialled'}
        <4>1. pg_live' = (({client} \ {0}) \cup {mine[d] : d \in Dialled}) \ {client}
          BY DEF LiveAccounted
        <4>2. pg_live' = {mine[d] : d \in Dialled}
          BY <4>1, SessionTypeOK DEF LiveAccounted, Sessions, SessionTypeOK
        <4>3. {mine[d] : d \in Dialled} = {mine[c]} \cup {mine[d] : d \in Dialled'}
          BY <2>1, <3>1
        <4>4. mine[c] # 0
          BY <2>1 DEF Sessions, SessionTypeOK
        <4>. QED
          BY <3>2, <4>2, <4>3, <4>4
      <3>. QED
        BY <2>1, <3>1, <3>2, <3>3 DEF LiveAccounted, SessionTypeOK, Sessions
    <2>5. CachesOnTheWay'
      <3>1. SUFFICES ASSUME ~disturbed PROVE CachesOnTheWay'
        BY DEF CachesOnTheWay
      <3>2. /\ current_schema = search_path[mine[c]] /\ \A d \in Writers : d = c
            /\ doing[c] = "connect" => token = mine[c]
        BY <2>1, <3>1 DEF CachesOnTheWay
      <3>3. Writers' \subseteq Writers
        BY DEF Writers, Running, SessionTypeOK, WriterCalls
      <3>4. \A d \in Callers : d # c => at'[d] \notin Midway
        BY <3>2, MidwayWrites DEF SessionTypeOK
      <3>5. CASE doing[c] = "connect"
        <4>1. at'[c] = "idle"
          BY <3>5 DEF SessionTypeOK
        <4>2. InUse'
          BY <3>2, <3>5 DEF InUse, ResolveSchema
        <4>. QED
          BY <3>2, <3>3, <3>4, <4>1, <4>2 DEF CachesOnTheWay, Midway
      <3>6. CASE doing[c] # "connect"
        <4>1. at'[c] = "switch_token" /\ mine' = mine
          BY <3>6 DEF SessionTypeOK
        <4>. QED
          BY <3>2, <3>3, <3>4, <4>1 DEF CachesOnTheWay, Midway
      <3>. QED  BY <3>5, <3>6
    <2>. QED  BY <2>2, <2>3, <2>4, <2>5
  <1>6. ASSUME NEW c \in Callers, SwitchSetToken(c) PROVE SessionInv'
    <2>. USE <1>6 DEF SwitchSetToken, StepTo, Returns, serverVars
    <2>1. c \in Writers /\ c \notin Dialled /\ mine[c] \in Sessions
      BY DEF CallAt, Writers, Running, LiveAccounted, Dialled
    <2>2. SessionTypeOK'
      BY <2>1 DEF SessionTypeOK, Steps, Sessions, SchemaOrUnset, WriterCalls
    <2>3. CallAt' /\ ReadLocked'
      BY DEF CallAt, ReadLocked, SessionTypeOK
    <2>4. LiveAccounted'
      <3>1. Dialled' = Dialled
        BY <2>1 DEF Dialled, SessionTypeOK
      <3>. QED
        BY <2>1, <3>1 DEF LiveAccounted, SessionTypeOK, Sessions
    <2>5. CachesOnTheWay'
      <3>1. SUFFICES ASSUME ~disturbed PROVE CachesOnTheWay'
        BY DEF CachesOnTheWay
      <3>2. /\ current_schema = search_path[mine[c]] /\ \A d \in Writers : d = c
            /\ client = mine[c]
        BY <2>1, <3>1 DEF CachesOnTheWay
      <3>3. Writers' \subseteq Writers
        BY DEF Writers, Running, SessionTypeOK, WriterCalls
      <3>4. \A d \in Callers : at'[d] \notin Midway
        BY <3>2, MidwayWrites DEF SessionTypeOK, Midway
      <3>5. InUse'
        BY <3>2 DEF InUse, ResolveSchema
      <3>. QED
        BY <3>2, <3>3, <3>4, <3>5 DEF CachesOnTheWay, Midway
    <2>. QED  BY <2>2, <2>3, <2>4, <2>5
  <1>7. ASSUME NEW c \in Callers, ReadLock(c) PROVE SessionInv'
    <2>. USE <1>7 DEF ReadLock, StepTo, Returns, cacheVars, serverVars
    <2>1. SessionTypeOK'
      BY DEF SessionTypeOK, Steps, Sessions, SchemaOrUnset, WriterCalls
    <2>2. CallAt'
      BY DEF CallAt, SessionTypeOK
    <2>3. ReadLocked'
      BY DEF ReadLocked, SessionTypeOK
    <2>4. LiveAccounted'
      <3>1. Dialled' = Dialled
        BY DEF Dialled, SessionTypeOK
      <3>. QED
        BY <3>1 DEF LiveAccounted, Dialled, SessionTypeOK, Sessions
    <2>5. ~disturbed' => ~disturbed /\ \A d, e \in Writers' : d = e
      BY DEF CachesOnTheWay, Writers, Running, WriterCalls, SessionTypeOK
    <2>6. CachesOnTheWay'
      BY <2>5, AsideKeepsCaches DEF Midway, SessionTypeOK
    <2>. QED  BY <2>1, <2>2, <2>3, <2>4, <2>6
  <1>8. ASSUME NEW c \in Callers, QueryFails(c) \/ CreateDatabase(c) \/ DropDatabase(c)
        PROVE  SessionInv'
    <2>1. /\ at[c] = "query" /\ readers' = readers \ {c} /\ Returns(c)
          /\ UNCHANGED <<cacheVars, search_path, pg_live, disturbed>>
      BY <1>8 DEF QueryFails, CreateDatabase, DropDatabase, serverVars
    <2>. USE <2>1 DEF StepTo, Returns, cacheVars
    <2>2. SessionTypeOK'
      BY DEF SessionTypeOK, Steps, Sessions, SchemaOrUnset, WriterCalls
    <2>3. CallAt'
      BY DEF CallAt, SessionTypeOK
    <2>4. ReadLocked'
      BY DEF ReadLocked, SessionTypeOK
    <2>5. LiveAccounted'
      <3>1. Dialled' = Dialled
        BY DEF Dialled, SessionTypeOK
      <3>. QED
        BY <3>1 DEF LiveAccounted, Dialled, SessionTypeOK, Sessions
    <2>6. ~disturbed' => ~disturbed /\ \A d, e \in Writers' : d = e
      BY DEF CachesOnTheWay, Writers, Running, WriterCalls, SessionTypeOK
    <2>7. CachesOnTheWay'
      BY <2>6, AsideKeepsCaches DEF Midway, SessionTypeOK
    <2>. QED  BY <2>2, <2>3, <2>4, <2>5, <2>7
  <1>9. ASSUME NEW c \in Callers, SwitchSchema(c) PROVE SessionInv'
    <2>. USE <1>9 DEF SwitchSchema, StepTo, cacheVars
    <2>1. c \in Writers /\ client \in Sessions /\ arg[c] \in Schemas
      BY DEF CallAt, Writers, Running, ReadLocked, SessionTypeOK
    <2>2. /\ search_path' \in Seq(SchemaOrUnset) /\ Len(search_path') = Len(search_path)
          /\ search_path'[client] = arg[c]
      BY <2>1 DEF SessionTypeOK, Sessions, SchemaOrUnset
    <2>3. SessionTypeOK'
      BY <2>2 DEF SessionTypeOK, Steps, Sessions
    <2>4. CallAt' /\ ReadLocked'
      BY DEF CallAt, ReadLocked, SessionTypeOK
    <2>5. LiveAccounted'
      <3>1. Dialled' = Dialled /\ Sessions' = Sessions
        BY <2>2 DEF Dialled, SessionTypeOK, Sessions
      <3>. QED
        BY <3>1 DEF LiveAccounted, SessionTypeOK
    <2>6. CachesOnTheWay'
      <3>1. SUFFICES ASSUME ~disturbed PROVE CachesOnTheWay'
        BY DEF CachesOnTheWay
      <3>2. \A d \in Writers : d = c
        BY <2>1, <3>1 DEF CachesOnTheWay
      <3>3. Writers' = Writers
        BY DEF Writers, Running, SessionTypeOK
      <3>4. \A d \in Callers : at[d] \notin Midway
        BY <3>2, MidwayWrites DEF SessionTypeOK, Midway
      <3>5. token = client
        BY <2>1, <3>1, <3>4 DEF CachesOnTheWay, InUse, Sessions, SessionTypeOK
      <3>6. at'[c] = "cache" /\ \A d \in Callers : d # c => at'[d] \notin Midway
        BY <3>4 DEF SessionTypeOK
      <3>. QED
        BY <2>2, <3>2, <3>3, <3>5, <3>6 DEF CachesOnTheWay, Midway
    <2>. QED  BY <2>3, <2>4, <2>5, <2>6
  <1>10. ASSUME NEW c \in Callers, CacheSchema(c) PROVE SessionInv'
    <2>. USE <1>10 DEF CacheSchema, StepTo, Returns, serverVars
    <2>1. c \in Writers /\ arg[c] \in Schemas
      BY DEF CallAt, Writers, Running
    <2>2. SessionTypeOK'
      BY <2>1 DEF SessionTypeOK, Steps, Sessions, SchemaOrUnset, WriterCalls
    <2>3. CallAt' /\ ReadLocked'
      BY DEF CallAt, ReadLocked, SessionTypeOK
    <2>4. LiveAccounted'
      <3>1. Dialled' = Dialled
        BY DEF Dialled, SessionTypeOK
      <3>. QED
        BY <3>1 DEF LiveAccounted, Dialled, SessionTypeOK, Sessions
    <2>5. CachesOnTheWay'
      <3>1. SUFFICES ASSUME ~disturbed PROVE CachesOnTheWay'
        BY DEF CachesOnTheWay
      <3>2. token = client /\ search_path[client] = arg[c] /\ \A d \in Writers : d = c
        BY <2>1, <3>1 DEF CachesOnTheWay
      <3>3. Writers' \subseteq Writers
        BY DEF Writers, Running, SessionTypeOK, WriterCalls
      <3>4. \A d \in Callers : at'[d] \notin Midway
        BY <3>2, MidwayWrites DEF SessionTypeOK, Midway
      <3>5. InUse'
        BY <3>2 DEF InUse, ResolveSchema
      <3>. QED
        BY <3>2, <3>3, <3>4, <3>5 DEF CachesOnTheWay, Midway
    <2>. QED  BY <2>2, <2>3, <2>4, <2>5
  <1>11. ASSUME NEW c \in Callers, CloseSession(c) PROVE SessionInv'
    <2>. USE <1>11 DEF CloseSession, StepTo, Returns
    <2>1. c \in Writers /\ c \notin Dialled
      BY DEF CallAt, Writers, Running, Dialled
    <2>2. SessionTypeOK'
      BY <2>1 DEF SessionTypeOK, Steps, Sessions, SchemaOrUnset, WriterCalls
    <2>3. CallAt' /\ ReadLocked'
      BY DEF CallAt, ReadLocked, SessionTypeOK
    <2>4. LiveAccounted'
      <3>1. Dialled' = Dialled /\ \A d \in Dialled : mine'[d] = mine[d]
        BY <2>1 DEF Dialled, SessionTypeOK
      <3>2. \A d \in Dialled : mine[d] # 0 /\ mine[d] # client
        BY DEF LiveAccounted, Sessions, SessionTypeOK
      <3>3. pg_live' = {mine[d] : d \in Dialled}
        BY <3>2 DEF LiveAccounted
      <3>4. \A d \in Callers : at'[d] = "switch_token" => mine'[d] \in Sessions'
        BY DEF LiveAccounted, SessionTypeOK, Sessions
      <3>. QED
        BY <3>1, <3>2, <3>3, <3>4 DEF LiveAccounted, Sessions
    <2>5. CachesOnTheWay'
      <3>1. SUFFICES ASSUME ~disturbed PROVE CachesOnTheWay'
        BY DEF CachesOnTheWay
      <3>2. \A d \in Writers : d = c
        BY <2>1, <3>1 DEF CachesOnTheWay
      <3>3. Writers' \subseteq Writers
        BY DEF Writers, Running, SessionTypeOK, WriterCalls
      <3>4. \A d \in Callers : at'[d] \notin Midway
        BY <3>2, MidwayWrites DEF SessionTypeOK, Midway
      <3>. QED
        BY <3>2, <3>3, <3>4 DEF CachesOnTheWay, Midway, InUse
    <2>. QED  BY <2>2, <2>3, <2>4, <2>5
  <1>12. ASSUME NEW c \in Callers, Drop(c) PROVE SessionInv'
    <2>. USE <1>12 DEF Drop, StepTo, Returns, cacheVars
    <2>1. at[c] = "query" => client \in Sessions /\ arg[c] \in SchemaOrUnset \cup Databases
      BY DEF ReadLocked, SessionTypeOK
    <2>2. /\ search_path' \in Seq(SchemaOrUnset) /\ Len(search_path') = Len(search_path)
          /\ ~(at[c] = "query" /\ doing[c] = "switch_schema") => search_path' = search_path
      BY <2>1 DEF SessionTypeOK, Sessions, SchemaOrUnset, CallAt
    <2>3. disturbed' \in BOOLEAN
      BY Zenon DEF SessionTypeOK
    <2>4. SessionTypeOK'
      <3>1. Sessions' = Sessions
        BY <2>2 DEF Sessions
      <3>2. pg_live' \subseteq Sessions
        BY DEF SessionTypeOK
      <3>3. /\ at' \in [Callers -> Steps]
            /\ doing' \in [Callers -> WriterCalls \cup {"none", "create_database", "drop_database"}]
            /\ arg' \in [Callers -> SchemaOrUnset \cup Databases]
            /\ mine' \in [Callers -> Sessions \cup {0}]
        BY DEF SessionTypeOK, Steps, SchemaOrUnset, WriterCalls
      <3>. QED
        BY <2>2, <2>3, <3>1, <3>2, <3>3 DEF SessionTypeOK
    <2>5. CallAt'
      BY DEF CallAt, SessionTypeOK
    <2>6. ReadLocked'
      BY DEF ReadLocked, SessionTypeOK
    <2>7. LiveAccounted'
      <3>1. Dialled' = Dialled \ {c} /\ \A d \in Dialled' : mine'[d] = mine[d]
        BY DEF Dialled, SessionTypeOK
      <3>2. Sessions' = Sessions
        BY <2>2 DEF Sessions
      <3>3. \A d \in Callers : at'[d] = "switch_token" => mine'[d] \in Sessions'
        BY <3>2 DEF LiveAccounted, SessionTypeOK
      <3>4. pg_live' = ({client'} \ {0}) \cup {mine'[d] : d \in Dialled'}
        <4>1. CASE c \in Dialled
          <5>1. pg_live' = pg_live \ {mine[c]}
            BY <4>1 DEF Dialled
          <5>2. {mine[d] : d \in Dialled} \ {mine[c]} = {mine[d] : d \in Dialled'}
            BY <3>1, <4>1 DEF LiveAccounted
          <5>3. mine[c] # client
            BY <4>1 DEF LiveAccounted
          <5>4. {mine'[d] : d \in Dialled'} = {mine[d] : d \in Dialled'}
            BY <3>1
          <5>. QED
            BY <5>1, <5>2, <5>3, <5>4 DEF LiveAccounted
        <4>2. CASE c \notin Dialled
          <5>1. pg_live' = pg_live /\ Dialled' = Dialled
            BY <3>1, <4>2 DEF Dialled
          <5>. QED
            BY <3>1, <5>1 DEF LiveAccounted
        <4>. QED  BY <4>1, <4>2
      <3>. QED
        BY <3>1, <3>2, <3>3, <3>4 DEF LiveAccounted
    <2>8. CachesOnTheWay'
      <3>1. SUFFICES ASSUME ~disturbed' PROVE CachesOnTheWay'
        BY DEF CachesOnTheWay
      <3>2. ~disturbed /\ at[c] # "install" /\ ~(at[c] = "query" /\ c \in Writers)
        BY <3>1, Zenon
      <3>3. search_path' = search_path
        BY <2>2, <3>2 DEF Writers, Running
      <3>4. at[c] \notin Midway /\ at'[c] \notin Midway
        BY <3>2 DEF Midway, SessionTypeOK
      <3>5. \A d, e \in Writers' : d = e
        BY <3>2 DEF CachesOnTheWay, Writers, Running, WriterCalls, SessionTypeOK
      <3>. QED
        BY <3>2, <3>3, <3>4, <3>5, AsideKeepsCaches DEF SessionTypeOK
    <2>. QED  BY <2>4, <2>5, <2>6, <2>7, <2>8
  <1>13. ASSUME NEW s \in Schemas, UserSetsSearchPath(s) PROVE SessionInv'
    <2>. USE <1>13 DEF UserSetsSearchPath, cacheVars
    <2>1. search_path' \in Seq(SchemaOrUnset) /\ Len(search_path') = Len(search_path)
      BY DEF SessionTypeOK, Sessions, SchemaOrUnset
    <2>2. Sessions' = Sessions
      BY <2>1 DEF Sessions
    <2>3. SessionTypeOK' /\ CallAt' /\ ReadLocked'
      BY <2>1, <2>2 DEF SessionTypeOK, CallAt, ReadLocked
    <2>4. LiveAccounted'
      BY <2>2 DEF LiveAccounted, Dialled
    <2>. QED
      BY <2>3, <2>4 DEF CachesOnTheWay
  <1>14. CASE UNCHANGED sessionVars
    <2>. USE <1>14 DEF sessionVars
    <2>1. SessionTypeOK' /\ CallAt' /\ ReadLocked'
      BY DEF SessionTypeOK, Sessions, CallAt, ReadLocked
    <2>2. LiveAccounted'
      BY DEF LiveAccounted, Dialled, Sessions
    <2>3. CachesOnTheWay'
      BY DEF CachesOnTheWay, Writers, Running, InUse, ResolveSchema
    <2>. QED  BY <2>1, <2>2, <2>3
  <1>15. ASSUME NEW c \in Callers,
                \/ BeginCall(c, "connect", Unset, "dial")
                \/ \E d \in Databases : BeginCall(c, "switch_database", d, "dial")
                \/ \E s \in Schemas : BeginCall(c, "switch_schema", s, "lock")
                \/ \E d \in Databases, o \in {"create_database", "drop_database"} : BeginCall(c, o, d, "lock")
                \/ BeginCall(c, "disconnect", Unset, "disconnect")
         PROVE  SessionInv'
    <2>. USE DEF WriterCalls, SchemaOrUnset
    <2>1. CASE BeginCall(c, "connect", Unset, "dial")
      BY <1>1, <2>1
    <2>2. CASE \E d \in Databases : BeginCall(c, "switch_database", d, "dial")
      BY <1>1, <2>2
    <2>3. CASE \E s \in Schemas : BeginCall(c, "switch_schema", s, "lock")
      BY <1>1, <2>3
    <2>4. CASE \E d \in Databases, o \in {"create_database", "drop_database"} : BeginCall(c, o, d, "lock")
      BY <1>1, <2>4
    <2>5. CASE BeginCall(c, "disconnect", Unset, "disconnect")
      BY <1>1, <2>5
    <2>. QED  BY <1>15, <2>1, <2>2, <2>3, <2>4, <2>5
  <1>. QED
    BY <1>2, <1>3, <1>4, <1>5, <1>6, <1>7, <1>8, <1>9, <1>10, <1>11, <1>12, <1>13, <1>14, <1>15
       DEF SessionNext

(***************************************************************************)
(* In every execution the invariant holds.                                 *)
(***************************************************************************)
LEMMA SessionInvHolds == SessionSpec => []SessionInv
  BY SessionInvInit, SessionInvStep, PTL DEF SessionSpec

(***************************************************************************)
(* Between calls the server holds no session but the installed one, and    *)
(* unless something on the list of "disturbed" happened the cancel token   *)
(* and the cached schema are that session's: for every number of callers   *)
(* that run connect, switch_database, switch_schema and disconnect.        *)
(***************************************************************************)
THEOREM SessionCachesFollow == SessionSpec => []CachesFollowSession
  <1>1. ASSUME SessionInv PROVE CachesFollowSession
    <2>1. SUFFICES ASSUME Running = {} PROVE CachesFollowSession
      BY DEF CachesFollowSession
    <2>2. \A c \in Callers : at[c] = "idle"
      BY <2>1 DEF Running
    <2>3. pg_live = {client} \ {0}
      BY <1>1, <2>2 DEF SessionInv, LiveAccounted, Dialled
    <2>4. ~disturbed => InUse
      BY <1>1, <2>2 DEF SessionInv, CachesOnTheWay, Midway
    <2>. QED
      BY <2>3, <2>4 DEF CachesFollowSession, InUse
  <1>. QED
    BY <1>1, SessionInvHolds, PTL

-----------------------------------------------------------------------------
(* Redis stream_rows: lemmas about the operators it is built from *)

\* The rows of a key of a table that holds these contents.
TableRows(t, k, c) ==
    IF Reply(t, c) = Error THEN {} ELSE ToSet(FetchRowsForKey(t, k, Reply(t, c)))

Held == Contents \cup {Missing}
AllRows == UNION {TableRows(t, k, c) : t \in PseudoTables, k \in Keys, c \in Held}
Specs == {ParseScanSpec(q) : q \in ScanQueries} \ {Error}
Streams ==
    [st : {"scan", "fetch", "done"}, spec : Specs, cursor : SUBSET Keys,
     page : Seq(Keys), batch : Seq(AllRows)]

(***************************************************************************)
(* A finite set listed as a sequence has its elements and no others.       *)
(***************************************************************************)
LEMMA SetListed ==
    ASSUME NEW S, IsFiniteSet(S)
    PROVE  SetToSeq(S) \in Seq(S) /\ ToSet(SetToSeq(S)) = S
  <1>. DEFINE n == Cardinality(S)
              f == SetToSeq(S)
  <1>1. n \in Nat /\ ExistsBijection(1 .. n, S)
    BY FS_CardinalityType
  <1>2. PICK g \in Bijection(1 .. n, S) : TRUE
    BY <1>1 DEF ExistsBijection
  <1>3. g \in [1 .. n -> S] /\ IsInjective(g)
    BY <1>2 DEF Bijection, Injection
  <1>4. f \in [1 .. n -> S] /\ IsInjective(f)
    BY <1>3 DEF SetToSeq
  <1>5. Cardinality(1 .. n) = n
    BY <1>1, FS_Interval
  <1>6. f \in Injection(1 .. n, S)
    BY <1>4 DEF Injection
  <1>7. f \in Surjection(1 .. n, S)
    BY <1>5, <1>6, FS_Injection
  <1>8. \A x \in S : \E i \in 1 .. n : f[i] = x
    BY <1>7 DEF Surjection
  <1>. HIDE DEF n, f
  <1>9. f \in Seq(S) /\ DOMAIN f = 1 .. n
    BY <1>1, <1>4
  <1>10. ToSet(f) = S
    BY <1>4, <1>8, <1>9 DEF ToSet
  <1>. QED  BY <1>9, <1>10 DEF f

LEMMA ConcatListed ==
    ASSUME NEW S, NEW s \in Seq(S), NEW t \in Seq(S)
    PROVE  s \o t \in Seq(S) /\ ToSet(s \o t) = ToSet(s) \cup ToSet(t)
  <1>1. /\ s \o t \in Seq(S) /\ Len(s \o t) = Len(s) + Len(t)
        /\ \A i \in 1 .. Len(s) + Len(t) : (s \o t)[i] = IF i <= Len(s) THEN s[i] ELSE t[i - Len(s)]
    OBVIOUS
  <1>2. /\ DOMAIN s = 1 .. Len(s) /\ DOMAIN t = 1 .. Len(t) /\ DOMAIN (s \o t) = 1 .. Len(s) + Len(t)
        /\ Len(s) \in Nat /\ Len(t) \in Nat
    BY <1>1
  <1>3. ASSUME NEW i \in DOMAIN (s \o t) PROVE (s \o t)[i] \in ToSet(s) \cup ToSet(t)
    <2>1. CASE i <= Len(s)
      BY <1>1, <1>2, <2>1 DEF ToSet
    <2>2. CASE ~(i <= Len(s))
      <3>1. i - Len(s) \in 1 .. Len(t)
        BY <1>2, <2>2
      <3>. QED  BY <1>1, <1>2, <2>2, <3>1 DEF ToSet
    <2>. QED  BY <2>1, <2>2
  <1>4. ASSUME NEW i \in DOMAIN s PROVE s[i] \in ToSet(s \o t)
    <2>1. i \in 1 .. Len(s) + Len(t) /\ i <= Len(s)
      BY <1>2
    <2>. QED  BY <1>1, <1>2, <2>1 DEF ToSet
  <1>5. ASSUME NEW i \in DOMAIN t PROVE t[i] \in ToSet(s \o t)
    <2>1. i + Len(s) \in 1 .. Len(s) + Len(t) /\ ~(i + Len(s) <= Len(s)) /\ i + Len(s) - Len(s) = i
      BY <1>2
    <2>2. (s \o t)[i + Len(s)] = t[i]
      BY <1>1, <2>1
    <2>. QED  BY <1>2, <2>1, <2>2 DEF ToSet
  <1>6. ToSet(s \o t) = {(s \o t)[i] : i \in DOMAIN (s \o t)} /\ ToSet(s) = {s[i] : i \in DOMAIN s}
        /\ ToSet(t) = {t[i] : i \in DOMAIN t}
    BY DEF ToSet
  <1>. QED
    BY <1>1, <1>3, <1>4, <1>5, <1>6

LEMMA TailListed ==
    ASSUME NEW S, NEW s \in Seq(S), s # <<>>
    PROVE  Tail(s) \in Seq(S) /\ ToSet(s) \subseteq {Head(s)} \cup ToSet(Tail(s))
  <1>1. /\ Tail(s) \in Seq(S) /\ Len(Tail(s)) = Len(s) - 1 /\ Len(s) \in Nat \ {0} /\ Head(s) = s[1]
        /\ \A i \in 1 .. Len(s) - 1 : Tail(s)[i] = s[i + 1]
    OBVIOUS
  <1>2. DOMAIN s = 1 .. Len(s) /\ DOMAIN Tail(s) = 1 .. Len(s) - 1
    BY <1>1
  <1>3. ASSUME NEW i \in 1 .. Len(s), i # 1 PROVE s[i] \in ToSet(Tail(s))
    <2>1. i - 1 \in 1 .. Len(s) - 1 /\ (i - 1) + 1 = i
      BY <1>1, <1>3
    <2>2. Tail(s)[i - 1] = s[i]
      BY <1>1, <2>1
    <2>. QED  BY <1>2, <2>1, <2>2 DEF ToSet
  <1>4. ToSet(s) = {s[i] : i \in 1 .. Len(s)}
    BY <1>2 DEF ToSet
  <1>. QED  BY <1>1, <1>3, <1>4

LEMMA AtMostCuts ==
    ASSUME NEW S, NEW s \in Seq(S), NEW n \in Nat
    PROVE  /\ AtMost(n, s) \in Seq(S) /\ Len(AtMost(n, s)) <= n
           /\ ToSet(AtMost(n, s)) \subseteq ToSet(s)
           /\ Len(AtMost(n, s)) < n => AtMost(n, s) = s
  <1>1. CASE Len(s) <= n
    BY <1>1 DEF AtMost
  <1>2. CASE ~(Len(s) <= n)
    <2>. DEFINE c == SubSeq(s, 1, n)
    <2>1. AtMost(n, s) = c
      BY <1>2 DEF AtMost
    <2>2. c \in Seq(S) /\ Len(c) = n /\ \A i \in 1 .. n : c[i] = s[i] /\ i \in DOMAIN s
      BY <1>2
    <2>3. DOMAIN c = 1 .. n
      BY <2>2
    <2>4. ToSet(c) \subseteq ToSet(s)
      BY <2>2, <2>3 DEF ToSet
    <2>. QED
      BY <2>1, <2>2, <2>4
  <1>. QED  BY <1>1, <1>2

LEMMA PairsPaired ==
    ASSUME NEW items, Len(items) \in Nat
    PROVE  LET pairs == FlatPairs(Arr(items)) IN
           /\ pairs = [i \in 1 .. Len(items) \div 2 |-> <<items[2 * i - 1], items[2 * i]>>]
           /\ Len(items) \div 2 \in Nat
  <1>1. Arr(items).kind = "array" /\ Arr(items).items = items
    BY DEF Arr
  <1>2. Len(items) \div 2 \in Nat
    OBVIOUS
  <1>. QED
    BY <1>1, <1>2 DEF FlatPairs

(***************************************************************************)
(* What a read command's reply becomes: rows that start with the key, as   *)
(* wide as the table's header.                                             *)
(***************************************************************************)
LEMMA RowsShaped ==
    ASSUME NEW t \in PseudoTables, NEW k \in Keys, NEW c \in Held, Reply(t, c) # Error
    PROVE  LET listed == FetchRowsForKey(t, k, Reply(t, c))
           IN  /\ listed \in Seq(AllRows) /\ ToSet(listed) = TableRows(t, k, c)
               /\ \A row \in ToSet(listed) : row[1] = k /\ Len(row) = Len(ColumnsFor(t))
  <1>. DEFINE reply == Reply(t, c)
              listed == FetchRowsForKey(t, k, reply)
  <1>1. ToSet(listed) = TableRows(t, k, c) /\ TableRows(t, k, c) \subseteq AllRows
    BY DEF TableRows, AllRows
  <1>2. SUFFICES \E m \in Nat : /\ DOMAIN listed = 1 .. m /\ listed = [i \in 1 .. m |-> listed[i]]
                                /\ \A i \in 1 .. m : listed[i][1] = k /\ Len(listed[i]) = Len(ColumnsFor(t))
    <2>. HIDE DEF listed
    <2>1. PICK m \in Nat : /\ DOMAIN listed = 1 .. m /\ listed = [i \in 1 .. m |-> listed[i]]
                           /\ \A i \in 1 .. m : listed[i][1] = k /\ Len(listed[i]) = Len(ColumnsFor(t))
      BY <1>2
    <2>2. \A i \in 1 .. m : listed[i] \in AllRows
      BY <1>1, <2>1 DEF ToSet
    <2>3. listed \in [1 .. m -> AllRows]
      BY <2>1, <2>2
    <2>4. listed \in Seq(AllRows)
      BY <2>3
    <2>5. \A row \in ToSet(listed) : row[1] = k /\ Len(row) = Len(ColumnsFor(t))
      BY <2>1 DEF ToSet
    <2>. QED  BY <1>1, <2>4, <2>5 DEF listed
  <1>3. t # "string" => \E items : reply = Arr(items) /\ Len(items) \in Nat /\ DOMAIN items = 1 .. Len(items)
    <2>1. c # Missing => Len(c.items) \in Nat /\ DOMAIN c.items = 1 .. Len(c.items)
      <3>1. c # Missing => c.items \in Seq(ToSet(c.items))
        BY ScanAssumption DEF Held
      <3>. QED  BY <3>1
    <2>2. Len(<<>>) \in Nat /\ DOMAIN <<>> = 1 .. Len(<<>>)
      OBVIOUS
    <2>. QED
      BY <2>1, <2>2 DEF Reply
  <1>4. CASE t = "string"
    <2>1. listed = << <<k, ValueToCell(reply)>> >> /\ Len(ColumnsFor(t)) = 2
      BY <1>4 DEF FetchRowsForKey, ColumnsFor
    <2>. HIDE DEF listed
    <2>2. DOMAIN listed = 1 .. 1 /\ listed = [i \in 1 .. 1 |-> listed[i]] /\ listed[1] = <<k, ValueToCell(reply)>>
      BY <2>1
    <2>. QED
      BY <2>1, <2>2
  <1>5. CASE t # "string"
    <2>1. PICK items : reply = Arr(items) /\ Len(items) \in Nat /\ DOMAIN items = 1 .. Len(items)
      BY <1>3, <1>5
    <2>2. ArrayItems(reply) = items
      BY <2>1 DEF ArrayItems, Arr
    <2>. HIDE DEF reply
    <2>3. CASE t \in {"hash", "zset"}
      <3>. DEFINE m == Len(items) \div 2
                  pairs == FlatPairs(reply)
      <3>1. m \in Nat /\ pairs = [i \in 1 .. m |-> <<items[2 * i - 1], items[2 * i]>>]
        BY <2>1, PairsPaired
      <3>2. listed = [i \in DOMAIN pairs |-> <<k>> \o pairs[i]] /\ Len(ColumnsFor(t)) = 3
        BY <2>3 DEF FetchRowsForKey, ColumnsFor
      <3>3. ASSUME NEW a, NEW b
            PROVE  (<<k>> \o <<a, b>>)[1] = k /\ Len(<<k>> \o <<a, b>>) = 3
        <4>. DEFINE S == {k, a, b}
        <4>1. <<k>> \in Seq(S) /\ <<a, b>> \in Seq(S) /\ Len(<<k>>) = 1 /\ Len(<<a, b>>) = 2 /\ <<k>>[1] = k
          OBVIOUS
        <4>. QED  BY <4>1
      <3>. HIDE DEF pairs, m
      <3>4. \A i \in 1 .. m : pairs[i] = <<items[2 * i - 1], items[2 * i]>>
        BY <3>1
      <3>5. DOMAIN pairs = 1 .. m
        BY <3>1
      <3>. HIDE DEF listed
      <3>6. \A i \in 1 .. m : listed[i][1] = k /\ Len(listed[i]) = 3
        <4>1. TAKE i \in 1 .. m
        <4>. DEFINE a == items[2 * i - 1]
                    b == items[2 * i]
        <4>2. listed[i] = <<k>> \o pairs[i] /\ pairs[i] = <<a, b>>
          BY <3>2, <3>4, <3>5
        <4>3. listed[i] = <<k>> \o <<a, b>>
          BY <4>2
        <4>. HIDE DEF a, b
        <4>4. (<<k>> \o <<a, b>>)[1] = k /\ Len(<<k>> \o <<a, b>>) = 3
          BY <3>3
        <4>. QED  BY <4>3, <4>4
      <3>. QED
        BY <3>1, <3>2, <3>5, <3>6
    <2>. DEFINE m == Len(items)
    <2>4. CASE t = "list"
      <3>1. listed = [i \in 1 .. m |-> <<k, i - 1, items[i]>>] /\ Len(ColumnsFor(t)) = 3
        BY <2>1, <2>2, <2>4 DEF FetchRowsForKey, ColumnsFor
      <3>. HIDE DEF listed
      <3>. QED  BY <2>1, <3>1
    <2>5. CASE t = "set"
      <3>1. listed = [i \in 1 .. m |-> <<k, items[i]>>] /\ Len(ColumnsFor(t)) = 2
        BY <2>1, <2>2, <2>5 DEF FetchRowsForKey, ColumnsFor
      <3>. HIDE DEF listed
      <3>. QED  BY <2>1, <3>1
    <2>6. CASE t = "stream"
      <3>1. /\ listed = [i \in 1 .. m |-> <<k, items[i].id, FieldsObject(items[i].fields)>>]
            /\ Len(ColumnsFor(t)) = 3
        BY <2>1, <2>2, <2>6 DEF FetchRowsForKey, ColumnsFor
      <3>. HIDE DEF listed
      <3>. QED  BY <2>1, <3>1
    <2>. QED  BY <1>5, <2>3, <2>4, <2>5, <2>6 DEF PseudoTables
  <1>. QED  BY <1>4, <1>5

-----------------------------------------------------------------------------
(* The stream over a keyspace that others write *)

Active == scan.st \in {"scan", "fetch", "done", "error"}

ScanTypeOK ==
    /\ keyspace \in [RedisDatabases -> [Keys -> Held]]
    /\ manager_on \in RedisDatabases \cup {-1} /\ built_for \in RedisDatabases
    /\ selected \in RedisDatabases /\ home \in RedisDatabases
    /\ held \in [Keys -> SUBSET Held] /\ \A k \in Keys : held[k] # {}
    /\ scan \in {Idle, [st |-> "refused"]} \cup [st : {"error"}, spec : Specs] \cup Streams
    /\ sent \in Seq(AllRows)

\* The history has what a read would find now.
CurrentHeld ==
    scan.st \in {"scan", "fetch"} => \A k \in Keys : keyspace[selected][k] \in held[k]

\* Every row read so far, yielded or not, is one a key had.
RowRead(row) ==
    /\ row[1] \in Keys /\ Len(row) = Len(ColumnsFor(scan.spec.table))
    /\ \E c \in held[row[1]] : row \in TableRows(scan.spec.table, row[1], c)

RowsRead ==
    /\ ~Active => sent = <<>>
    /\ Active => \A row \in ToSet(sent) : RowRead(row)
    /\ scan.st = "fetch" => \A row \in ToSet(scan.batch) : RowRead(row)
    /\ Len(sent) <= ScanMax

\* Of a matching key that the cursor passed and that nobody touched, the rows
\* are sent, or in the batch, or the key is still on the page.
Untouched(k, c) ==
    held[k] = {c} /\ c.type = scan.spec.table /\ scan.spec.pattern \in {"*", k}

Read == ToSet(sent) \cup (IF scan.st = "fetch" THEN ToSet(scan.batch) ELSE {})

NoneMissed ==
    /\ scan.st \in {"scan", "fetch", "done"} /\ Len(sent) < ScanMax =>
          \A k \in scan.cursor : \A c \in Contents :
              Untouched(k, c) =>
                  \/ scan.st = "fetch" /\ k \in ToSet(scan.page)
                  \/ TableRows(scan.spec.table, k, c) \subseteq Read
    /\ scan.st = "done" => Len(sent) >= ScanMax \/ scan.cursor = Keys

ScanInv == ScanTypeOK /\ CurrentHeld /\ RowsRead /\ NoneMissed

(***************************************************************************)
(* A query that parses names a pseudo-table.                               *)
(***************************************************************************)
LEMMA SpecHasTable ==
    ASSUME NEW spec \in Specs
    PROVE  spec.table \in PseudoTables
  <1>1. PICK q \in ScanQueries : spec = ParseScanSpec(q) /\ spec # Error
    BY DEF Specs
  <1>. QED
    BY <1>1 DEF ParseScanSpec

(***************************************************************************)
(* While a stream runs its record is one of Streams.                       *)
(***************************************************************************)
LEMMA StreamTyped ==
    ASSUME ScanTypeOK, scan.st \in {"scan", "fetch", "done"}
    PROVE  /\ scan \in Streams
           /\ scan.spec \in Specs /\ scan.cursor \in SUBSET Keys /\ scan.page \in Seq(Keys)
           /\ scan.batch \in Seq(AllRows)
  <1>1. scan \in Streams
    BY DEF ScanTypeOK, Idle, Streams
  <1>. QED  BY <1>1 DEF Streams

LEMMA ScanInvInit ==
    ASSUME ScanInit
    PROVE  ScanInv
  <1>. USE ScanAssumption DEF ScanInit, Idle
  <1>1. ScanTypeOK
    <2>1. keyspace \in [RedisDatabases -> [Keys -> Held]]
      BY DEF Held
    <2>2. held \in [Keys -> SUBSET Held] /\ \A k \in Keys : held[k] # {}
      BY DEF Held
    <2>3. sent \in Seq(AllRows)
      OBVIOUS
    <2>4. manager_on \in RedisDatabases \cup {-1}
      OBVIOUS
    <2>. QED
      BY <2>1, <2>2, <2>3, <2>4 DEF ScanTypeOK
  <1>2. CurrentHeld /\ NoneMissed
    BY DEF CurrentHeld, NoneMissed
  <1>3. RowsRead
    BY DEF RowsRead, Active
  <1>. QED  BY <1>1, <1>2, <1>3 DEF ScanInv

(***************************************************************************)
(* A step of others, which may write a key and move the stream's           *)
(* connection, adds to the history what the stream would now read, and     *)
(* changes nothing of the stream.                                          *)
(***************************************************************************)
LEMMA OthersKeepScan ==
    ASSUME ScanInv, UNCHANGED <<scan, sent>>, selected' \in RedisDatabases, home' \in RedisDatabases,
           keyspace' \in [RedisDatabases -> [Keys -> Held]],
           manager_on' \in RedisDatabases \cup {-1}, built_for' \in RedisDatabases,
           \/ held' = HeldNow
           \/ UNCHANGED <<held, keyspace, selected>>
    PROVE  ScanInv'
  <1>. USE DEF ScanInv
  <1>1. /\ held' \in [Keys -> SUBSET Held]
        /\ \A k \in Keys : held[k] \subseteq held'[k] /\ held[k] # {}
    <2>1. \A k \in Keys : held[k] \subseteq Held /\ held[k] # {}
      BY DEF ScanTypeOK
    <2>2. \A k \in Keys : keyspace'[selected'][k] \in Held
      OBVIOUS
    <2>3. CASE held' = HeldNow
      <3>1. \A k \in Keys : held'[k] = held[k] \cup {keyspace'[selected'][k]}
        BY <2>3 DEF HeldNow
      <3>2. \A k \in Keys : held'[k] \in SUBSET Held
        BY <2>1, <2>2, <3>1
      <3>3. held' = [k \in Keys |-> held'[k]]
        BY <2>3 DEF HeldNow
      <3>4. held' \in [Keys -> SUBSET Held]
        BY <3>2, <3>3
      <3>. QED  BY <2>1, <3>1, <3>4
    <2>4. CASE UNCHANGED <<held, keyspace, selected>>
      BY <2>1, <2>4 DEF ScanTypeOK
    <2>. QED  BY <2>3, <2>4
  <1>2. ScanTypeOK'
    BY <1>1 DEF ScanTypeOK
  <1>3. CurrentHeld'
    BY DEF CurrentHeld, HeldNow, ScanTypeOK
  <1>4. \A row : RowRead(row) => RowRead(row)'
    BY <1>1 DEF RowRead
  <1>5. RowsRead'
    BY <1>4 DEF RowsRead, Active
  <1>6. \A k \in Keys : \A c : Untouched(k, c)' => Untouched(k, c)
    BY <1>1 DEF Untouched
  <1>7. NoneMissed'
    BY <1>6, StreamTyped DEF NoneMissed, Read
  <1>. QED  BY <1>2, <1>3, <1>5, <1>7

(***************************************************************************)
(* A stream that fails has yielded what it has yielded.                    *)
(***************************************************************************)
LEMMA FailingKeepsScan ==
    ASSUME ScanInv, scan.st \in {"scan", "fetch"}, scan' = StreamFails,
           UNCHANGED <<keyspace, manager_on, built_for, selected, home, sent, held>>
    PROVE  ScanInv'
  <1>. USE DEF ScanInv
  <1>1. scan.spec \in Specs
    BY StreamTyped
  <1>2. scan' \in [st : {"error"}, spec : Specs] /\ scan'.st = "error" /\ scan'.spec = scan.spec
    BY <1>1 DEF StreamFails
  <1>3. ScanTypeOK'
    BY <1>2 DEF ScanTypeOK
  <1>4. CurrentHeld' /\ NoneMissed'
    BY <1>2 DEF CurrentHeld, NoneMissed
  <1>5. RowsRead'
    BY <1>2 DEF RowsRead, Active, RowRead
  <1>. QED  BY <1>3, <1>4, <1>5

(***************************************************************************)
(* Every step keeps the invariant: writes, SELECTs and reconnects of       *)
(* others, the driver's other calls, and the steps of the stream.          *)
(***************************************************************************)
LEMMA ScanInvStep ==
    ASSUME ScanInv, [ScanNext]_scanVars
    PROVE  ScanInv'
  <1>. USE ScanAssumption DEF ScanInv
  <1>1. ASSUME NEW db \in RedisDatabases, NEW k \in Keys, NEW c \in Written \cup {Missing},
               WriteKey(db, k, c)
        PROVE  ScanInv'
    <2>1. keyspace' \in [RedisDatabases -> [Keys -> Held]]
      BY <1>1 DEF WriteKey, ScanTypeOK, Held
    <2>. QED
      BY <1>1, <2>1, OthersKeepScan DEF WriteKey, ScanTypeOK, driverVars, streamVars
  <1>2. ASSUME NEW db \in RedisDatabases, UserSelect(db) PROVE ScanInv'
    BY <1>2, OthersKeepScan DEF UserSelect, ScanTypeOK
  <1>3. CASE Reconnect
    BY <1>3, OthersKeepScan DEF Reconnect, ScanTypeOK
  <1>4. ASSUME NEW db \in RedisDatabases, Adopt(db) PROVE ScanInv'
    BY <1>4, OthersKeepScan DEF Adopt, ScanTypeOK, streamVars
  <1>5. CASE DropManager
    BY <1>5, OthersKeepScan DEF DropManager, ScanTypeOK, streamVars
  <1>6. ASSUME NEW t \in PseudoTables, DescribeTable(t) PROVE ScanInv'
    BY <1>6, OthersKeepScan DEF DescribeTable, ScanTypeOK, driverVars, streamVars
  <1>7. ASSUME NEW refused \in BOOLEAN, FetchDatabases(refused) PROVE ScanInv'
    BY <1>7, OthersKeepScan DEF FetchDatabases, ScanTypeOK, driverVars, streamVars
  <1>8. CASE Unsupported
    BY <1>8, OthersKeepScan DEF Unsupported, ScanTypeOK, driverVars, streamVars
  <1>9. ASSUME NEW q \in ScanQueries, StartStream(q) PROVE ScanInv'
    <2>. DEFINE spec == ParseScanSpec(q)
    <2>1. scan = Idle /\ sent = <<>> /\ UNCHANGED <<keyspace, manager_on, built_for, sent>>
      BY <1>9 DEF StartStream, RowsRead, Active, Idle
    <2>2. CASE scan' = [st |-> "refused"] /\ UNCHANGED <<selected, home, cloned, held>>
      <3>1. ScanTypeOK'
        BY <2>1, <2>2 DEF ScanTypeOK
      <3>. QED
        BY <2>1, <2>2, <3>1 DEF CurrentHeld, RowsRead, Active, NoneMissed
    <2>3. CASE /\ spec # Error /\ manager_on # -1
               /\ scan' = [st |-> "scan", spec |-> spec, cursor |-> {}, page |-> <<>>, batch |-> <<>>]
               /\ selected' = manager_on /\ home' = built_for /\ cloned' = TRUE
               /\ held' = [k \in Keys |-> {keyspace[manager_on][k]}]
      <3>. HIDE DEF spec
      <3>1. spec \in Specs
        BY <2>3 DEF Specs, spec
      <3>2. scan' \in Streams
        BY <2>3, <3>1 DEF Streams
      <3>3. manager_on \in RedisDatabases
        BY <2>3 DEF ScanTypeOK
      <3>4. \A k \in Keys : {keyspace[manager_on][k]} \in SUBSET Held
        <4>1. \A k \in Keys : keyspace[manager_on][k] \in Held
          BY <3>3 DEF ScanTypeOK
        <4>. QED  BY <4>1
      <3>5. held' \in [Keys -> SUBSET Held] /\ \A k \in Keys : held'[k] # {}
        BY <2>3, <3>4
      <3>6. ScanTypeOK'
        BY <2>1, <2>3, <3>2, <3>3, <3>5 DEF ScanTypeOK
      <3>7. CurrentHeld'
        BY <2>1, <2>3 DEF CurrentHeld
      <3>8. ToSet(sent) = {} /\ Len(sent) = 0
        BY <2>1 DEF ToSet
      <3>9. RowsRead'
        BY <2>1, <2>3, <3>8 DEF RowsRead, Active
      <3>10. NoneMissed'
        BY <2>3 DEF NoneMissed
      <3>. QED  BY <3>6, <3>7, <3>9, <3>10
    <2>. QED  BY <1>9, <2>2, <2>3 DEF StartStream
  <1>10. ASSUME NEW passed \in SUBSET Keys, FetchPage(passed) PROVE ScanInv'
    <2>. DEFINE matching == {k \in passed : /\ keyspace[selected][k] # Missing
                                            /\ keyspace[selected][k].type = scan.spec.table
                                            /\ scan.spec.pattern \in {"*", k}}
    <2>1. scan.st = "scan" /\ UNCHANGED <<keyspace, driverVars, selected, home, sent, moved, answer, held, changes>>
      BY <1>10 DEF FetchPage
    <2>2. scan \in Streams /\ scan.spec \in Specs
      BY <2>1, StreamTyped
    <2>3. CASE scan' = StreamFails
      BY <2>1, <2>3, FailingKeepsScan DEF driverVars
    <2>4. CASE scan' = [scan EXCEPT !.st = "fetch", !.cursor = @ \cup passed,
                                    !.page = SetToSeq(matching), !.batch = <<>>]
      <3>. HIDE DEF matching
      <3>1. IsFiniteSet(matching) /\ matching \subseteq passed
        BY FS_Subset DEF matching
      <3>2. /\ SetToSeq(matching) \in Seq(Keys) /\ ToSet(SetToSeq(matching)) = matching
        BY <3>1, SetListed
      <3>3. /\ scan' \in Streams /\ scan'.st = "fetch" /\ scan'.spec = scan.spec
            /\ scan'.cursor = scan.cursor \cup passed /\ scan'.page = SetToSeq(matching)
            /\ scan'.batch = <<>>
        <4>1. scan.cursor \cup passed \in SUBSET Keys /\ <<>> \in Seq(AllRows)
          BY <2>1, StreamTyped
        <4>. HIDE DEF Streams
        <4>. DEFINE page == SetToSeq(matching)
        <4>2. page \in Seq(Keys)
          BY <3>2
        <4>. HIDE DEF page
        <4>3. scan' = [st |-> "fetch", spec |-> scan.spec, cursor |-> scan.cursor \cup passed,
                       page |-> page, batch |-> <<>>]
          BY <2>2, <2>4 DEF Streams, page
        <4>. QED  BY <2>2, <4>1, <4>2, <4>3 DEF Streams, page
      <3>4. ScanTypeOK'
        BY <2>1, <3>3 DEF ScanTypeOK, driverVars
      <3>5. CurrentHeld'
        BY <2>1 DEF CurrentHeld
      <3>6. ToSet(<<>>) = {}
        BY DEF ToSet
      <3>7. RowsRead'
        BY <2>1, <3>3, <3>6 DEF RowsRead, Active, RowRead
      <3>8. NoneMissed'
        <4>1. SUFFICES ASSUME Len(sent) < ScanMax, NEW k \in scan.cursor \cup passed,
                              NEW c \in Contents, Untouched(k, c)
                       PROVE  \/ k \in matching
                              \/ TableRows(scan.spec.table, k, c) \subseteq ToSet(sent)
          BY <2>1, <3>2, <3>3, <3>6 DEF NoneMissed, Untouched, Read
        <4>2. CASE k \in scan.cursor
          BY <2>1, <4>1, <4>2 DEF NoneMissed, Read
        <4>3. CASE k \in passed
          <5>1. keyspace[selected][k] \in held[k]
            BY <2>1, <4>3 DEF CurrentHeld
          <5>2. keyspace[selected][k] = c
            BY <4>1, <5>1 DEF Untouched
          <5>. QED  BY <4>1, <4>3, <5>2 DEF matching, Untouched
        <4>. QED  BY <4>2, <4>3
      <3>. QED  BY <3>4, <3>5, <3>7, <3>8
    <2>. QED  BY <1>10, <2>3, <2>4 DEF FetchPage
  <1>11. CASE FetchKey
    <2>. DEFINE t == scan.spec.table
                k == Head(scan.page)
                now == keyspace[selected][k]
                reply == Reply(t, now)
                listed == FetchRowsForKey(t, k, reply)
    <2>1. /\ scan.st = "fetch" /\ scan.page # <<>>
          /\ UNCHANGED <<keyspace, driverVars, selected, home, sent, moved, answer, held, changes>>
      BY <1>11 DEF FetchKey
    <2>2. scan \in Streams /\ scan.spec \in Specs /\ scan.page \in Seq(Keys) /\ scan.batch \in Seq(AllRows)
      BY <2>1, StreamTyped
    <2>3. t \in PseudoTables /\ k \in Keys
      BY <2>1, <2>2, SpecHasTable
    <2>4. now \in held[k] /\ now \in Held
      BY <2>1, <2>3 DEF CurrentHeld, ScanTypeOK
    <2>5. CASE scan' = StreamFails
      BY <2>1, <2>5, FailingKeepsScan DEF driverVars
    <2>6. CASE reply # Error /\ scan' = [scan EXCEPT !.page = Tail(@), !.batch = @ \o listed]
      <3>1. /\ listed \in Seq(AllRows) /\ ToSet(listed) = TableRows(t, k, now)
            /\ \A row \in ToSet(listed) : row[1] = k /\ Len(row) = Len(ColumnsFor(t))
        BY <2>3, <2>4, <2>6, RowsShaped
      <3>. HIDE DEF listed, reply, now
      <3>2. /\ scan.batch \o listed \in Seq(AllRows)
            /\ ToSet(scan.batch \o listed) = ToSet(scan.batch) \cup ToSet(listed)
        BY <2>2, <3>1, ConcatListed
      <3>3. Tail(scan.page) \in Seq(Keys) /\ ToSet(scan.page) \subseteq {k} \cup ToSet(Tail(scan.page))
        BY <2>1, <2>2, TailListed
      <3>4. /\ scan' \in Streams /\ scan'.st = "fetch" /\ scan'.spec = scan.spec
            /\ scan'.cursor = scan.cursor /\ scan'.page = Tail(scan.page)
            /\ scan'.batch = scan.batch \o listed
        BY <2>1, <2>2, <2>6, <3>2, <3>3 DEF Streams
      <3>5. ScanTypeOK'
        BY <2>1, <3>4 DEF ScanTypeOK, driverVars
      <3>6. CurrentHeld'
        BY <2>1 DEF CurrentHeld
      <3>7. \A row : RowRead(row)' <=> RowRead(row)
        BY <2>1, <3>4 DEF RowRead
      <3>8. \A row \in ToSet(listed) : RowRead(row)
        BY <2>3, <2>4, <3>1 DEF RowRead
      <3>9. RowsRead'
        BY <2>1, <3>2, <3>4, <3>7, <3>8 DEF RowsRead, Active
      <3>10. NoneMissed'
        <4>1. SUFFICES ASSUME Len(sent) < ScanMax, NEW j \in scan.cursor, NEW c \in Contents, Untouched(j, c)
                       PROVE  \/ j \in ToSet(Tail(scan.page))
                              \/ TableRows(t, j, c) \subseteq ToSet(sent) \cup ToSet(scan.batch) \cup ToSet(listed)
          BY <2>1, <3>2, <3>4 DEF NoneMissed, Untouched, Read
        <4>2. \/ j \in ToSet(scan.page)
              \/ TableRows(t, j, c) \subseteq ToSet(sent) \cup ToSet(scan.batch)
          BY <2>1, <4>1 DEF NoneMissed, Read
        <4>3. CASE j = k
          <5>1. now = c
            BY <2>4, <4>1, <4>3 DEF Untouched
          <5>. QED  BY <3>1, <4>3, <5>1
        <4>. QED  BY <3>3, <4>2, <4>3
      <3>. QED  BY <3>5, <3>6, <3>9, <3>10
    <2>. QED  BY <1>11, <2>5, <2>6 DEF FetchKey
  <1>12. CASE YieldBatch
    <2>1. /\ scan.st = "fetch" /\ scan.page = <<>> /\ sent' = AtMost(ScanMax, sent \o scan.batch)
          /\ scan' = [scan EXCEPT !.st = IF Len(sent') >= ScanMax \/ scan.cursor = Keys
                                         THEN "done" ELSE "scan"]
          /\ UNCHANGED <<keyspace, driverVars, selected, home, moved, answer, held, changes>>
      BY <1>12 DEF YieldBatch
    <2>2. scan \in Streams /\ scan.batch \in Seq(AllRows) /\ sent \in Seq(AllRows)
      BY <2>1, StreamTyped DEF ScanTypeOK
    <2>3. /\ sent \o scan.batch \in Seq(AllRows)
          /\ ToSet(sent \o scan.batch) = ToSet(sent) \cup ToSet(scan.batch)
      BY <2>2, ConcatListed
    <2>4. /\ sent' \in Seq(AllRows) /\ Len(sent') <= ScanMax
          /\ ToSet(sent') \subseteq ToSet(sent) \cup ToSet(scan.batch)
          /\ Len(sent') < ScanMax => sent' = sent \o scan.batch
      BY <2>1, <2>3, AtMostCuts
    <2>5. /\ scan' \in Streams /\ scan'.st \in {"scan", "done"} /\ scan'.spec = scan.spec
          /\ scan'.cursor = scan.cursor
          /\ scan'.st = "done" => Len(sent') >= ScanMax \/ scan'.cursor = Keys
      BY <2>1, <2>2 DEF Streams
    <2>6. ScanTypeOK'
      BY <2>1, <2>4, <2>5 DEF ScanTypeOK, driverVars
    <2>7. CurrentHeld'
      BY <2>1 DEF CurrentHeld
    <2>8. \A row : RowRead(row)' <=> RowRead(row)
      BY <2>1, <2>5 DEF RowRead
    <2>9. RowsRead'
      BY <2>1, <2>4, <2>5, <2>8 DEF RowsRead, Active
    <2>10. NoneMissed'
      <3>1. SUFFICES ASSUME Len(sent') < ScanMax, NEW k \in scan.cursor, NEW c \in Contents, Untouched(k, c)
                     PROVE  TableRows(scan.spec.table, k, c) \subseteq ToSet(sent')
        BY <2>1, <2>5 DEF NoneMissed, Untouched, Read
      <3>2. Len(sent) < ScanMax /\ ToSet(sent') = ToSet(sent) \cup ToSet(scan.batch)
        <4>1. sent' = sent \o scan.batch
          BY <2>4, <3>1
        <4>2. Len(sent') = Len(sent) + Len(scan.batch) /\ Len(sent) \in Nat /\ Len(scan.batch) \in Nat
          BY <2>2, <4>1
        <4>. QED  BY <2>3, <3>1, <4>1, <4>2
      <3>3. ToSet(scan.page) = {}
        BY <2>1 DEF ToSet
      <3>. QED  BY <2>1, <3>1, <3>2, <3>3 DEF NoneMissed, Read
    <2>. QED  BY <2>6, <2>7, <2>9, <2>10
  <1>13. CASE StreamBreaks
    BY <1>13, FailingKeepsScan DEF StreamBreaks, driverVars
  <1>14. CASE UNCHANGED scanVars
    <2>. USE <1>14 DEF scanVars
    <2>1. ScanTypeOK' /\ CurrentHeld'
      BY DEF ScanTypeOK, CurrentHeld
    <2>2. RowsRead'
      BY DEF RowsRead, Active, RowRead
    <2>3. NoneMissed'
      BY DEF NoneMissed, Untouched, Read
    <2>. QED  BY <2>1, <2>2, <2>3
  <1>. QED
    BY <1>1, <1>2, <1>3, <1>4, <1>5, <1>6, <1>7, <1>8, <1>9, <1>10, <1>11, <1>12, <1>13, <1>14
       DEF ScanNext

(***************************************************************************)
(* In every execution the invariant holds.                                 *)
(***************************************************************************)
LEMMA ScanInvHolds == ScanSpec => []ScanInv
  BY ScanInvInit, ScanInvStep, PTL DEF ScanSpec

(***************************************************************************)
(* Whatever other clients write, whatever pages SCAN answers with and      *)
(* wherever the connection is moved: a row stream_rows yields is one its   *)
(* key had, and a stream that ends below the maximum has every row of a    *)
(* matching key nobody touched.                                            *)
(***************************************************************************)
THEOREM ScanReadsWhatKeysHeld == ScanSpec => []ScanReadsKeyspace
  <1>1. ASSUME ScanInv PROVE ScanReadsKeyspace
    <2>. USE <1>1 DEF ScanInv
    <2>1. SUFFICES ASSUME Active PROVE ScanReadsKeyspace
      BY DEF ScanReadsKeyspace, Active
    <2>2. \A k, c : RowsOf(k, c) = TableRows(scan.spec.table, k, c)
      BY DEF RowsOf, TableRows
    <2>3. \A i \in DOMAIN sent : RowRead(sent[i])
      BY <2>1 DEF RowsRead, ToSet
    <2>4. Len(sent) <= ScanMax
      BY DEF RowsRead
    <2>5. ASSUME scan.st = "done", Len(sent) < ScanMax, NEW k \in Keys, NEW c \in Contents, Untouched(k, c)
          PROVE  TableRows(scan.spec.table, k, c) \subseteq ToSet(sent)
      <3>1. Len(sent) \in Nat
        BY DEF ScanTypeOK
      <3>2. k \in scan.cursor
        BY <2>5, <3>1, ScanAssumption DEF NoneMissed
      <3>. QED  BY <2>5, <3>2 DEF NoneMissed, Read
    <2>. QED
      BY <2>2, <2>3, <2>4, <2>5 DEF ScanReadsKeyspace, RowRead, Untouched
  <1>. QED
    BY <1>1, ScanInvHolds, PTL

-----------------------------------------------------------------------------
(* The row caps *)

\* The cap is a number, and stays the same during a call.
LEMMA CapIsNat ==
    ASSUME TypeOK
    PROVE  cap \in Nat
BY RowCapAssumption DEF TypeOK, cap, Clamped, Smaller

LEMMA CapFixed ==
    ASSUME UNCHANGED <<path, row_cap>>
    PROVE  cap' = cap
BY DEF cap, Clamped

(***************************************************************************)
(* What the loops keep true while they run, from which the properties      *)
(* below follow when they return.                                          *)
(***************************************************************************)
LoopInvariant ==
    /\ outcome = "running" =>
          /\ ~is_truncated
          /\ rows <= cap
          /\ path = "lines" /\ cap # 0 => rows < cap
          /\ path = "scan" => rows < cap
          /\ path = "lines" => rows <= arrived

CapInv ==
    /\ TypeOK
    /\ LoopInvariant
    /\ CapRespected
    /\ NeverSilentlyShort
    /\ ExactlyCapped

LEMMA CapInvInit == Init => CapInv
<1> SUFFICES ASSUME Init PROVE CapInv
    OBVIOUS
<1>1. TypeOK
    <2>1. total \in Nat
        BY RowCapAssumption DEF Init
    <2>2. executed \in BOOLEAN /\ is_truncated \in BOOLEAN
        BY Zenon DEF Init
    <2>3. QED
        BY <2>1, <2>2 DEF Init, TypeOK
<1>2. cap \in Nat
    BY <1>1, CapIsNat
<1>3. path = "scan" => cap > 0
    BY RowCapAssumption DEF cap
<1>4. QED
    BY <1>1, <1>2, <1>3, RowCapAssumption
    DEF Init, CapInv, LoopInvariant, CapRespected, NeverSilentlyShort, ExactlyCapped, Returned

\* A fetch of a non-zero size brings that many rows, or all that are left.
LEMMA FetchBounds ==
    ASSUME TypeOK, rows < cap
    PROVE  /\ FetchSize \in Nat \ {0}
           /\ rows + FetchSize <= cap
           /\ Fetched(FetchSize) \in Nat
           /\ Fetched(FetchSize) <= FetchSize
           /\ rows + Fetched(FetchSize) <= total
           /\ Fetched(FetchSize) < FetchSize => rows + Fetched(FetchSize) = total
<1>1. cap \in Nat /\ rows \in Nat /\ total \in Nat /\ rows <= total
    BY CapIsNat, RowCapAssumption DEF TypeOK
<1>2. FetchSize \in Nat \ {0} /\ rows + FetchSize <= cap
    BY <1>1, RowCapAssumption DEF FetchSize, Smaller
<1>3. QED
    BY <1>1, <1>2 DEF Fetched, Smaller

LEMMA CapInvStep == CapInv /\ [Next]_vars => CapInv'
<1> SUFFICES ASSUME CapInv, [Next]_vars PROVE CapInv'
    OBVIOUS
<1> USE DEF Returned
<1>a. cap \in Nat /\ rows \in Nat /\ total \in Nat /\ arrived \in Nat
      /\ rows <= total /\ arrived <= total
    BY CapIsNat, RowCapAssumption DEF CapInv, TypeOK
<1>b. path = "scan" => cap = EmergencyMax /\ cap > 0
    BY RowCapAssumption DEF cap
<1>c. UNCHANGED <<path, row_cap>> => cap' = cap
    BY CapFixed
<1>1. CASE PortalAtCap
    BY <1>1, <1>a, <1>c DEF PortalAtCap, CapInv, TypeOK, LoopInvariant, CapRespected,
        NeverSilentlyShort, ExactlyCapped, Smaller
<1>2. CASE PortalFetch
    <2> DEFINE n == Fetched(FetchSize)
    <2>1. /\ FetchSize \in Nat \ {0} /\ rows + FetchSize <= cap
          /\ n \in Nat /\ n <= FetchSize /\ rows + n <= total
          /\ n < FetchSize => rows + n = total
        BY <1>2, FetchBounds DEF PortalFetch, CapInv
    <2>2. /\ rows' = rows + n /\ cap' = cap /\ total' = total /\ path' = "portal"
          /\ outcome' = IF n < FetchSize THEN "ok" ELSE "running"
          /\ is_truncated' = is_truncated /\ ~is_truncated
        BY <1>2, <1>c DEF PortalFetch, CapInv, LoopInvariant
    <2>3. TypeOK'
        BY <1>2, <1>a, <2>1, <2>2 DEF PortalFetch, CapInv, TypeOK
    <2> HIDE DEF n
    <2>4. LoopInvariant' /\ CapRespected' /\ NeverSilentlyShort' /\ ExactlyCapped'
        BY <1>a, <2>1, <2>2
        DEF LoopInvariant, CapRespected, NeverSilentlyShort, ExactlyCapped, Smaller
    <2>5. QED
        BY <2>3, <2>4 DEF CapInv
<1>3. CASE Chunk
    <2>1. arrived' \in Nat /\ arrived <= arrived' /\ arrived' <= total
        BY <1>3, <1>a DEF Chunk
    <2>2. QED
        BY <1>3, <1>a, <1>c, <2>1
        DEF Chunk, CapInv, TypeOK, LoopInvariant, CapRespected, NeverSilentlyShort, ExactlyCapped
<1>4. CASE PushLine
    <2>1. CASE rows' >= cap /\ is_truncated' = TRUE /\ outcome' = "ok"
        BY <1>4, <2>1, <1>a, <1>c DEF PushLine, CapInv, TypeOK, LoopInvariant, CapRespected,
            NeverSilentlyShort, ExactlyCapped, Smaller
    <2>2. CASE rows' < cap /\ UNCHANGED <<is_truncated, outcome>>
        BY <1>4, <2>2, <1>a, <1>c DEF PushLine, CapInv, TypeOK, LoopInvariant, CapRespected,
            NeverSilentlyShort, ExactlyCapped, Smaller
    <2>3. QED
        BY <1>4, <2>1, <2>2 DEF PushLine
<1>5. CASE BodyEnds
    BY <1>5, <1>a, <1>c DEF BodyEnds, CapInv, TypeOK, LoopInvariant, CapRespected,
        NeverSilentlyShort, ExactlyCapped, Smaller
<1>6. CASE Buffered
    <2>1. CASE total > cap /\ is_truncated' = TRUE
        BY <1>6, <2>1, <1>a, <1>c DEF Buffered, CapInv, TypeOK, LoopInvariant, CapRespected,
            NeverSilentlyShort, ExactlyCapped, Smaller
    <2>2. CASE total <= cap /\ UNCHANGED is_truncated
        BY <1>6, <2>2, <1>a, <1>c DEF Buffered, CapInv, TypeOK, LoopInvariant, CapRespected,
            NeverSilentlyShort, ExactlyCapped, Smaller
    <2>3. QED
        BY <1>6, <2>1, <2>2 DEF Buffered
<1>7. CASE ScanPage
    <2>1. PICK page \in 0 .. total - rows, last \in BOOLEAN :
             /\ last => rows + page = total
             /\ rows' = Smaller(rows + page, EmergencyMax)
             /\ outcome' = IF rows' >= EmergencyMax \/ last THEN "ok" ELSE "running"
        BY <1>7 DEF ScanPage
    <2>2. page \in Nat /\ rows + page <= total
        BY <2>1, <1>a
    <2>3. rows' \in Nat /\ rows' <= total /\ rows' <= cap
          /\ (outcome' = "running" => rows' < cap)
          /\ (outcome' = "ok" => rows' = Smaller(cap, total))
          /\ outcome' \in {"running", "ok"}
        BY <1>7, <2>1, <2>2, <1>a, <1>b, RowCapAssumption DEF ScanPage, Smaller
    <2>4. QED
        BY <1>7, <2>3, <1>a, <1>b, <1>c
        DEF ScanPage, CapInv, TypeOK, LoopInvariant, CapRespected, NeverSilentlyShort, ExactlyCapped
<1>8. CASE Fails
    BY <1>8, <1>a, <1>c DEF Fails, CapInv, TypeOK, LoopInvariant, CapRespected,
        NeverSilentlyShort, ExactlyCapped
<1>9. CASE UNCHANGED vars
    BY <1>9, <1>c DEF vars, CapInv, TypeOK, LoopInvariant, CapRespected,
        NeverSilentlyShort, ExactlyCapped
<1>10. QED
    BY <1>1, <1>2, <1>3, <1>4, <1>5, <1>6, <1>7, <1>8, <1>9 DEF Next, Finished

(***************************************************************************)
(* Every loop of the drivers keeps its invariant, and so the results       *)
(* respect their cap, whatever the sizes.                                  *)
(***************************************************************************)
THEOREM RowCapInductive == Spec => []CapInv
<1>1. QED
    BY CapInvInit, CapInvStep, PTL DEF Spec

(***************************************************************************)
(* The collected rows stay within those the statement has.                 *)
(***************************************************************************)
THEOREM RowCapTypeCorrect == Spec => []TypeOK
<1>1. CapInv => TypeOK
    BY DEF CapInv
<1>2. QED
    BY <1>1, RowCapInductive, PTL

(***************************************************************************)
(* No result of execute_user_query or stream_rows exceeds its cap, except  *)
(* for the one row of a ClickHouse SELECT with a row_cap of zero.          *)
(***************************************************************************)
THEOREM RowCapIsRespected == Spec => []CapRespected
<1>1. CapInv => CapRespected
    BY DEF CapInv
<1>2. QED
    BY <1>1, RowCapInductive, PTL

(***************************************************************************)
(* A result that lacks rows has is_truncated set.                          *)
(***************************************************************************)
THEOREM RowCapNeverSilent == Spec => []NeverSilentlyShort
<1>1. CapInv => NeverSilentlyShort
    BY DEF CapInv
<1>2. QED
    BY <1>1, RowCapInductive, PTL

(***************************************************************************)
(* A result has min(cap, total) rows for every batch size, chunking and    *)
(* paging, when the cap is not zero.                                       *)
(***************************************************************************)
THEOREM RowCapExact == Spec => []ExactlyCapped
<1>1. CapInv => ExactlyCapped
    BY DEF CapInv
<1>2. QED
    BY <1>1, RowCapInductive, PTL
=============================================================================
