------------------------------ MODULE RedisScan ------------------------------
(***************************************************************************)
(* driver-redis: browsing.  The keys of one Redis type are a pseudo-table; *)
(* stream_rows walks the keyspace with SCAN and reads every key it is told *)
(* of with a command of its own, while other clients write.                *)
(*                                                                         *)
(* A key holds [type, items], where items is what the type's read command  *)
(* replies: one value (string), fields and values alternating (hash),      *)
(* values (list, set), members and scores alternating (zset), or entries   *)
(* [id, fields] (stream).  A cursor is the set of keys behind it, and 0    *)
(* the empty one: SCAN returns a key that stays put exactly once.          *)
(*                                                                         *)
(* The stream keeps a clone of the connection manager it started with; a   *)
(* SELECT sent as a user query moves every clone of that manager, and a    *)
(* reconnect puts it back in the database it was built for.                *)
(***************************************************************************)
EXTENDS Integers, SequencesExt

CONSTANTS Keys, Contents, RedisDatabases,
          Written,         \* those that other clients write
          Keyspaces,       \* what the server may hold at first
          ScanQueries,     \* arguments of stream_rows, as tokens
          ScanMax,         \* RowLimits::EMERGENCY_MAX
          MaxChanges,      \* bound: steps of others
          Missing

VARIABLES keyspace,    \* the server: database -> key -> contents
          manager_on,  \* the database the driver's manager is on, -1 for None
          built_for,   \* and the one it was built for
          selected,    \* the database the stream's clone is on
          home,        \* and the one it was built for
          cloned,      \* the driver still has the manager the stream cloned
          scan,        \* the stream: step, spec, cursor, page, batch
          sent,        \* rows yielded
          answer,      \* of the last call that is no stream
          held,        \* history: contents each key had while the stream ran
          moved,       \* history: the stream changed databases
          changes

scanVars == <<keyspace, manager_on, built_for, selected, home, cloned,
              scan, sent, answer, held, moved, changes>>

-----------------------------------------------------------------------------
(* The pseudo-tables *)

PseudoTables == {"string", "hash", "list", "set", "zset", "stream"}

ColumnsFor(table) ==
    CASE table = "string" -> <<"key", "value">>
      [] table = "hash" -> <<"key", "field", "value">>
      [] table = "list" -> <<"key", "index", "value">>
      [] table = "set" -> <<"key", "member">>
      [] table = "zset" -> <<"key", "member", "score">>
      [] table = "stream" -> <<"key", "id", "fields">>

\* A key holds contents of one of the types, or nothing; the bounds are numbers.
ASSUME ScanAssumption ==
    /\ ScanMax \in Nat \ {0} /\ MaxChanges \in Nat
    /\ 0 \in RedisDatabases /\ RedisDatabases \subseteq Nat
    /\ IsFiniteSet(Keys)
    /\ Missing \notin Contents /\ Written \subseteq Contents
    /\ \A c \in Contents : c.type \in PseudoTables /\ c.items \in Seq(ToSet(c.items))
    /\ Keyspaces \subseteq [RedisDatabases -> [Keys -> Contents \cup {Missing}]]

Error == [kind |-> "error"]

\* MATCH and COUNT in any order, the last of each counting; a COUNT that
\* parses as usize is passed on, zero included.
ParseScanSpec(tokens) ==
    LET rest == Tail(tokens)
        clauses == {i \in DOMAIN rest : i % 2 = 1}
        args(word) == {i + 1 : i \in {j \in clauses : rest[j] = word}}
        last(word, default) ==
            IF args(word) = {} THEN default ELSE rest[CHOOSE i \in args(word) : \A j \in args(word) : j <= i]
    IN  IF \/ tokens = <<>>
           \/ tokens[1] \notin PseudoTables
           \/ \E i \in clauses : \/ rest[i] \notin {"MATCH", "COUNT"}
                                 \/ i = Len(rest)
                                 \/ rest[i] = "COUNT" /\ rest[i + 1] \notin {"0", "1"}
          THEN Error
          ELSE [table |-> tokens[1], pattern |-> last("MATCH", "*"), count |-> last("COUNT", "500")]

-----------------------------------------------------------------------------
(* Replies and rows *)

Nil == [kind |-> "nil"]
Bulk(v) == [kind |-> "bulk", text |-> v]
Arr(items) == [kind |-> "array", items |-> items]

\* GET, HGETALL, LRANGE, SMEMBERS, ZRANGE and XRANGE on what the key holds.
Reply(table, contents) ==
    IF contents = Missing THEN IF table = "string" THEN Nil ELSE Arr(<<>>)
    ELSE IF contents.type # table THEN Error
    ELSE IF table = "string" THEN Bulk(contents.items[1])
    ELSE Arr(contents.items)

ValueToCell(value) == IF value.kind = "nil" THEN "NULL" ELSE value.text

ArrayItems(value) ==
    CASE value.kind = "array" -> value.items
      [] value.kind = "nil" -> <<>>
      [] OTHER -> <<value>>

FlatPairs(value) ==
    IF value.kind # "array" THEN <<>>
    ELSE [i \in 1 .. Len(value.items) \div 2 |-> <<value.items[2 * i - 1], value.items[2 * i]>>]

\* The JSON object of a stream entry: a repeated field keeps its last value.
FieldsObject(fields) ==
    LET pairs == FlatPairs(Arr(fields))
    IN  {<<pairs[i][1], pairs[i][2]>> :
            i \in {j \in DOMAIN pairs : \A k \in DOMAIN pairs : k > j => pairs[k][1] # pairs[j][1]}}

FetchRowsForKey(table, key, reply) ==
    CASE table = "string" -> << <<key, ValueToCell(reply)>> >>
      [] table \in {"hash", "zset"} ->
            [i \in DOMAIN FlatPairs(reply) |-> <<key>> \o FlatPairs(reply)[i]]
      [] table = "list" -> [i \in DOMAIN ArrayItems(reply) |-> <<key, i - 1, ArrayItems(reply)[i]>>]
      [] table = "set" -> [i \in DOMAIN ArrayItems(reply) |-> <<key, ArrayItems(reply)[i]>>]
      [] table = "stream" ->
            [i \in DOMAIN ArrayItems(reply) |->
                <<key, ArrayItems(reply)[i].id, FieldsObject(ArrayItems(reply)[i].fields)>>]

-----------------------------------------------------------------------------

Idle == [st |-> "idle"]

ScanInit ==
    /\ keyspace \in Keyspaces
    /\ manager_on \in {-1, 0} /\ built_for = 0
    /\ selected = 0 /\ home = 0 /\ cloned = FALSE
    /\ scan = Idle /\ sent = <<>>
    /\ answer = [kind |-> "none"]
    /\ held = [k \in Keys |-> {Missing}] /\ moved = FALSE
    /\ changes = 0

\* What the stream could have read of each key by now.
HeldNow == [k \in Keys |-> held[k] \cup {keyspace'[selected'][k]}]

driverVars == <<manager_on, built_for, cloned>>
streamVars == <<selected, home, scan, sent, moved>>

(* Others *)

\* Another client writes or deletes a key.
WriteKey(db, k, contents) ==
    /\ changes < MaxChanges
    /\ keyspace[db][k] # contents
    /\ keyspace' = [keyspace EXCEPT ![db][k] = contents]
    /\ changes' = changes + 1
    /\ UNCHANGED <<driverVars, streamVars, answer>>
    /\ held' = HeldNow

\* execute_user_query("SELECT n"): the connection is shared by all clones.
UserSelect(db) ==
    /\ changes < MaxChanges
    /\ manager_on # -1 /\ manager_on # db
    /\ manager_on' = db
    /\ \/ cloned /\ selected' = db /\ moved' = TRUE
       \/ ~cloned /\ UNCHANGED <<selected, moved>>
    /\ changes' = changes + 1
    /\ UNCHANGED <<keyspace, built_for, cloned, home, scan, sent, answer>>
    /\ held' = HeldNow

\* The connection breaks under another caller's command; the manager
\* reconnects for the commands that follow.
Reconnect ==
    /\ changes < MaxChanges
    /\ manager_on # -1 /\ manager_on # built_for
    /\ manager_on' = built_for
    /\ \/ cloned /\ selected' = home /\ moved' = TRUE
       \/ ~cloned /\ UNCHANGED <<selected, moved>>
    /\ changes' = changes + 1
    /\ UNCHANGED <<keyspace, built_for, cloned, home, scan, sent, answer>>
    /\ held' = HeldNow

(* The driver's other calls *)

\* connect, and switch_database with the index it parsed: a manager of its own.
Adopt(db) ==
    /\ changes < MaxChanges
    /\ manager_on' = db /\ built_for' = db
    /\ cloned' = FALSE
    /\ changes' = changes + 1
    /\ UNCHANGED <<keyspace, streamVars, answer, held>>

DropManager ==
    /\ changes < MaxChanges
    /\ manager_on # -1
    /\ manager_on' = -1
    /\ cloned' = FALSE
    /\ changes' = changes + 1
    /\ UNCHANGED <<keyspace, built_for, streamVars, answer, held>>

\* fetch_columns and fetch_table_metadata
DescribeTable(table) ==
    /\ changes < MaxChanges
    /\ answer' = IF manager_on = -1 \/ table \notin PseudoTables THEN Error
                 ELSE [table |-> table, columns |-> ColumnsFor(table)]
    /\ changes' = changes + 1
    /\ UNCHANGED <<keyspace, driverVars, streamVars, held>>

\* CONFIG GET databases, or Redis's default of 16 where it is refused.
FetchDatabases(refused) ==
    /\ changes < MaxChanges
    /\ answer' = IF manager_on = -1 THEN Error
                 ELSE [databases |-> IF refused THEN 0 .. 15 ELSE RedisDatabases]
    /\ changes' = changes + 1
    /\ UNCHANGED <<keyspace, driverVars, streamVars, held>>

\* create_database, drop_database, transactions, DDL and views
Unsupported ==
    /\ changes < MaxChanges
    /\ answer' = Error
    /\ changes' = changes + 1
    /\ UNCHANGED <<keyspace, driverVars, streamVars, held>>

-----------------------------------------------------------------------------
(* stream_rows *)

AtMost(n, rows) == IF Len(rows) <= n THEN rows ELSE SubSeq(rows, 1, n)

StreamFails == [st |-> "error", spec |-> scan.spec]

StartStream(tokens) ==
    LET spec == ParseScanSpec(tokens)
    IN  /\ scan = Idle
        /\ \/ /\ spec = Error \/ manager_on = -1
              /\ scan' = [st |-> "refused"]
              /\ UNCHANGED <<selected, home, cloned, held>>
           \/ /\ spec # Error /\ manager_on # -1
              /\ scan' = [st |-> "scan", spec |-> spec, cursor |-> {}, page |-> <<>>, batch |-> <<>>]
              /\ selected' = manager_on /\ home' = built_for /\ cloned' = TRUE
              /\ held' = [k \in Keys |-> {keyspace[manager_on][k]}]
        /\ UNCHANGED <<keyspace, manager_on, built_for, sent, moved, answer, changes>>

\* SCAN cursor MATCH pattern COUNT n TYPE table: the server moves over any
\* keys it has not passed, and answers with those that match now.
FetchPage(passed) ==
    LET matching == {k \in passed : /\ keyspace[selected][k] # Missing
                                    /\ keyspace[selected][k].type = scan.spec.table
                                    /\ scan.spec.pattern \in {"*", k}}
    IN  /\ scan.st = "scan"
        /\ passed \subseteq Keys \ scan.cursor
        /\ passed # {} \/ scan.cursor = Keys
        /\ scan' = IF scan.spec.count = "0" THEN StreamFails
                   ELSE [scan EXCEPT !.st = "fetch", !.cursor = @ \cup passed,
                                     !.page = SetToSeq(matching), !.batch = <<>>]
        /\ UNCHANGED <<keyspace, driverVars, selected, home, sent, moved,
                       answer, held, changes>>

FetchKey ==
    /\ scan.st = "fetch" /\ scan.page # <<>>
    /\ LET k == Head(scan.page)
           reply == Reply(scan.spec.table, keyspace[selected][k])
       IN  scan' = IF reply = Error THEN StreamFails
                   ELSE [scan EXCEPT !.page = Tail(@),
                                     !.batch = @ \o FetchRowsForKey(scan.spec.table, k, reply)]
    /\ UNCHANGED <<keyspace, driverVars, selected, home, sent, moved,
                   answer, held, changes>>

\* Mutant: a page without rows is taken for the end.
YieldStopsAtEmptyPage ==
    /\ scan.st = "fetch" /\ scan.page = <<>>
    /\ sent' = AtMost(ScanMax, sent \o scan.batch)
    /\ scan' = [scan EXCEPT !.st =
                    IF Len(sent') >= ScanMax \/ scan.batch = <<>> THEN "done" ELSE "scan"]
    /\ UNCHANGED <<keyspace, driverVars, selected, home, moved,
                   answer, held, changes>>

\* The batch is cut to what the maximum leaves and yielded; the loop ends
\* there or at cursor 0.
YieldBatch ==
    /\ scan.st = "fetch" /\ scan.page = <<>>
    /\ sent' = AtMost(ScanMax, sent \o scan.batch)
    /\ scan' = [scan EXCEPT !.st =
                    IF Len(sent') >= ScanMax \/ scan.cursor = Keys THEN "done" ELSE "scan"]
    /\ UNCHANGED <<keyspace, driverVars, selected, home, moved,
                   answer, held, changes>>

\* A command of the stream meets a broken connection.
StreamBreaks ==
    /\ scan.st \in {"scan", "fetch"}
    /\ scan' = StreamFails
    /\ UNCHANGED <<keyspace, driverVars, selected, home, sent, moved,
                   answer, held, changes>>

ScanNext ==
    \/ \E db \in RedisDatabases, k \in Keys, c \in Written \cup {Missing} : WriteKey(db, k, c)
    \/ \E db \in RedisDatabases : UserSelect(db)
    \/ Reconnect
    \/ \E db \in RedisDatabases : Adopt(db)
    \/ DropManager
    \/ \E t \in PseudoTables : DescribeTable(t)
    \/ \E refused \in BOOLEAN : FetchDatabases(refused)
    \/ Unsupported
    \/ \E q \in ScanQueries : StartStream(q)
    \/ \E passed \in SUBSET Keys : FetchPage(passed)
    \/ FetchKey
    \/ YieldBatch
    \/ StreamBreaks

ScanSpec == ScanInit /\ [][ScanNext]_scanVars

-----------------------------------------------------------------------------
(* Properties *)

RowsOf(k, contents) ==
    LET reply == Reply(scan.spec.table, contents)
    IN  IF reply = Error THEN {}
        ELSE ToSet(FetchRowsForKey(scan.spec.table, k, reply))

(***************************************************************************)
(* stream_rows reads the keyspace.  Every row it yields is one a key had   *)
(* at some moment of the stream, as wide as the header; and a stream that  *)
(* ends below the maximum has the rows of every matching key that was not  *)
(* touched meanwhile, unless its connection changed databases.  Of a       *)
(* string that is gone when it is read there is a row with NULL.           *)
(***************************************************************************)
ScanReadsKeyspace ==
    scan.st \in {"scan", "fetch", "done", "error"} =>
        /\ \A i \in DOMAIN sent :
              /\ Len(sent[i]) = Len(ColumnsFor(scan.spec.table))
              /\ \E c \in held[sent[i][1]] : sent[i] \in RowsOf(sent[i][1], c)
        /\ Len(sent) <= ScanMax
        /\ scan.st = "done" /\ Len(sent) < ScanMax /\ ~moved =>
              \A k \in Keys : \A c \in Contents :
                  held[k] = {c} /\ c.type = scan.spec.table /\ scan.spec.pattern \in {"*", k}
                      => RowsOf(k, c) \subseteq ToSet(sent)
=============================================================================
