-------------------------- MODULE ClickHouseStream --------------------------
(***************************************************************************)
(* driver-clickhouse: the session a driver keeps, and stream_rows over it. *)
(*                                                                         *)
(* HTTP has no session: `client` says whether the driver is connected, and *)
(* current_database, a field of its own, is read anew for each request.    *)
(* stream_rows holds the client's read lock over two requests, a LIMIT 0   *)
(* probe for the header and the query itself, whose body it takes chunk by *)
(* chunk; connect takes the write lock only after it has set the database, *)
(* and switch_database only the read lock.                                 *)
(*                                                                         *)
(* A result set is [columns, rows], a row its values in the order of the   *)
(* columns.  The body has one JSONEachRow line a row: a column's name, one *)
(* symbol, is followed by its value, whose symbols are "x", a character of *)
(* one byte, "c1" and "c2", the two bytes of another, or a whole value:    *)
(* "null", "num", a number that an f64 holds, and "dec", one that it does  *)
(* not.                                                                    *)
(***************************************************************************)
EXTENDS Integers, SequencesExt

CONSTANTS ChDatabases,   \* of the server; "default" is one
          Configured,    \* ConnectionConfig.database
          Names,         \* names of columns
          Results,       \* result sets
          NULL,
          JsonBatch,     \* JSON_BATCH_SIZE
          StreamMax,     \* RowLimits::EMERGENCY_MAX
          MaxMoves       \* bound: calls beside the stream

\* What the instances keep to.
StreamAssumption ==
    /\ JsonBatch \in Nat \ {0} /\ StreamMax \in Nat \ {0} /\ MaxMoves \in Nat
    /\ {"default", Configured} \subseteq ChDatabases

VARIABLES client,            \* connected
          current_database,
          existing,          \* databases the server has
          connecting,        \* connect: "no", or the database is set ("set")
          switching,         \* switch_database: the database it validated, or "no"
          moves,
          stream,            \* step of stream_rows
          probed, queried,   \* the databases its two requests went to
          header,            \* the columns the first one found
          rest,              \* bytes of the body still to come
          buffer, batch, batches,
          answered,          \* the result set the server answered with
          cut,               \* history: a chunk ended inside a character
          moved              \* history: the database changed under the stream

sessionVars == <<client, current_database, existing, connecting, switching, moves>>
readerVars == <<stream, probed, queried, header, rest, buffer, batch, batches, answered, cut>>
streamVars == <<sessionVars, readerVars, moved>>

-----------------------------------------------------------------------------
(* Bytes and text *)

\* One line a row; the server ends the last one too, or not.
Line(columns, row) == FlattenSeq([j \in DOMAIN columns |-> <<columns[j]>> \o row[j]])
Bytes(set, ended) ==
    LET lines == FlattenSeq([i \in DOMAIN set.rows |-> Line(set.columns, set.rows[i]) \o <<"\n">>])
    IN  IF ended \/ lines = <<>> THEN lines ELSE Front(lines)

\* String::from_utf8_lossy: half a character becomes a replacement character.
FromUtf8Lossy(bytes) ==
    FlattenSeq([i \in DOMAIN bytes |->
        CASE bytes[i] = "c1" /\ i < Len(bytes) /\ bytes[i + 1] = "c2" -> <<"C">>
          [] bytes[i] = "c2" /\ i > 1 /\ bytes[i - 1] = "c1" -> <<>>
          [] bytes[i] \in {"c1", "c2"} -> <<"U+FFFD">>
          [] OTHER -> <<bytes[i]>>])

\* Complete lines of a text, and what follows the last newline.
Lines(text) ==
    LET push(s, ch) == IF ch = "\n" THEN [done |-> Append(s.done, s.line), line |-> <<>>]
                       ELSE [s EXCEPT !.line = Append(@, ch)]
    IN  FoldLeft(push, [done |-> <<>>, line |-> <<>>], text)

\* serde_json turns a number into an f64 and back; a string stays as it is.
JsonValueToCell(value) ==
    CASE value = <<"null">> -> NULL
      [] value = <<"dec">> -> <<"dec as f64">>
      [] OTHER -> value

\* jsonl::parse_row: of fields with one name the last counts, and a column
\* without a field is NULL.
ParseRow(line, columns) ==
    LET push(s, ch) ==
            IF ch \in Names
              THEN [name |-> ch, object |-> [n \in DOMAIN s.object \cup {ch} |->
                                               IF n = ch THEN <<>> ELSE s.object[n]]]
              ELSE [s EXCEPT !.object[s.name] = Append(@, ch)]
        object == FoldLeft(push, [name |-> line[1], object |-> <<>>], line).object
    IN  [j \in DOMAIN columns |-> IF columns[j] \in DOMAIN object
                                     THEN JsonValueToCell(object[columns[j]]) ELSE NULL]

IsObject(line) == line[1] \in Names
ParseRows(lines) == [i \in DOMAIN lines |-> ParseRow(lines[i], header)]

NonEmpty(lines) == SelectSeq(lines, LAMBDA line : line # <<>>)

AtMost(n, rows) == IF Len(rows) <= n THEN rows ELSE SubSeq(rows, 1, n)

\* Rows leave in batches of JSON_BATCH_SIZE; the last one stays behind.
FullBatches(rows) == [i \in 1 .. Len(rows) \div JsonBatch |->
                        SubSeq(rows, (i - 1) * JsonBatch + 1, i * JsonBatch)]
Unfilled(rows) == SubSeq(rows, (Len(rows) \div JsonBatch) * JsonBatch + 1, Len(rows))

Total == Len(FlattenSeq(batches)) + Len(batch)

-----------------------------------------------------------------------------

StreamInit ==
    /\ client = FALSE
    /\ current_database = "default"
    /\ existing = ChDatabases
    /\ connecting = "no" /\ switching = "no" /\ moves = 0
    /\ stream = "idle" /\ probed = "none" /\ queried = "none" /\ header = <<>>
    /\ rest = <<>> /\ buffer = <<>> /\ batch = <<>> /\ batches = <<>>
    /\ answered = [columns |-> <<>>, rows |-> <<>>]
    /\ cut = FALSE /\ moved = FALSE

\* stream_rows holds client.read() from its first poll to its end.
Reading == stream \in {"probe", "query", "body"}

SetDatabase(db) ==
    /\ current_database' = db
    /\ moved' = (moved \/ (Reading /\ db # current_database))

(* The session *)

\* connect: the version probe went well; the database is set, no lock held.
ConnectSets ==
    /\ connecting = "no" /\ moves < MaxMoves
    /\ SetDatabase(Configured)
    /\ connecting' = "set" /\ moves' = moves + 1
    /\ UNCHANGED <<client, existing, switching, readerVars>>

\* and then self.client.write().await
ConnectInstalls ==
    /\ connecting = "set" /\ ~Reading /\ switching = "no"
    /\ client' = TRUE /\ connecting' = "no"
    /\ UNCHANGED <<current_database, existing, switching, moves, readerVars, moved>>

Disconnect ==
    /\ client /\ ~Reading /\ switching = "no" /\ moves < MaxMoves
    /\ client' = FALSE
    /\ SetDatabase("default")
    /\ moves' = moves + 1
    /\ UNCHANGED <<existing, connecting, switching, readerVars>>

\* switch_database, first the query on system.databases
SwitchValidates(db) ==
    /\ client /\ switching = "no" /\ moves < MaxMoves
    /\ db \in existing
    /\ switching' = db /\ moves' = moves + 1
    /\ UNCHANGED <<client, current_database, existing, connecting, readerVars, moved>>

SwitchSets ==
    /\ switching # "no"
    /\ SetDatabase(switching)
    /\ switching' = "no"
    /\ UNCHANGED <<client, existing, connecting, moves, readerVars>>

\* CREATE DATABASE and DROP DATABASE, by this driver or another client
CreateOrDrop(db) ==
    /\ client /\ moves < MaxMoves
    /\ existing' = IF db \in existing THEN existing \ {db} ELSE existing \cup {db}
    /\ moves' = moves + 1
    /\ UNCHANGED <<client, current_database, connecting, switching, readerVars, moved>>

-----------------------------------------------------------------------------
(* stream_rows *)

Begin ==
    /\ stream = "idle"
    /\ stream' = IF client THEN "probe" ELSE "error"
    /\ UNCHANGED <<sessionVars, probed, queried, header, rest, buffer, batch, batches, answered, cut, moved>>

\* send_request reads current_database; a database that is gone is an error.
Probe(columns) ==
    /\ stream = "probe"
    /\ probed' = current_database
    /\ header' = columns
    /\ stream' = IF current_database \in existing THEN "query" ELSE "error"
    /\ UNCHANGED <<sessionVars, queried, rest, buffer, batch, batches, answered, cut, moved>>

\* The table it finds may no longer be the one probed.
Query(set, ended) ==
    /\ stream = "query"
    /\ queried' = current_database
    /\ \/ /\ current_database \notin existing
          /\ stream' = "error"
          /\ UNCHANGED <<rest, answered>>
       \/ /\ current_database \in existing
          /\ stream' = "body"
          /\ answered' = set /\ rest' = Bytes(set, ended)
    /\ UNCHANGED <<sessionVars, probed, header, buffer, batch, batches, cut, moved>>

\* What the loop does with the lines that are complete: a row each, or an
\* error.
Taken(text) ==
    LET lines == Lines(text)
        taken == AtMost(StreamMax - Total, NonEmpty(lines.done))
        fine == \A i \in DOMAIN taken : IsObject(taken[i])
        rows == IF fine THEN ParseRows(taken) ELSE <<>>
    IN  /\ buffer' = lines.line
        /\ batches' = batches \o FullBatches(batch \o rows)
        /\ batch' = Unfilled(batch \o rows)
        /\ stream' = CASE ~fine -> "error"
                       [] fine /\ Total + Len(taken) >= StreamMax -> "cap"
                       [] OTHER -> "body"

\* Mutant: what was left of the last chunk is dropped.
ChunkDropsBuffer(n) ==
    /\ stream = "body"
    /\ n \in 1 .. Len(rest)
    /\ rest' = SubSeq(rest, n + 1, Len(rest))
    /\ cut' = (cut \/ rest[n] = "c1")
    /\ Taken(FromUtf8Lossy(SubSeq(rest, 1, n)))
    /\ UNCHANGED <<sessionVars, probed, queried, header, answered, moved>>

Chunk(n) ==
    /\ stream = "body"
    /\ n \in 1 .. Len(rest)
    /\ rest' = SubSeq(rest, n + 1, Len(rest))
    /\ cut' = (cut \/ rest[n] = "c1")
    /\ Taken(buffer \o FromUtf8Lossy(SubSeq(rest, 1, n)))
    /\ UNCHANGED <<sessionVars, probed, queried, header, answered, moved>>

\* The body ends: a last line without newline is a row, and the rest of the
\* batch is yielded.  At the maximum the reader leaves the body where it is.
Finish ==
    LET last == IF stream = "body" THEN NonEmpty(<<buffer>>) ELSE <<>>
        fine == \A i \in DOMAIN last : IsObject(last[i])
        rows == IF fine THEN batch \o ParseRows(last) ELSE <<>>
    IN  /\ \/ stream = "body" /\ rest = <<>>
           \/ stream = "cap"
        /\ batches' = IF rows = <<>> THEN batches ELSE Append(batches, rows)
        /\ batch' = <<>>
        /\ stream' = IF fine THEN "done" ELSE "error"
        /\ UNCHANGED <<sessionVars, probed, queried, header, rest, buffer, answered, cut, moved>>

\* The server or the network fails a request or the body.
Fails ==
    /\ Reading
    /\ stream' = "error"
    /\ UNCHANGED <<sessionVars, probed, queried, header, rest, buffer, batch, batches, answered, cut, moved>>

StreamNext ==
    \/ ConnectSets \/ ConnectInstalls \/ Disconnect
    \/ \E db \in ChDatabases : SwitchValidates(db) \/ CreateOrDrop(db)
    \/ SwitchSets
    \/ Begin
    \/ \E set \in Results : Probe(set.columns) \/ \E ended \in BOOLEAN : Query(set, ended)
    \/ \E n \in 1 .. Len(rest) : Chunk(n)
    \/ Finish
    \/ Fails

StreamSpec == StreamInit /\ [][StreamNext]_streamVars

-----------------------------------------------------------------------------
(* Properties *)

\* The cell of a value, and what parse_row does not give back: a number whose
\* text an f64 does not keep, and of two columns with one name the first.
CellOf(value) == IF value = <<"null">> THEN NULL ELSE FromUtf8Lossy(value)
Rounded(value) == value = <<"dec">>
Repeated(columns, j) == \E k \in j + 1 .. Len(columns) : columns[k] = columns[j]

(***************************************************************************)
(* A stream that ends has yielded the server's rows, the first StreamMax   *)
(* of them, however the body was cut: in number always, each with a cell   *)
(* for each column of the header, and cell by cell what the server had,    *)
(* NULL or not, unless a chunk ended inside a character (stream.rs:66) or  *)
(* the columns changed between the two requests.  Not claimed, because     *)
(* parse_row does not do it: of numbers that are rounded and of columns    *)
(* with the name of a later one.  No batch is empty or larger than         *)
(* JSON_BATCH_SIZE, and the header came from the database the rows came    *)
(* from unless the database changed under the stream.                      *)
(***************************************************************************)
StreamYieldsResult ==
    stream = "done" =>
        LET yielded == FlattenSeq(batches)
            rows == AtMost(StreamMax, answered.rows)
        IN  /\ Len(yielded) = Len(rows)
            /\ \A i \in DOMAIN yielded : Len(yielded[i]) = Len(header)
            /\ (~cut /\ header = answered.columns) =>
                  \A i \in DOMAIN yielded : \A j \in DOMAIN header :
                     \/ yielded[i][j] = CellOf(rows[i][j])
                     \/ Rounded(rows[i][j]) \/ Repeated(header, j)
            /\ \A i \in DOMAIN batches : Len(batches[i]) \in 1 .. JsonBatch
            /\ ~moved => probed = queried
=============================================================================
