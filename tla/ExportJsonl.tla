----------------------------- MODULE ExportJsonl -----------------------------
(***************************************************************************)
(* The export_query_jsonl tool: a query's result as one JSON object a row, *)
(* with numbers and booleans where the column's type name says so.         *)
(*                                                                         *)
(* A type is [name, user, shows]: its name in lower case as a sequence of  *)
(* symbols, wrappers "nullable(" ... ")" around a base name cut where the  *)
(* code compares prefixes (int4range is <<"int", "4", "range">>); whether  *)
(* it is user-defined; and the texts of its values.  A cell is NULL, bytes *)
(* or one of those texts.  A text is [text, means, int, float]: what the   *)
(* server means by it, a Number, a Truth or a Word, and what i64 or u64    *)
(* and f64 read from it (external).                                        *)
(***************************************************************************)
EXTENDS Integers, SequencesExt

CONSTANTS Columns,     \* sequences of [name, type] a query may return
          NoValue      \* a parse that fails

VARIABLES arguments, state, queried, envelope

exportVars == <<arguments, state, queried, envelope>>

-----------------------------------------------------------------------------

Wrappers == {"nullable(", "lowcardinality("}

UnwrapWrappers(type) ==
    LET layers == {k \in 0 .. Len(type) \div 2 :
                      \A i \in 1 .. k : type[i] \in Wrappers /\ type[Len(type) + 1 - i] = ")"}
        k == CHOOSE n \in layers : \A m \in layers : m <= n
    IN  SubSeq(type, k + 1, Len(type) - k)

IsFloat(t) ==
    \/ t \in {<<"real">>, <<"double">>, <<"double", "precision">>}
    \/ t # <<>> /\ t[1] = "float"

IntegerNames ==
    {<<"int", n>> : n \in {"2", "4", "8", "eger"}} \cup {<<"serial", n>> : n \in {"2", "4", "8"}} \cup
    {<<n>> : n \in {"int", "smallint", "bigint", "serial", "smallserial", "bigserial", "oid"}}

Digits == {"2", "4", "8", "16", "32", "64", "128", "256"}

\* Mutant: whatever follows int or uint.
IsIntegerByPrefix(t) == t \in IntegerNames \/ (t # <<>> /\ t[1] \in {"int", "uint"})

\* The names listed, and int and uint with nothing but digits after them.
IsInteger(t) ==
    \/ t \in IntegerNames
    \/ Len(t) > 1 /\ t[1] \in {"int", "uint"} /\ \A i \in 2 .. Len(t) : t[i] \in Digits

\* decimal and numeric before float, which would lose their digits.
Classify(type) ==
    LET t == UnwrapWrappers(type)
    IN  IF t \in {<<"bool">>, <<"boolean">>} THEN "boolean"
        ELSE IF \E i \in DOMAIN t : t[i] \in {"decimal", "numeric"} THEN "string"
        ELSE IF IsFloat(t) THEN "float"
        ELSE IF IsInteger(t) THEN "integer"
        ELSE "string"

\* The texts here have no case and no blanks for it to take off.
ParseBool(text) ==
    CASE text \in {"t", "true", "1", "yes", "y"} -> TRUE
      [] text \in {"f", "false", "0", "no", "n"} -> FALSE
      [] OTHER -> NoValue

JsonNull == [json |-> "null"]
JsonString(s) == [json |-> "string", value |-> s]

\* A text that does not parse as its class stays a string; i64 is tried
\* before u64, and a float JSON cannot hold (nan, inf) is no number.
CoerceText(shown, type) ==
    LET class == Classify(type)
    IN  CASE class = "boolean" /\ ParseBool(shown.text) # NoValue ->
                [json |-> "bool", value |-> ParseBool(shown.text)]
          [] class = "integer" /\ shown.int # NoValue -> [json |-> "number", value |-> shown.int]
          [] class = "float" /\ shown.float # NoValue -> [json |-> "number", value |-> shown.float]
          [] OTHER -> JsonString(shown.text)

CellToJson(cell, type) ==
    CASE cell.cell = "null" -> JsonNull
      [] cell.cell = "bytes" -> JsonString([hex |-> cell.bytes])
      [] cell.cell = "text" -> CoerceText(cell.shown, type)

\* One object a row, members in column order, names repeated if the query
\* repeats them.
RenderJsonl(result) ==
    [r \in DOMAIN result.rows |->
        [i \in DOMAIN result.rows[r] |->
            [key |-> result.columns[i].name,
             value |-> CellToJson(result.rows[r][i], result.columns[i].type.name)]]]

-----------------------------------------------------------------------------

ExportInit ==
    /\ arguments = "none" /\ state = "idle"
    /\ queried = [columns |-> <<>>, rows |-> <<>>, is_truncated |-> FALSE]
    /\ envelope = [jsonl |-> <<>>, truncated |-> FALSE]

\* parse_arguments and parse_connection_id, before anything runs
Call(valid) ==
    /\ state = "idle"
    /\ arguments' = IF valid THEN "valid" ELSE "invalid"
    /\ state' = IF valid THEN "running" ELSE "failed"
    /\ UNCHANGED <<queried, envelope>>

Number(n) == [kind |-> "number", value |-> n]
Truth(b) == [kind |-> "truth", value |-> b]
Word(w) == [kind |-> "word", value |-> w]

\* Built-in types by what their values are (external: PostgreSQL, ClickHouse
\* and "text", which is all the Redis driver reports).
Booleans == {<<"bool">>}
Integral == {<<"int", n>> : n \in Digits} \cup {<<"uint", n>> : n \in Digits} \cup {<<"oid">>}
Floating == {<<"float", n>> : n \in {"4", "8", "32", "64"}}
Others ==
    {<<"text">>, <<"int", "erval">>, <<"int", "ervalday">>, <<"int", "2", "vector">>, <<"int", "4", "range">>,
     <<"numeric">>, <<"decimal", "_38_20">>, <<"_int4">>, <<"array(", "float", "64", ")">>, <<"bfloat16">>}

\* How a server writes its own types (external): booleans as t or true, f or
\* false; an integer or a float so that what a parse reads is the number.
\* Of the texts of any other type, and of a user's types, nothing is known.
AsServersWrite(type) ==
    LET t == UnwrapWrappers(type.name)
    IN  /\ t \in Booleans \cup Integral \cup Floating \cup Others
        /\ \A s \in type.shows :
              /\ t \in Booleans =>
                    \/ s.text \in {"t", "true"} /\ s.means = Truth(TRUE)
                    \/ s.text \in {"f", "false"} /\ s.means = Truth(FALSE)
              /\ t \in Integral => s.int = NoValue \/ s.means = Number(s.int)
              /\ t \in Floating => s.float = NoValue \/ s.means = Number(s.float)

ASSUME ExportAssumption ==
    /\ NoValue \notin BOOLEAN
    /\ \A columns \in Columns : columns \in Seq(ToSet(columns))
    /\ \A columns \in Columns : \A i \in DOMAIN columns :
          columns[i].type.user \/ AsServersWrite(columns[i].type)

CellsOf(col) ==
    {[cell |-> "null"], [cell |-> "bytes", bytes |-> "b"]} \cup
    {[cell |-> "text", shown |-> s] : s \in col.type.shows}

\* run_user_query answers with one row of the columns, or two alike.
QueryEnds(columns, row, copies, truncated) ==
    /\ state = "running"
    /\ queried' = [columns |-> columns, rows |-> [i \in 1 .. copies |-> row], is_truncated |-> truncated]
    /\ envelope' = [jsonl |-> RenderJsonl(queried'), truncated |-> truncated]
    /\ state' = "done"
    /\ UNCHANGED arguments

QueryFails ==
    /\ state = "running"
    /\ state' = "failed"
    /\ UNCHANGED <<arguments, queried, envelope>>

Rows(columns) ==
    {row \in [DOMAIN columns -> UNION {CellsOf(columns[i]) : i \in DOMAIN columns}] :
        \A i \in DOMAIN columns : row[i] \in CellsOf(columns[i])}

ExportNext ==
    \/ \E valid \in BOOLEAN : Call(valid)
    \/ \E columns \in Columns : \E row \in Rows(columns) :
         \E copies \in 0 .. 2, truncated \in BOOLEAN : QueryEnds(columns, row, copies, truncated)
    \/ QueryFails

ExportSpec == ExportInit /\ [][ExportNext]_exportVars

-----------------------------------------------------------------------------
(* Properties *)

\* What a JSON reader gets for a key: the last member of that name.
Member(object, key) ==
    LET at == {i \in DOMAIN object : object[i].key = key}
    IN  object[CHOOSE i \in at : \A j \in at : j <= i].value

\* JSON that means what the server means.
Means(json, cell) ==
    \/ cell.cell = "null" /\ json = JsonNull
    \/ cell.cell = "bytes" /\ json = JsonString([hex |-> cell.bytes])
    \/ /\ cell.cell = "text"
       /\ \/ json = JsonString(cell.shown.text)
          \/ json.json = "number" /\ cell.shown.means = Number(json.value)
          \/ json.json = "bool" /\ cell.shown.means = Truth(json.value)

\* A type that only shares the name of a built-in one, or its beginning:
\* classify goes by the name, and the user's float_x counts as a float.
NamedLikeBuiltIn(type) == type.user /\ Classify(type.name) # "string"

(***************************************************************************)
(* A dump can be read back.  For every row there is an object, and in it   *)
(* every cell whose column's name does not come again has its value: NULL  *)
(* as null, a number or a boolean only where the server means that number  *)
(* or that boolean, anything else as the text the driver returned.         *)
(* Exception: text of a user-defined type that classify takes for a        *)
(* built-in one by its name; a label 1.10 of an enum float_x becomes 1.1.  *)
(***************************************************************************)
ExportReadsBack ==
    state = "done" =>
        /\ Len(envelope.jsonl) = Len(queried.rows)
        /\ envelope.truncated = queried.is_truncated
        /\ \A r \in DOMAIN queried.rows : \A i \in DOMAIN queried.columns :
              LET column == queried.columns[i]
              IN  \/ \E j \in DOMAIN queried.columns : j > i /\ queried.columns[j].name = column.name
                  \/ NamedLikeBuiltIn(column.type) /\ queried.rows[r][i].cell = "text"
                  \/ Means(Member(envelope.jsonl[r], column.name), queried.rows[r][i])
=============================================================================
