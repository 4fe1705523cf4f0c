-------------------------- MODULE ClickHouseSchema --------------------------
(***************************************************************************)
(* Schema introspection of the ClickHouse driver: queries on the system    *)
(* tables, one HTTP request each, whose text cells the driver takes apart. *)
(*                                                                         *)
(* A catalog maps <<database, table>> to a record of                       *)
(*   engine, query (create_table_query), key (the sequence of expressions  *)
(*   of primary_key), skip (set of [name, expr]) and columns, a sequence   *)
(*   of [name, nullable, low (LowCardinality), labels (of an enum, else    *)
(*   <<>>), in_key].                                                       *)
(* The server renders keys and types as text; an expression or a label is  *)
(* a sequence of symbols.  Other clients' DDL moves between the catalogs.  *)
(***************************************************************************)
EXTENDS Integers, SequencesExt

CONSTANTS ChCatalogs, ChTargets, Absent

VARIABLES tables,      \* what the server holds now
          still,       \* no DDL since the call began
          doing,       \* the running call, or "idle"
          about,       \* <<database, table>>: the schema argument or
                       \* current_database, resolved once
          at,          \* the request it sends next
          read,        \* the parts read so far
          result

chsVars == <<tables, still, doing, about, at, read, result>>

-----------------------------------------------------------------------------
(* The server's text (external) *)

Joined(parts) ==
    IF parts = <<>> THEN <<>>
    ELSE FoldLeft(LAMBDA text, p : text \o <<",">> \o p, parts[1], Tail(parts))

\* A quote or a backslash inside a label is escaped with a backslash.
Quoted(label) ==
    <<"'">> \o FlattenSeq([i \in DOMAIN label |->
                  IF label[i] \in {"'", "\\"} THEN <<"\\", label[i]>> ELSE <<label[i]>>])
    \o <<"'">>

EnumText(labels) ==
    <<"Enum8(">> \o Joined([i \in DOMAIN labels |-> Quoted(labels[i]) \o <<"=">>]) \o <<")">>

TypeText(col) ==
    LET base == IF col.labels = <<>> THEN <<"String">> ELSE EnumText(col.labels)
        inner == IF col.nullable THEN <<"Nullable(">> \o base \o <<")">> ELSE base
    IN  IF col.low THEN <<"LowCardinality(">> \o inner \o <<")">> ELSE inner

-----------------------------------------------------------------------------
(* Taking it apart *)

\* Mutant: every comma splits.
SplitAllCommas(input) ==
    LET push(s, ch) == IF ch = "," THEN [s EXCEPT !.parts = Append(@, s.current), !.current = <<>>]
                       ELSE [s EXCEPT !.current = Append(@, ch)]
        end == FoldLeft(push, [parts |-> <<>>, current |-> <<>>], input)
    IN  IF end.current = <<>> THEN end.parts ELSE Append(end.parts, end.current)

SplitTopLevelCommas(input) ==
    LET push(s, ch) ==
            IF ch = "," /\ s.depth = 0
              THEN [s EXCEPT !.parts = Append(@, s.current), !.current = <<>>]
              ELSE [s EXCEPT !.current = Append(@, ch),
                             !.depth = CASE ch = "(" -> @ + 1 [] ch = ")" -> @ - 1 [] OTHER -> @]
        end == FoldLeft(push, [parts |-> <<>>, current |-> <<>>, depth |-> 0], input)
    IN  IF end.current = <<>> THEN end.parts ELSE Append(end.parts, end.current)

\* Strips one Nullable( ) layer.
UnwrapNullable(type) ==
    IF Len(type) > 1 /\ type[1] = "Nullable(" /\ Last(type) = ")"
      THEN SubSeq(type, 2, Len(type) - 1) ELSE type

\* A quote opens a label and the next one closes it, escaped or not; Absent
\* for any other type.
ParseEnumLabels(type) ==
    LET inner == UnwrapNullable(type)
        push(s, ch) ==
            CASE ~s.open /\ ch = "'" -> [s EXCEPT !.open = TRUE]
              [] s.open /\ ch = "'" -> [s EXCEPT !.open = FALSE, !.label = <<>>,
                                                 !.labels = Append(@, s.label)]
              [] s.open /\ ch # "'" -> [s EXCEPT !.label = Append(@, ch)]
              [] OTHER -> s
        end == FoldLeft(push, [labels |-> <<>>, label |-> <<>>, open |-> FALSE],
                        SubSeq(inner, 2, Len(inner) - 1))
        found == IF end.open THEN Append(end.labels, end.label) ELSE end.labels
    IN  IF inner[1] # "Enum8(" \/ Last(inner) # ")" \/ found = <<>> THEN Absent ELSE found

TableKindFromEngine(engine) ==
    IF engine \in {"View", "MaterializedView"} THEN engine ELSE "Table"

-----------------------------------------------------------------------------
(* The requests *)

FetchTables(c, db) ==
    {[name |-> t[2], kind |-> TableKindFromEngine(c[t].engine)] : t \in {x \in DOMAIN c : x[1] = db}}

\* system.columns has no row for an unknown table; that is no error.
FetchColumns(c, t) ==
    LET cols == IF t \in DOMAIN c THEN c[t].columns ELSE <<>>
    IN  [i \in DOMAIN cols |->
            [name |-> cols[i].name, data_type |-> TypeText(cols[i]),
             is_nullable |-> TypeText(cols[i])[1] = "Nullable(",
             is_primary_key |-> cols[i].in_key,
             allowed_values |-> ParseEnumLabels(TypeText(cols[i]))]]

\* The sort key as one synthetic index, if there is one.
PrimaryKeyIndex(c, t) ==
    IF t \notin DOMAIN c \/ c[t].key = <<>> THEN <<>>
    ELSE <<[name |-> "primary_key", columns |-> SplitTopLevelCommas(Joined(c[t].key))]>>

SkipIndexes(c, t) ==
    IF t \notin DOMAIN c THEN {}
    ELSE {[name |-> i.name, columns |-> <<i.expr>>] : i \in c[t].skip}

-----------------------------------------------------------------------------
(* The calls *)

FirstRequest == [fetch_table_metadata |-> "table", fetch_columns |-> "columns",
                 fetch_indexes |-> "key", fetch_create_query |-> "query",
                 fetch_tables |-> "tables"]

NothingRead == [info |-> Absent, columns |-> <<>>, key |-> <<>>]

ChBegin(o, t) ==
    /\ doing = "idle"
    /\ doing' = o /\ about' = t /\ at' = FirstRequest[o] /\ read' = NothingRead
    /\ still' = TRUE /\ result' = Absent
    /\ UNCHANGED tables

Answered(error, parts) ==
    /\ doing' = "idle" /\ result' = [op |-> doing, error |-> error, parts |-> parts]
    /\ UNCHANGED <<tables, still, about, at, read>>

Took(part, value, next) ==
    /\ read' = [read EXCEPT ![part] = value] /\ at' = next
    /\ UNCHANGED <<tables, still, doing, about, result>>

RequestFails == doing # "idle" /\ Answered("query", Absent)

ReadTable ==
    /\ doing # "idle" /\ at = "table"
    /\ IF about \notin DOMAIN tables THEN Answered("not_found", Absent)
       ELSE Took("info", TableKindFromEngine(tables[about].engine), "columns")

ReadColumns ==
    /\ doing # "idle" /\ at = "columns"
    /\ IF doing = "fetch_columns"
         THEN Answered(Absent, [columns |-> FetchColumns(tables, about)])
         ELSE Took("columns", FetchColumns(tables, about), "key")

ReadPrimaryKey ==
    /\ doing # "idle" /\ at = "key"
    /\ Took("key", PrimaryKeyIndex(tables, about), "skip")

ReadSkipIndexes ==
    /\ doing # "idle" /\ at = "skip"
    /\ Answered(Absent, [info |-> read.info, columns |-> read.columns, key |-> read.key,
                         skip |-> SkipIndexes(tables, about)])

ReadCreateQuery ==
    /\ doing # "idle" /\ at = "query"
    /\ IF about \notin DOMAIN tables THEN Answered("not_found", Absent)
       ELSE Answered(Absent, [query |-> tables[about].query])

ReadTables ==
    /\ doing # "idle" /\ at = "tables"
    /\ Answered(Absent, [tables |-> FetchTables(tables, about[1])])

ChDdl ==
    /\ doing # "idle"
    /\ tables' \in ChCatalogs \ {tables} /\ still' = FALSE
    /\ UNCHANGED <<doing, about, at, read, result>>

ChsInit ==
    /\ tables \in ChCatalogs /\ still = TRUE
    /\ doing = "idle" /\ about \in ChTargets /\ at = "idle"
    /\ read = NothingRead /\ result = Absent

ChsNext ==
    \/ \E o \in DOMAIN FirstRequest, t \in ChTargets : ChBegin(o, t)
    \/ ReadTable \/ ReadColumns \/ ReadPrimaryKey \/ ReadSkipIndexes \/ ReadCreateQuery
    \/ ReadTables \/ RequestFails \/ ChDdl

-----------------------------------------------------------------------------
(* Properties *)

\* Symbols of a literal or of a backquoted name.
Before(e, j, set) == Len(SelectSeq(SubSeq(e, 1, j - 1), LAMBDA ch : ch \in set))
InQuotes(e, j) == \E q \in {"'", "bq"} : Before(e, j, {q}) % 2 = 1

\* Texts that split_top_level_commas, which knows no quotes, does not take
\* apart: they quote a parenthesis, or a comma outside every call.
QuotedSeparator(exprs) ==
    \E i \in DOMAIN exprs : \E j \in DOMAIN exprs[i] :
        /\ InQuotes(exprs[i], j)
        /\ \/ exprs[i][j] \in {"(", ")"}
           \/ exprs[i][j] = "," /\ Before(exprs[i], j, {"("}) = Before(exprs[i], j, {")"})

\* Labels the server escapes, which parse_enum_labels documents as a gap for
\* the quote; a backslash comes back doubled.
EscapedLabel(labels) == \E i \in DOMAIN labels : ToSet(labels[i]) \cap {"'", "\\"} # {}

(***************************************************************************)
(* Where no DDL fell between its requests, an answer describes the table   *)
(* as the server has it, although keys and types travel as text: the       *)
(* expressions of the sort key come back one by one, commas inside a call  *)
(* or not, an enum's labels come back one by one, under Nullable or not,   *)
(* with commas and parentheses in them or not, and not-found means absent. *)
(* Not claimed, because the code does not do it: a key that quotes a       *)
(* separator (schema.rs:88-117), a label with a quote or a backslash, and  *)
(* is_nullable of a LowCardinality(Nullable(..)) column (schema.rs:251).   *)
(***************************************************************************)
TextDescribesTable ==
    (doing = "idle" /\ result # Absent /\ still /\ about \in DOMAIN tables) =>
        LET t == tables[about]
        IN  /\ result.error # "not_found"
            /\ (result.error = Absent /\ result.op \in {"fetch_table_metadata", "fetch_columns"}) =>
                  \A i \in DOMAIN t.columns :
                     LET c == result.parts.columns[i]
                     IN  /\ c.is_nullable = t.columns[i].nullable \/ t.columns[i].low
                         /\ \/ c.allowed_values = (IF t.columns[i].labels = <<>> THEN Absent
                                                   ELSE t.columns[i].labels)
                            \/ EscapedLabel(t.columns[i].labels)
            /\ (result.error = Absent /\ result.op \in {"fetch_table_metadata", "fetch_indexes"}) =>
                  \/ t.key = <<>> /\ result.parts.key = <<>>
                  \/ t.key # <<>> /\ result.parts.key[1].columns = t.key
                  \/ QuotedSeparator(t.key)
=============================================================================
