--------------------------- MODULE PostgresSchema ---------------------------
(***************************************************************************)
(* Schema introspection of the PostgreSQL driver: fetch_table_metadata,    *)
(* fetch_table_ddl and the other fetch_* functions of schema.rs.  Each of  *)
(* them is a series of catalog queries outside any transaction, and other  *)
(* sessions change the catalog between two of them.                        *)
(*                                                                         *)
(* A catalog is a record of the system tables the queries read:            *)
(*   rel   set of [schema, name, relkind]                                  *)
(*   att   <<schema, table>> -> sequence of [name, udt, user_defined],     *)
(*         udt being <<schema, type name>>                                 *)
(*   con   set of [schema, table, name, contype, conkey, ref, confkey]     *)
(*   idx   set of [schema, table, name, primary, key, include], where key  *)
(*         holds column names and Expression                               *)
(*   enum  <<schema, type name>> -> set of labels                          *)
(*   trig  set of [schema, table, name, event]                             *)
(*   grant <<schema, table>> -> [columns, writes]: the columns our role    *)
(*         has some privilege on, and whether it owns the table or holds   *)
(*         a privilege other than SELECT                                   *)
(* Other sessions' DDL moves the database between the given catalogs.      *)
(***************************************************************************)
EXTENDS Naturals, SequencesExt

CONSTANTS Catalogs, Targets, Expression, Nothing

VARIABLES catalog,     \* what the server holds now
          seen,        \* the catalogs it held since the call began
          op,          \* the running call, or "idle"
          target,      \* <<schema, table>> it describes
          step,        \* the query it sends next
          got,         \* the parts read so far
          answer       \* the parts, an error, or Nothing

pgsVars == <<catalog, seen, op, target, step, got, answer>>

\* The name and the schema of a row are those of the table asked for.
Of(rows, t) == {r \in rows : r.schema = t[1] /\ r.table = t[2]}
NamesOf(seq) == [i \in DOMAIN seq |-> seq[i].name]

-----------------------------------------------------------------------------
(* The queries *)

TableKindFromRelkind(relkind) ==
    CASE relkind = "v" -> "View" [] relkind = "m" -> "MaterializedView" [] OTHER -> "Table"

FetchTables(c, schema) ==
    {[name |-> r.name, kind |-> TableKindFromRelkind(r.relkind)] :
        r \in {x \in c.rel : x.schema = schema /\ x.relkind \in {"r", "v", "m", "p", "f"}}}

RelationIs(c, t, kinds) == \E r \in c.rel : r.schema = t[1] /\ r.name = t[2] /\ r.relkind \in kinds

\* information_schema.columns leaves out materialized views and the columns
\* the role has no privilege on.
ColumnRows(c, t) ==
    IF RelationIs(c, t, {"r", "v", "p", "f"})
      THEN SelectSeq(c.att[t], LAMBDA a : a.name \in c.grant[t].columns) ELSE <<>>

TableOf(x) == <<x.schema, x.table>>

\* information_schema.table_constraints and triggers leave out tables the
\* role may at most SELECT from; key_column_usage, columns it may not use.
TableConstraints(c) == {x \in c.con : c.grant[TableOf(x)].writes}
KeyColumnUsage(c, x) == ToSet(x.conkey) \cap c.grant[TableOf(x)].columns


\* key_column_usage is joined by constraint name and schema, not by table.
FetchPrimaryKeyColumns(c, t) ==
    UNION {KeyColumnUsage(c, k) :
        k \in {x \in c.con : \E tc \in Of(TableConstraints(c), t) :
                  tc.contype = "p" /\ x.schema = tc.schema /\ x.name = tc.name}}

\* The type is looked up by name alone.
FetchEnumLabels(c, typname) ==
    UNION {c.enum[u] : u \in {x \in DOMAIN c.enum : x[2] = typname}}

\* Expressions have no attribute to join, so they drop out, and an index of
\* expressions only drops out whole.
IndexColumns(i) == SelectSeq(i.key \o i.include, LAMBDA k : k # Expression)

FetchIndexes(c, t) ==
    {[name |-> i.name, primary |-> i.primary, columns |-> IndexColumns(i)] :
        i \in {x \in Of(c.idx, t) : IndexColumns(x) # <<>>}}

\* One row for each pair of columns, ordered by constraint and position.
ForeignKeyRows(c, t) ==
    LET keys == SetToSeq({k \in Of(c.con, t) : k.contype = "f"})
        rows(k) == [i \in DOMAIN k.conkey |-> [name |-> k.name, column |-> k.conkey[i],
                                               ref |-> k.ref, refcolumn |-> k.confkey[i]]]
    IN  FlattenSeq([i \in DOMAIN keys |-> rows(keys[i])])

\* by_name.entry(..).or_insert_with(..), then both columns are pushed.
AddForeignKeyRow(fks, row) ==
    LET known == {i \in DOMAIN fks : fks[i].name = row.name}
        new == [name |-> row.name, ref |-> row.ref, columns |-> <<row.column>>,
                refcolumns |-> <<row.refcolumn>>]
    IN  IF known = {} THEN Append(fks, new)
        ELSE [i \in DOMAIN fks |->
                 IF i \notin known THEN fks[i]
                 ELSE [fks[i] EXCEPT !.columns = Append(@, row.column),
                                     !.refcolumns = Append(@, row.refcolumn)]]

FetchForeignKeys(c, t) == ToSet(FoldLeft(AddForeignKeyRow, <<>>, ForeignKeyRows(c, t)))

\* information_schema.triggers has a row for every event.
FetchTriggers(c, t) ==
    {[name |-> x.name, event |-> x.event] : x \in {y \in Of(c.trig, t) : c.grant[t].writes}}

\* fetch_table_ddl reads pg_attribute itself, which has every relation.
DdlRows(c, t) == IF t \in DOMAIN c.att THEN NamesOf(c.att[t]) ELSE <<>>

\* indkey holds the INCLUDE columns of the index after the key columns.
FetchPrimaryKeyColumnsOrdered(c, t) ==
    LET pk == {i \in Of(c.idx, t) : i.primary}
    IN  IF pk = {} THEN <<>> ELSE LET i == CHOOSE x \in pk : TRUE IN i.key \o i.include

-----------------------------------------------------------------------------
(* The calls *)

FirstStep == [fetch_table_metadata |-> "tables", fetch_columns |-> "columns",
              fetch_table_ddl |-> "attributes", fetch_view_definition |-> "viewdef"]

NoParts == [info |-> Nothing, rows |-> <<>>, pk |-> {}, lookups |-> <<>>, indexes |-> {},
            foreign_keys |-> {}, triggers |-> {}]

Begin(o, t) ==
    /\ op = "idle"
    /\ op' = o /\ target' = t /\ step' = FirstStep[o] /\ got' = NoParts
    /\ seen' = {catalog} /\ answer' = Nothing
    /\ UNCHANGED catalog

Finish(a) ==
    /\ op' = "idle" /\ answer' = a
    /\ UNCHANGED <<catalog, seen, target, step, got>>

Read(part, value, next) ==
    /\ got' = [got EXCEPT ![part] = value]
    /\ step' = next
    /\ UNCHANGED <<catalog, seen, op, target, answer>>

Error(e) == [op |-> op, error |-> e]
Parts(p) == [op |-> op, error |-> Nothing, parts |-> p]

\* A query may fail, and every error ends the call.
QueryFails == op # "idle" /\ Finish(Error("query"))

ReadTables ==
    /\ op # "idle" /\ step = "tables"
    /\ LET found == {i \in FetchTables(catalog, target[1]) : i.name = target[2]}
       IN  IF found = {} THEN Finish(Error("not_found"))
           ELSE Read("info", CHOOSE i \in found : TRUE, "columns")

ReadColumns ==
    /\ op # "idle" /\ step = "columns"
    /\ Read("rows", ColumnRows(catalog, target), "primary_key")

ReadPrimaryKey ==
    /\ op # "idle" /\ step = "primary_key"
    /\ Read("pk", FetchPrimaryKeyColumns(catalog, target), "labels")

\* The first column whose user-defined type has no entry in enum_lookups yet.
Unlooked == {i \in DOMAIN got.rows : got.rows[i].user_defined
                /\ \A l \in ToSet(got.lookups) : l.type # got.rows[i].udt[2]}

ReadEnumLabels ==
    /\ op # "idle" /\ step = "labels" /\ Unlooked # {}
    /\ LET u == got.rows[Min(Unlooked)].udt[2]
       IN  Read("lookups", Append(got.lookups, [type |-> u, labels |-> FetchEnumLabels(catalog, u)]),
                "labels")

AllowedValues(row) ==
    IF ~row.user_defined THEN {}
    ELSE UNION {l.labels : l \in {x \in ToSet(got.lookups) : x.type = row.udt[2]}}

ColumnInfos == [i \in DOMAIN got.rows |->
               [name |-> got.rows[i].name, is_primary_key |-> got.rows[i].name \in got.pk,
                allowed_values |-> AllowedValues(got.rows[i])]]

ColumnsDone ==
    /\ op # "idle" /\ step = "labels" /\ Unlooked = {}
    /\ IF op = "fetch_columns" THEN Finish(Parts([columns |-> ColumnInfos]))
       ELSE /\ step' = "indexes"
            /\ UNCHANGED <<catalog, seen, op, target, got, answer>>

ReadIndexes ==
    /\ op # "idle" /\ step = "indexes"
    /\ Read("indexes", FetchIndexes(catalog, target), "foreign_keys")

ReadForeignKeys ==
    /\ op # "idle" /\ step = "foreign_keys"
    /\ Read("foreign_keys", FetchForeignKeys(catalog, target), "triggers")

ReadTriggers ==
    /\ op # "idle" /\ step = "triggers"
    /\ Finish(Parts([info |-> got.info, columns |-> ColumnInfos, indexes |-> got.indexes,
                     foreign_keys |-> got.foreign_keys,
                     triggers |-> FetchTriggers(catalog, target)]))

ReadAttributes ==
    /\ op # "idle" /\ step = "attributes"
    /\ IF DdlRows(catalog, target) = <<>> THEN Finish(Error("not_found"))
       ELSE Read("rows", DdlRows(catalog, target), "ordered_key")

ReadOrderedKey ==
    /\ op # "idle" /\ step = "ordered_key"
    /\ Finish(Parts([ddl |-> got.rows, key |-> FetchPrimaryKeyColumnsOrdered(catalog, target)]))

\* $1::regclass fails where there is no such relation, and pg_get_viewdef of
\* one that is no view is NULL, which get_string refuses.
ReadViewDefinition ==
    /\ op # "idle" /\ step = "viewdef"
    /\ IF RelationIs(catalog, target, {"v", "m"}) THEN Finish(Parts([viewdef |-> target]))
       ELSE Finish(Error(IF target \in DOMAIN catalog.att THEN "column" ELSE "query"))

\* Another session.
Ddl ==
    /\ op # "idle"
    /\ catalog' \in Catalogs \ {catalog}
    /\ seen' = seen \cup {catalog'}
    /\ UNCHANGED <<op, target, step, got, answer>>

PgsInit ==
    /\ catalog \in Catalogs /\ seen = {catalog}
    /\ op = "idle" /\ target \in Targets /\ step = "idle" /\ got = NoParts /\ answer = Nothing

PgsNext ==
    \/ \E o \in DOMAIN FirstStep, t \in Targets : Begin(o, t)
    \/ ReadTables \/ ReadColumns \/ ReadPrimaryKey \/ ReadEnumLabels \/ ColumnsDone
    \/ ReadIndexes \/ ReadForeignKeys \/ ReadTriggers
    \/ ReadAttributes \/ ReadOrderedKey \/ ReadViewDefinition
    \/ QueryFails \/ Ddl

-----------------------------------------------------------------------------
(* Properties *)

\* What the catalog itself says, without the detours of the queries: the key
\* of the table is its own constraint, the labels are those of the type.
KeyConstraints(c, t) == {x \in Of(c.con, t) : x.contype = "p"}
KeyOf(c, t) == UNION {ToSet(k.conkey) : k \in KeyConstraints(c, t)}
LabelsOf(c, col) == IF col.user_defined /\ col.udt \in DOMAIN c.enum THEN c.enum[col.udt] ELSE {}
Writes(c, t) == t \in DOMAIN c.grant /\ c.grant[t].writes

\* The three names that the queries do not resolve: a constraint of another
\* table called like this table's key, an enum type of another schema called
\* like the column's, and the INCLUDE columns of an index.
NameShared(c, t) == \E k \in KeyConstraints(c, t), x \in c.con :
                       x.schema = k.schema /\ x.name = k.name /\ x.table # t[2]
TypeShared(c, u) == \E x \in DOMAIN c.enum : x # u /\ x[2] = u[2]
KeyIncludes(c, t) == \E i \in Of(c.idx, t) : i.primary /\ i.include # <<>>

\* The columns as one catalog has them, in order, with the labels of their
\* types and the key flags each as one catalog has them.
ColumnsDescribe(cols, t) ==
    /\ \E c \in seen :
          /\ NamesOf(cols) = NamesOf(ColumnRows(c, t))
          /\ \A i \in DOMAIN cols : \E d \in seen :
                LET row == ColumnRows(c, t)[i]
                IN  cols[i].allowed_values = LabelsOf(d, row) \/ TypeShared(d, row.udt)
    /\ \E c \in seen : NameShared(c, t) \/ \A i \in DOMAIN cols :
          IF Writes(c, t) THEN cols[i].is_primary_key <=> cols[i].name \in KeyOf(c, t)
          ELSE ~cols[i].is_primary_key

KindDescribes(info, c, t) ==
    \E kind \in {<<"View", {"v"}>>, <<"MaterializedView", {"m"}>>, <<"Table", {"r", "p", "f"}>>} :
        info.kind = kind[1] /\ RelationIs(c, t, kind[2])

\* Every index with a plain column once; its columns in order, if they are
\* all of the index and the index has no others.
IndexesDescribe(indexes, c, t) ==
    /\ {i.name : i \in indexes} = {i.name : i \in {x \in Of(c.idx, t) : x.key \o x.include # <<Expression>>}}
    /\ \A i \in indexes : \E x \in Of(c.idx, t) :
          /\ x.name = i.name /\ x.primary = i.primary
          /\ x.key = i.columns \/ x.include # <<>> \/ Expression \in ToSet(x.key)

\* Every foreign key once, its columns paired as the constraint pairs them.
KeysDescribe(fks, c, t) ==
    /\ {k.name : k \in fks} = {k.name : k \in {x \in Of(c.con, t) : x.contype = "f"}}
    /\ \A k \in fks : \E x \in Of(c.con, t) :
          x.name = k.name /\ x.conkey = k.columns /\ x.confkey = k.refcolumns /\ x.ref = k.ref

TriggersDescribe(triggers, c, t) ==
    triggers = IF Writes(c, t) THEN {[name |-> x.name, event |-> x.event] : x \in Of(c.trig, t)} ELSE {}

\* The columns in order, and the key in the order of the constraint.
DdlDescribes(parts, t) ==
    /\ \E c \in seen : t \in DOMAIN c.att /\ parts.ddl = NamesOf(c.att[t])
    /\ \E c \in seen :
          \/ KeyIncludes(c, t)
          \/ IF KeyConstraints(c, t) = {} THEN parts.key = <<>>
             ELSE \E k \in KeyConstraints(c, t) : parts.key = k.conkey

=============================================================================
