------------------------------- MODULE MCInputs -------------------------------
(***************************************************************************)
(* TLC instance of the parts that turn one input into one answer, each     *)
(* driven through its own inputs: the nesting guard, the JSON-RPC          *)
(* messages, the event stream, the Redis command line, the tools'          *)
(* arguments, the JSONL export and PostgreSQL's schema introspection.      *)
(* They share no state, so a behaviour picks one of them and leaves the    *)
(* others at rest.                                                         *)
(***************************************************************************)
EXTENDS JsonNesting, JsonRpc, RedisCommands, Tools, ExportJsonl, TLC

CONSTANTS Texts, Names, MaxEvents,                          \* SseFraming
          Catalogs, Targets, Expression, Nothing            \* PostgresSchema

VARIABLES format,                                           \* the one that moves
          sent, wire, buffer, pending, got,                 \* SseFraming
          catalog, seen, op, target, step, parts, described \* PostgresSchema

Sse == INSTANCE SseFraming
Schema == INSTANCE PostgresSchema WITH got <- parts, answer <- described

ASSUME InputsAssumption == Sse!SseAssumption

sseVars == <<sent, wire, buffer, pending, got>>
pgsVars == <<catalog, seen, op, target, step, parts, described>>

-----------------------------------------------------------------------------
(* Texts with every symbol at the edges the event encoder and decoder look *)
(* at; two spellings of one verb, the only one that reads.                 *)

MCTexts == { <<>>, <<":", " ">>, <<"\n", " ">>, <<"\r", "\r">>,
             <<"x", "\r", "\n">> }
MCNames == { <<"x", "\n", "x">> }
MCUpper == [c \in Letters |-> "G"]
MCReadVerbs == {<<"G">>}

(* Texts a server shows: the text, what it means by it, and what i64 or    *)
(* u64, and f64 read from it.                                              *)

Txt(t, means, i, f) == [text |-> t, means |-> means, int |-> i, float |-> f]
One == Txt("1", Number("1"), "1", "1")
Day == Txt("1", Word("1 day"), "1", "1")
Yes == Txt("t", Truth(TRUE), NoValue, NoValue)
No == Txt("false", Truth(FALSE), NoValue, NoValue)
Letter == Txt("t", Word("t"), NoValue, NoValue)
Tenth == Txt("0.1", Number("1/10"), NoValue, "1/10")
NaN == Txt("nan", Word("nan"), NoValue, NoValue)
Precise == Txt("0.1000000000000000000001", Number("precise"), NoValue, "1/10")
Huge == Txt("170141183460469231731687303715884105727", Number("2^127-1"), NoValue, "1.7e38")
MaxU64 == Txt("18446744073709551615", Number("2^64-1"), "2^64-1", "1.8e19")
Version == Txt("1.10", Word("1.10"), NoValue, "1.1")
BuiltIn(n, shows) == [name |-> n, user |-> FALSE, shows |-> shows]
MCTypes ==
    {BuiltIn(<<"bool">>, {Yes, No}), BuiltIn(<<"int", "4">>, {One}),
     BuiltIn(<<"nullable(", "uint", "64", ")">>, {One, MaxU64}), BuiltIn(<<"int", "128">>, {One, Huge}),
     BuiltIn(<<"lowcardinality(", "nullable(", "float", "64", ")", ")">>, {Tenth, NaN, One}),
     BuiltIn(<<"nullable(", "decimal", "_38_20", ")">>, {Precise, One}),
     BuiltIn(<<"int", "ervalday">>, {Day}), BuiltIn(<<"int", "2", "vector">>, {Day}),
     BuiltIn(<<"text">>, {Day, Letter, NaN, Version}),
     [name |-> <<"float", "_x">>, user |-> TRUE, shows |-> {Version}],
     [name |-> <<"mood">>, user |-> TRUE, shows |-> {Version, Letter}]}
Typed(n, t) == [name |-> n, type |-> t]
MCColumns ==
    {<< Typed("a", t) >> : t \in MCTypes} \cup
    {<< Typed("a", t), Typed(n, BuiltIn(<<"text">>, {Day, Letter})) >> : t \in MCTypes, n \in {"a", "b"}}

(* Catalogs: composite keys in an order of their own, an enum, indexes on  *)
(* expressions; one whose names collide; one for a role that may only read *)
(* two of the columns; after DROP TABLE; and an empty one, where           *)
(* introspection is at rest.                                               *)

Column(n) == [name |-> n, udt |-> <<"pg", "int4">>, user_defined |-> FALSE]
Enum(n) == [name |-> n, udt |-> <<"s", "mood">>, user_defined |-> TRUE]
T1 == <<"s", "t1">>
T2 == <<"s", "t2">>
MV == <<"s", "m">>
Key(t, n, cols) ==
    [schema |-> "s", table |-> t, name |-> n, contype |-> "p", conkey |-> cols, ref |-> "", confkey |-> <<>>]
Foreign(t, n, cols, r, rcols) ==
    [schema |-> "s", table |-> t, name |-> n, contype |-> "f", conkey |-> cols, ref |-> r, confkey |-> rcols]
Index(t, n, p, k, inc) ==
    [schema |-> "s", table |-> t, name |-> n, primary |-> p, key |-> k, include |-> inc]
Rel(n, k) == [schema |-> "s", name |-> n, relkind |-> k]

All(cols) == [columns |-> cols, writes |-> TRUE]
Plain ==
    [rel |-> {Rel("t1", "r"), Rel("t2", "p"), Rel("m", "m"), Rel("i", "i")},
     att |-> (T1 :> <<Column("a"), Enum("b"), Enum("c")>>
              @@ T2 :> <<Column("x"), Column("c")>> @@ MV :> <<Column("a")>>),
     con |-> {Key("t1", "pk", <<"b", "a">>), Key("t2", "pk2", <<"c", "x">>),
              Foreign("t1", "f", <<"a", "b">>, "t2", <<"x", "c">>), Foreign("t1", "g", <<"c">>, "t2", <<"x">>)},
     idx |-> {Index("t1", "pk", TRUE, <<"b", "a">>, <<>>), Index("t1", "e", FALSE, <<Expression>>, <<>>),
              Index("t1", "d", FALSE, <<Expression, "c">>, <<>>), Index("t1", "j", FALSE, <<"c", "a">>, <<>>),
              Index("t2", "pk2", TRUE, <<"c", "x">>, <<>>)},
     enum |-> (<<"s", "mood">> :> {"ok", "sad"}),
     trig |-> {[schema |-> "s", table |-> "t1", name |-> "tr", event |-> e] : e \in {"INSERT", "UPDATE"}},
     grant |-> (T1 :> All({"a", "b", "c"}) @@ T2 :> All({"x", "c"}) @@ MV :> All({"a"}))]
Colliding ==
    [Plain EXCEPT !.con = @ \cup {Foreign("t2", "pk", <<"c">>, "t1", <<"a">>)},
                  !.idx = {Index("t1", "pk", TRUE, <<"b", "a">>, <<"c">>)},
                  !.enum = @ @@ (<<"z", "mood">> :> {"red"})]
MayOnlySelect == [Plain EXCEPT !.grant[T1] = [columns |-> {"a", "c"}, writes |-> FALSE]]
WithoutT1 ==
    [Plain EXCEPT !.rel = {Rel("t2", "r")}, !.att = [t \in {T2} |-> <<Column("a")>>],
                  !.con = {Key("t2", "pk", <<"a">>)}, !.idx = {}, !.trig = {},
                  !.grant = [t \in {T2} |-> All({"a"})]]
Empty == [rel |-> {}, att |-> <<>>, con |-> {}, idx |-> {}, enum |-> <<>>, trig |-> {}, grant |-> <<>>]
MCCatalogs == {Plain, Colliding, MayOnlySelect, WithoutT1, Empty}
MCTargets == {T1, MV}

-----------------------------------------------------------------------------

InputsInit ==
    /\ format \in {"nesting", "messages", "events", "commands", "tools", "export", "schema"}
    /\ Init /\ RpcInit /\ Sse!Init /\ CommandInit
    /\ ToolInit /\ ExportInit /\ Schema!PgsInit
    /\ format # "commands" => ~read_only
    /\ format # "tools" => profile = None
    /\ format # "schema" => catalog = Empty /\ target = T1

InputsNext ==
    \/ /\ format = "nesting" /\ Next
       /\ UNCHANGED <<format, rpcVars, sseVars, cmdVars, toolVars, exportVars, pgsVars>>
    \/ /\ format = "messages" /\ RpcNext
       /\ UNCHANGED <<format, vars, sseVars, cmdVars, toolVars, exportVars, pgsVars>>
    \/ /\ format = "events" /\ Sse!Next
       /\ UNCHANGED <<format, vars, rpcVars, cmdVars, toolVars, exportVars, pgsVars>>
    \/ /\ format = "commands" /\ CommandNext
       /\ UNCHANGED <<format, vars, rpcVars, sseVars, toolVars, exportVars, pgsVars>>
    \/ /\ format = "tools" /\ ToolNext
       /\ UNCHANGED <<format, vars, rpcVars, sseVars, cmdVars, exportVars, pgsVars>>
    \/ /\ format = "export" /\ ExportNext
       /\ UNCHANGED <<format, vars, rpcVars, sseVars, cmdVars, toolVars, pgsVars>>
    \/ /\ format = "schema" /\ Schema!PgsNext
       /\ UNCHANGED <<format, vars, rpcVars, sseVars, cmdVars, toolVars, exportVars>>

InputsSpec ==
    InputsInit /\ [][InputsNext]_<<format, vars, rpcVars, sseVars, cmdVars, toolVars, exportVars, pgsVars>>

-----------------------------------------------------------------------------
(* Properties of the instances *)

(***************************************************************************)
(* However the text is cut into chunks, SseDecoder::feed returns the       *)
(* events that were sent, whole and in order.                              *)
(***************************************************************************)
EventsArriveWhole == Sse!EventsArriveWhole

=============================================================================
