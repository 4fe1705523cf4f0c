----------------------------- MODULE MCClickHouse -----------------------------
(***************************************************************************)
(* TLC instance of the ClickHouse driver: user queries and cancellation,   *)
(* a stream beside the calls that move the session, schema introspection,  *)
(* and the text of statements and answers.  A behaviour picks one of them  *)
(* and leaves the others at rest.                                          *)
(***************************************************************************)
EXTENDS ClickHouseQueries, SequencesExt

CONSTANTS ChDatabases, Configured, Names, Results, JsonBatch, StreamMax, MaxMoves, \* ClickHouseStream
          ChCatalogs, ChTargets, Absent,                                     \* ClickHouseSchema
          Pieces, MaxPieces, Parameters, Answers, NULL,                      \* ClickHouseText
          Parts                                                              \* those that may move

VARIABLES part,
          client, current_database, existing, connecting, switching, moves,
          stream, probed, queried, header, rest, buffer, batch, batches, answered, cut, moved,
          tables, still, doing, about, at, read, result,
          pieces, parameters, prepared, reply, outcome

Stream == INSTANCE ClickHouseStream
Schema == INSTANCE ClickHouseSchema
Text == INSTANCE ClickHouseText WITH request <- prepared

ASSUME StreamBounds == Stream!StreamAssumption

streamVars == <<client, current_database, existing, connecting, switching, moves,
                stream, probed, queried, header, rest, buffer, batch, batches, answered, cut, moved>>
schemaVars == <<tables, still, doing, about, at, read, result>>
textVars == <<pieces, parameters, prepared, reply, outcome>>

-----------------------------------------------------------------------------
(* Instances *)

CONSTANTS q1, q2, q3
MCQueries == {q1, q2, q3}
MCOneQuery == {q1}
Symmetry == Permutations(MCQueries)

\* Result sets below, at and above the maximum, with characters of two bytes,
\* NULL beside the empty text, numbers, and two columns of one name.
C == <<"c1", "c2">>
Set(columns, rows) == [columns |-> columns, rows |-> rows]
MCResults ==
    {Set(<<"a">>, <<>>), Set(<<"a">>, << << <<"x">> \o C >> >>),
     Set(<<"a">>, << <<C>>, <<C>>, <<C>>, << <<"x">> >> >>),
     Set(<<"a", "b">>, << << <<"null">>, <<>> >>, << <<"dec">>, <<"num">> >>, << <<"x">>, C >> >>),
     Set(<<"b", "b">>, << << <<"x">>, <<"null">> >> >>)}

\* Keys of plain columns, of calls whose arguments hold commas and
\* parentheses, quoted too, and of backquoted names that do; enum labels with
\* every symbol the parser looks at.
Col(n, nullable, labels) ==
    [name |-> n, nullable |-> nullable, low |-> FALSE, labels |-> labels, in_key |-> TRUE]
LowCol(n, nullable) == [Col(n, nullable, <<>>) EXCEPT !.low = TRUE]
Exprs == {<<"a">>, <<"f", "(", "a", ",", "b", ")">>, <<"f", "(", "'", ",", "'", ")">>,
          <<"f", "(", "'", "(", "'", ")">>, <<"bq", "a", ",", "b", "bq">>,
          <<"f", "(", "bq", ")", "bq", ")">>, <<"bq", " ", "bq">>}
Keys == {<<>>} \cup {<<e>> : e \in Exprs} \cup {<<e, f>> : e \in Exprs, f \in {<<"a">>, <<"f", "(", "a", ",", "b", ")">>}}
Labels == {<<>>, << <<"x">> >>, << <<"x">>, <<>> >>, << <<"x", "'">>, <<"y">> >>, << <<",">>, <<")">> >>,
           << <<"\\">>, <<"(">> >>}
Table(cols, key) ==
    [engine |-> "MergeTree", query |-> "create", columns |-> cols, key |-> key,
     skip |-> {[name |-> "i", expr |-> <<"a">>]}]
T == <<"d", "t">>
Holding(table) == [t \in {T} |-> table]
View == [t \in {<<"d", "v">>} |-> [Table(<<>>, <<>>) EXCEPT !.engine = "View"]]
MCCatalogs ==
    {Holding(Table(<<Col("a", n, l)>>, << <<"a">> >>)) : n \in BOOLEAN, l \in Labels}
    \cup {Holding(Table(<<LowCol("a", n)>>, << <<"a">> >>)) : n \in BOOLEAN}
    \cup {Holding(Table(<<Col("a", FALSE, <<>>)>>, k)) : k \in Keys} \cup {View}
MCTargets == {T}

\* Literals, identifiers and comments that hold each other's delimiters.
Piece(k, t) == [kind |-> k, text |-> t]
MCPieces ==
    {Piece("word", <<"SELECT">>), Piece("word", <<"INSERT">>), Piece("placeholder", <<>>),
     Piece("string", <<"'", "?">>), Piece("escaped string", <<"?", "'">>), Piece("string", <<"\\">>),
     Piece("identifier", <<"?", "bq">>), Piece("identifier", <<"\\">>),
     Piece("escaped identifier", <<"?", "bq">>), Piece("quoted name", <<"\\", "dq">>),
     Piece("quoted name", <<"bq">>), Piece("quoted name", <<"?">>),
     Piece("line comment", <<"x", "*/">>), Piece("line comment", <<"?">>),
     Piece("block comment", <<"\n", "--">>)}
MCParameters == { <<>>, << <<"?">> >>, <<NULL>>, << <<"a">>, <<"'">> >> }

\* No result set; one column, NULL beside what looks like it, rows of one
\* empty text at the end; two columns.
Answer(names, rows, written) ==
    [columns |-> [i \in DOMAIN names |-> [name |-> names[i], type |-> <<"T">>]],
     rows |-> rows, written |-> written]
MCAnswers ==
    {Answer(<<>>, <<>>, w) : w \in {NULL, 3}} \cup
    {Answer(<< <<"\t">> >>, rows, NULL) : rows \in
        {<<>>, << << <<>> >> >>, << << NULL >>, << <<"N">> >>, << <<"\\", "N">> >> >>,
         << << <<"\n">> >>, << <<>> >>, << <<>> >> >>}} \cup
    {Answer(<< <<"a">>, <<"n">> >>, rows, 1) : rows \in
        {<< << <<>>, <<>> >> >>, << << <<"t", "\\">>, NULL >>, <<NULL, <<"\t", "\n">> >> >>}}

-----------------------------------------------------------------------------

ChInit ==
    /\ part \in Parts
    /\ ClickHouseInit /\ Stream!StreamInit /\ Schema!ChsInit /\ Text!TextInit
    /\ part # "schema" => tables = View
    /\ part # "text" => pieces[1].text = <<"SELECT">>

ChNext ==
    \/ part = "queries" /\ ClickHouseNext /\ UNCHANGED <<part, streamVars, schemaVars, textVars>>
    \/ part = "stream" /\ Stream!StreamNext /\ UNCHANGED <<part, clickHouseVars, schemaVars, textVars>>
    \/ part = "schema" /\ Schema!ChsNext /\ UNCHANGED <<part, clickHouseVars, streamVars, textVars>>
    \/ part = "text" /\ Text!TextNext /\ UNCHANGED <<part, clickHouseVars, streamVars, schemaVars>>

ChSpec == ChInit /\ [][ChNext]_<<part, clickHouseVars, streamVars, schemaVars, textVars>>

-----------------------------------------------------------------------------
(* Properties of the instances *)

(***************************************************************************)
(* fetch_columns and fetch_indexes read keys, nullability and enum labels  *)
(* out of the server's text as the table has them, with the exceptions     *)
(* that Schema names.                                                      *)
(***************************************************************************)
TextDescribesTable == Schema!TextDescribesTable

(***************************************************************************)
(* rewrite_question_marks and build_param_query_pairs send what the client *)
(* wrote, each placeholder bound to its own parameter, with the exceptions *)
(* that Text names.                                                        *)
(***************************************************************************)
StatementSentAsWritten == Text!StatementSentAsWritten

(***************************************************************************)
(* What the server answers is what the client gets.  parse_full reads      *)
(* names, types, rows and cells back as the server had them; stream_rows   *)
(* yields the server's rows and cells, with the exceptions of              *)
(* StreamYieldsResult, under the header of the database they came from     *)
(* unless current_database changed between its two requests.               *)
(***************************************************************************)
AnswersReadBack == Text!AnswerReadBack /\ Stream!StreamYieldsResult
=============================================================================
