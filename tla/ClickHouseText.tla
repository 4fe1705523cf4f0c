--------------------------- MODULE ClickHouseText ---------------------------
(***************************************************************************)
(* driver-clickhouse: a statement on its way to the server and the answer  *)
(* on its way back.  rewrite_question_marks numbers the placeholders,      *)
(* is_row_returning_statement picks the path, and parse_full reads a       *)
(* TabSeparatedWithNamesAndTypes body.                                     *)
(*                                                                         *)
(* A client writes a statement as pieces: the verb, a placeholder, a       *)
(* string literal, a quoted identifier, a comment.  Texts are sequences of *)
(* symbols, "bq" the backquote and "dq" the double quote.  A cell is a     *)
(* text, or NULL.                                                          *)
(***************************************************************************)
EXTENDS Integers, SequencesExt

CONSTANTS Pieces,       \* [kind, text] a client may write
          MaxPieces,    \* bound: pieces after the first
          Parameters,   \* parameter lists
          Answers,      \* [columns, rows, written] a server may give
          NULL

VARIABLES pieces, parameters,
          request,      \* what was sent, or why not
          reply, outcome

textVars == <<pieces, parameters, request, reply, outcome>>

-----------------------------------------------------------------------------
(* SQL text (external) *)

\* Strings and names, in quotes of three kinds: a quote inside its own quotes
\* is doubled or escaped with a backslash, and a backslash is escaped.
InQuotes(text, quote, by) ==
    <<quote>> \o FlattenSeq([i \in DOMAIN text |->
                    CASE text[i] = quote -> <<by, quote>>
                      [] text[i] = "\\" -> <<"\\", "\\">>
                      [] OTHER -> <<text[i]>>]) \o <<quote>>

SqlOf(p) ==
    CASE p.kind = "string" -> InQuotes(p.text, "'", "'")
      [] p.kind = "escaped string" -> InQuotes(p.text, "'", "\\")
      [] p.kind = "identifier" -> InQuotes(p.text, "bq", "bq")
      [] p.kind = "escaped identifier" -> InQuotes(p.text, "bq", "\\")
      [] p.kind = "quoted name" -> InQuotes(p.text, "dq", "dq")
      [] p.kind = "line comment" -> <<"--">> \o p.text \o <<"\n">>
      [] p.kind = "block comment" -> <<"/*">> \o p.text \o <<"*/">>
      [] p.kind = "placeholder" -> <<"?">>
      [] OTHER -> p.text

Sql(ps) == FlattenSeq([i \in DOMAIN ps |-> SqlOf(ps[i]) \o <<" ">>])

Marks(ps) == SelectSeq(ps, LAMBDA p : p.kind = "placeholder")

-----------------------------------------------------------------------------
(* params.rs *)

\* Output: a symbol of the SQL text, or unhex({pN:String}).
Placeholder(n) == [unhex |-> n]
Plain(ch) == [sql |-> ch]

\* Mutant: a backslash does not escape.
RewriteWithoutEscapes(sql) ==
    LET next(s, ch) ==
            LET put == [s EXCEPT !.out = Append(@, Plain(ch))]
            IN  CASE s.quote = "none" /\ ch \in {"'", "bq"} -> [put EXCEPT !.quote = ch]
                  [] s.quote = "none" /\ ch = "?" ->
                        [s EXCEPT !.out = Append(@, Placeholder(s.count + 1)), !.count = @ + 1]
                  [] s.quote = ch -> [put EXCEPT !.quote = "none"]
                  [] OTHER -> put
    IN  FoldLeft(next, [out |-> <<>>, count |-> 0, quote |-> "none", after |-> "nothing"], sql)

\* Every ? outside '...' and `...`, counted.  A backslash takes the next
\* character with it inside '...'; a doubled quote leaves and re-enters.
RewriteQuestionMarks(sql) ==
    LET next(s, ch) ==
            LET put == [s EXCEPT !.out = Append(@, Plain(ch)), !.after = "nothing"]
            IN  CASE s.after = "\\" -> put
                  [] s.quote = "'" /\ ch = "\\" -> [put EXCEPT !.after = "\\"]
                  [] s.quote = ch -> [put EXCEPT !.quote = "none"]
                  [] s.quote # "none" -> put
                  [] ch \in {"'", "bq"} -> [put EXCEPT !.quote = ch]
                  [] ch = "?" -> [s EXCEPT !.out = Append(@, Placeholder(s.count + 1)), !.count = @ + 1]
                  [] OTHER -> put
    IN  FoldLeft(next, [out |-> <<>>, count |-> 0, quote |-> "none", after |-> "nothing"], sql)

\* to_hex is undone by unhex on the server; NULL has no hex.
BuildParamQueryPairs(values) ==
    IF \E i \in DOMAIN values : values[i] = NULL THEN [error |-> "null parameter"]
    ELSE [pairs |-> [i \in DOMAIN values |-> values[i]]]

-----------------------------------------------------------------------------
(* statement.rs *)

RowReturning == {"SELECT", "WITH", "SHOW", "DESCRIBE", "DESC", "EXPLAIN"}

\* Text after the whitespace and comments at its start.
SkipWhitespaceAndComments(sql) ==
    LET next(s, ch) ==
            CASE s.in = "text" -> [s EXCEPT !.rest = Append(@, ch)]
              [] s.in = "--" -> IF ch = "\n" THEN [s EXCEPT !.in = "start"] ELSE s
              [] s.in = "/*" -> IF ch = "*/" THEN [s EXCEPT !.in = "start"] ELSE s
              [] ch \in {"--", "/*"} -> [s EXCEPT !.in = ch]
              [] ch \in {" ", "\n"} -> s
              [] OTHER -> [in |-> "text", rest |-> <<ch>>]
    IN  FoldLeft(next, [in |-> "start", rest |-> <<>>], sql).rest

\* A word goes on after the keyword only if a letter, digit or _ follows.
StartsWithKeyword(text) ==
    text # <<>> /\ text[1] \in RowReturning /\ (Len(text) = 1 \/ text[2] # "_")

IsRowReturningStatement(sql) == StartsWithKeyword(SkipWhitespaceAndComments(sql))

\* execute_user_query_capped
PathOf(sql) == IF IsRowReturningStatement(sql) THEN "streaming" ELSE "buffered"

-----------------------------------------------------------------------------
(* tsv.rs *)

\* The server's escaping (external).
Escape(cell) ==
    IF cell = NULL THEN <<"\\", "N">>
    ELSE FlattenSeq([i \in DOMAIN cell |->
            CASE cell[i] = "\t" -> <<"\\", "t">>
              [] cell[i] = "\n" -> <<"\\", "n">>
              [] cell[i] = "\\" -> <<"\\", "\\">>
              [] OTHER -> <<cell[i]>>])

TsvLine(cells) ==
    FlattenSeq([i \in DOMAIN cells |-> IF i = 1 THEN Escape(cells[i]) ELSE <<"\t">> \o Escape(cells[i])])
        \o <<"\n">>

\* Without a result set there is no body at all.
Body(answer) ==
    IF answer.columns = <<>> THEN <<>>
    ELSE TsvLine([i \in DOMAIN answer.columns |-> answer.columns[i].name])
         \o TsvLine([i \in DOMAIN answer.columns |-> answer.columns[i].type])
         \o FlattenSeq([i \in DOMAIN answer.rows |-> TsvLine(answer.rows[i])])

Split(text, sep) ==
    LET next(parts, ch) ==
            IF ch = sep THEN Append(parts, <<>>)
            ELSE [parts EXCEPT ![Len(parts)] = Append(@, ch)]
    IN  FoldLeft(next, << <<>> >>, text)

UnescapeText(raw) ==
    LET next(s, ch) ==
            CASE s.pending /\ ch = "t" -> [out |-> Append(s.out, "\t"), pending |-> FALSE]
              [] s.pending /\ ch = "n" -> [out |-> Append(s.out, "\n"), pending |-> FALSE]
              [] s.pending -> [out |-> Append(s.out, ch), pending |-> FALSE]
              [] ch = "\\" -> [s EXCEPT !.pending = TRUE]
              [] OTHER -> [s EXCEPT !.out = Append(@, ch)]
        end == FoldLeft(next, [out |-> <<>>, pending |-> FALSE], raw)
    IN  IF end.pending THEN Append(end.out, "\\") ELSE end.out

ParseDataCell(raw) == IF raw = <<"\\", "N">> THEN NULL ELSE UnescapeText(raw)

\* Only one empty line at the end is the end.
SplitLines(body) ==
    LET lines == Split(body, "\n") IN IF Last(lines) = <<>> THEN Front(lines) ELSE lines

ParseFull(body) ==
    LET lines == SplitLines(body)
        names == Split(lines[1], "\t")
        types == Split(lines[2], "\t")
    IN  IF body = <<>> THEN [columns |-> <<>>, rows |-> <<>>]
        ELSE IF Len(lines) < 2 \/ Len(names) # Len(types) THEN [error |-> "protocol"]
        ELSE [columns |-> [i \in DOMAIN names |-> [name |-> UnescapeText(names[i]),
                                                   type |-> UnescapeText(types[i])]],
              rows |-> [i \in 1 .. Len(lines) - 2 |->
                           LET cells == Split(lines[i + 2], "\t")
                           IN  [j \in DOMAIN cells |-> ParseDataCell(cells[j])]]]

\* The X-ClickHouse-Summary header counts only without a result set.
RowsAffectedFrom(parsed, written) ==
    IF parsed.columns = <<>> /\ parsed.rows = <<>>
      THEN IF written = NULL THEN 0 ELSE written
      ELSE Len(parsed.rows)

-----------------------------------------------------------------------------

TextInit ==
    /\ \E first \in Pieces : pieces = <<first>>
    /\ parameters = <<>>
    /\ request = [at |-> "writing"] /\ reply = [at |-> "none"] /\ outcome = [at |-> "none"]

Writes(p) ==
    /\ request.at = "writing" /\ Len(pieces) <= MaxPieces
    /\ pieces' = Append(pieces, p)
    /\ UNCHANGED <<parameters, request, reply, outcome>>

\* execute_user_query with parameters: the two paths prepare alike.
Execute(values) ==
    LET sql == Sql(pieces)
        rewritten == RewriteQuestionMarks(sql)
        bound == BuildParamQueryPairs(values)
    IN  /\ request.at = "writing"
        /\ parameters' = values
        /\ request' =
             IF rewritten.count # Len(values) THEN [at |-> "refused", error |-> "count"]
             ELSE IF "error" \in DOMAIN bound THEN [at |-> "refused", error |-> bound.error]
             ELSE [at |-> "sent", sql |-> rewritten.out, params |-> bound.pairs,
                   path |-> PathOf(sql)]
        /\ UNCHANGED <<pieces, reply, outcome>>

\* run_tsv and run_tsv_parameterized, to the end of the buffered path.
Respond(answer) ==
    LET parsed == ParseFull(Body(answer))
    IN  /\ request.at = "sent" /\ request.path = "buffered" /\ reply.at = "none"
        /\ reply' = [at |-> "body", answer |-> answer]
        /\ outcome' = IF "error" \in DOMAIN parsed THEN [at |-> "error"]
                      ELSE [at |-> "ok", columns |-> parsed.columns, rows |-> parsed.rows,
                            rows_affected |-> RowsAffectedFrom(parsed, answer.written)]
        /\ UNCHANGED <<pieces, parameters, request>>

TextNext ==
    \/ \E p \in Pieces : Writes(p)
    \/ \E values \in Parameters : Execute(values)
    \/ \E answer \in Answers : Respond(answer)

TextSpec == TextInit /\ [][TextNext]_textVars

-----------------------------------------------------------------------------
(* Properties *)

\* rewrite_question_marks takes comments and double-quoted names for SQL, and
\* in backquotes it knows no backslash.
Understood(p) ==
    /\ p.kind \in {"line comment", "block comment", "quoted name"} =>
          ToSet(p.text) \cap {"?", "'", "bq"} = {}
    /\ p.kind = "escaped identifier" => "bq" \notin ToSet(p.text)

\* The statement the server runs, with each placeholder's value in place.
Bound(sql, values) ==
    [i \in DOMAIN sql |-> IF "unhex" \in DOMAIN sql[i] THEN [value |-> values[sql[i].unhex]]
                          ELSE sql[i]]

\* The same, from what the client wrote.
Meant(ps, values) ==
    LET before(i) == Len(Marks(SubSeq(ps, 1, i)))
        plain(text) == [i \in DOMAIN text |-> Plain(text[i])]
    IN  FlattenSeq([i \in DOMAIN ps |->
            IF ps[i].kind = "placeholder" THEN << [value |-> values[before(i)]], Plain(" ") >>
            ELSE plain(SqlOf(ps[i]) \o <<" ">>)])

(***************************************************************************)
(* What is sent is what was written.  Each placeholder stands for its own  *)
(* parameter and no ? of a string or of a backquoted name does, whatever   *)
(* quotes and backslashes it holds; the path follows from the first word   *)
(* that is no comment.  Not claimed, because params.rs does not do it: of  *)
(* a statement with a ? or a quote in a comment or in a double-quoted name *)
(* (both of which ClickHouse has), or a backquote escaped by a backslash.  *)
(***************************************************************************)
StatementSentAsWritten ==
    (\A i \in DOMAIN pieces : Understood(pieces[i])) =>
        /\ request.at = "sent" =>
              /\ Len(parameters) = Len(Marks(pieces))
              /\ Bound(request.sql, request.params) = Meant(pieces, parameters)
              /\ LET words == SelectSeq(pieces, LAMBDA p : p.kind \notin {"line comment", "block comment"})
                 IN  request.path = "streaming" <=>
                        words # <<>> /\ words[1].kind = "word" /\ words[1].text[1] \in RowReturning
        /\ request.at = "refused" =>
              Len(Marks(pieces)) # Len(parameters) \/ NULL \in ToSet(parameters)

(***************************************************************************)
(* A body is read as it was answered: names, types, every row and every    *)
(* cell, NULL and a text that looks like it kept apart, rows of one empty  *)
(* text not lost; rows_affected is the row count, or what was written.     *)
(***************************************************************************)
AnswerReadBack ==
    outcome.at # "none" =>
        /\ outcome.at = "ok"
        /\ outcome.columns = reply.answer.columns
        /\ outcome.rows = reply.answer.rows
        /\ reply.answer.columns = <<>> /\ reply.answer.written # NULL
              => outcome.rows_affected = reply.answer.written
=============================================================================
