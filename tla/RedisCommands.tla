---------------------------- MODULE RedisCommands ----------------------------
(***************************************************************************)
(* driver-redis: from a command line to the command that is sent.  A       *)
(* client writes arguments, bare or in quotes, with blanks between them;   *)
(* require_read_only and execute_parameterized each take the line apart    *)
(* with tokenize, and build_command binds the parameters to the ? tokens.  *)
(***************************************************************************)
EXTENDS Naturals, Sequences, FiniteSets

CONSTANTS Letters,    \* characters that mean nothing to tokenize
          Upper,      \* the upper-case form of each of them
          ReadVerbs,  \* READ_ONLY_COMMANDS, as sequences of characters
          MaxArgs,    \* bound: arguments of a line
          MaxLen,     \* bound: characters of an argument
          MaxParams   \* bound: bound parameters

ASSUME CommandAssumption ==
    /\ {MaxArgs, MaxLen, MaxParams} \subseteq Nat
    /\ Letters \cap {"blank", "double", "single", "?"} = {}
    /\ Upper \in [Letters -> Letters]
    /\ ReadVerbs \subseteq Seq(Letters)

\* The characters that mean something: white space and the two quotes.
Blank == "blank"
Quotes == {"double", "single"}
Chars == Letters \cup Quotes \cup {Blank, "?"}
Placeholder == <<"?">>
Bare == "bare"

VARIABLES args,       \* what the client means
          quoted,     \* the positions of those it wrote in quotes
          line,       \* what it wrote
          params,     \* parameters: "null" or "value"
          read_only,  \* config.read_only
          outcome     \* of execute_user_query: what is sent, or the error

cmdVars == <<args, quoted, line, params, read_only, outcome>>

Pending == [kind |-> "pending", sent |-> <<>>]
Error == [kind |-> "error", sent |-> <<>>]
Sent(cmd) == [kind |-> "sent", sent |-> cmd]

\* An element of a sent command: literal text, or the n-th parameter.
Literal(text) == [text |-> text, parameter |-> 0]
Bound(n) == [text |-> <<>>, parameter |-> n]

-----------------------------------------------------------------------------
(* tokenize *)

Scanning == [tokens |-> <<>>, current |-> <<>>, has_current |-> FALSE, quote |-> Bare]

Pushed(s) == [s EXCEPT !.tokens = Append(@, s.current), !.current = <<>>, !.has_current = FALSE]

\* Mutant: an empty quoted token is not noticed.
ScanNoEmpty(s, c) ==
    IF s.quote # Bare
    THEN IF c = s.quote THEN [s EXCEPT !.quote = Bare]
                        ELSE [s EXCEPT !.current = Append(@, c), !.has_current = TRUE]
    ELSE CASE c = Blank     -> IF s.has_current THEN Pushed(s) ELSE s
           [] c \in Quotes  -> [s EXCEPT !.quote = c]
           [] OTHER         -> [s EXCEPT !.current = Append(@, c), !.has_current = TRUE]

\* One character of the input.
Scan(s, c) ==
    IF s.quote # Bare
    THEN IF c = s.quote THEN [s EXCEPT !.quote = Bare]
                        ELSE [s EXCEPT !.current = Append(@, c)]
    ELSE CASE c = Blank     -> IF s.has_current THEN Pushed(s) ELSE s
           [] c \in Quotes  -> [s EXCEPT !.quote = c, !.has_current = TRUE]
           [] OTHER         -> [s EXCEPT !.current = Append(@, c), !.has_current = TRUE]

\* The state after each number of characters.
ScanStates(text) ==
    LET after[n \in 0 .. Len(text)] == IF n = 0 THEN Scanning ELSE Scan(after[n - 1], text[n])
    IN  after

\* The tokens, and whether a quote was left open.
Tokenize(text) ==
    LET end == ScanStates(text)[Len(text)]
    IN  [ok |-> end.quote = Bare,
         tokens |-> IF end.has_current THEN Pushed(end).tokens ELSE end.tokens]

-----------------------------------------------------------------------------
(* build_command and require_read_only *)

\* to_uppercase, as the server reads verbs: for it get and GET are one.
Uppercase(text) == [i \in DOMAIN text |-> IF text[i] \in Letters THEN Upper[text[i]] ELSE text[i]]

\* The number of ? tokens after the verb, up to token i.
PlaceholdersUpTo(tokens, i) == Cardinality({j \in 2 .. i : tokens[j] = Placeholder})

\* An empty command, a missing parameter and a null one are errors; spare
\* parameters are not.
BuildCommand(tokens, ps) ==
    LET binds(i) == i > 1 /\ tokens[i] = Placeholder
        nth(i) == PlaceholdersUpTo(tokens, i)
    IN  IF tokens = <<>> \/ \E i \in DOMAIN tokens :
               binds(i) /\ (nth(i) > Len(ps) \/ ps[nth(i)] = "null")
        THEN Error
        ELSE Sent([i \in DOMAIN tokens |-> IF i = 1 THEN Literal(Uppercase(tokens[1]))
                                           ELSE IF binds(i) THEN Bound(nth(i))
                                           ELSE Literal(tokens[i])])

\* require_read_only takes the line apart by itself.
RequireReadOnly(text) ==
    LET t == Tokenize(text)
    IN  t.ok /\ t.tokens # <<>> /\ Uppercase(t.tokens[1]) \in ReadVerbs

-----------------------------------------------------------------------------
(* The client and the driver *)

\* The text of an argument in a style: Bare or a quote.
Written(x, s) == IF s = Bare THEN x ELSE <<s>> \o x \o <<s>>

\* Can the client write text x in this style and mean x?
Writable(x, s) ==
    IF s = Bare THEN x # <<>> /\ \A i \in DOMAIN x : x[i] \notin Quotes \cup {Blank}
                ELSE \A i \in DOMAIN x : x[i] # s

ArgumentTexts == UNION {[1 .. n -> Chars] : n \in 0 .. MaxLen}

CommandInit ==
    /\ args = <<>> /\ quoted = {} /\ line = <<>> /\ params = <<>>
    /\ read_only \in BOOLEAN
    /\ outcome = Pending

\* An argument, after a blank.
WriteArgument(x, s) ==
    /\ outcome = Pending /\ Len(args) < MaxArgs
    /\ Writable(x, s)
    /\ args' = Append(args, x)
    /\ quoted' = IF s = Bare THEN quoted ELSE quoted \cup {Len(args')}
    /\ line' = line \o <<Blank>> \o Written(x, s)
    /\ UNCHANGED <<params, read_only, outcome>>

AddParameter(p) ==
    /\ outcome = Pending /\ Len(params) < MaxParams
    /\ params' = Append(params, p)
    /\ UNCHANGED <<args, quoted, line, read_only, outcome>>

\* execute_parameterized, up to the command it sends
ExecuteParameterized(text) ==
    LET t == Tokenize(text) IN IF t.ok THEN BuildCommand(t.tokens, params) ELSE Error

\* execute_user_query
Outcome(text) ==
    IF read_only /\ ~RequireReadOnly(text) THEN Error ELSE ExecuteParameterized(text)

Execute ==
    /\ outcome = Pending
    /\ outcome' = Outcome(line)
    /\ UNCHANGED <<args, quoted, line, params, read_only>>

\* The same with a quote that is never closed.
ExecuteUnterminated(q) ==
    /\ outcome = Pending
    /\ outcome' = Outcome(line \o <<Blank, q>>)
    /\ UNCHANGED <<args, quoted, line, params, read_only>>

CommandNext ==
    \/ \E x \in ArgumentTexts, s \in Quotes \cup {Bare} : WriteArgument(x, s)
    \/ \E p \in {"null", "value"} : AddParameter(p)
    \/ Execute
    \/ \E q \in Quotes : ExecuteUnterminated(q)

CommandSpec == CommandInit /\ [][CommandNext]_cmdVars

-----------------------------------------------------------------------------
(* Properties *)

CommandTypeOK ==
    /\ args \in Seq(ArgumentTexts) /\ quoted \subseteq 1 .. Len(args) /\ line \in Seq(Chars)
    /\ read_only \in BOOLEAN
    /\ outcome.kind \in {"pending", "error", "sent"}
    /\ \A i \in DOMAIN outcome.sent :
          outcome.sent[i].parameter \in 0 .. Len(params)

(***************************************************************************)
(* tokenize gives back the arguments the client wrote, however they are    *)
(* quoted: blanks in quotes do not split, "" is an argument, and one kind  *)
(* of quote is a plain character inside the other.                         *)
(***************************************************************************)
TokensAreArguments == Tokenize(line).ok /\ Tokenize(line).tokens = args

\* "A bare, unquoted token that is exactly `?`" is what command.rs calls a
\* placeholder; build_command no longer knows which tokens were in quotes.
QuotedPlaceholder == \E i \in quoted : i > 1 /\ args[i] = Placeholder

(***************************************************************************)
(* A sent command has as many arguments as the client wrote; after the     *)
(* verb each is the client's text, unless that is a ?.  A ? is replaced by *)
(* a parameter, which is one argument whatever it holds; they are bound in *)
(* order from the first, none twice, and none of them is null.  A line     *)
(* with an open quote is never sent with what follows it as an argument.   *)
(* Nothing is said of the parameters of a line with a ? in quotes, which   *)
(* the code binds like a bare one.                                         *)
(***************************************************************************)
ParametersBoundInOrder ==
    outcome.kind = "sent" =>
        /\ Len(outcome.sent) = Len(args)
        /\ \A i \in 2 .. Len(args) : args[i] # Placeholder => outcome.sent[i] = Literal(args[i])
        /\ ~QuotedPlaceholder =>
              /\ \A i \in 2 .. Len(args) : args[i] = Placeholder => outcome.sent[i].parameter # 0
              /\ \A i \in DOMAIN outcome.sent :
                    LET n == outcome.sent[i].parameter
                    IN  n # 0 => /\ n = Cardinality({j \in 1 .. i : outcome.sent[j].parameter # 0})
                                 /\ n <= Len(params) /\ params[n] # "null"

(***************************************************************************)
(* tokenize gives back the arguments the client wrote, however quoted, and *)
(* build_command sends them, binding parameters in order, one argument     *)
(* each, unless a ? stands in quotes.                                      *)
(***************************************************************************)
CommandSentAsWritten == TokensAreArguments /\ ParametersBoundInOrder
=============================================================================
