----------------------------- MODULE JsonNesting -----------------------------
(***************************************************************************)
(* mcp-wire: the nesting guard of decode_message.  exceeds_max_nesting     *)
(* scans the bytes without parsing them, so that serde_json's recursive    *)
(* parser never sees text nested deeper than MAX_JSON_NESTING_DEPTH.  Here *)
(* the scan and the parser read the same bytes, of any kind, side by side: *)
(* the scan is the code's, the parser is external.                         *)
(***************************************************************************)
EXTENDS Naturals, Sequences

CONSTANTS MaxDepth,   \* MAX_JSON_NESTING_DEPTH
          MaxBytes    \* bound: bytes of the input

ASSUME NestingAssumption == MaxDepth \in Nat /\ MaxBytes \in Nat

Opening == {"{", "["}
Closing == {"}", "]"}
Bytes == Opening \cup Closing \cup {"\"", "\\", "x"}

VARIABLES read,       \* bytes read so far
          scan,       \* exceeds_max_nesting's local variables
          parser,     \* where serde_json's parser would be
          deepest     \* its deepest recursion so far

vars == <<read, scan, parser, deepest>>

Scans == [depth : Nat, in_string : BOOLEAN, escaped : BOOLEAN, exceeded : BOOLEAN]
Parsers == [open : Seq(Opening), in_string : BOOLEAN, escaped : BOOLEAN, failed : BOOLEAN]

Init ==
    /\ read = 0
    /\ scan = [depth |-> 0, in_string |-> FALSE, escaped |-> FALSE, exceeded |-> FALSE]
    /\ parser = [open |-> <<>>, in_string |-> FALSE, escaped |-> FALSE, failed |-> FALSE]
    /\ deepest = 0

\* A byte inside a string: only an unescaped quote ends it.
InString(s, b) ==
    [s EXCEPT !.escaped = ~s.escaped /\ b = "\\",
              !.in_string = s.escaped \/ b # "\""]

\* The depth after byte b; closing brackets without an opening one are not
\* room for more (saturating_sub).
Nested(d, b) ==
    IF b \in Opening THEN d + 1 ELSE IF b \in Closing /\ d > 0 THEN d - 1 ELSE d

\* Mutant: brackets in strings count.
ScannedNoStrings(s, b) ==
    IF s.exceeded THEN s
    ELSE [s EXCEPT !.depth = Nested(@, b), !.exceeded = Nested(s.depth, b) > MaxDepth]

\* Mutant: the depth is compared before it is counted.
ScannedLate(s, b) ==
    IF s.exceeded THEN s
    ELSE IF s.in_string THEN InString(s, b)
    ELSE [s EXCEPT !.in_string = b = "\"",
                   !.depth = Nested(@, b),
                   !.exceeded = s.depth > MaxDepth]

\* One byte of the scan, which returns at the first one that is too deep.
Scanned(s, b) ==
    IF s.exceeded THEN s
    ELSE IF s.in_string THEN InString(s, b)
    ELSE [s EXCEPT !.in_string = b = "\"",
                   !.depth = Nested(@, b),
                   !.exceeded = Nested(s.depth, b) > MaxDepth]

\* Is b a closing bracket, and not that of the last open one?
Mismatch(p, b) ==
    /\ ~p.in_string /\ b \in Closing
    /\ p.open = <<>> \/ p.open[Len(p.open)] # IF b = "}" THEN "{" ELSE "["

\* One byte of the parser: it recurses on an opening bracket and stops at the
\* first byte no JSON text could have here, a mismatch or any other (bad).
Parsed(p, b, bad) ==
    IF p.failed \/ bad \/ Mismatch(p, b) THEN [p EXCEPT !.failed = TRUE]
    ELSE IF p.in_string THEN InString(p, b)
    ELSE [p EXCEPT !.in_string = b = "\"",
                   !.open = IF b \in Opening THEN Append(@, b)
                            ELSE IF b \in Closing THEN SubSeq(@, 1, Len(@) - 1)
                            ELSE @]

ReadByte(b, bad) ==
    /\ read < MaxBytes
    /\ read' = read + 1
    /\ scan' = Scanned(scan, b)
    /\ parser' = Parsed(parser, b, bad)
    /\ deepest' = IF Len(parser'.open) > deepest THEN Len(parser'.open) ELSE deepest

Next == \E b \in Bytes, bad \in BOOLEAN : ReadByte(b, bad)

Spec == Init /\ [][Next]_vars

-----------------------------------------------------------------------------
(* Properties *)

TypeOK ==
    /\ read \in Nat
    /\ scan \in Scans
    /\ parser \in Parsers
    /\ deepest \in Nat

(***************************************************************************)
(* Until the parser fails or the scan has answered, both are at the same   *)
(* depth and agree on where strings begin and end; after the parser failed *)
(* it goes no deeper, whatever brackets follow.                            *)
(***************************************************************************)
InStep ==
    /\ Len(parser.open) =< deepest
    /\ scan.exceeded => scan.depth > MaxDepth
    /\ ~scan.exceeded =>
          /\ scan.depth =< MaxDepth
          /\ deepest =< MaxDepth
          /\ ~parser.failed => /\ Len(parser.open) = scan.depth
                               /\ parser.in_string = scan.in_string
                               /\ parser.escaped = scan.escaped

(***************************************************************************)
(* The parser never recurses deeper than the limit on input the scan lets  *)
(* pass, also when it is not JSON at all: unbalanced brackets, strings     *)
(* that never end, escaped quotes.                                         *)
(***************************************************************************)
ParserBounded == ~scan.exceeded => deepest =< MaxDepth

(***************************************************************************)
(* The scan refuses no well-formed text that is within the limit: brackets *)
(* in strings do not count, and closed ones are given back.  (parsed up to *)
(* here without failing and refused: the text really nests too deep.)      *)
(***************************************************************************)
OnlyDeepRefused == scan.exceeded /\ ~parser.failed => deepest > MaxDepth
=============================================================================
