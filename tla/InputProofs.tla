----------------------------- MODULE InputProofs -----------------------------
(***************************************************************************)
(* The parts that turn one input into one answer, for inputs of any length *)
(* and every value of the constants.  Each has its own inductive           *)
(* invariant: NestingInv, where the scan knows the parser's depth exactly  *)
(* for as long as the parser has not failed; RpcInv, where each step of an *)
(* exchange holds what the step before it left; CommandInv, where reading  *)
(* the line so far has settled on the arguments the client means; ToolInv, *)
(* where every mode on the way to a driver stands for the one written; and *)
(* ExportReadsBack, which is inductive as it is.                           *)
(***************************************************************************)
EXTENDS JsonNesting, JsonRpc, RedisCommands, Tools, ExportJsonl, FiniteSetTheorems, TLAPS

-----------------------------------------------------------------------------
(* mcp-wire: the nesting guard *)

NestingInv == TypeOK /\ InStep /\ OnlyDeepRefused

(***************************************************************************)
(* A byte inside a string leaves depth, open brackets and verdict alone    *)
(* (the in_string branch of exceeds_max_nesting).                          *)
(***************************************************************************)
LEMMA InStringKeeps ==
    ASSUME NEW b \in Bytes
    PROVE  /\ \A s \in Scans : /\ InString(s, b) \in Scans
                               /\ InString(s, b).depth = s.depth
                               /\ InString(s, b).exceeded = s.exceeded
           /\ \A p \in Parsers : /\ InString(p, b) \in Parsers
                                 /\ InString(p, b).open = p.open
                                 /\ InString(p, b).failed = p.failed
  BY DEF InString, Scans, Parsers

(***************************************************************************)
(* One byte of exceeds_max_nesting keeps its local variables in their      *)
(* types: depth is a usize and saturating_sub stops it at zero.            *)
(***************************************************************************)
LEMMA ScannedType ==
    ASSUME NEW s \in Scans, NEW b \in Bytes
    PROVE  Scanned(s, b) \in Scans
  <1>1. s.depth \in Nat /\ MaxDepth \in Nat
    BY NestingAssumption DEF Scans
  <1>2. InString(s, b) \in Scans
    BY InStringKeeps
  <1>3. Nested(s.depth, b) \in Nat
    BY <1>1 DEF Nested
  <1>4. CASE s.exceeded \/ s.in_string
    BY <1>2, <1>4 DEF Scanned
  <1>5. CASE ~(s.exceeded \/ s.in_string)
    <2> DEFINE d == Nested(s.depth, b)
    <2>1. d \in Nat /\ (d > MaxDepth) \in BOOLEAN
      BY <1>1, <1>3
    <2>2. Scanned(s, b) = [s EXCEPT !.in_string = (b = "\""), !.depth = d, !.exceeded = (d > MaxDepth)]
      BY <1>5 DEF Scanned
    <2> HIDE DEF d
    <2> QED
      BY <2>1, <2>2 DEF Scans
  <1> QED
    BY <1>4, <1>5

(***************************************************************************)
(* One byte of the parser keeps its open brackets a sequence of brackets.  *)
(***************************************************************************)
LEMMA ParsedType ==
    ASSUME NEW p \in Parsers, NEW b \in Bytes, NEW bad \in BOOLEAN
    PROVE  Parsed(p, b, bad) \in Parsers
  <1>1. p.open \in Seq(Opening)
    BY DEF Parsers
  <1>2. b \in Opening => Append(p.open, b) \in Seq(Opening)
    BY <1>1
  <1>3. p.open # <<>> => SubSeq(p.open, 1, Len(p.open) - 1) \in Seq(Opening)
    BY <1>1
  <1>4. InString(p, b) \in Parsers
    BY InStringKeeps
  <1> QED
    BY <1>1, <1>2, <1>3, <1>4 DEF Parsed, Mismatch, Parsers

(***************************************************************************)
(* How the parser's depth moves with a byte: by one at most, and not at    *)
(* all in a string or once it has failed.                                  *)
(***************************************************************************)
LEMMA ParsedDepth ==
    ASSUME NEW p \in Parsers, NEW b \in Bytes, NEW bad \in BOOLEAN
    PROVE  LET q == Parsed(p, b, bad) IN
           /\ Len(p.open) \in Nat
           /\ q.failed => q.open = p.open
           /\ ~q.failed /\ p.in_string => q.open = p.open
           /\ ~q.failed /\ ~p.in_string => Len(q.open) = Nested(Len(p.open), b)
  <1> DEFINE q == Parsed(p, b, bad)
  <1>1. p.open \in Seq(Opening) /\ Len(p.open) \in Nat
    BY DEF Parsers
  <1>2. InString(p, b).open = p.open /\ InString(p, b).failed = p.failed
    BY InStringKeeps
  <1>3. CASE p.failed \/ bad \/ Mismatch(p, b)
    BY <1>1, <1>3 DEF Parsed, Parsers
  <1>4. CASE ~(p.failed \/ bad \/ Mismatch(p, b)) /\ p.in_string
    BY <1>1, <1>2, <1>4 DEF Parsed
  <1>5. CASE ~(p.failed \/ bad \/ Mismatch(p, b)) /\ ~p.in_string
    <2>1. b \in Opening => Len(Append(p.open, b)) = Len(p.open) + 1
      BY <1>1
    <2>2. b \in Closing => /\ Len(p.open) > 0
                           /\ Len(SubSeq(p.open, 1, Len(p.open) - 1)) = Len(p.open) - 1
      <3>1. b \in Closing => p.open # <<>>
        BY <1>5 DEF Mismatch
      <3>2. p.open # <<>> => Len(p.open) > 0
        BY <1>1
      <3> QED
        BY <1>1, <3>1, <3>2
    <2>3. Opening \cap Closing = {}
      BY DEF Opening, Closing
    <2>4. /\ q.failed = FALSE
          /\ q.open = IF b \in Opening THEN Append(p.open, b)
                      ELSE IF b \in Closing THEN SubSeq(p.open, 1, Len(p.open) - 1)
                      ELSE p.open
      BY <1>5 DEF Parsed, Parsers
    <2> QED
      BY <1>1, <1>5, <2>1, <2>2, <2>3, <2>4 DEF Nested
  <1> QED
    BY <1>3, <1>4, <1>5

(***************************************************************************)
(* Where both read the same kind of byte, in a string or out of one, they  *)
(* leave it in the same state: exceeds_max_nesting and the parser agree on *)
(* which quotes end a string.                                              *)
(***************************************************************************)
LEMMA SameStrings ==
    ASSUME NEW s \in Scans, NEW p \in Parsers, NEW b \in Bytes, NEW bad \in BOOLEAN,
           ~s.exceeded, ~Parsed(p, b, bad).failed,
           p.in_string = s.in_string, p.escaped = s.escaped
    PROVE  /\ Parsed(p, b, bad).in_string = Scanned(s, b).in_string
           /\ Parsed(p, b, bad).escaped = Scanned(s, b).escaped
  <1>1. ~(p.failed \/ bad \/ Mismatch(p, b))
    BY DEF Parsed, Parsers
  <1>2. CASE s.in_string
    BY <1>1, <1>2 DEF Parsed, Scanned, InString, Scans, Parsers
  <1>3. CASE ~s.in_string
    BY <1>1, <1>3 DEF Parsed, Scanned, Scans, Parsers
  <1> QED
    BY <1>2, <1>3 DEF Scans

(***************************************************************************)
(* How the scan's depth moves with a byte while it has not answered.       *)
(***************************************************************************)
LEMMA ScannedDepth ==
    ASSUME NEW s \in Scans, NEW b \in Bytes
    PROVE  /\ s.exceeded => Scanned(s, b) = s
           /\ ~s.exceeded /\ s.in_string => /\ Scanned(s, b).depth = s.depth
                                            /\ Scanned(s, b).exceeded = FALSE
           /\ ~s.exceeded /\ ~s.in_string =>
                /\ Scanned(s, b).depth = Nested(s.depth, b)
                /\ Scanned(s, b).exceeded = (Nested(s.depth, b) > MaxDepth)
  BY InStringKeeps DEF Scanned, Scans

(***************************************************************************)
(* Every byte of the input, whatever it is, keeps the scan in step.        *)
(***************************************************************************)
LEMMA InStepStep ==
    ASSUME TypeOK, InStep, OnlyDeepRefused,
           NEW b \in Bytes, NEW bad \in BOOLEAN, ReadByte(b, bad)
    PROVE  TypeOK' /\ InStep' /\ OnlyDeepRefused'
  <1> DEFINE s == scan  t == Scanned(scan, b)  p == parser  q == Parsed(parser, b, bad)
  <1>1. scan' = t /\ parser' = q
    BY DEF ReadByte
  <1>2. s \in Scans /\ p \in Parsers /\ deepest \in Nat /\ read \in Nat /\ MaxDepth \in Nat
    BY NestingAssumption DEF TypeOK
  <1>3. t \in Scans /\ q \in Parsers
    BY <1>2, ScannedType, ParsedType
  <1>4. /\ Len(p.open) \in Nat /\ Len(q.open) \in Nat
        /\ s.depth \in Nat /\ t.depth \in Nat
        /\ {s.exceeded, t.exceeded, s.in_string, p.in_string, p.failed, q.failed} \subseteq BOOLEAN
    BY <1>2, <1>3 DEF Scans, Parsers
  <1>5. /\ deepest' = IF Len(q.open) > deepest THEN Len(q.open) ELSE deepest
        /\ deepest' \in Nat /\ deepest' >= deepest /\ deepest' >= Len(q.open)
    BY <1>1, <1>2, <1>4 DEF ReadByte
  <1>6. TypeOK'
    BY <1>1, <1>2, <1>3, <1>5 DEF TypeOK, ReadByte
  <1>7. p.failed => q.failed
    BY <1>2 DEF Parsed, Parsers
  <1>8. CASE s.exceeded
    <2>1. t = s
      BY <1>2, <1>8, ScannedDepth
    <2>2. InStep'
      BY <1>1, <1>5, <1>8, <2>1 DEF InStep
    <2>3. OnlyDeepRefused'
      BY <1>1, <1>2, <1>5, <1>7, <1>8 DEF OnlyDeepRefused
    <2> QED
      BY <1>6, <2>2, <2>3
  <1>9. CASE ~s.exceeded
    <2>1. s.depth =< MaxDepth /\ deepest =< MaxDepth /\ Len(p.open) =< deepest
      BY <1>9 DEF InStep
    <2>2. ~p.failed => /\ Len(p.open) = s.depth
                       /\ p.in_string = s.in_string
                       /\ p.escaped = s.escaped
      BY <1>9 DEF InStep
    <2>3. t.exceeded => t.depth > MaxDepth
      BY <1>2, <1>4, <1>9, ScannedDepth
    <2>4. ~t.exceeded => t.depth =< MaxDepth
      <3>1. CASE s.in_string
        BY <1>2, <1>9, <2>1, <3>1, ScannedDepth
      <3>2. CASE ~s.in_string
        <4>1. ~t.exceeded => ~(t.depth > MaxDepth)
          BY <1>2, <1>9, <3>2, ScannedDepth
        <4>2. ~(t.depth > MaxDepth) => t.depth =< MaxDepth
          BY <1>2, <1>4
        <4> QED
          BY <4>1, <4>2
      <3> QED
        BY <3>1, <3>2
    <2>5. ~q.failed => Len(q.open) = t.depth
      <3> SUFFICES ASSUME ~q.failed PROVE Len(q.open) = t.depth
        OBVIOUS
      <3>1. Len(p.open) = s.depth /\ p.in_string = s.in_string
        BY <1>7, <2>2
      <3>2. CASE s.in_string
        <4>1. q.open = p.open
          BY <1>2, <3>1, <3>2, ParsedDepth
        <4>2. t.depth = s.depth
          BY <1>2, <1>9, <3>2, ScannedDepth
        <4> QED
          BY <3>1, <4>1, <4>2
      <3>3. CASE ~s.in_string
        <4>1. Len(q.open) = Nested(Len(p.open), b)
          BY <1>2, <3>1, <3>3, ParsedDepth
        <4>2. t.depth = Nested(s.depth, b)
          BY <1>2, <1>9, <3>3, ScannedDepth
        <4> QED
          BY <3>1, <4>1, <4>2
      <3> QED
        BY <3>2, <3>3
    <2>6. ~t.exceeded => deepest' =< MaxDepth
      <3>1. q.failed => Len(q.open) = Len(p.open)
        BY <1>2, ParsedDepth
      <3> QED
        BY <1>2, <1>4, <1>5, <2>1, <2>4, <2>5, <3>1
    <2>7. ~q.failed => q.in_string = t.in_string /\ q.escaped = t.escaped
      BY <1>2, <1>7, <1>9, <2>2, SameStrings
    <2>8. InStep'
      BY <1>1, <1>5, <2>3, <2>4, <2>5, <2>6, <2>7 DEF InStep
    <2>9. OnlyDeepRefused'
      BY <1>1, <1>2, <1>4, <1>5, <2>3, <2>5 DEF OnlyDeepRefused
    <2> QED
      BY <1>6, <2>8, <2>9
  <1> QED
    BY <1>4, <1>8, <1>9

(***************************************************************************)
(* The inductive invariant holds of every behaviour.                       *)
(***************************************************************************)
THEOREM NestingInvariant == Spec => []NestingInv
  <1>1. Init => NestingInv
    BY NestingAssumption DEF Init, NestingInv, TypeOK, InStep, OnlyDeepRefused, Scans, Parsers
  <1>2. NestingInv /\ [Next]_vars => NestingInv'
    <2> SUFFICES ASSUME NestingInv, [Next]_vars PROVE NestingInv'
      OBVIOUS
    <2>1. CASE Next
      <3>1. PICK b \in Bytes, bad \in BOOLEAN : ReadByte(b, bad)
        BY <2>1 DEF Next
      <3> QED
        BY <3>1, InStepStep DEF NestingInv
    <2>2. CASE UNCHANGED vars
      BY <2>2 DEF vars, NestingInv, TypeOK, InStep, OnlyDeepRefused
    <2> QED
      BY <2>1, <2>2
  <1> QED
    BY <1>1, <1>2, PTL DEF Spec

(***************************************************************************)
(* serde_json's parser never recurses deeper than MAX_JSON_NESTING_DEPTH   *)
(* on input that exceeds_max_nesting lets pass.                            *)
(***************************************************************************)
THEOREM NestingBoundsParser == Spec => []ParserBounded
  <1>1. NestingInv => ParserBounded
    BY DEF NestingInv, InStep, ParserBounded
  <1> QED
    BY <1>1, NestingInvariant, PTL

(***************************************************************************)
(* exceeds_max_nesting refuses no text that parses within the limit.       *)
(***************************************************************************)
THEOREM NestingRefusesOnlyDeep == Spec => []OnlyDeepRefused
  <1>1. NestingInv => OnlyDeepRefused
    BY DEF NestingInv
  <1> QED
    BY <1>1, NestingInvariant, PTL

-----------------------------------------------------------------------------
(* mcp-wire: JSON-RPC messages *)

Bodies == [form : {"object", "too_deep"}, fields : Objects] \cup NotObjects \cup {NoBody}

\* The steps of an exchange come in order, and each value is what the step
\* before it left.
RpcInv ==
    /\ body \in Bodies
    /\ decoded = NoMessage \/ (body # NoBody /\ decoded = DecodeMessage(body))
    /\ \/ reply = NoMessage
       \/ decoded.kind = "request" /\ reply \in Responses /\ reply.id = decoded.id
       \/ decoded.kind = "failure" /\ reply = Message("error", Null, "error_object")
    /\ answer = NoMessage \/ (reply # NoMessage /\ answer = reply)

(***************************************************************************)
(* decode_message reads back every response the server can encode.         *)
(***************************************************************************)
LEMMA ResponseReadsBack ==
    ASSUME NEW m \in Responses
    PROVE  DecodeMessage(Encode(m)) = m
  <1>. DEFINE o == Encode(m).fields
  <1>1. /\ Encode(m).form = "object" /\ o.jsonrpc = "2.0" /\ o.method = Absent /\ o.id = m.id
        /\ o.result = (IF m.kind = "success" THEN m.content ELSE Absent)
        /\ o.error = (IF m.kind = "error" THEN m.content ELSE Absent)
    BY DEF Encode, Object, NoFields
  <1>2. DecodeMessage(Encode(m)) = DecodeResponse(o)
    BY <1>1 DEF DecodeMessage, DecodeValue, Absent
  <1>3. m = Message(m.kind, m.id, m.content)
    BY DEF Responses, Message
  <1>. HIDE DEF o
  <1>4. CASE m.kind = "success"
    <2>1. m.id \in Ids /\ m.content \in {Null, "value"}
      BY <1>4 DEF Responses
    <2>. QED
      BY <1>1, <1>2, <1>3, <1>4, <2>1 DEF DecodeResponse, ParseId, Absent, Null
  <1>5. CASE m.kind = "error"
    <2>1. m.id \in Ids \cup {Null} /\ m.content = "error_object"
      BY <1>5 DEF Responses
    <2>. QED
      BY <1>1, <1>2, <1>3, <1>5, <2>1 DEF DecodeResponse, ParseId, Absent
  <1>. QED  BY <1>4, <1>5 DEF Responses

(***************************************************************************)
(* What decode_message makes of a body: an id is the one of the object,    *)
(* and a call with a method name is a request, a notification or refused   *)
(* by its id alone.                                                        *)
(***************************************************************************)
LEMMA DecodedCall ==
    ASSUME NEW v \in Bodies
    PROVE  LET m == DecodeMessage(v) IN
           /\ m # NoMessage
           /\ m.kind = "request" => m.id = v.fields.id /\ m.id \in Ids
           /\ v.form = "too_deep" => m.kind = "failure"
           /\ v.form # "too_deep" /\ v.fields.jsonrpc = "2.0" /\ v.fields.method = "string" =>
                 /\ v.fields.id = Absent => m.kind = "notification"
                 /\ v.fields.id \in Ids => m.kind = "request"
                 /\ v.fields.id \notin Ids \cup {Absent} => m.kind = "failure"
  <1>. DEFINE o == v.fields
  <1>1. \A k, i, c : Message(k, i, c).kind = k /\ Message(k, i, c).id = i
    BY DEF Message
  <1>2. \A c : Failure(c).kind = "failure"
    BY <1>1 DEF Failure
  <1>3. NoMessage.kind = "none"
    BY <1>1 DEF NoMessage
  <1>4. o.jsonrpc = "2.0" => v.form \in {"object", "too_deep"}
    <2>1. NoFields.jsonrpc # "2.0"
      BY DEF NoFields, Absent
    <2>2. v \in [form : {"object", "too_deep"}, fields : Objects] => v.form \in {"object", "too_deep"}
      OBVIOUS
    <2>3. v \in NotObjects \cup {NoBody} => o = NoFields
      <3>1. NoBody.fields = NoFields
        BY DEF NoBody
      <3>2. v \in NotObjects => v.fields = NoFields
        BY DEF NotObjects
      <3>. QED  BY <3>1, <3>2
    <2>. QED
      BY <2>1, <2>2, <2>3 DEF Bodies
  <1>. HIDE DEF o
  <1>5. LET m == DecodeRequestOrNotification(o) IN
        /\ m.kind \in {"failure", "notification", "request"}
        /\ m.kind = "request" => m.id = o.id /\ m.id \in Ids
        /\ o.method = "string" =>
              /\ o.id = Absent => m.kind = "notification"
              /\ o.id \in Ids => m.kind = "request"
              /\ o.id \notin Ids \cup {Absent} => m.kind = "failure"
    BY <1>1, <1>2, IdAssumption DEF DecodeRequestOrNotification, ParseId
  <1>6. DecodeResponse(o).kind \in {"failure", "success", "error"}
    <2>1. DecodeResponse(o) \in {Failure("INVALID_REQUEST"), Message("success", o.id, o.result),
                                 Message("error", o.id, o.error)}
      BY DEF DecodeResponse
    <2>. QED  BY <1>1, <1>2, <2>1
  <1>7. LET m == DecodeValue(o) IN
        /\ m.kind \in {"failure", "notification", "request", "success", "error"}
        /\ m.kind = "request" => m.id = o.id /\ m.id \in Ids
        /\ o.jsonrpc = "2.0" /\ o.method = "string" =>
              /\ o.id = Absent => m.kind = "notification"
              /\ o.id \in Ids => m.kind = "request"
              /\ o.id \notin Ids \cup {Absent} => m.kind = "failure"
    BY <1>2, <1>5, <1>6 DEF DecodeValue, Absent
  <1>. QED
    BY <1>2, <1>3, <1>4, <1>7 DEF DecodeMessage, o

(***************************************************************************)
(* The invariant of an exchange, one step of the transport or the peer at  *)
(* a time.                                                                 *)
(***************************************************************************)
LEMMA RpcInvHolds == RpcSpec => []RpcInv
  <1>1. NoFields \in Objects
    BY DEF NoFields, Objects, Absent
  <1>2. ASSUME RpcInit PROVE RpcInv
    BY <1>1, <1>2 DEF RpcInit, RpcInv, Bodies, NoBody
  <1>3. ASSUME RpcInv, [RpcNext]_rpcVars PROVE RpcInv'
    <2>. USE <1>3 DEF RpcInv
    <2>0. decoded.kind \in {"request", "failure"} => decoded # NoMessage
      BY DEF NoMessage, Message
    <2>1. ASSUME NEW v \in Bodies, Send(v) PROVE RpcInv'
      BY <2>1 DEF Send
    <2>2. ASSUME Receive PROVE RpcInv'
      BY <2>2, DecodedCall DEF Receive, NoMessage, Message
    <2>3. ASSUME NEW content \in {Null, "value", "error_object"}, AnswerMessage(content) PROVE RpcInv'
      <3>1. decoded.id \in Ids
        BY <2>0, <2>3, DecodedCall DEF AnswerMessage
      <3>2. reply' \in Responses /\ reply'.id = decoded.id
        BY <2>3, <3>1 DEF AnswerMessage, Message, Responses
      <3>. QED  BY <2>3, <3>2 DEF AnswerMessage
    <2>4. ASSUME AnswerFailure PROVE RpcInv'
      <3>1. reply' = Message("error", Null, "error_object")
        BY <2>4 DEF AnswerFailure
      <3>. QED  BY <2>4, <3>1 DEF AnswerFailure
    <2>5. ASSUME PeerReads PROVE RpcInv'
      <3>1. Message("error", Null, "error_object") \in Responses
        BY DEF Message, Responses
      <3>. QED  BY <2>5, <3>1, ResponseReadsBack DEF PeerReads
    <2>6. CASE UNCHANGED rpcVars
      BY <2>6 DEF rpcVars
    <2>. QED
      BY <2>1, <2>2, <2>3, <2>4, <2>5, <2>6 DEF RpcNext, Bodies, Object, TooDeep
  <1>. QED  BY <1>2, <1>3, PTL DEF RpcSpec

(***************************************************************************)
(* Whatever JSON value arrives, a reply carries the id of the call it      *)
(* answers, a notification gets none, what nests too deep gets an error    *)
(* without an id, and the peer reads the reply as it was sent: for every   *)
(* set of ids.                                                             *)
(***************************************************************************)
THEOREM RpcExchangeSound == RpcSpec => []ExchangeSound
  <1>1. ASSUME RpcInv PROVE ExchangeSound
    <2>. USE <1>1 DEF RpcInv
    <2>1. ReplyReadable
      BY DEF ReplyReadable
    <2>2. Paired
      <3>1. SUFFICES ASSUME body.fields.jsonrpc = "2.0", body.fields.method = "string", decoded # NoMessage
                     PROVE  \/ /\ body.form = "too_deep" /\ decoded.kind = "failure"
                               /\ reply \in {NoMessage, Message("error", Null, "error_object")}
                            \/ /\ body.form # "too_deep"
                               /\ body.fields.id = Absent => decoded.kind = "notification" /\ reply = NoMessage
                               /\ body.fields.id # Absent => decoded.kind \in {"request", "failure"}
                               /\ reply # NoMessage =>
                                     reply.id = IF body.fields.id \in Ids THEN body.fields.id ELSE Null
        BY DEF Paired
      <3>2. Message("error", Null, "error_object").id = Null
        BY DEF Message
      <3>. QED
        BY <3>1, <3>2, DecodedCall
    <2>. QED  BY <2>1, <2>2 DEF ExchangeSound
  <1>. QED  BY <1>1, RpcInvHolds, PTL

-----------------------------------------------------------------------------
(* driver-redis: the command line *)

(***************************************************************************)
(* Every set of numbers that is not empty has a least element.             *)
(***************************************************************************)
LEMMA LeastNumber ==
    ASSUME NEW S \in SUBSET Nat, S # {}
    PROVE  \E n \in S : \A m \in S : n <= m
  <1>. DEFINE R == {ss \in Nat \X Nat : ss[1] < ss[2]}
  <1>1. IsWellFoundedOn(R, Nat)
    BY NatLessThanWellFounded DEF OpToRel
  <1>. HIDE DEF R
  <1>2. PICK x \in S : \A y \in S : ~(<<y, x>> \in R)
    BY <1>1, WFMin
  <1>3. ASSUME NEW y \in S PROVE x <= y
    <2>1. x \in Nat /\ y \in Nat
      OBVIOUS
    <2>2. ~(y < x)
      BY <1>2, <2>1 DEF R
    <2>. QED  BY <2>1, <2>2
  <1>. QED
    BY <1>3

(***************************************************************************)
(* Two functions that start alike, and of which each value determines the  *)
(* next in the same way, are the same.                                     *)
(***************************************************************************)
LEMMA SameByRecursion ==
    ASSUME NEW m \in Nat, NEW f, NEW g,
           f = [n \in 0 .. m |-> f[n]], g = [n \in 0 .. m |-> g[n]],
           f[0] = g[0], \A n \in 1 .. m : f[n - 1] = g[n - 1] => f[n] = g[n]
    PROVE  f = g
  <1>. DEFINE S == {n \in 0 .. m : f[n] # g[n]}
  <1>1. S = {}
    <2>1. SUFFICES ASSUME S # {} PROVE FALSE
      OBVIOUS
    <2>2. S \in SUBSET Nat
      OBVIOUS
    <2>3. PICK k \in S : \A j \in S : k <= j
      BY <2>1, <2>2, LeastNumber
    <2>4. k \in 1 .. m /\ k - 1 \in 0 .. m /\ ~(k <= k - 1)
      BY <2>3
    <2>5. f[k - 1] = g[k - 1]
      BY <2>3, <2>4
    <2>. QED
      BY <2>3, <2>4, <2>5
  <1>. QED  BY <1>1

(***************************************************************************)
(* tokenize, as the states after each number of characters.                *)
(***************************************************************************)
IsRun(f, text) ==
    f = [n \in 0 .. Len(text) |-> IF n = 0 THEN Scanning ELSE Scan(f[n - 1], text[n])]

(***************************************************************************)
(* A run begins with nothing read, and each state is the one before it     *)
(* after one more character.                                               *)
(***************************************************************************)
LEMMA RunSteps ==
    ASSUME NEW text, Len(text) \in Nat, NEW f, IsRun(f, text)
    PROVE  /\ DOMAIN f = 0 .. Len(text) /\ f = [n \in 0 .. Len(text) |-> f[n]]
           /\ f[0] = Scanning /\ \A n \in 1 .. Len(text) : f[n] = Scan(f[n - 1], text[n])
  <1>. DEFINE e(n) == IF n = 0 THEN Scanning ELSE Scan(f[n - 1], text[n])
  <1>1. f = [n \in 0 .. Len(text) |-> e(n)]
    BY DEF IsRun
  <1>2. 0 \in 0 .. Len(text) /\ \A n \in 1 .. Len(text) : n \in 0 .. Len(text) /\ n # 0
    OBVIOUS
  <1>3. \A n \in 0 .. Len(text) : f[n] = e(n)
    BY <1>1
  <1>4. DOMAIN f = 0 .. Len(text) /\ f = [n \in 0 .. Len(text) |-> f[n]]
    BY <1>1
  <1>. QED  BY <1>2, <1>3, <1>4

(***************************************************************************)
(* tokenize has one run on a text, so any run of it is ScanStates.         *)
(***************************************************************************)
LEMMA RunIsScan ==
    ASSUME NEW text, Len(text) \in Nat, NEW f, IsRun(f, text)
    PROVE  ScanStates(text) = f
  <1>. DEFINE g == ScanStates(text)
  <1>1. g = CHOOSE h : IsRun(h, text)
    BY DEF ScanStates, IsRun
  <1>2. IsRun(g, text)
    BY <1>1
  <1>. HIDE DEF g
  <1>. QED
    BY <1>2, RunSteps, SameByRecursion DEF g

(***************************************************************************)
(* A longer text is read on from where the shorter one ended.              *)
(***************************************************************************)
LEMMA RunGrows ==
    ASSUME NEW text \in Seq(Chars), NEW f, IsRun(f, text),
           NEW more \in Seq(Chars), NEW g, g[0] = f[Len(text)],
           \A n \in 1 .. Len(more) : g[n] = Scan(g[n - 1], more[n])
    PROVE  \E h : IsRun(h, text \o more) /\ h[Len(text \o more)] = g[Len(more)]
  <1>. DEFINE k == Len(text)
              m == Len(more)
              whole == text \o more
              h == [n \in 0 .. k + m |-> IF n <= k THEN f[n] ELSE g[n - k]]
  <1>1. /\ k \in Nat /\ m \in Nat /\ Len(whole) = k + m
        /\ \A n \in 1 .. k : whole[n] = text[n]
        /\ \A n \in 1 .. m : whole[k + n] = more[n]
    OBVIOUS
  <1>2. f[0] = Scanning /\ \A n \in 1 .. k : f[n] = Scan(f[n - 1], text[n])
    BY <1>1, RunSteps
  <1>. HIDE DEF whole, k, m
  <1>3. h[0] = Scanning
    BY <1>1, <1>2
  <1>4. ASSUME NEW n \in 1 .. k + m PROVE h[n] = Scan(h[n - 1], whole[n])
    <2>1. CASE n <= k
      <3>1. h[n] = f[n] /\ h[n - 1] = f[n - 1] /\ n \in 1 .. k
        BY <1>1, <2>1
      <3>. QED  BY <1>1, <1>2, <3>1
    <2>2. CASE n = k + 1
      <3>1. /\ h[n] = g[1] /\ h[n - 1] = f[k] /\ 1 \in 1 .. m /\ n = k + 1
        <4>1. n - 1 = k /\ k \in 0 .. k + m /\ k <= k /\ ~(n <= k) /\ n - k = 1 /\ n \in 0 .. k + m /\ 1 \in 1 .. m
          <5>1. k \in Nat /\ m \in Nat
            BY <1>1
          <5>. HIDE DEF h
          <5>. QED  BY <2>2, <5>1
        <4>. QED  BY <2>2, <4>1
      <3>2. whole[n] = more[1] /\ g[1] = Scan(g[1 - 1], more[1]) /\ 1 - 1 = 0
        BY <1>1, <3>1 DEF m
      <3>. QED  BY <3>1, <3>2 DEF k
    <2>3. CASE n > k + 1
      <3>1. /\ h[n] = g[n - k] /\ h[n - 1] = g[(n - k) - 1] /\ n - k \in 1 .. m /\ k + (n - k) = n
        BY <1>1, <2>3
      <3>2. whole[n] = more[n - k] /\ g[n - k] = Scan(g[(n - k) - 1], more[n - k])
        BY <1>1, <3>1 DEF m
      <3>. QED  BY <3>1, <3>2
    <2>. QED  BY <1>1, <2>1, <2>2, <2>3
  <1>5. \A n \in 0 .. k + m : h[n] = IF n = 0 THEN Scanning ELSE Scan(h[n - 1], whole[n])
    <2>1. TAKE n \in 0 .. k + m
    <2>2. n = 0 \/ n \in 1 .. k + m
      BY <1>1
    <2>. HIDE DEF h
    <2>. QED  BY <1>3, <1>4, <2>2
  <1>6. IsRun(h, whole)
    <2>1. DOMAIN h = 0 .. k + m /\ h = [n \in 0 .. k + m |-> h[n]]
      OBVIOUS
    <2>. HIDE DEF h
    <2>2. h = [n \in 0 .. k + m |-> IF n = 0 THEN Scanning ELSE Scan(h[n - 1], whole[n])]
      BY <1>5, <2>1
    <2>. QED  BY <1>1, <2>2 DEF IsRun
  <1>7. h[k + m] = g[m]
    BY <1>1 DEF k
  <1>. QED  BY <1>1, <1>6, <1>7 DEF whole, m

ScanRecords ==
    [tokens : Seq(Seq(Chars)), current : Seq(Chars), has_current : BOOLEAN, quote : Quotes \cup {Bare}]
At(tokens, current, has, quote) ==
    [tokens |-> tokens, current |-> current, has_current |-> has, quote |-> quote]

\* A scan that is at the end of these arguments: the last is a token, or will
\* be with the next blank.
Settled(s, a) ==
    /\ s \in ScanRecords /\ s.quote = Bare
    /\ IF s.has_current THEN Append(s.tokens, s.current) = a ELSE s.tokens = a /\ s.current = <<>>

(***************************************************************************)
(* tokens.push(take(current)), field by field.                             *)
(***************************************************************************)
LEMMA PushedAt ==
    ASSUME NEW s \in ScanRecords
    PROVE  Pushed(s) = At(Append(s.tokens, s.current), <<>>, FALSE, s.quote)
  <1>. DEFINE p == Pushed(s)
  <1>1. DOMAIN s = {"tokens", "current", "has_current", "quote"}
    BY DEF ScanRecords
  <1>2. p = [s EXCEPT !.tokens = Append(s.tokens, s.current), !.current = <<>>, !.has_current = FALSE]
    BY <1>1 DEF Pushed
  <1>. QED  BY <1>1, <1>2 DEF At

(***************************************************************************)
(* White space after an argument makes it a token; after white space it    *)
(* changes nothing.                                                        *)
(***************************************************************************)
LEMMA BlankSettles ==
    ASSUME NEW a \in Seq(Seq(Chars)), NEW s, Settled(s, a)
    PROVE  Scan(s, Blank) = At(a, <<>>, FALSE, Bare)
  <1>1. s \in ScanRecords /\ s.quote = Bare
    BY DEF Settled
  <1>2. CASE s.has_current
    <2>1. Scan(s, Blank) = Pushed(s)
      BY <1>1, <1>2 DEF Scan, Blank, Quotes
    <2>2. Append(s.tokens, s.current) = a
      BY <1>2 DEF Settled
    <2>3. Pushed(s) = At(a, <<>>, FALSE, Bare)
      <3>1. Pushed(s) = At(Append(s.tokens, s.current), <<>>, FALSE, s.quote)
        BY <1>1, PushedAt
      <3>. QED  BY <1>1, <2>2, <3>1
    <2>. QED  BY <2>1, <2>3
  <1>3. CASE ~s.has_current
    <2>1. Scan(s, Blank) = s
      BY <1>1, <1>3 DEF Scan, Blank, Quotes
    <2>2. s.tokens = a /\ s.current = <<>> /\ s.has_current = FALSE
      BY <1>1, <1>3 DEF Settled, ScanRecords
    <2>. QED  BY <1>1, <2>1, <2>2 DEF At, ScanRecords
  <1>. QED  BY <1>2, <1>3

First(x, j) == [i \in 1 .. j |-> x[i]]

(***************************************************************************)
(* The first characters of a text, one at a time.                          *)
(***************************************************************************)
LEMMA FirstGrows ==
    ASSUME NEW x \in Seq(Chars), NEW j \in 1 .. Len(x)
    PROVE  /\ First(x, j - 1) \in Seq(Chars)
           /\ Append(First(x, j - 1), x[j]) = First(x, j)
           /\ First(x, 0) = <<>> /\ First(x, Len(x)) = x
  <1>1. j - 1 \in Nat /\ j \in Nat /\ \A i \in 1 .. j : x[i] \in Chars
    OBVIOUS
  <1>2. First(x, j - 1) \in [1 .. j - 1 -> Chars]
    BY <1>1 DEF First
  <1>3. First(x, j - 1) \in Seq(Chars) /\ Len(First(x, j - 1)) = j - 1
    BY <1>1, <1>2
  <1>. DEFINE b == Append(First(x, j - 1), x[j])
  <1>4. b \in Seq(Chars) /\ Len(b) = j /\ b[j] = x[j] /\ \A i \in 1 .. j - 1 : b[i] = x[i]
    BY <1>1, <1>3 DEF First
  <1>. HIDE DEF b
  <1>5. b = [i \in 1 .. j |-> b[i]] /\ \A i \in 1 .. j : b[i] = x[i]
    BY <1>1, <1>4
  <1>6. b = First(x, j)
    BY <1>5 DEF First
  <1>7. First(x, 0) = <<>> /\ First(x, Len(x)) = x
    BY DEF First
  <1>. QED  BY <1>3, <1>6, <1>7 DEF b

(***************************************************************************)
(* A bare argument: every character of it is kept, and ends nothing.       *)
(***************************************************************************)
LEMMA BareScanned ==
    ASSUME NEW a \in Seq(Seq(Chars)), NEW x \in Seq(Chars), Writable(x, Bare),
           NEW g, g = [n \in 0 .. Len(x) |-> At(a, First(x, n), n > 0, Bare)]
    PROVE  /\ g[0] = At(a, <<>>, FALSE, Bare)
           /\ \A n \in 1 .. Len(x) : g[n] = Scan(g[n - 1], x[n])
           /\ g[Len(x)] = At(a, x, TRUE, Bare)
  <1>1. Len(x) \in Nat \ {0} /\ \A n \in 1 .. Len(x) : x[n] \notin Quotes \cup {Blank}
    BY DEF Writable
  <1>2. First(x, 0) = <<>> /\ First(x, Len(x)) = x
    BY <1>1, FirstGrows
  <1>3. g[0] = At(a, <<>>, FALSE, Bare) /\ g[Len(x)] = At(a, x, TRUE, Bare)
    <2>1. 0 \in 0 .. Len(x) /\ Len(x) \in 0 .. Len(x) /\ (0 > 0) = FALSE /\ (Len(x) > 0) = TRUE
      BY <1>1
    <2>2. g[0] = At(a, First(x, 0), 0 > 0, Bare) /\ g[Len(x)] = At(a, First(x, Len(x)), Len(x) > 0, Bare)
      BY <2>1
    <2>. QED  BY <1>2, <2>1, <2>2
  <1>4. ASSUME NEW n \in 1 .. Len(x) PROVE g[n] = Scan(g[n - 1], x[n])
    <2>. DEFINE s == g[n - 1]
                c == x[n]
    <2>1. n - 1 \in 0 .. Len(x) /\ n \in 0 .. Len(x) /\ n > 0
      BY <1>1
    <2>2. s = At(a, First(x, n - 1), n - 1 > 0, Bare) /\ g[n] = At(a, First(x, n), TRUE, Bare)
      BY <2>1
    <2>3. c # Blank /\ c \notin Quotes
      BY <1>1
    <2>. HIDE DEF s, c
    <2>4. Scan(s, c) = At(a, Append(First(x, n - 1), c), TRUE, Bare)
      <3>1. s.quote = Bare
        BY <2>2 DEF At
      <3>2. Scan(s, c) = [s EXCEPT !.current = Append(@, c), !.has_current = TRUE]
        BY <2>3, <3>1 DEF Scan
      <3>. QED  BY <2>2, <3>2 DEF At
    <2>. QED  BY <2>2, <2>4, FirstGrows DEF s, c
  <1>. QED  BY <1>3, <1>4

(***************************************************************************)
(* An argument in quotes: blanks and the other quote are characters of it, *)
(* and it is an argument even if it has none.                              *)
(***************************************************************************)
LEMMA QuotedScanned ==
    ASSUME NEW a \in Seq(Seq(Chars)), NEW x \in Seq(Chars), NEW q \in Quotes, Writable(x, q),
           NEW w, w = <<q>> \o x \o <<q>>
    PROVE  /\ w \in Seq(Chars)
           /\ \E g : /\ g[0] = At(a, <<>>, FALSE, Bare)
                     /\ \A n \in 1 .. Len(w) : g[n] = Scan(g[n - 1], w[n])
                     /\ g[Len(w)] = At(a, x, TRUE, Bare)
  <1>. DEFINE m == Len(x)
              g == [n \in 0 .. Len(x) + 2 |->
                          IF n = 0 THEN At(a, <<>>, FALSE, Bare)
                          ELSE IF n <= Len(x) + 1 THEN At(a, First(x, n - 1), TRUE, q)
                          ELSE At(a, x, TRUE, Bare)]
  <1>1. m \in Nat /\ \A n \in 1 .. m : x[n] \in Chars /\ x[n] # q
    BY DEF Writable, Quotes, Bare
  <1>2. q \in Chars /\ q # Bare /\ q # Blank
    BY DEF Chars, Quotes, Bare, Blank
  <1>3. /\ w \in Seq(Chars) /\ Len(w) = m + 2 /\ w[1] = q /\ w[m + 2] = q
        /\ \A n \in 2 .. m + 1 : w[n] = x[n - 1]
    <2>1. <<q>> \in Seq(Chars) /\ Len(<<q>>) = 1 /\ <<q>>[1] = q
      BY <1>2
    <2>. DEFINE y == <<q>> \o x
    <2>2. /\ y \in Seq(Chars) /\ Len(y) = m + 1 /\ y[1] = q
          /\ \A n \in 2 .. m + 1 : y[n] = x[n - 1]
      BY <1>1, <2>1
    <2>. HIDE DEF y
    <2>3. /\ y \o <<q>> \in Seq(Chars) /\ Len(y \o <<q>>) = m + 2
          /\ \A n \in 1 .. m + 1 : (y \o <<q>>)[n] = y[n]
          /\ (y \o <<q>>)[m + 2] = q
      BY <1>1, <2>1, <2>2
    <2>. QED  BY <1>1, <2>2, <2>3 DEF y
  <1>4. First(x, 0) = <<>>
    BY DEF First
  <1>5. First(x, m) = x
    BY DEF First
  <1>. HIDE DEF m
  <1>6. g[0] = At(a, <<>>, FALSE, Bare) /\ g[m + 2] = At(a, x, TRUE, Bare)
    <2>1. 0 \in 0 .. m + 2 /\ m + 2 \in 0 .. m + 2 /\ m + 2 # 0 /\ ~(m + 2 <= m + 1)
      BY <1>1
    <2>. QED  BY <2>1 DEF m
  <1>7. ASSUME NEW n \in 1 .. m + 2 PROVE g[n] = Scan(g[n - 1], w[n])
    <2>1. CASE n = 1
      <3>1. g[1] = At(a, <<>>, TRUE, q)
        <4>1. 1 \in 0 .. m + 2 /\ 1 # 0 /\ 1 <= m + 1 /\ 1 - 1 = 0
          BY <1>1
        <4>2. g[1] = At(a, First(x, 1 - 1), TRUE, q)
          BY <4>1 DEF m
        <4>. QED  BY <1>4, <4>1, <4>2
      <3>. DEFINE s == At(a, <<>>, FALSE, Bare)
      <3>2. Scan(s, q) = At(a, <<>>, TRUE, q)
        <4>1. Scan(s, q) = [s EXCEPT !.quote = q, !.has_current = TRUE]
          BY <1>2 DEF Scan, At
        <4>. QED  BY <4>1 DEF At
      <3>3. w[n] = q /\ g[n] = g[1] /\ g[n - 1] = g[0]
        <4>1. n - 1 = 0
          BY <2>1
        <4>. QED  BY <1>3, <2>1, <4>1
      <3>. QED  BY <1>6, <3>1, <3>2, <3>3
    <2>2. CASE n \in 2 .. m + 1
      <3>. DEFINE c == x[n - 1]
                  s == At(a, First(x, n - 2), TRUE, q)
      <3>1. /\ n \in 0 .. m + 2 /\ n # 0 /\ n <= m + 1 /\ n - 1 \in 1 .. m
            /\ n - 1 \in 0 .. m + 2 /\ n - 1 # 0 /\ n - 1 <= m + 1 /\ (n - 1) - 1 = n - 2
        BY <1>1, <2>2
      <3>2. g[n] = At(a, First(x, n - 1), TRUE, q) /\ g[n - 1] = s
        BY <3>1 DEF m
      <3>3. w[n] = c /\ c # q
        BY <1>1, <1>3, <2>2, <3>1
      <3>4. Append(First(x, n - 2), c) = First(x, n - 1)
        BY <3>1, FirstGrows DEF m
      <3>5. Scan(s, c) = At(a, Append(First(x, n - 2), c), TRUE, q)
        <4>. HIDE DEF c
        <4>1. Scan(s, c) = [s EXCEPT !.current = Append(@, c)]
          BY <1>2, <3>3 DEF Scan, At
        <4>. QED  BY <4>1 DEF At
      <3>. QED  BY <3>2, <3>3, <3>4, <3>5
    <2>3. CASE n = m + 2
      <3>. DEFINE s == At(a, x, TRUE, q)
      <3>1. /\ n - 1 \in 0 .. m + 2 /\ n - 1 # 0 /\ n - 1 <= m + 1 /\ (n - 1) - 1 = m
        BY <1>1, <2>3
      <3>2. g[n - 1] = s
        BY <1>5, <3>1 DEF m
      <3>3. Scan(s, q) = At(a, x, TRUE, Bare)
        <4>1. Scan(s, q) = [s EXCEPT !.quote = Bare]
          BY <1>2 DEF Scan, At
        <4>. QED  BY <4>1 DEF At
      <3>. QED  BY <1>3, <1>6, <2>3, <3>2, <3>3
    <2>4. n = 1 \/ n \in 2 .. m + 1 \/ n = m + 2
      BY <1>1
    <2>. QED  BY <2>1, <2>2, <2>3, <2>4
  <1>. HIDE DEF g
  <1>. QED  BY <1>3, <1>6, <1>7

(***************************************************************************)
(* However an argument is written, reading it leaves it as the current     *)
(* token, whatever came before it.                                         *)
(***************************************************************************)
LEMMA ArgumentScanned ==
    ASSUME NEW a \in Seq(Seq(Chars)), NEW x \in Seq(Chars),
           NEW s \in Quotes \cup {Bare}, Writable(x, s)
    PROVE  /\ Written(x, s) \in Seq(Chars)
           /\ \E g : /\ g[0] = At(a, <<>>, FALSE, Bare)
                     /\ \A n \in 1 .. Len(Written(x, s)) : g[n] = Scan(g[n - 1], Written(x, s)[n])
                     /\ g[Len(Written(x, s))] = At(a, x, TRUE, Bare)
  <1>1. CASE s = Bare
    <2>. DEFINE g == [n \in 0 .. Len(x) |-> At(a, First(x, n), n > 0, Bare)]
    <2>1. Written(x, s) = x
      BY <1>1 DEF Written
    <2>2. /\ g[0] = At(a, <<>>, FALSE, Bare)
          /\ \A n \in 1 .. Len(x) : g[n] = Scan(g[n - 1], x[n])
          /\ g[Len(x)] = At(a, x, TRUE, Bare)
      <3>. HIDE DEF g
      <3>. QED  BY <1>1, BareScanned DEF g
    <2>. HIDE DEF g
    <2>. QED  BY <2>1, <2>2
  <1>2. CASE s # Bare
    <2>1. Written(x, s) = <<s>> \o x \o <<s>> /\ s \in Quotes
      BY <1>2 DEF Written
    <2>. QED  BY <2>1, QuotedScanned
  <1>. QED  BY <1>1, <1>2

(***************************************************************************)
(* A current token that was noticed (has_current) is the last argument.    *)
(***************************************************************************)
LEMMA SettledHolds ==
    ASSUME NEW a \in Seq(Seq(Chars)), NEW x \in Seq(Chars)
    PROVE  Settled(At(a, x, TRUE, Bare), Append(a, x))
  BY DEF Settled, At, ScanRecords

(***************************************************************************)
(* A blank after a line whose arguments are a ends the last of them.       *)
(***************************************************************************)
LEMMA BlankScanned ==
    ASSUME NEW text \in Seq(Chars), NEW f, IsRun(f, text),
           NEW a \in Seq(Seq(Chars)), Settled(f[Len(text)], a)
    PROVE  \E h : /\ IsRun(h, text \o <<Blank>>)
                  /\ h[Len(text \o <<Blank>>)] = At(a, <<>>, FALSE, Bare)
  <1>. DEFINE g == [n \in 0 .. 1 |-> IF n = 0 THEN f[Len(text)] ELSE At(a, <<>>, FALSE, Bare)]
              more == <<Blank>>
  <1>1. more \in Seq(Chars) /\ Len(more) = 1 /\ more[1] = Blank
    BY DEF Chars
  <1>2. g[0] = f[Len(text)] /\ g[1] = At(a, <<>>, FALSE, Bare)
    OBVIOUS
  <1>. HIDE DEF g
  <1>3. \A n \in 1 .. Len(more) : g[n] = Scan(g[n - 1], more[n])
    <2>1. TAKE n \in 1 .. Len(more)
    <2>2. n = 1 /\ n - 1 = 0
      BY <1>1
    <2>3. Scan(f[Len(text)], Blank) = At(a, <<>>, FALSE, Bare)
      BY BlankSettles
    <2>. QED  BY <1>1, <1>2, <2>2, <2>3
  <1>4. \E h : IsRun(h, text \o more) /\ h[Len(text \o more)] = g[Len(more)]
    <2>. HIDE DEF more
    <2>1. more \in Seq(Chars) /\ g[0] = f[Len(text)]
      BY <1>1, <1>2
    <2>2. \A n \in 1 .. Len(more) : g[n] = Scan(g[n - 1], more[n])
      BY <1>3
    <2>. QED  BY <2>1, <2>2, RunGrows
  <1>. QED  BY <1>1, <1>2, <1>4 DEF more

(***************************************************************************)
(* At the end of a line, tokenize gives the arguments (Settled), or an     *)
(* error if a quote is open.                                               *)
(***************************************************************************)
LEMMA TokenizeEnds ==
    ASSUME NEW text \in Seq(Chars), NEW f, IsRun(f, text)
    PROVE  /\ \A a \in Seq(Seq(Chars)) : Settled(f[Len(text)], a) =>
                 Tokenize(text).ok /\ Tokenize(text).tokens = a
           /\ f[Len(text)].quote # Bare => ~Tokenize(text).ok
  <1>. DEFINE end == f[Len(text)]
  <1>1. ScanStates(text) = f
    BY RunIsScan
  <1>. HIDE DEF end
  <1>2. /\ Tokenize(text).ok = (end.quote = Bare)
        /\ Tokenize(text).tokens = IF end.has_current THEN Pushed(end).tokens ELSE end.tokens
    BY <1>1 DEF Tokenize, end
  <1>3. ASSUME NEW a \in Seq(Seq(Chars)), Settled(end, a)
        PROVE  Tokenize(text).ok /\ Tokenize(text).tokens = a
    <2>1. end \in ScanRecords /\ end.quote = Bare
      BY <1>3 DEF Settled
    <2>2. CASE end.has_current
      <3>1. Pushed(end).tokens = Append(end.tokens, end.current)
        BY <2>1, PushedAt DEF At
      <3>. QED  BY <1>2, <1>3, <2>1, <2>2, <3>1 DEF Settled
    <2>3. CASE ~end.has_current
      BY <1>2, <1>3, <2>1, <2>3 DEF Settled
    <2>. QED  BY <2>2, <2>3
  <1>. QED  BY <1>2, <1>3 DEF end

(***************************************************************************)
(* What build_command sends for the arguments a: one element for each, the *)
(* verb in upper case, and the n-th ? after it is the n-th parameter,      *)
(* which exists and is not null.                                           *)
(***************************************************************************)
LEMMA CommandSends ==
    ASSUME NEW a \in Seq(Seq(Chars)), NEW ps, BuildCommand(a, ps).kind = "sent",
           NEW sent, sent = BuildCommand(a, ps).sent
    PROVE  /\ Len(a) > 0 /\ Len(sent) = Len(a) /\ DOMAIN sent = 1 .. Len(a)
           /\ sent[1] = Literal(Uppercase(a[1]))
           /\ \A i \in 2 .. Len(a) : IF a[i] = Placeholder
                THEN /\ sent[i] = Bound(PlaceholdersUpTo(a, i))
                     /\ ~(PlaceholdersUpTo(a, i) > Len(ps)) /\ ps[PlaceholdersUpTo(a, i)] # "null"
                ELSE sent[i] = Literal(a[i])
  <1>. DEFINE e(i) == IF i = 1 THEN Literal(Uppercase(a[1]))
                      ELSE IF i > 1 /\ a[i] = Placeholder THEN Bound(PlaceholdersUpTo(a, i))
                      ELSE Literal(a[i])
              bad == a = <<>> \/ \E i \in DOMAIN a :
                        /\ i > 1 /\ a[i] = Placeholder
                        /\ PlaceholdersUpTo(a, i) > Len(ps) \/ ps[PlaceholdersUpTo(a, i)] = "null"
  <1>1. BuildCommand(a, ps) = IF bad THEN Error ELSE Sent([i \in DOMAIN a |-> e(i)])
    BY DEF BuildCommand
  <1>2. Error.kind # "sent"
    BY DEF Error
  <1>3. ~bad /\ BuildCommand(a, ps) = Sent([i \in DOMAIN a |-> e(i)])
    <2>. HIDE DEF bad, e
    <2>. QED  BY <1>1, <1>2
  <1>4. Len(a) \in Nat /\ DOMAIN a = 1 .. Len(a) /\ Len(a) > 0
    BY <1>3
  <1>5. sent = [i \in 1 .. Len(a) |-> e(i)]
    <2>. HIDE DEF e
    <2>. QED  BY <1>3, <1>4 DEF Sent
  <1>6. DOMAIN sent = 1 .. Len(a) /\ Len(sent) = Len(a)
    <2>. HIDE DEF e
    <2>1. sent \in [1 .. Len(a) -> {e(i) : i \in 1 .. Len(a)}]
      BY <1>5
    <2>. QED  BY <1>4, <2>1
  <1>7. sent[1] = Literal(Uppercase(a[1]))
    <2>1. 1 \in 1 .. Len(a)
      BY <1>4
    <2>. QED  BY <1>5, <2>1
  <1>8. ASSUME NEW i \in 2 .. Len(a)
        PROVE  IF a[i] = Placeholder
                THEN /\ sent[i] = Bound(PlaceholdersUpTo(a, i))
                     /\ ~(PlaceholdersUpTo(a, i) > Len(ps)) /\ ps[PlaceholdersUpTo(a, i)] # "null"
                ELSE sent[i] = Literal(a[i])
    <2>1. i \in 1 .. Len(a) /\ i # 1 /\ i > 1
      BY <1>4
    <2>2. sent[i] = IF a[i] = Placeholder THEN Bound(PlaceholdersUpTo(a, i)) ELSE Literal(a[i])
      BY <1>5, <2>1
    <2>. QED  BY <1>3, <1>4, <2>1, <2>2
  <1>. QED  BY <1>4, <1>6, <1>7, <1>8

\* The elements of a sent command, up to the i-th, that are parameters.
BoundUpTo(sent, i) == Cardinality({j \in 1 .. i : sent[j].parameter # 0})

(***************************************************************************)
(* A literal element of a command is no parameter.                         *)
(***************************************************************************)
LEMMA ElementParameter ==
    /\ \A n : Bound(n).parameter = n
    /\ \A x : Literal(x).parameter = 0
  BY DEF Bound, Literal

(***************************************************************************)
(* The parameters of such a command are counted from one, in order.        *)
(***************************************************************************)
LEMMA ParametersCounted ==
    ASSUME NEW a \in Seq(Seq(Chars)), NEW ps \in Seq({"null", "value"}),
           BuildCommand(a, ps).kind = "sent",
           NEW sent, sent = BuildCommand(a, ps).sent,
           NEW i \in 1 .. Len(a)
    PROVE  /\ i > 1 /\ a[i] = Placeholder => sent[i].parameter # 0
           /\ sent[i].parameter # 0 =>
                 /\ sent[i].parameter = BoundUpTo(sent, i)
                 /\ sent[i].parameter <= Len(ps) /\ ps[sent[i].parameter] # "null"
  <1>. DEFINE places(k) == {j \in 2 .. k : a[j] = Placeholder}
  <1>1. /\ Len(a) \in Nat /\ sent[1] = Literal(Uppercase(a[1]))
        /\ \A j \in 2 .. Len(a) : IF a[j] = Placeholder
                THEN /\ sent[j] = Bound(PlaceholdersUpTo(a, j))
                     /\ ~(PlaceholdersUpTo(a, j) > Len(ps)) /\ ps[PlaceholdersUpTo(a, j)] # "null"
                ELSE sent[j] = Literal(a[j])
    BY CommandSends
  <1>2. ASSUME NEW k \in 1 .. Len(a)
        PROVE  PlaceholdersUpTo(a, k) \in Nat /\ (PlaceholdersUpTo(a, k) = 0 <=> places(k) = {})
    <2>1. IsFiniteSet(2 .. k)
      BY FS_Interval
    <2>2. IsFiniteSet(places(k))
      BY <2>1, FS_Subset
    <2>3. PlaceholdersUpTo(a, k) = Cardinality(places(k))
      BY DEF PlaceholdersUpTo
    <2>. HIDE DEF places
    <2>. QED  BY <2>2, <2>3, FS_EmptySet, FS_CardinalityType
  <1>3. \A j \in 2 .. Len(a) : a[j] = Placeholder => PlaceholdersUpTo(a, j) # 0
    <2>1. TAKE j \in 2 .. Len(a)
    <2>2. HAVE a[j] = Placeholder
    <2>3. j \in places(j) /\ j \in 1 .. Len(a)
      BY <1>1, <2>2
    <2>. QED  BY <1>2, <2>3
  <1>4. sent[1].parameter = 0
    BY <1>1 DEF Literal
  <1>5. \A j \in 2 .. Len(a) : sent[j].parameter # 0 <=> a[j] = Placeholder
    <2>1. TAKE j \in 2 .. Len(a)
    <2>2. CASE a[j] = Placeholder
      BY <1>1, <1>3, <2>2, ElementParameter
    <2>3. CASE a[j] # Placeholder
      BY <1>1, <2>3, ElementParameter
    <2>. QED  BY <2>2, <2>3
  <1>6. ASSUME sent[i].parameter # 0
        PROVE  /\ sent[i].parameter = BoundUpTo(sent, i)
               /\ sent[i].parameter <= Len(ps) /\ ps[sent[i].parameter] # "null"
    <2>1. i \in 2 .. Len(a)
      BY <1>1, <1>4, <1>6
    <2>2. a[i] = Placeholder
      BY <1>5, <1>6, <2>1
    <2>3. sent[i].parameter = PlaceholdersUpTo(a, i)
      BY <1>1, <2>1, <2>2, ElementParameter
    <2>4. {j \in 1 .. i : sent[j].parameter # 0} = places(i)
      <3>1. \A j \in 1 .. i : j = 1 \/ (j \in 2 .. i /\ j \in 2 .. Len(a))
        BY <1>1, <2>1
      <3>2. \A j \in 2 .. i : j \in 1 .. i /\ j \in 2 .. Len(a)
        BY <1>1, <2>1
      <3>. QED  BY <1>4, <1>5, <3>1, <3>2
    <2>5. PlaceholdersUpTo(a, i) = Cardinality(places(i))
      BY DEF PlaceholdersUpTo
    <2>6. PlaceholdersUpTo(a, i) \in Nat /\ Len(ps) \in Nat
      BY <1>2
    <2>7. PlaceholdersUpTo(a, i) <= Len(ps)
      BY <1>1, <2>1, <2>2, <2>6
    <2>. HIDE DEF places
    <2>. QED  BY <1>1, <2>1, <2>2, <2>3, <2>4, <2>5, <2>7 DEF BoundUpTo
  <1>7. ASSUME i > 1, a[i] = Placeholder PROVE sent[i].parameter # 0
    <2>1. i \in 2 .. Len(a)
      BY <1>1, <1>7
    <2>. QED  BY <1>5, <1>7, <2>1
  <1>. QED  BY <1>6, <1>7

(***************************************************************************)
(* The inductive invariant: reading the line so far has settled on the     *)
(* arguments the client means, and what was sent was built from them.      *)
(***************************************************************************)
LineSettled == \E f : IsRun(f, line) /\ Settled(f[Len(line)], args)
BuiltFromArguments ==
    \/ outcome = Pending \/ outcome = Error
    \/ outcome = BuildCommand(args, params)
CommandInv ==
    /\ args \in Seq(Seq(Chars)) /\ line \in Seq(Chars)
    /\ params \in Seq({"null", "value"}) /\ read_only \in BOOLEAN
    /\ LineSettled /\ BuiltFromArguments

(***************************************************************************)
(* Nothing written is no argument.                                         *)
(***************************************************************************)
LEMMA CommandInvInit == CommandInit => CommandInv
  <1>. SUFFICES ASSUME CommandInit PROVE CommandInv
    OBVIOUS
  <1>. DEFINE f == [n \in 0 .. 0 |-> Scanning]
  <1>1. IsRun(f, <<>>)
    <2>1. Len(<<>>) = 0 /\ \A n \in 0 .. 0 : n = 0
      OBVIOUS
    <2>2. f = [n \in 0 .. 0 |-> IF n = 0 THEN Scanning ELSE Scan(f[n - 1], <<>>[n])]
      BY <2>1
    <2>. QED  BY <2>1, <2>2 DEF IsRun
  <1>2. f[Len(<<>>)] = Scanning
    OBVIOUS
  <1>3. Settled(Scanning, <<>>)
    BY DEF Settled, Scanning, ScanRecords
  <1>4. LineSettled
    <2>. HIDE DEF f
    <2>. QED  BY <1>1, <1>2, <1>3 DEF LineSettled, CommandInit
  <1>. QED  BY <1>4 DEF CommandInit, CommandInv, BuiltFromArguments

(***************************************************************************)
(* Argument texts, of any length, are texts.                               *)
(***************************************************************************)
LEMMA TextsAreSequences ==
    ASSUME NEW x \in ArgumentTexts
    PROVE  x \in Seq(Chars)
  <1>1. PICK n \in 0 .. MaxLen : x \in [1 .. n -> Chars]
    BY DEF ArgumentTexts
  <1>2. n \in Nat
    BY CommandAssumption
  <1>. QED  BY <1>1, <1>2

(***************************************************************************)
(* Another argument, after a blank: the line settles on the arguments and  *)
(* it.                                                                     *)
(***************************************************************************)
LEMMA WriteArgumentKeeps ==
    ASSUME CommandInv, NEW x \in ArgumentTexts, NEW s \in Quotes \cup {Bare}, WriteArgument(x, s)
    PROVE  CommandInv'
  <1>1. x \in Seq(Chars)
    BY TextsAreSequences
  <1>2. args \in Seq(Seq(Chars)) /\ line \in Seq(Chars) /\ Writable(x, s)
    BY DEF CommandInv, WriteArgument
  <1>3. PICK f : IsRun(f, line) /\ Settled(f[Len(line)], args)
    BY DEF CommandInv, LineSettled
  <1>. DEFINE text == line \o <<Blank>>
              w == Written(x, s)
  <1>4. PICK h : IsRun(h, text) /\ h[Len(text)] = At(args, <<>>, FALSE, Bare)
    BY <1>2, <1>3, BlankScanned
  <1>5. text \in Seq(Chars)
    BY <1>2 DEF Chars
  <1>6. w \in Seq(Chars)
    BY <1>1, <1>2, ArgumentScanned
  <1>7. PICK g : /\ g[0] = At(args, <<>>, FALSE, Bare)
                 /\ \A n \in 1 .. Len(w) : g[n] = Scan(g[n - 1], w[n])
                 /\ g[Len(w)] = At(args, x, TRUE, Bare)
    BY <1>1, <1>2, ArgumentScanned
  <1>. HIDE DEF text, w
  <1>8. PICK k : IsRun(k, text \o w) /\ k[Len(text \o w)] = g[Len(w)]
    <2>1. g[0] = h[Len(text)]
      BY <1>4, <1>7
    <2>2. IsRun(h, text) /\ \A n \in 1 .. Len(w) : g[n] = Scan(g[n - 1], w[n])
      BY <1>4, <1>7
    <2>. QED  BY <1>5, <1>6, <2>1, <2>2, RunGrows
  <1>9. Settled(k[Len(text \o w)], Append(args, x))
    BY <1>1, <1>2, <1>7, <1>8, SettledHolds
  <1>10. line' = text \o w /\ args' = Append(args, x)
    BY DEF WriteArgument, text, w
  <1>11. LineSettled'
    BY <1>8, <1>9, <1>10 DEF LineSettled
  <1>12. line' \in Seq(Chars) /\ args' \in Seq(Seq(Chars))
    BY <1>1, <1>2, <1>5, <1>6, <1>10
  <1>. QED
    BY <1>11, <1>12 DEF CommandInv, WriteArgument, BuiltFromArguments

(***************************************************************************)
(* On a settled line tokenize succeeds with the arguments the client       *)
(* means.                                                                  *)
(***************************************************************************)
LEMMA LineIsRead ==
    ASSUME CommandInv
    PROVE  Tokenize(line).ok /\ Tokenize(line).tokens = args
  <1>1. args \in Seq(Seq(Chars)) /\ line \in Seq(Chars)
    BY DEF CommandInv
  <1>2. PICK f : IsRun(f, line) /\ Settled(f[Len(line)], args)
    BY DEF CommandInv, LineSettled
  <1>. QED  BY <1>1, <1>2, TokenizeEnds

\* A quote that is opened after the last argument, and not closed, is an error.
LEMMA OpenQuoteRefused ==
    ASSUME CommandInv, NEW q \in Quotes
    PROVE  ~Tokenize(line \o <<Blank, q>>).ok
  <1>1. args \in Seq(Seq(Chars)) /\ line \in Seq(Chars)
    BY DEF CommandInv
  <1>2. PICK f : IsRun(f, line) /\ Settled(f[Len(line)], args)
    BY DEF CommandInv, LineSettled
  <1>. DEFINE more == <<Blank, q>>
              mid == At(args, <<>>, FALSE, Bare)
              end == At(args, <<>>, TRUE, q)
              g == [n \in 0 .. 2 |-> IF n = 0 THEN f[Len(line)] ELSE IF n = 1 THEN mid ELSE end]
  <1>3. q # Bare /\ q # Blank
    BY DEF Quotes, Bare, Blank
  <1>4. more \in Seq(Chars) /\ Len(more) = 2 /\ more[1] = Blank /\ more[2] = q
    BY DEF Chars
  <1>5. Scan(f[Len(line)], Blank) = mid
    BY <1>1, <1>2, BlankSettles
  <1>6. Scan(mid, q) = end
    <2>1. Scan(mid, q) = [mid EXCEPT !.quote = q, !.has_current = TRUE]
      BY <1>3 DEF Scan, At
    <2>. QED  BY <2>1 DEF At
  <1>7. end.quote = q
    BY DEF At
  <1>. HIDE DEF mid, end
  <1>8. g[0] = f[Len(line)] /\ g[1] = mid /\ g[2] = end
    OBVIOUS
  <1>. HIDE DEF g
  <1>9. \A n \in 1 .. 2 : g[n] = Scan(g[n - 1], more[n])
    <2>1. TAKE n \in 1 .. 2
    <2>2. (n = 1 /\ n - 1 = 0) \/ (n = 2 /\ n - 1 = 1)
      OBVIOUS
    <2>. HIDE DEF more
    <2>. QED  BY <1>4, <1>5, <1>6, <1>8, <2>2
  <1>. HIDE DEF more
  <1>10. PICK h : IsRun(h, line \o more) /\ h[Len(line \o more)] = g[Len(more)]
    <2>1. \A n \in 1 .. Len(more) : g[n] = Scan(g[n - 1], more[n])
      BY <1>4, <1>9
    <2>2. IsRun(f, line) /\ line \in Seq(Chars) /\ more \in Seq(Chars) /\ g[0] = f[Len(line)]
      BY <1>1, <1>2, <1>4, <1>8
    <2>. QED  BY <2>1, <2>2, RunGrows
  <1>11. h[Len(line \o more)].quote # Bare
    BY <1>3, <1>4, <1>7, <1>8, <1>10
  <1>12. line \o more \in Seq(Chars)
    BY <1>1, <1>4
  <1>. QED  BY <1>10, <1>11, <1>12, TokenizeEnds DEF more

(***************************************************************************)
(* Every step keeps the invariant; only a line that tokenize accepts is    *)
(* built into a command.                                                   *)
(***************************************************************************)
LEMMA CommandInvStep == CommandInv /\ [CommandNext]_cmdVars => CommandInv'
  <1>. SUFFICES ASSUME CommandInv, [CommandNext]_cmdVars PROVE CommandInv'
    OBVIOUS
  <1>1. ASSUME NEW x \in ArgumentTexts, NEW s \in Quotes \cup {Bare}, WriteArgument(x, s)
        PROVE  CommandInv'
    BY <1>1, WriteArgumentKeeps
  <1>2. ASSUME NEW p \in {"null", "value"}, AddParameter(p)
        PROVE  CommandInv'
    <2>1. params' \in Seq({"null", "value"})
      BY <1>2 DEF CommandInv, AddParameter
    <2>. QED
      BY <1>2, <2>1 DEF CommandInv, AddParameter, LineSettled, BuiltFromArguments
  <1>3. CASE Execute
    <2>1. Outcome(line) \in {Error, BuildCommand(args, params)}
      BY LineIsRead DEF Outcome, ExecuteParameterized
    <2>2. BuiltFromArguments'
      BY <1>3, <2>1 DEF Execute, BuiltFromArguments
    <2>. QED
      BY <1>3, <2>2 DEF CommandInv, Execute, LineSettled
  <1>4. ASSUME NEW q \in Quotes, ExecuteUnterminated(q)
        PROVE  CommandInv'
    <2>1. Outcome(line \o <<Blank, q>>) = Error
      BY OpenQuoteRefused DEF Outcome, ExecuteParameterized
    <2>. QED
      BY <1>4, <2>1 DEF CommandInv, ExecuteUnterminated, LineSettled, BuiltFromArguments
  <1>5. CASE UNCHANGED cmdVars
    BY <1>5 DEF cmdVars, CommandInv, LineSettled, BuiltFromArguments
  <1>. QED
    BY <1>1, <1>2, <1>3, <1>4, <1>5 DEF CommandNext

(***************************************************************************)
(* A command that was sent came out of build_command.                      *)
(***************************************************************************)
LEMMA SentIsBuilt ==
    ASSUME CommandInv, outcome.kind = "sent"
    PROVE  outcome = BuildCommand(args, params)
  BY DEF CommandInv, BuiltFromArguments, Pending, Error

(***************************************************************************)
(* tokenize gives back every argument list a client can write, bare or in  *)
(* either quote, and build_command sends exactly those arguments, with the *)
(* parameters in order in place of the ? tokens unless one is in quotes.   *)
(***************************************************************************)
THEOREM CommandsAsWritten == CommandSpec => []CommandSentAsWritten
  <1>1. ASSUME CommandInv PROVE CommandSentAsWritten
    <2>1. TokensAreArguments
      BY <1>1, LineIsRead DEF TokensAreArguments
    <2>2. ASSUME outcome.kind = "sent"
          PROVE  /\ Len(outcome.sent) = Len(args)
                 /\ \A i \in 2 .. Len(args) :
                       IF args[i] = Placeholder THEN outcome.sent[i].parameter # 0
                       ELSE outcome.sent[i] = Literal(args[i])
                 /\ \A i \in DOMAIN outcome.sent :
                       LET n == outcome.sent[i].parameter
                       IN  n # 0 => /\ n = Cardinality({j \in 1 .. i : outcome.sent[j].parameter # 0})
                                    /\ n <= Len(params) /\ params[n] # "null"
      <3>1. outcome = BuildCommand(args, params)
        BY <1>1, <2>2, SentIsBuilt
      <3>2. args \in Seq(Seq(Chars)) /\ params \in Seq({"null", "value"})
        BY <1>1 DEF CommandInv
      <3>. DEFINE sent == outcome.sent
      <3>3. BuildCommand(args, params).kind = "sent" /\ sent = BuildCommand(args, params).sent
        BY <2>2, <3>1
      <3>. HIDE DEF sent
      <3>4. /\ Len(sent) = Len(args) /\ DOMAIN sent = 1 .. Len(args)
            /\ \A i \in 2 .. Len(args) : args[i] # Placeholder => sent[i] = Literal(args[i])
        BY <3>2, <3>3, CommandSends
      <3>5. \A i \in 1 .. Len(args) :
               /\ i > 1 /\ args[i] = Placeholder => sent[i].parameter # 0
               /\ sent[i].parameter # 0 =>
                     /\ sent[i].parameter = BoundUpTo(sent, i)
                     /\ sent[i].parameter <= Len(params) /\ params[sent[i].parameter] # "null"
        <4>1. TAKE i \in 1 .. Len(args)
        <4>. QED  BY <3>2, <3>3, ParametersCounted
      <3>6. \A i \in 2 .. Len(args) : i \in 1 .. Len(args) /\ i > 1
        BY <3>2
      <3>7. \A i \in 2 .. Len(args) :
               IF args[i] = Placeholder THEN sent[i].parameter # 0 ELSE sent[i] = Literal(args[i])
        BY <3>4, <3>5, <3>6
      <3>8. ASSUME NEW i \in DOMAIN sent, sent[i].parameter # 0
            PROVE  /\ sent[i].parameter = Cardinality({j \in 1 .. i : sent[j].parameter # 0})
                   /\ sent[i].parameter <= Len(params) /\ params[sent[i].parameter] # "null"
        BY <3>4, <3>5, <3>8 DEF BoundUpTo
      <3>. QED  BY <3>4, <3>7, <3>8 DEF sent
    <2>3. ParametersBoundInOrder
      BY <2>2 DEF ParametersBoundInOrder
    <2>. QED  BY <2>1, <2>3 DEF CommandSentAsWritten
  <1>. QED  BY <1>1, CommandInvInit, CommandInvStep, PTL DEF CommandSpec

-----------------------------------------------------------------------------
(* connections: the tools and the TLS mode they open a link with *)

\* The mode a connection is opened with, for the ssl_mode the client wrote.
Stands(ssl, mode) ==
    /\ ssl \in Modes \cup {None}
    /\ mode = ssl \/ (ssl = None /\ mode = "verify_identity")

\* What is stored, and what a connect resolved, is what the client wrote.
ProfileAsWritten ==
    profile # None =>
        /\ profile.type \in TypeTexts
        /\ Stands(written.ssl, profile.mode) /\ profile.read_only = written.read_only

CallAsAsked ==
    call # None =>
        /\ call.type \in TypeTexts /\ call.ca_path \in CaPaths
        /\ Stands(call.asked.ssl, call.mode) /\ call.read_only = call.asked.read_only

ToolInv == ProfileAsWritten /\ CallAsAsked /\ SessionAsAsked

(***************************************************************************)
(* A link that a driver opens under a mode meets what the mode promises,   *)
(* whatever server answers.                                                *)
(***************************************************************************)
LEMMA DriverKeepsMode ==
    ASSUME NEW driver \in Drivers, NEW ssl, NEW mode, Stands(ssl, mode), NEW ca_path \in CaPaths,
           NEW server \in Servers, NEW s, s.driver = driver, s.server = server, s.ca_path = ca_path,
           s.asked.ssl = ssl, NEW link, link = Dial(driver, mode, ca_path, server), link # "refused"
    PROVE  Promised(s, link)
  <1>. USE NoneAssumption DEF Stands, Modes, CaPaths, Promised, SkipsSignature, IgnoresCaPath
  <1>1. CASE driver = "PostgreSQL"
    <2>1. link = ConnectWithConfig(mode, ca_path, server)
      BY <1>1 DEF Dial
    <2>2. CASE mode = "disabled"
      BY <2>1, <2>2 DEF ConnectWithConfig, Negotiate, ResolveSslMode
    <2>3. CASE mode \in {"preferred", "required"}
      BY <2>1, <2>3 DEF ConnectWithConfig, Negotiate, ResolveSslMode, ConnectorBuilt,
                        BuildConnector, AcceptAnyCertificate
    <2>4. CASE mode = "verify_ca"
      BY <1>1, <2>1, <2>4 DEF ConnectWithConfig, Negotiate, ResolveSslMode, ConnectorBuilt,
                        BuildConnector, ChainOnlyVerifier, LoadTrustAnchors, Anchors
    <2>5. CASE mode \in {"verify_identity", None}
      BY <1>1, <2>1, <2>5 DEF ConnectWithConfig, Negotiate, ResolveSslMode, ConnectorBuilt,
                        BuildConnector, WebPkiVerifier, RootStoreForVerifyIdentity, Anchors, Native
    <2>. QED  BY <2>2, <2>3, <2>4, <2>5
  <1>2. CASE driver = "ClickHouse"
    <2>1. link = SendHttp(mode, ca_path, server)
      BY <1>2 DEF Dial
    <2>2. CASE mode = "disabled"
      BY <2>1, <2>2 DEF SendHttp, ResolveScheme
    <2>3. CASE mode # "disabled"
      BY <1>2, <2>1, <2>3 DEF SendHttp, ResolveScheme, BuildHttpClient, WebPkiVerifier, Anchors, Native
    <2>. QED  BY <2>2, <2>3
  <1>3. CASE driver = "Redis"
    <2>1. link = BuildClient(mode, ca_path, server)
      BY <1>3 DEF Dial
    <2>2. CASE mode \in {"disabled", "preferred", "required"}
      BY <1>3, <2>1, <2>2 DEF BuildClient, BuildConnectionInfo
    <2>3. CASE mode \in {"verify_ca", "verify_identity", None}
      BY <1>3, <2>1, <2>3 DEF BuildClient, BuildConnectionInfo, WebPkiVerifier, RootCertPem, Anchors, Native
    <2>. QED  BY <2>2, <2>3
  <1>. QED  BY <1>1, <1>2, <1>3 DEF Drivers

(***************************************************************************)
(* A cancel request gets a link of its own under disabled and preferred    *)
(* only.                                                                   *)
(***************************************************************************)
LEMMA CancelKeepsMode ==
    ASSUME NEW driver \in Drivers, NEW ssl, NEW mode, Stands(ssl, mode), NEW server \in Servers,
           NEW s, s.asked.ssl = ssl, ssl # "preferred",
           NEW link, link = DialCancel(driver, mode, server), link # "refused"
    PROVE  Promised(s, link)
  BY NoneAssumption DEF Stands, Modes, DialCancel, CancelQuery, ResolveSslMode, Promised

(***************************************************************************)
(* An answer without any other effect.                                     *)
(***************************************************************************)
LEMMA AnswerKeeps ==
    ASSUME ToolInv, NEW r, Answer(r)
    PROVE  ToolInv'
  BY DEF Answer, ToolInv, ProfileAsWritten, CallAsAsked, SessionAsAsked, Promised, IgnoresCaPath, SkipsSignature

(***************************************************************************)
(* A profile that exists from an earlier run is what its client wrote.     *)
(***************************************************************************)
LEMMA ToolInvInit ==
    ASSUME ToolInit
    PROVE  ToolInv
  <1>1. ProfileAsWritten
    BY DEF ToolInit, ProfileAsWritten, Stands, TypeTexts
  <1>. QED  BY <1>1 DEF ToolInit, ToolInv, CallAsAsked, SessionAsAsked

(***************************************************************************)
(* Every tool call keeps the invariant: connect and the profile tools in   *)
(* both of their steps, the others as answers.                             *)
(***************************************************************************)
LEMMA ToolInvStep ==
    ASSUME ToolInv, [ToolNext]_toolVars
    PROVE  ToolInv'
  <1>. USE NoneAssumption, ToolsAssumption DEF ToolInv
  <1>1. ASSUME NEW name, NEW given, NEW ssl, NEW ro, ConnectByProfile(name, given, ssl, ro) PROVE ToolInv'
    <2>1. CASE \E r : Answer(r)
      BY <2>1, AnswerKeeps
    <2>2. CASE /\ profile # None
               /\ call' = [type |-> profile.type, mode |-> profile.mode,
                           read_only |-> profile.read_only, ca_path |-> None, asked |-> written]
               /\ UNCHANGED <<profile, written, session, tool_reply>>
      <3>1. CallAsAsked'
        BY <2>2 DEF ProfileAsWritten, CallAsAsked, CaPaths
      <3>. QED  BY <2>2, <3>1 DEF ProfileAsWritten, SessionAsAsked, Promised, IgnoresCaPath, SkipsSignature
    <2>. QED  BY <1>1, <2>1, <2>2 DEF ConnectByProfile
  <1>2. ASSUME NEW given, NEW type \in TypeTexts, NEW ssl \in SslTexts, NEW ro, ConnectAdHoc(given, type, ssl, ro)
        PROVE  ToolInv'
    <2>1. CASE \E r : Answer(r)
      BY <2>1, AnswerKeeps
    <2>2. CASE /\ ParseSslMode(ssl) # "bogus"
               /\ call' = [type |-> type, mode |-> ParseSslMode(ssl), read_only |-> ro = TRUE,
                           ca_path |-> None, asked |-> [ssl |-> ssl, read_only |-> ro = TRUE]]
               /\ UNCHANGED <<profile, written, session, tool_reply>>
      <3>1. Stands(ssl, ParseSslMode(ssl))
        BY <2>2 DEF Stands, ParseSslMode, SslTexts
      <3>2. CallAsAsked'
        BY <2>2, <3>1 DEF CallAsAsked, CaPaths
      <3>. QED  BY <2>2, <3>2 DEF ProfileAsWritten, SessionAsAsked, Promised, IgnoresCaPath, SkipsSignature
    <2>. QED  BY <1>2, <2>1, <2>2 DEF ConnectAdHoc
  <1>3. ASSUME NEW type \in Drivers, NEW mode \in Modes \cup {None}, NEW ca_path \in CaPaths,
               ConnectEmbedded(type, mode, ca_path)
        PROVE  ToolInv'
    <2>1. CallAsAsked'
      BY <1>3 DEF ConnectEmbedded, CallAsAsked, Stands, TypeTexts
    <2>. QED  BY <1>3, <2>1 DEF ConnectEmbedded, ProfileAsWritten, SessionAsAsked, Promised, IgnoresCaPath, SkipsSignature
  <1>4. ASSUME NEW server \in Servers, ManagerConnect(server) PROVE ToolInv'
    <2>1. call # None /\ call' = None /\ UNCHANGED <<profile, written>>
      BY <1>4 DEF ManagerConnect
    <2>2. CASE UNCHANGED session
      BY <2>1, <2>2 DEF ProfileAsWritten, CallAsAsked, SessionAsAsked, Promised, IgnoresCaPath, SkipsSignature
    <2>3. CASE /\ call.type # "unknown"
               /\ session' = [driver |-> call.type, server |-> server, asked |-> call.asked,
                              ca_path |-> call.ca_path, read_only |-> call.read_only,
                              link |-> Dial(call.type, call.mode, call.ca_path, server),
                              cancel |-> DialCancel(call.type, call.mode, server)]
               /\ Dial(call.type, call.mode, call.ca_path, server) # "refused"
      <3>1. /\ call.type \in Drivers /\ call.ca_path \in CaPaths
            /\ Stands(call.asked.ssl, call.mode) /\ call.read_only = call.asked.read_only
        BY <2>1, <2>3 DEF CallAsAsked, TypeTexts
      <3>. DEFINE s == session'
      <3>2. /\ s.driver = call.type /\ s.server = server /\ s.asked = call.asked
            /\ s.ca_path = call.ca_path /\ s.read_only = call.read_only
            /\ s.link = Dial(call.type, call.mode, call.ca_path, server) /\ s.link # "refused"
            /\ s.cancel = DialCancel(call.type, call.mode, server)
        BY <2>3
      <3>. HIDE DEF s
      <3>3. Promised(s, s.link)
        BY <3>1, <3>2, DriverKeepsMode
      <3>4. s.cancel # "refused" /\ s.asked.ssl # "preferred" => Promised(s, s.cancel)
        BY <3>1, <3>2, CancelKeepsMode
      <3>5. SessionAsAsked'
        BY <3>1, <3>2, <3>3, <3>4 DEF s, SessionAsAsked, Promised, IgnoresCaPath, SkipsSignature
      <3>. QED  BY <2>1, <3>5 DEF ProfileAsWritten, CallAsAsked
    <2>. QED  BY <1>4, <2>2, <2>3 DEF ManagerConnect
  <1>5. ASSUME NEW name, NEW given, NEW type \in TypeTexts, NEW ssl \in SslTexts,
               NEW ro \in BOOLEAN \cup {None}, SaveConnectionProfile(name, given, type, ssl, ro)
        PROVE  ToolInv'
    <2>1. CASE \E r : Answer(r)
      BY <2>1, AnswerKeeps
    <2>2. CASE /\ ParseSslMode(ssl) # "bogus"
               /\ profile' = [type |-> type, mode |-> ParseSslMode(ssl),
                              read_only |-> IF ro = None THEN profile # None /\ profile.read_only ELSE ro]
               /\ written' = [ssl |-> ssl,
                              read_only |-> IF ro # None THEN ro ELSE profile # None /\ written.read_only]
               /\ UNCHANGED <<session, call>>
      <3>1. Stands(ssl, ParseSslMode(ssl))
        BY <2>2 DEF Stands, ParseSslMode, SslTexts
      <3>2. (profile # None /\ profile.read_only) = (profile # None /\ written.read_only)
        BY DEF ProfileAsWritten
      <3>3. ProfileAsWritten'
        BY <2>2, <3>1, <3>2 DEF ProfileAsWritten
      <3>. QED  BY <2>2, <3>3 DEF CallAsAsked, SessionAsAsked, Promised, IgnoresCaPath, SkipsSignature
    <2>. QED  BY <1>5, <2>1, <2>2 DEF SaveConnectionProfile
  <1>6. ASSUME NEW name, DeleteConnectionProfile(name) PROVE ToolInv'
    <2>1. CASE \E r : Answer(r)
      BY <2>1, AnswerKeeps
    <2>2. CASE profile' = None /\ UNCHANGED <<written, session, call>>
      BY <2>2 DEF ProfileAsWritten, CallAsAsked, SessionAsAsked, Promised, IgnoresCaPath, SkipsSignature
    <2>. QED  BY <1>6, <2>1, <2>2 DEF DeleteConnectionProfile
  <1>7. ASSUME NEW id, Disconnect(id) PROVE ToolInv'
    <2>1. CASE \E r : Answer(r)
      BY <2>1, AnswerKeeps
    <2>2. CASE session' \in {None, session} /\ UNCHANGED <<profile, written, call>>
      BY <2>2 DEF ProfileAsWritten, CallAsAsked, SessionAsAsked, Promised, IgnoresCaPath, SkipsSignature
    <2>. QED  BY <1>7, <2>1, <2>2 DEF Disconnect
  <1>8. ASSUME NEW id, \/ ListTables(id) \/ DescribeTable(id) \/ ListDatabases(id) \/ ListSchemas(id)
                       \/ ExecuteQuery(id) \/ GetConnectionStatus(id)
        PROVE  ToolInv'
    <2>1. \E r : Answer(r)
      BY <1>8 DEF ListTables, DescribeTable, ListDatabases, ListSchemas, ExecuteQuery,
                  GetConnectionStatus, OnDriver, DriverCall
    <2>. QED  BY <2>1, AnswerKeeps
  <1>9. CASE ListConnectionProfiles \/ ListConnections
    BY <1>9, AnswerKeeps DEF ListConnectionProfiles, ListConnections
  <1>10. CASE UNCHANGED toolVars
    BY <1>10 DEF toolVars, ProfileAsWritten, CallAsAsked, SessionAsAsked, Promised, IgnoresCaPath, SkipsSignature
  <1>. QED
    BY <1>1, <1>2, <1>3, <1>4, <1>5, <1>6, <1>7, <1>8, <1>9, <1>10 DEF ToolNext

(***************************************************************************)
(* A connection is never weaker than the client asked, after any sequence  *)
(* of tool calls: saved, updated and deleted profiles, connects with and   *)
(* without one, and every server that may answer.                          *)
(***************************************************************************)
THEOREM ToolSessionAsAsked == ToolSpec => []SessionAsAsked
  <1>1. ToolSpec => []ToolInv
    BY ToolInvInit, ToolInvStep, PTL DEF ToolSpec
  <1>. QED
    BY <1>1, PTL DEF ToolInv

-----------------------------------------------------------------------------
(* connections: export_query_jsonl *)

(***************************************************************************)
(* No name of the other built-in types is a boolean's, a float's or an     *)
(* integer's: interval, int4range and int2vector stop at the suffix guard, *)
(* decimal at the test that comes before.                                  *)
(***************************************************************************)
LEMMA OthersAreStrings ==
    ASSUME NEW type, UnwrapWrappers(type) \in Others
    PROVE  Classify(type) = "string"
  <1>. DEFINE t == UnwrapWrappers(type)
  <1>0. /\ t \in Others
        /\ Classify(type) = IF t \in {<<"bool">>, <<"boolean">>} THEN "boolean"
                            ELSE IF \E i \in DOMAIN t : t[i] \in {"decimal", "numeric"} THEN "string"
                            ELSE IF IsFloat(t) THEN "float"
                            ELSE IF IsInteger(t) THEN "integer" ELSE "string"
    BY DEF Classify
  <1>. HIDE DEF t
  <1>1. t \notin {<<"bool">>, <<"boolean">>}
    BY <1>0 DEF Others
  <1>2. CASE t = <<"numeric">> \/ t = <<"decimal", "_38_20">>
    <2>1. 1 \in DOMAIN t /\ t[1] \in {"decimal", "numeric"}
      BY <1>2
    <2>. QED  BY <1>0, <1>1, <2>1
  <1>3. CASE ~(t = <<"numeric">> \/ t = <<"decimal", "_38_20">>)
    <2>1. \/ t = <<"text">> \/ t = <<"int", "erval">> \/ t = <<"int", "ervalday">>
          \/ t = <<"int", "2", "vector">> \/ t = <<"int", "4", "range">> \/ t = <<"_int4">>
          \/ t = <<"array(", "float", "64", ")">> \/ t = <<"bfloat16">>
      BY <1>0, <1>3 DEF Others
    <2>2. ~IsFloat(t)
      BY <2>1 DEF IsFloat
    <2>3. t \notin IntegerNames
      BY <2>1 DEF IntegerNames
    <2>4. Len(t) > 1 /\ t[1] \in {"int", "uint"} => \E i \in 2 .. Len(t) : t[i] \notin Digits
      <3>1. CASE t = <<"int", "erval">> \/ t = <<"int", "ervalday">>
        <4>1. 2 \in 2 .. Len(t) /\ t[2] \notin Digits
          BY <3>1 DEF Digits
        <4>. QED  BY <4>1
      <3>2. CASE t = <<"int", "2", "vector">> \/ t = <<"int", "4", "range">>
        <4>1. 3 \in 2 .. Len(t) /\ t[3] \notin Digits
          BY <3>2 DEF Digits
        <4>. QED  BY <4>1
      <3>3. CASE \/ t = <<"text">> \/ t = <<"_int4">> \/ t = <<"array(", "float", "64", ")">>
                 \/ t = <<"bfloat16">>
        BY <3>3
      <3>. QED  BY <2>1, <3>1, <3>2, <3>3
    <2>5. ~IsInteger(t)
      BY <2>3, <2>4 DEF IsInteger
    <2>. QED  BY <1>0, <1>1, <2>2, <2>5
  <1>. QED  BY <1>2, <1>3

(***************************************************************************)
(* The class that classify gives a built-in type is the one it has.        *)
(***************************************************************************)
LEMMA ClassFitsType ==
    ASSUME NEW type, AsServersWrite(type)
    PROVE  /\ Classify(type.name) = "boolean" => UnwrapWrappers(type.name) \in Booleans
           /\ Classify(type.name) = "integer" => UnwrapWrappers(type.name) \in Integral
           /\ Classify(type.name) = "float" => UnwrapWrappers(type.name) \in Floating
  <1>. DEFINE t == UnwrapWrappers(type.name)
  <1>1. t \in Booleans \cup Integral \cup Floating \cup Others
    BY DEF AsServersWrite
  <1>2. CASE t \in Others
    BY <1>2, OthersAreStrings
  <1>3. CASE t \in Booleans
    <2>1. t \in {<<"bool">>, <<"boolean">>}
      BY <1>3 DEF Booleans
    <2>2. Classify(type.name) = "boolean"
      BY <2>1 DEF Classify
    <2>. QED  BY <1>3, <2>2
  <1>4. CASE t \in Integral
    <2>1. /\ Classify(type.name) = "boolean" => t \in {<<"bool">>, <<"boolean">>}
          /\ Classify(type.name) = "float" => IsFloat(t)
      BY DEF Classify
    <2>. HIDE DEF t
    <2>2. t \notin {<<"bool">>, <<"boolean">>} /\ ~IsFloat(t)
      BY <1>4 DEF Integral, IsFloat
    <2>. QED  BY <1>4, <2>1, <2>2 DEF t
  <1>5. CASE t \in Floating
    <2>1. /\ Classify(type.name) = "boolean" => t \in {<<"bool">>, <<"boolean">>}
          /\ Classify(type.name) = "integer" => IsInteger(t)
      BY DEF Classify
    <2>. HIDE DEF t
    <2>2. t \notin {<<"bool">>, <<"boolean">>} /\ ~IsInteger(t)
      BY <1>5 DEF Floating, IsInteger, IntegerNames
    <2>. QED  BY <1>5, <2>1, <2>2 DEF t
  <1>. QED  BY <1>1, <1>2, <1>3, <1>4, <1>5

(***************************************************************************)
(* cell_to_json of a cell a column may hold means what the server means,   *)
(* unless it is text of a user's type that is named like a built-in one.   *)
(***************************************************************************)
LEMMA CellMeans ==
    ASSUME NEW columns \in Columns, NEW i \in DOMAIN columns, NEW cell \in CellsOf(columns[i]),
           ~(NamedLikeBuiltIn(columns[i].type) /\ cell.cell = "text")
    PROVE  Means(CellToJson(cell, columns[i].type.name), cell)
  <1>. DEFINE type == columns[i].type
              json == CellToJson(cell, type.name)
  <1>1. \/ cell = [cell |-> "null"]
        \/ cell = [cell |-> "bytes", bytes |-> "b"]
        \/ \E s \in type.shows : cell = [cell |-> "text", shown |-> s]
    BY DEF CellsOf
  <1>2. CASE cell = [cell |-> "null"]
    BY <1>2 DEF CellToJson, Means
  <1>3. CASE cell = [cell |-> "bytes", bytes |-> "b"]
    BY <1>3 DEF CellToJson, Means
  <1>4. ASSUME NEW s \in type.shows, cell = [cell |-> "text", shown |-> s]
        PROVE  Means(json, cell)
    <2>1. cell.cell = "text" /\ cell.shown = s
      BY <1>4
    <2>2. json = CoerceText(s, type.name)
      BY <2>1 DEF CellToJson
    <2>3. CASE /\ ~(Classify(type.name) = "boolean" /\ ParseBool(s.text) # NoValue)
               /\ ~(Classify(type.name) = "integer" /\ s.int # NoValue)
               /\ ~(Classify(type.name) = "float" /\ s.float # NoValue)
      <3>1. json = JsonString(s.text)
        BY <2>2, <2>3 DEF CoerceText
      <3>. QED  BY <2>1, <3>1 DEF Means
    <2>4. ASSUME Classify(type.name) # "string" PROVE AsServersWrite(type)
      <3>1. ~type.user
        BY <2>1, <2>4 DEF NamedLikeBuiltIn
      <3>. QED  BY <3>1, ExportAssumption
    <2>5. CASE Classify(type.name) = "boolean" /\ ParseBool(s.text) # NoValue
      <3>1. AsServersWrite(type)
        BY <2>4, <2>5
      <3>2. \/ s.text \in {"t", "true"} /\ s.means = Truth(TRUE)
            \/ s.text \in {"f", "false"} /\ s.means = Truth(FALSE)
        BY <2>5, <3>1, ClassFitsType DEF AsServersWrite
      <3>3. s.means = Truth(ParseBool(s.text))
        BY <3>2 DEF ParseBool
      <3>4. json = [json |-> "bool", value |-> ParseBool(s.text)]
        BY <2>2, <2>5 DEF CoerceText
      <3>5. json.json = "bool" /\ json.value = ParseBool(s.text)
        BY <3>4
      <3>. QED  BY <2>1, <3>3, <3>5 DEF Means
    <2>6. CASE Classify(type.name) = "integer" /\ s.int # NoValue
      <3>1. AsServersWrite(type)
        BY <2>4, <2>6
      <3>2. s.means = Number(s.int)
        BY <2>6, <3>1, ClassFitsType DEF AsServersWrite
      <3>3. json = [json |-> "number", value |-> s.int]
        BY <2>2, <2>6 DEF CoerceText
      <3>4. json.json = "number" /\ json.value = s.int
        BY <3>3
      <3>. QED  BY <2>1, <3>2, <3>4 DEF Means
    <2>7. CASE Classify(type.name) = "float" /\ s.float # NoValue
      <3>1. AsServersWrite(type)
        BY <2>4, <2>7
      <3>2. s.means = Number(s.float)
        BY <2>7, <3>1, ClassFitsType DEF AsServersWrite
      <3>3. json = [json |-> "number", value |-> s.float]
        BY <2>2, <2>7 DEF CoerceText
      <3>4. json.json = "number" /\ json.value = s.float
        BY <3>3
      <3>. QED  BY <2>1, <3>2, <3>4 DEF Means
    <2>. QED  BY <2>3, <2>5, <2>6, <2>7
  <1>. QED  BY <1>1, <1>2, <1>3, <1>4

(***************************************************************************)
(* A JSON reader finds the last member of a name.                          *)
(***************************************************************************)
LEMMA LastMember ==
    ASSUME NEW n \in Nat, NEW object, DOMAIN object = 1 .. n, NEW i \in 1 .. n,
           \A j \in 1 .. n : j > i => object[j].key # object[i].key
    PROVE  Member(object, object[i].key) = object[i].value
  <1>. DEFINE at == {j \in DOMAIN object : object[j].key = object[i].key}
              last == CHOOSE j \in at : \A m \in at : m <= j
  <1>1. i \in at /\ \A m \in at : m <= i
    OBVIOUS
  <1>2. last \in at /\ \A m \in at : m <= last
    BY <1>1
  <1>3. last = i
    BY <1>1, <1>2
  <1>4. Member(object, object[i].key) = object[last].value
    BY DEF Member
  <1>. QED  BY <1>3, <1>4

(***************************************************************************)
(* What export_query_jsonl writes, a JSON reader reads back as the server  *)
(* means it, for all columns of the built-in types and of user-defined     *)
(* types not named like one.                                               *)
(***************************************************************************)
THEOREM ExportIsReadBack == ExportSpec => []ExportReadsBack
  <1>1. ASSUME ExportInit PROVE ExportReadsBack
    BY <1>1 DEF ExportInit, ExportReadsBack
  <1>2. ASSUME ExportReadsBack, [ExportNext]_exportVars PROVE ExportReadsBack'
    <2>1. ASSUME NEW columns \in Columns, NEW row \in Rows(columns), NEW copies \in 0 .. 2,
                 NEW truncated \in BOOLEAN, QueryEnds(columns, row, copies, truncated)
          PROVE  ExportReadsBack'
      <3>. DEFINE rows == [r \in 1 .. copies |-> row]
                  result == [columns |-> columns, rows |-> rows, is_truncated |-> truncated]
                  object == [i \in DOMAIN row |->
                                [key |-> columns[i].name, value |-> CellToJson(row[i], columns[i].type.name)]]
      <3>1. /\ queried' = result /\ envelope'.jsonl = RenderJsonl(result)
            /\ envelope'.truncated = truncated
        BY <2>1 DEF QueryEnds
      <3>2. DOMAIN row = DOMAIN columns /\ \A i \in DOMAIN columns : row[i] \in CellsOf(columns[i])
        BY DEF Rows
      <3>3. Len(columns) \in Nat /\ DOMAIN columns = 1 .. Len(columns)
        <4>1. columns \in Seq(ToSet(columns))
          BY ExportAssumption
        <4>. QED  BY <4>1
      <3>4. RenderJsonl(result) = [r \in 1 .. copies |-> object]
        BY DEF RenderJsonl
      <3>5. Len([r \in 1 .. copies |-> object]) = copies /\ Len(rows) = copies
        OBVIOUS
      <3>6. ASSUME NEW i \in DOMAIN columns,
                   \A j \in DOMAIN columns : j > i => columns[j].name # columns[i].name,
                   ~(NamedLikeBuiltIn(columns[i].type) /\ row[i].cell = "text")
            PROVE  Means(Member(object, columns[i].name), row[i])
        <4>1. /\ DOMAIN object = 1 .. Len(columns)
              /\ \A j \in 1 .. Len(columns) :
                    /\ object[j].key = columns[j].name
                    /\ object[j].value = CellToJson(row[j], columns[j].type.name)
          BY <3>2, <3>3
        <4>. HIDE DEF object
        <4>2. Member(object, columns[i].name) = CellToJson(row[i], columns[i].type.name)
          BY <3>3, <3>6, <4>1, LastMember
        <4>. QED  BY <3>2, <3>6, <4>2, CellMeans
      <3>7. /\ queried'.rows = rows /\ queried'.columns = columns /\ queried'.is_truncated = truncated
            /\ envelope'.jsonl = [r \in 1 .. copies |-> object]
        BY <3>1, <3>4
      <3>. HIDE DEF object
      <3>8. \A r \in DOMAIN queried'.rows : queried'.rows[r] = row /\ envelope'.jsonl[r] = object
        BY <3>7
      <3>9. Len(envelope'.jsonl) = Len(queried'.rows)
        BY <3>5, <3>7
      <3>. QED
        BY <3>1, <3>6, <3>7, <3>8, <3>9 DEF ExportReadsBack
    <2>2. CASE QueryFails \/ \E valid \in BOOLEAN : Call(valid)
      BY <2>2 DEF QueryFails, Call, ExportReadsBack
    <2>3. CASE UNCHANGED exportVars
      BY <1>2, <2>3 DEF exportVars, ExportReadsBack
    <2>. QED  BY <1>2, <2>1, <2>2, <2>3 DEF ExportNext
  <1>. QED  BY <1>1, <1>2, PTL DEF ExportSpec
=============================================================================
