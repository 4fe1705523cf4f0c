------------------------------- MODULE JsonRpc -------------------------------
(***************************************************************************)
(* mcp-wire: the four JSON-RPC message shapes, what they look like as JSON *)
(* objects and how decode_message tells them apart.  A peer sends any JSON *)
(* value, the transport decodes it and answers, and the peer decodes the   *)
(* answer with the same decoder.                                           *)
(***************************************************************************)
EXTENDS Naturals

CONSTANT Ids     \* usable ids: strings, and numbers that fit an i64

Absent == "absent"    \* no such key, or None
Null == "null"
Unusable == "unusable"  \* an id that is fractional, too large, a boolean, ...

ASSUME IdAssumption == Ids \cap {Absent, Null, Unusable} = {}

\* A JSON object, by what the decoder looks at in it.
Objects == [jsonrpc : {Absent, "2.0", "other"},
            id      : Ids \cup {Absent, Null, Unusable},
            method  : {Absent, "string", "other"},
            params  : {Absent, Null, "value"},
            result  : {Absent, Null, "value"},
            error   : {Absent, "error_object", "other"}]

NoFields == [k \in {"jsonrpc", "id", "method", "params", "result", "error"} |-> Absent]

\* What arrives: an object, also one (or a text that is none, with no fields)
\* that nests too deep somewhere; broken JSON; another value.
Object(o) == [form |-> "object", fields |-> o]
TooDeep(o) == [form |-> "too_deep", fields |-> o]
NotObjects == [form : {"not_json", "not_object"}, fields : {NoFields}]
NoBody == [form |-> "none", fields |-> NoFields]

\* A decoded message.  content is params, result or error; on a decoding
\* failure it is the code.
Message(kind, id, content) == [kind |-> kind, id |-> id, content |-> content]
Failure(code) == Message("failure", Absent, code)
NoMessage == Message("none", Absent, Absent)

Responses == [kind : {"success"}, id : Ids, content : {Null, "value"}]
               \cup [kind : {"error"}, id : Ids \cup {Null}, content : {"error_object"}]

VARIABLES body,      \* what the peer sent
          decoded,   \* decode_message of it
          reply,     \* the transport's answer
          answer     \* what the peer decodes from it

rpcVars == <<body, decoded, reply, answer>>

-----------------------------------------------------------------------------
(* The encoder: serde's derived Serialize of the four structs *)

\* Of a response: an error's missing id is written as null.
Encode(m) ==
    Object([NoFields EXCEPT !.jsonrpc = "2.0",
                            !.id = m.id,
                            !.result = IF m.kind = "success" THEN m.content ELSE Absent,
                            !.error = IF m.kind = "error" THEN m.content ELSE Absent])

-----------------------------------------------------------------------------
(* The decoder *)

ParseId(id) == id \in Ids

DecodeRequestOrNotification(o) ==
    IF o.method # "string" THEN Failure("INVALID_REQUEST")
    ELSE IF o.id = Absent THEN Message("notification", Absent, o.params)
    ELSE IF ParseId(o.id) THEN Message("request", o.id, o.params)
    ELSE Failure("INVALID_REQUEST")

\* Mutant: an error response needs an id like any other.
DecodeResponseNeedsId(o) ==
    IF o.result # Absent /\ o.error # Absent THEN Failure("INVALID_REQUEST")
    ELSE IF o.result # Absent /\ ParseId(o.id) THEN Message("success", o.id, o.result)
    ELSE IF o.error = "error_object" /\ ParseId(o.id) THEN Message("error", o.id, o.error)
    ELSE Failure("INVALID_REQUEST")

\* A result may be null, and so may the id of an error; a key that is there
\* with null is not a missing one.
DecodeResponse(o) ==
    IF o.result # Absent /\ o.error # Absent THEN Failure("INVALID_REQUEST")
    ELSE IF o.result # Absent /\ ParseId(o.id) THEN Message("success", o.id, o.result)
    ELSE IF o.error = "error_object" /\ (o.id = Null \/ ParseId(o.id))
    THEN Message("error", o.id, o.error)
    ELSE Failure("INVALID_REQUEST")

DecodeValue(o) ==
    IF o.jsonrpc # "2.0" THEN Failure("INVALID_REQUEST")
    ELSE IF o.method # Absent THEN DecodeRequestOrNotification(o)
    ELSE DecodeResponse(o)

\* The nesting guard comes before the parser: nothing of the object is read.
DecodeMessage(v) ==
    IF v.form = "too_deep" THEN Failure("INVALID_REQUEST")
    ELSE IF v.form = "not_json" THEN Failure("PARSE_ERROR")
    ELSE IF v.form = "not_object" THEN Failure("INVALID_REQUEST")
    ELSE DecodeValue(v.fields)

-----------------------------------------------------------------------------
(* One exchange *)

RpcInit == body = NoBody /\ decoded = NoMessage /\ reply = NoMessage /\ answer = NoMessage

Send(v) ==
    /\ body = NoBody
    /\ body' = v
    /\ UNCHANGED <<decoded, reply, answer>>

Receive ==
    /\ body # NoBody /\ decoded = NoMessage
    /\ decoded' = DecodeMessage(body)
    /\ UNCHANGED <<body, reply, answer>>

\* McpSession::handle answers requests and nothing else.
AnswerMessage(content) ==
    /\ decoded.kind = "request" /\ reply = NoMessage
    /\ reply' = IF content = "error_object" THEN Message("error", decoded.id, content)
                ELSE Message("success", decoded.id, content)
    /\ UNCHANGED <<body, decoded, answer>>

\* What does not decode is answered without an id.
AnswerFailure ==
    /\ decoded.kind = "failure" /\ reply = NoMessage
    /\ reply' = Message("error", Null, "error_object")
    /\ UNCHANGED <<body, decoded, answer>>

PeerReads ==
    /\ reply # NoMessage /\ answer = NoMessage
    /\ answer' = DecodeMessage(Encode(reply))
    /\ UNCHANGED <<body, decoded, reply>>

RpcNext ==
    \/ \E o \in Objects : Send(Object(o)) \/ Send(TooDeep(o))
    \/ \E v \in NotObjects : Send(v)
    \/ Receive
    \/ \E content \in {Null, "value", "error_object"} : AnswerMessage(content)
    \/ AnswerFailure
    \/ PeerReads

RpcSpec == RpcInit /\ [][RpcNext]_rpcVars

-----------------------------------------------------------------------------
(* Properties *)

RpcTypeOK ==
    /\ body.fields \in Objects
    /\ decoded.kind \in {"request", "success"} => decoded.id \in Ids
    /\ decoded.kind = "notification" => decoded.id = Absent
    /\ reply \in {NoMessage} \cup Responses

(***************************************************************************)
(* Every reply of the server is a message to the same decoder, and the one *)
(* that was sent: also a null result, and an error whose id is null.       *)
(***************************************************************************)
ReplyReadable == answer # NoMessage => answer = reply

(***************************************************************************)
(* A peer can pair replies with requests: a well-formed call (2.0, with a  *)
(* method name) that has an id key is answered, with that id if it is      *)
(* usable and as an error if it is not; one without the key never is.      *)
(* The exception is a call that nests too deep: decode_message refuses it  *)
(* unread, so it is answered with an error whose id is null, also when it  *)
(* has a usable id and when it is a notification.                          *)
(***************************************************************************)
Paired ==
    LET call == body.fields IN
    call.jsonrpc = "2.0" /\ call.method = "string" /\ decoded # NoMessage =>
        \/ /\ body.form = "too_deep"
           /\ decoded.kind = "failure" /\ reply \in {NoMessage, Message("error", Null, "error_object")}
        \/ /\ body.form # "too_deep"
           /\ call.id = Absent => decoded.kind = "notification" /\ reply = NoMessage
           /\ call.id # Absent => decoded.kind \in {"request", "failure"}
           /\ reply # NoMessage => reply.id = IF call.id \in Ids THEN call.id ELSE Null

(***************************************************************************)
(* A peer of decode_message can pair every reply with its request and      *)
(* reads it as it was sent.                                                *)
(***************************************************************************)
ExchangeSound == Paired /\ ReplyReadable
=============================================================================
