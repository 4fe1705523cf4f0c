---------------------------- MODULE HttpTransport ----------------------------
(***************************************************************************)
(* The HTTP transport: exchanges that pass the per-IP rate limit, then the *)
(* bearer token, then reach the one McpSession that all clients share.     *)
(*                                                                         *)
(* An exchange has await points while its body is read and while a tool    *)
(* runs.  The server drops the exchange at one of them when the client     *)
(* goes away.  The runtime has several threads: the session's flag, the    *)
(* audit record and the answer are steps of their own, between which other *)
(* exchanges go on.                                                        *)
(***************************************************************************)
EXTENDS McpSession, Naturals, Sequences, FiniteSets

CONSTANTS Exchanges,             \* HTTP requests
          Ips,                   \* client addresses
          RateLimitPerMinute,    \* rate_limit_per_minute, possibly 0
          MaxRefills             \* bound: cells replenished per address

\* The source of an exchange that has not begun.
NoIp == "no_ip"

ASSUME HttpAssumption ==
    /\ IsFiniteSet(Exchanges)
    /\ NoIp \notin Ips
    /\ RateLimitPerMinute \in Nat
    /\ MaxRefills \in Nat

VARIABLES initialized,  \* McpSession.initialized
          limiter,      \* cells left in the bucket of each address
          refills,      \* history: cells replenished
          phase,        \* of each exchange
          ip,           \* its source
          body,         \* its decoded body, once it has arrived
          outcome,      \* what dispatch_request returned for it
          answer,       \* its HTTP answer
          ran,          \* history: exchanges whose tool did its work
          audit,        \* history: outcomes recorded for each exchange
          late          \* history: dispatched after an initialize was answered

vars == <<initialized, limiter, refills, phase, ip, body, outcome, answer, ran, audit, late>>

None == Reply("none", "ok")

NoBody == [kind |-> "none", method |-> "other", call |-> "absent"]

\* The (result, audit outcome) of dispatch_request.
Outcomes == [reply : Replies, code : Codes]

NoOutcome == [reply |-> None, code |-> "ok"]

\* NonZeroU32::new(requests_per_minute).unwrap_or(NonZeroU32::MIN)
Burst == IF RateLimitPerMinute = 0 THEN 1 ELSE RateLimitPerMinute

Phases == {"new", "body", "tool", "dispatched", "audited", "answered", "dropped"}

\* 429, 401, 202, the demo stream, or 200 with a JSON-RPC reply
Answers == {Reply(s, "ok") : s \in {"none", "too_many", "unauthorized", "accepted", "stream"}}
           \cup Replies

TypeOK ==
    /\ initialized \in BOOLEAN
    /\ limiter \in [Ips -> 0 .. Burst]
    /\ refills \in [Ips -> 0 .. MaxRefills]
    /\ phase \in [Exchanges -> Phases]
    /\ ip \in [Exchanges -> Ips \cup {NoIp}]
    /\ body \in [Exchanges -> Requests \cup Others \cup {NoBody}]
    /\ outcome \in [Exchanges -> Outcomes \cup {NoOutcome}]
    /\ answer \in [Exchanges -> Answers]
    /\ ran \subseteq Exchanges
    /\ audit \in [Exchanges -> Seq(Codes)]
    /\ late \subseteq Exchanges

Init ==
    /\ initialized = FALSE
    /\ limiter = [i \in Ips |-> Burst]
    /\ refills = [i \in Ips |-> 0]
    /\ phase = [x \in Exchanges |-> "new"]
    /\ ip = [x \in Exchanges |-> NoIp]
    /\ body = [x \in Exchanges |-> NoBody]
    /\ outcome = [x \in Exchanges |-> NoOutcome]
    /\ answer = [x \in Exchanges |-> None]
    /\ ran = {}
    /\ audit = [x \in Exchanges |-> <<>>]
    /\ late = {}

Answer(x, a) ==
    /\ phase' = [phase EXCEPT ![x] = "answered"]
    /\ answer' = [answer EXCEPT ![x] = a]

-----------------------------------------------------------------------------
(* Rate limit *)

\* Mutant: one bucket for the whole listener.
WithinBudgetOfAll(i) == \A j \in Ips : limiter[j] > 0

WithinBudget(i) == limiter[i] > 0

\* limiter.check_key(&addr.ip()) is Ok
CheckKey(i) ==
    /\ WithinBudget(i)
    /\ limiter' = [limiter EXCEPT ![i] = @ - 1]

RateLimited(x, i) ==
    /\ phase[x] = "new"
    /\ ~WithinBudget(i)
    /\ ip' = [ip EXCEPT ![x] = i]
    /\ Answer(x, Reply("too_many", "ok"))
    /\ UNCHANGED <<initialized, limiter, refills, body, outcome, ran, audit, late>>

\* Time gives one cell back.
Replenish(i) ==
    /\ refills[i] < MaxRefills
    /\ limiter[i] < Burst
    /\ limiter' = [limiter EXCEPT ![i] = @ + 1]
    /\ refills' = [refills EXCEPT ![i] = @ + 1]
    /\ UNCHANGED <<initialized, phase, ip, body, outcome, answer, ran, audit, late>>

-----------------------------------------------------------------------------
(* Routes *)

\* GET /mcp/stream, the fixed demo, behind the rate limit only
DemoStream(x, i) ==
    /\ phase[x] = "new"
    /\ CheckKey(i)
    /\ ip' = [ip EXCEPT ![x] = i]
    /\ Answer(x, Reply("stream", "ok"))
    /\ UNCHANGED <<initialized, refills, body, outcome, ran, audit, late>>

\* extract_bearer_token: what follows "Bearer " in the Authorization header,
\* "none" when there is no header, it is not text, or it has another scheme
Presented == {"none", "right", "wrong"}

TokensMatch(token) == token = "right"

Unauthorized(x, i, token) ==
    /\ phase[x] = "new"
    /\ CheckKey(i)
    /\ ~TokensMatch(token)
    /\ ip' = [ip EXCEPT ![x] = i]
    /\ Answer(x, Reply("unauthorized", "ok"))
    /\ UNCHANGED <<initialized, refills, body, outcome, ran, audit, late>>

\* next.run(request): the handler waits for the body.
Authorized(x, i, token) ==
    /\ phase[x] = "new"
    /\ CheckKey(i)
    /\ TokensMatch(token)
    /\ ip' = [ip EXCEPT ![x] = i]
    /\ phase' = [phase EXCEPT ![x] = "body"]
    /\ UNCHANGED <<initialized, refills, body, outcome, answer, ran, audit, late>>

-----------------------------------------------------------------------------
(* handle_mcp *)

Initialize(x) == body[x].kind = "request" /\ body[x].method = "initialize"

\* Some client has its answer to initialize.
InitializeAnswered == \E y \in Exchanges : Initialize(y) /\ phase[y] = "answered"

NoteLate(x) == late' = IF InitializeAnswered THEN late \cup {x} ELSE late

\* An undecodable body is answered with a JSON-RPC error (parse error or
\* invalid request), a notification or a response with 202.
OtherBody(x, b) ==
    /\ phase[x] = "body"
    /\ body' = [body EXCEPT ![x] = b]
    /\ Answer(x, IF b.kind = "undecodable" THEN Reply("error", "invalid_request")
                                           ELSE Reply("accepted", "ok"))
    /\ UNCHANGED <<initialized, limiter, refills, ip, outcome, ran, audit, late>>

\* dispatch_request of a request that needs no tool: initialize stores the
\* flag, tools/list and tools/call load it.
Dispatch(x, q) ==
    /\ phase[x] = "body"
    /\ ~RunsTool(q, initialized)
    /\ body' = [body EXCEPT ![x] = q]
    /\ initialized' = (initialized \/ q.method = "initialize")
    /\ outcome' = [outcome EXCEPT ![x] = [reply |-> ReplyOf(Refusal(q, initialized)),
                                          code |-> Refusal(q, initialized)]]
    /\ phase' = [phase EXCEPT ![x] = "dispatched"]
    /\ NoteLate(x)
    /\ UNCHANGED <<limiter, refills, ip, answer, ran, audit>>

\* registry.call(..) of a registered tool
CallBegins(x, q) ==
    /\ phase[x] = "body"
    /\ RunsTool(q, initialized)
    /\ body' = [body EXCEPT ![x] = q]
    /\ phase' = [phase EXCEPT ![x] = "tool"]
    /\ NoteLate(x)
    /\ UNCHANGED <<initialized, limiter, refills, ip, outcome, answer, ran, audit>>

\* The tool does its work at the database; its future still waits.
ToolWorks(x) ==
    /\ phase[x] = "tool" /\ x \notin ran
    /\ ran' = ran \cup {x}
    /\ UNCHANGED <<initialized, limiter, refills, phase, ip, body, outcome, answer, audit, late>>

\* Mutant: the audit outcome is that of the JSON-RPC result.
ToolReturnsAuditsRpc(x, result) ==
    /\ phase[x] = "tool"
    /\ result = "ok" => x \in ran
    /\ outcome' = [outcome EXCEPT ![x] = [reply |-> ToolReply(result), code |-> "ok"]]
    /\ phase' = [phase EXCEPT ![x] = "dispatched"]
    /\ UNCHANGED <<initialized, limiter, refills, ip, body, answer, ran, audit, late>>

ToolReturns(x, result) ==
    /\ phase[x] = "tool"
    /\ result = "ok" => x \in ran
    /\ outcome' = [outcome EXCEPT ![x] = [reply |-> ToolReply(result), code |-> ToolCode(result)]]
    /\ phase' = [phase EXCEPT ![x] = "dispatched"]
    /\ UNCHANGED <<initialized, limiter, refills, ip, body, answer, ran, audit, late>>

\* audit.record(..), which never waits
Record(x) ==
    /\ phase[x] = "dispatched"
    /\ audit' = [audit EXCEPT ![x] = Append(@, outcome[x].code)]
    /\ phase' = [phase EXCEPT ![x] = "audited"]
    /\ UNCHANGED <<initialized, limiter, refills, ip, body, outcome, answer, ran, late>>

\* 200 with the encoded reply
Respond(x) ==
    /\ phase[x] = "audited"
    /\ Answer(x, outcome[x].reply)
    /\ UNCHANGED <<initialized, limiter, refills, ip, body, outcome, ran, audit, late>>

\* The client goes away: the server drops the handler where it waits.
ClientGone(x) ==
    /\ phase[x] \in {"body", "tool"}
    /\ phase' = [phase EXCEPT ![x] = "dropped"]
    /\ UNCHANGED <<initialized, limiter, refills, ip, body, outcome, answer, ran, audit, late>>

Next ==
    \/ \E i \in Ips : Replenish(i)
    \/ \E x \in Exchanges :
          \/ \E i \in Ips :
                \/ RateLimited(x, i) \/ DemoStream(x, i)
                \/ \E token \in Presented : Unauthorized(x, i, token) \/ Authorized(x, i, token)
          \/ \E b \in Others : OtherBody(x, b)
          \/ \E q \in Requests : Dispatch(x, q) \/ CallBegins(x, q)
          \/ ToolWorks(x)
          \/ \E result \in ToolResults : ToolReturns(x, result)
          \/ Record(x) \/ Respond(x)
          \/ ClientGone(x)

Spec == Init /\ [][Next]_vars

-----------------------------------------------------------------------------
(* Properties *)

FromIp(i) == {x \in Exchanges : ip[x] = i}

Admitted(i) == {x \in FromIp(i) : answer[x].kind # "too_many"}

(***************************************************************************)
(* The per-IP budget (transport-http/src/rate_limit.rs): no address gets   *)
(* more requests through than its burst and what time gave back, and none  *)
(* is refused while it has not used its own burst, whatever the others do. *)
(***************************************************************************)
BudgetPerIp ==
    \A i \in Ips :
        /\ Cardinality(Admitted(i)) <= Burst + refills[i]
        /\ Admitted(i) # FromIp(i) => Cardinality(Admitted(i)) >= Burst

(***************************************************************************)
(* McpSession::require_initialized on a session that all clients share: a  *)
(* tool works only if some initialize was accepted (perhaps not answered   *)
(* yet: the flag is stored first), and a request dispatched after any      *)
(* client had its answer to initialize is never told to initialize first,  *)
(* though its own client never did and the other one may be gone.          *)
(***************************************************************************)
ToolsAfterInitialize ==
    /\ ran # {} => \E x \in Exchanges : /\ Initialize(x)
                                        /\ phase[x] \in {"dispatched", "audited", "answered"}
    /\ \A x \in late : answer[x] # Reply("error", "invalid_request")

(***************************************************************************)
(* The audit records agree with what the clients saw                       *)
(* (mcp-server/src/session.rs, handle_request): an answered request has    *)
(* exactly one record, it says Ok exactly if the reply is a result without *)
(* isError, and it has the code of the reply's error; there is no record   *)
(* of what is answered without reaching dispatch.  Nothing is said here of *)
(* a request whose client went away while its tool ran.                    *)
(***************************************************************************)
AuditAgrees ==
    \A x \in Exchanges :
        /\ phase[x] = "answered" /\ body[x].kind = "request" =>
              /\ Len(audit[x]) = 1
              /\ (audit[x][1] = "ok") <=> (answer[x] = Success)
              /\ answer[x].kind = "error" => audit[x][1] = answer[x].code
        /\ body[x].kind # "request" => audit[x] = <<>>
=============================================================================
