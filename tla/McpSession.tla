----------------------------- MODULE McpSession -----------------------------
(***************************************************************************)
(* McpSession::handle as operators on one decoded message: what a request  *)
(* is refused with, whether a tool runs, and what is replied and audited   *)
(* once the result is known.  The session's only state, `initialized`, is  *)
(* a variable of the transports that share the session.                    *)
(***************************************************************************)

Methods == {"initialize", "tools/list", "tools/call", "other"}

\* The params of a tools/call: absent, not ToolCallParams, naming no
\* registered tool, or naming one.
CallParams == {"absent", "malformed", "unknown_tool", "known_tool"}

Requests == [kind : {"request"}, method : Methods \ {"tools/call"}, call : {"absent"}]
            \cup [kind : {"request"}, method : {"tools/call"}, call : CallParams]

\* What else a client may send; "undecodable" is an Err of decode_message.
Others == [kind : {"notification", "response", "undecodable"},
           method : {"other"}, call : {"absent"}]

ToolResults == {"ok", "invalid_arguments", "failed"}

Codes == {"ok", "method_not_found", "invalid_request", "invalid_params", "internal_error"}

\* What is wrong with the params of a tools/call, "ok" for nothing.
CallRefusal(call) ==
    CASE call \in {"absent", "malformed"} -> "invalid_params"
      [] call = "unknown_tool"            -> "method_not_found"
      [] OTHER                            -> "ok"

\* Mutant: tools/call does not ask whether the session is initialized.
RefusalUnchecked(q, initialized) ==
    CASE q.method = "other"      -> "method_not_found"
      [] q.method = "initialize" -> "ok"
      [] q.method = "tools/list" -> IF initialized THEN "ok" ELSE "invalid_request"
      [] q.method = "tools/call" -> CallRefusal(q.call)

\* The JSON-RPC error of dispatch_request, "ok" for none.
Refusal(q, initialized) ==
    CASE q.method = "other"      -> "method_not_found"
      [] q.method = "initialize" -> "ok"
      [] q.method = "tools/list" -> IF initialized THEN "ok" ELSE "invalid_request"
      [] q.method = "tools/call" -> IF initialized THEN CallRefusal(q.call) ELSE "invalid_request"

RunsTool(q, initialized) ==
    q.method = "tools/call" /\ Refusal(q, initialized) = "ok"

\* The audit outcome of a tool's result.
ToolCode(result) ==
    CASE result = "ok" -> "ok"
      [] result = "invalid_arguments" -> "invalid_params"
      [] result = "failed" -> "internal_error"

\* A JSON-RPC reply is a result, the result of a failed tool (isError) or
\* an error with its code.
Reply(kind, code) == [kind |-> kind, code |-> code]

Success == Reply("result", "ok")

Replies == {Success, Reply("is_error", "ok")} \cup {Reply("error", c) : c \in Codes \ {"ok"}}

ReplyOf(refusal) == IF refusal = "ok" THEN Success ELSE Reply("error", refusal)

ToolReply(result) == IF result = "ok" THEN Success ELSE Reply("is_error", "ok")
=============================================================================
