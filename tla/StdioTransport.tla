--------------------------- MODULE StdioTransport ---------------------------
(***************************************************************************)
(* transport-stdio: one line is read, handled and answered after the       *)
(* other, so at most one request is in progress at any time.               *)
(***************************************************************************)
EXTENDS McpSession, Naturals, Sequences

CONSTANT MaxLines   \* bound on the lines a client sends

\* A line that is empty after trim(), and one next_line() fails on because
\* it is not UTF-8.
Skipped == [kind : {"blank", "not_utf8"}, method : {"other"}, call : {"absent"}]

Lines == Requests \cup Others \cup Skipped

VARIABLES initialized,  \* McpSession.initialized
          pc,           \* where run() is
          reply,        \* the reply being written
          read,         \* history: lines read
          out,          \* lines written: [line, reply]
          audit         \* history: [line, code]

vars == <<initialized, pc, reply, read, out, audit>>

NoReply == Reply("none", "ok")

TypeOK ==
    /\ initialized \in BOOLEAN
    /\ pc \in {"read", "tool", "write", "eof", "failed"}
    /\ reply \in Replies \cup {NoReply}
    /\ read \in Seq(Lines)
    /\ out \in Seq([line : 1 .. Len(read), reply : Replies])
    /\ audit \in Seq([line : 1 .. Len(read), code : Codes])

Init ==
    /\ initialized = FALSE
    /\ pc = "read"
    /\ reply = NoReply
    /\ read = <<>>
    /\ out = <<>>
    /\ audit = <<>>

ReadLine(l) ==
    /\ pc = "read" /\ Len(read) < MaxLines
    /\ read' = Append(read, l)

\* Blank lines and lines that cannot be read: `continue`.
Skip(l) ==
    /\ l \in Skipped
    /\ ReadLine(l)
    /\ UNCHANGED <<initialized, pc, reply, out, audit>>

\* decode_message fails, or handle() returns None.
OtherMessage(l) ==
    /\ l \in Others
    /\ ReadLine(l)
    /\ \/ /\ l.kind = "undecodable"
          /\ pc' = "write"
          /\ reply' = Reply("error", "invalid_request")
       \/ /\ l.kind # "undecodable"
          /\ UNCHANGED <<pc, reply>>
    /\ UNCHANGED <<initialized, out, audit>>

Request(l) ==
    /\ l \in Requests /\ ~RunsTool(l, initialized)
    /\ ReadLine(l)
    /\ initialized' = (initialized \/ l.method = "initialize")
    /\ audit' = Append(audit, [line |-> Len(read'), code |-> Refusal(l, initialized)])
    /\ reply' = ReplyOf(Refusal(l, initialized))
    /\ pc' = "write"
    /\ UNCHANGED out

\* Mutant: the loop goes on reading while the tool runs.
ToolCallSpawned(l) ==
    /\ l \in Requests /\ RunsTool(l, initialized)
    /\ ReadLine(l)
    /\ UNCHANGED <<initialized, pc, reply, out, audit>>

ToolCall(l) ==
    /\ l \in Requests /\ RunsTool(l, initialized)
    /\ ReadLine(l)
    /\ pc' = "tool"
    /\ UNCHANGED <<initialized, reply, out, audit>>

ToolReturns(result) ==
    /\ pc = "tool"
    /\ audit' = Append(audit, [line |-> Len(read), code |-> ToolCode(result)])
    /\ reply' = ToolReply(result)
    /\ pc' = "write"
    /\ UNCHANGED <<initialized, read, out>>

WriteReply ==
    /\ pc = "write"
    /\ out' = Append(out, [line |-> Len(read), reply |-> reply])
    /\ pc' = "read"
    /\ reply' = NoReply
    /\ UNCHANGED <<initialized, read, audit>>

\* The client closed its end: run() returns the error.
WriteFails ==
    /\ pc = "write"
    /\ pc' = "failed"
    /\ UNCHANGED <<initialized, reply, read, out, audit>>

Eof ==
    /\ pc = "read"
    /\ pc' = "eof"
    /\ UNCHANGED <<initialized, reply, read, out, audit>>

Next ==
    \/ \E l \in Lines : Skip(l) \/ OtherMessage(l) \/ Request(l) \/ ToolCall(l)
    \/ \E result \in ToolResults : ToolReturns(result)
    \/ WriteReply \/ WriteFails
    \/ Eof

Spec == Init /\ [][Next]_vars

-----------------------------------------------------------------------------
(* Properties *)

\* Lines that are done with: all, unless the last one is in progress.
Completed == IF pc \in {"read", "eof"} THEN Len(read) ELSE Len(read) - 1

\* Lines that were dispatched: all, unless the tool of the last one runs.
Handled == IF pc = "tool" THEN Len(read) - 1 ELSE Len(read)

\* The records of s are about exactly these lines, one each and in order.
InOrder(s, lines) ==
    /\ \A j, k \in DOMAIN s : j < k => s[j].line < s[k].line
    /\ {s[k].line : k \in DOMAIN s} = lines

(***************************************************************************)
(* The replies on stdout are those of the requests and undecodable lines   *)
(* read, one each and in the order of the lines (run() answers a line      *)
(* before it reads the next); blank lines, notifications and responses get *)
(* none.  Nothing is said here of a line that is not UTF-8, which run()    *)
(* skips and its comment promises an error reply.                          *)
(***************************************************************************)
RepliesInOrder ==
    /\ \A j, k \in DOMAIN out : j < k => out[j].line < out[k].line
    /\ \A i \in 1 .. Completed : read[i].kind # "not_utf8" =>
          ((\E k \in DOMAIN out : out[k].line = i) <=>
           read[i].kind \in {"request", "undecodable"})

(***************************************************************************)
(* A request is refused as not initialized exactly if no initialize        *)
(* precedes it on stdin: dispatch is sequential, so a client may send      *)
(* initialize and a call without waiting for the first reply.              *)
(***************************************************************************)
InitializeTakesEffectInOrder ==
    \A k \in DOMAIN out :
        LET l == out[k].line
            before == {j \in 1 .. l - 1 : read[j].method = "initialize"}
        IN  read[l].method \in {"tools/list", "tools/call"}
            => (out[k].reply = Reply("error", "invalid_request")) <=> (before = {})

(***************************************************************************)
(* Each request read is audited once, in order, before its reply is        *)
(* written, also when the write then fails.                                *)
(***************************************************************************)
AuditInOrder ==
    InOrder(audit, {i \in 1 .. Handled : read[i].kind = "request"})

(***************************************************************************)
(* A client that sends its lines without waiting sees what it would see if *)
(* it waited for every reply: replies, the effect of initialize and audit  *)
(* records all follow the order of the lines.                              *)
(***************************************************************************)
SequentialService == RepliesInOrder /\ InitializeTakesEffectInOrder /\ AuditInOrder
=============================================================================
