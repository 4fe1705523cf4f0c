---------------------------- MODULE ServerProofs ----------------------------
(***************************************************************************)
(* What the two transports guarantee, for every number of exchanges,       *)
(* addresses, replenished cells and lines, and for every rate limit.       *)
(*                                                                         *)
(* Both share the session's flag, so the invariant first separates them:   *)
(* the transport that is not served is in its initial state.  Over HTTP,   *)
(* the flag traces back to one dispatched initialize, which no later step  *)
(* can take back, what dispatch returned agrees with itself while it waits *)
(* to be recorded, and every cell of a bucket is accounted for.  Over      *)
(* stdio, the flag is whether an initialize was read, and the reply that   *)
(* is being written already suits the line it answers.                     *)
(***************************************************************************)
EXTENDS Server, FiniteSetTheorems, SequenceTheorems, TLAPS

\* The transport that is not served has not begun.
OneTransport ==
    /\ serving \in {"starting", "http", "stdio", "exited"}
    /\ serving # "http" => \A x \in Exchanges : phase[x] = "new"
    /\ serving \in {"starting", "http"} => pc = "read" /\ read = <<>>
    /\ serving = "starting" => ~initialized

\* The exchange that sets the session's flag, from then on.
Initializes(x) ==
    Initialize(x) /\ phase[x] \in {"dispatched", "audited", "answered"}

\* What dispatch_request returns: the outcome says what the reply says.
Agrees(o) ==
    /\ o \in Outcomes
    /\ o.code = "ok" <=> o.reply = Success
    /\ o.reply.kind = "error" => o.reply.code = o.code
    /\ o.reply.kind # "too_many"

Refused == Reply("error", "invalid_request")

\* What an exchange has collected at each of its phases.
ExchangeState ==
    \A x \in Exchanges :
        /\ phase[x] = "new" => ip[x] = NoIp
        /\ phase[x] # "new" => ip[x] \in Ips
        /\ phase[x] \in {"new", "body"} => body[x] = NoBody /\ x \notin late \cup ran
        /\ phase[x] # "answered" => answer[x] = None
        /\ phase[x] \notin {"audited", "answered"} => audit[x] = <<>>
        /\ phase[x] \in {"tool", "dispatched", "audited"} => body[x].kind = "request"
        /\ phase[x] \in {"dispatched", "audited"} => Agrees(outcome[x])
        /\ phase[x] = "audited" => Len(audit[x]) = 1 /\ audit[x][1] = outcome[x].code

\* What an exchange tells of the session's flag.
FlagState ==
    \A x \in Exchanges :
        /\ phase[x] = "tool" => initialized
        /\ x \in ran => initialized
        /\ Initializes(x) => initialized
        /\ x \in late => answer[x] # Refused
        /\ x \in late /\ phase[x] \in {"dispatched", "audited"} => outcome[x].reply # Refused

FlagHasCause ==
    serving = "http" /\ initialized => \E x \in Exchanges : Initializes(x)

\* Every cell was in the bucket at first or replenished, and is still there
\* or was spent on an exchange that got through.
CellsAccounted ==
    \A i \in Ips :
        /\ Cardinality(Admitted(i)) + limiter[i] = Burst + refills[i]
        /\ Admitted(i) # FromIp(i) => Cardinality(Admitted(i)) >= Burst

HttpInv ==
    TypeOK /\ ExchangeState /\ FlagState /\ FlagHasCause /\ CellsAccounted /\ AuditAgrees

\* An initialize among the first n lines.
InitializeRead(n) == \E j \in 1 .. n : read[j].method = "initialize"

\* The reply r to line l tells whether an initialize came before the line.
Suits(r, l) ==
    read[l].method \in {"tools/list", "tools/call"} =>
        (r = Reply("error", "invalid_request") <=> ~InitializeRead(l - 1))

\* The stdio loop at each of its locations: a reply answers the last line.
LineState ==
    /\ serving # "http" => (initialized <=> InitializeRead(Len(read)))
    /\ pc \in {"tool", "write", "failed"} => Len(read) > 0
    /\ pc = "tool" => /\ read[Len(read)].kind = "request"
                      /\ InitializeRead(Len(read) - 1)
    /\ pc = "write" => /\ reply \in Replies
                       /\ read[Len(read)].kind \in {"request", "undecodable"}
                       /\ Suits(reply, Len(read))

\* Exactly the requests and undecodable lines are answered.
RepliesExact ==
    Stdio!InOrder(out, {i \in 1 .. Stdio!Completed : read[i].kind \in {"request", "undecodable"}})

LinesServed ==
    RepliesExact /\ Stdio!InitializeTakesEffectInOrder /\ Stdio!AuditInOrder

StdioInv == Stdio!TypeOK /\ LineState /\ LinesServed

IndInv == OneTransport /\ HttpInv /\ StdioInv

-----------------------------------------------------------------------------
USE HttpAssumption, ServerAssumption

(* dispatch_request: the code it audits is one of the codes, and only a     *)
(* tools/call of an initialized session gets to a tool.                     *)
LEMMA RefusalFacts ==
    ASSUME NEW q \in Requests, NEW i \in BOOLEAN
    PROVE  /\ Refusal(q, i) \in Codes
           /\ q.kind = "request"
           /\ q.method = "initialize" => Refusal(q, i) = "ok"
           /\ RunsTool(q, i) => i /\ q.method = "tools/call"
           /\ q.method \in {"tools/list", "tools/call"} =>
                (Refusal(q, i) = "invalid_request" <=> ~i)
           /\ i => Refusal(q, i) # "invalid_request"
  BY DEF Requests, Methods, CallParams, Refusal, CallRefusal, RunsTool, Codes

(* The reply to a request tells success and the code of an error.           *)
LEMMA ReplyFacts ==
    ASSUME NEW c \in Codes
    PROVE  /\ ReplyOf(c) \in Replies
           /\ ReplyOf(c) = Success <=> c = "ok"
           /\ ReplyOf(c).kind \in {"result", "error"}
           /\ ReplyOf(c).kind = "error" => ReplyOf(c).code = c
           /\ ReplyOf(c) = Reply("error", "invalid_request") <=> c = "invalid_request"
  BY DEF Codes, Replies, ReplyOf, Success, Reply

(* So does the reply of a tool, which is never a JSON-RPC error.            *)
LEMMA ToolFacts ==
    ASSUME NEW r \in ToolResults
    PROVE  /\ ToolReply(r) \in Replies
           /\ ToolCode(r) \in Codes
           /\ ToolReply(r) = Success <=> ToolCode(r) = "ok"
           /\ ToolReply(r).kind \in {"result", "is_error"}
  BY DEF ToolResults, ToolCode, Codes, Replies, ToolReply, Success, Reply

(* So what dispatch_request returns agrees with itself, and it refuses       *)
(* nothing of an initialized session as uninitialized.                      *)
LEMMA DispatchAgrees ==
    ASSUME NEW q \in Requests, NEW i \in BOOLEAN
    PROVE  /\ Agrees([reply |-> ReplyOf(Refusal(q, i)), code |-> Refusal(q, i)])
           /\ i => ReplyOf(Refusal(q, i)) # Refused
  <1>1. Refusal(q, i) \in Codes /\ (i => Refusal(q, i) # "invalid_request")
    BY RefusalFacts
  <1>. QED  BY <1>1, ReplyFacts DEF Agrees, Outcomes, Refused

LEMMA ToolAgrees ==
    ASSUME NEW r \in ToolResults
    PROVE  /\ Agrees([reply |-> ToolReply(r), code |-> ToolCode(r)])
           /\ ToolReply(r) # Refused
  BY ToolFacts DEF Agrees, Outcomes, Refused, Reply

(* The first record of an exchange is its only one.                         *)
LEMMA FirstRecord ==
    ASSUME NEW c \in Codes
    PROVE  Len(Append(<<>>, c)) = 1 /\ Append(<<>>, c)[1] = c
  OBVIOUS

(* A bucket holds at least one cell, also when the limit is configured 0.   *)
LEMMA BurstPositive == Burst \in Nat /\ Burst >= 1
  BY DEF Burst

(* The exchanges that an address got through are finitely many.             *)
LEMMA AdmittedFinite ==
    ASSUME NEW i
    PROVE  IsFiniteSet(Admitted(i)) /\ Cardinality(Admitted(i)) \in Nat
  <1>1. Admitted(i) \subseteq Exchanges
    BY DEF Admitted, FromIp
  <1>. QED  BY <1>1, FS_Subset, FS_CardinalityType

(* A step that neither begins nor refuses an exchange, and gives no cell,   *)
(* leaves every account alone.                                              *)
LEMMA AccountsKept ==
    ASSUME CellsAccounted, UNCHANGED <<limiter, refills, ip>>,
           \A x \in Exchanges : answer'[x].kind = "too_many" <=> answer[x].kind = "too_many"
    PROVE  CellsAccounted'
  <1>1. \A i \in Ips : Admitted(i)' = Admitted(i) /\ FromIp(i)' = FromIp(i)
    BY DEF Admitted, FromIp
  <1>. QED  BY <1>1 DEF CellsAccounted

(* An exchange that gets through costs its address one cell.                *)
LEMMA CellSpent ==
    ASSUME TypeOK, ExchangeState, CellsAccounted,
           NEW x \in Exchanges, NEW i \in Ips, phase[x] = "new", CheckKey(i),
           ip' = [ip EXCEPT ![x] = i], UNCHANGED refills,
           answer'[x].kind # "too_many",
           \A y \in Exchanges \ {x} : answer'[y] = answer[y]
    PROVE  CellsAccounted'
  <1>1. ip[x] = NoIp /\ answer[x].kind # "too_many"
    BY DEF ExchangeState, None, Reply
  <1>2. /\ Admitted(i)' = Admitted(i) \cup {x} /\ x \notin Admitted(i)
        /\ FromIp(i)' = FromIp(i) \cup {x}
    BY <1>1 DEF Admitted, FromIp, TypeOK
  <1>3. \A j \in Ips \ {i} : Admitted(j)' = Admitted(j) /\ FromIp(j)' = FromIp(j)
    BY <1>1 DEF Admitted, FromIp, TypeOK
  <1>4. Cardinality(Admitted(i)') = Cardinality(Admitted(i)) + 1
    BY <1>2, AdmittedFinite, FS_AddElement
  <1>5. Cardinality(Admitted(i)) \in Nat
    BY AdmittedFinite
  <1>6. Cardinality(Admitted(i)') + limiter'[i] = Burst + refills'[i]
    BY <1>4, <1>5, BurstPositive DEF CellsAccounted, CheckKey, TypeOK
  <1>7. Admitted(i)' # FromIp(i)' => Cardinality(Admitted(i)') >= Burst
    BY <1>2, <1>4, <1>5, BurstPositive DEF CellsAccounted
  <1>8. \A j \in Ips \ {i} : limiter'[j] = limiter[j]
    BY DEF CheckKey, TypeOK
  <1>. QED  BY <1>3, <1>6, <1>7, <1>8 DEF CellsAccounted

(* An exchange is refused only by a bucket that is empty, so that its       *)
(* address has got at least a burst through.                                *)
LEMMA RefusalAccounted ==
    ASSUME TypeOK, ExchangeState, CellsAccounted,
           NEW x \in Exchanges, NEW i \in Ips, RateLimited(x, i)
    PROVE  CellsAccounted'
  <1>. USE DEF RateLimited, Answer
  <1>1. ip[x] = NoIp /\ answer'[x].kind = "too_many"
    BY DEF ExchangeState, TypeOK, Reply
  <1>2. \A j \in Ips : Admitted(j)' = Admitted(j)
    BY <1>1 DEF Admitted, FromIp, TypeOK
  <1>3. \A j \in Ips \ {i} : FromIp(j)' = FromIp(j)
    BY <1>1 DEF FromIp, TypeOK
  <1>4. Cardinality(Admitted(i)) >= Burst
    BY AdmittedFinite, BurstPositive DEF CellsAccounted, WithinBudget, TypeOK
  <1>. QED  BY <1>2, <1>3, <1>4 DEF CellsAccounted

(* Time gives a cell back.                                                  *)
LEMMA CellReplenished ==
    ASSUME TypeOK, CellsAccounted, NEW i \in Ips, Replenish(i)
    PROVE  CellsAccounted'
  <1>1. \A j \in Ips : Admitted(j)' = Admitted(j) /\ FromIp(j)' = FromIp(j)
    BY DEF Replenish, Admitted, FromIp
  <1>2. \A j \in Ips : Cardinality(Admitted(j)) \in Nat
    BY AdmittedFinite
  <1>3. ASSUME NEW j \in Ips
        PROVE  Cardinality(Admitted(j)) + limiter'[j] = Burst + refills'[j]
    <2>1. limiter[j] \in Nat /\ refills[j] \in Nat
      BY BurstPositive DEF TypeOK
    <2>2. /\ limiter'[j] = IF j = i THEN limiter[j] + 1 ELSE limiter[j]
          /\ refills'[j] = IF j = i THEN refills[j] + 1 ELSE refills[j]
      BY DEF Replenish, TypeOK
    <2>. QED  BY <1>2, <2>1, <2>2, BurstPositive DEF CellsAccounted
  <1>. QED  BY <1>1, <1>3 DEF CellsAccounted

(* Every step of an HTTP exchange preserves the HTTP part.                  *)
LEMMA HttpStep ==
    ASSUME IndInv, ServeHttp
    PROVE  HttpInv'
  <1>. USE DEF IndInv, HttpInv
  <1>. serving = "http" /\ serving' = "http"
    BY DEF ServeHttp
  <1>1. ASSUME NEW i \in Ips, Replenish(i) PROVE HttpInv'
    <2>. USE <1>1 DEF Replenish
    <2>1. TypeOK'
      BY BurstPositive DEF TypeOK, Phases, Answers
    <2>2. ExchangeState'
      BY DEF TypeOK, ExchangeState
    <2>3. FlagState'
      BY DEF TypeOK, ExchangeState, FlagState, Initializes, Initialize, NoBody, None, Refused, Reply
    <2>4. FlagHasCause'
      BY DEF TypeOK, ExchangeState, FlagHasCause, Initializes, Initialize, NoBody
    <2>5. CellsAccounted'
      BY CellReplenished DEF TypeOK, ExchangeState, None, Reply
    <2>6. AuditAgrees'
      BY DEF TypeOK, ExchangeState, AuditAgrees, NoBody, Others
    <2>. QED  BY <2>1, <2>2, <2>3, <2>4, <2>5, <2>6
  <1>2. ASSUME NEW x \in Exchanges, NEW i \in Ips, RateLimited(x, i) PROVE HttpInv'
    <2>. USE <1>2 DEF RateLimited, Answer
    <2>1. TypeOK'
      BY BurstPositive DEF TypeOK, Phases, Answers
    <2>2. ExchangeState'
      BY DEF TypeOK, ExchangeState
    <2>3. FlagState'
      BY DEF TypeOK, ExchangeState, FlagState, Initializes, Initialize, NoBody, None, Refused, Reply
    <2>4. FlagHasCause'
      BY DEF TypeOK, ExchangeState, FlagHasCause, Initializes, Initialize, NoBody
    <2>5. CellsAccounted'
      BY RefusalAccounted DEF TypeOK, ExchangeState, None, Reply
    <2>6. AuditAgrees'
      BY DEF TypeOK, ExchangeState, AuditAgrees, NoBody, Others
    <2>. QED  BY <2>1, <2>2, <2>3, <2>4, <2>5, <2>6
  <1>3. ASSUME NEW x \in Exchanges, NEW i \in Ips, DemoStream(x, i) PROVE HttpInv'
    <2>. USE <1>3 DEF DemoStream, Answer
    <2>1. TypeOK'
      BY BurstPositive DEF TypeOK, Phases, Answers, CheckKey, WithinBudget
    <2>2. ExchangeState'
      BY DEF TypeOK, ExchangeState
    <2>3. FlagState'
      BY DEF TypeOK, ExchangeState, FlagState, Initializes, Initialize, NoBody, None, Refused, Reply
    <2>4. FlagHasCause'
      BY DEF TypeOK, ExchangeState, FlagHasCause, Initializes, Initialize, NoBody
    <2>5. CellsAccounted'
      BY CellSpent DEF TypeOK, ExchangeState, None, Reply
    <2>6. AuditAgrees'
      BY DEF TypeOK, ExchangeState, AuditAgrees, NoBody, Others
    <2>. QED  BY <2>1, <2>2, <2>3, <2>4, <2>5, <2>6
  <1>4. ASSUME NEW x \in Exchanges, NEW i \in Ips, NEW token \in Presented,
               Unauthorized(x, i, token) PROVE HttpInv'
    <2>. USE <1>4 DEF Unauthorized, Answer
    <2>1. TypeOK'
      BY BurstPositive DEF TypeOK, Phases, Answers, CheckKey, WithinBudget
    <2>2. ExchangeState'
      BY DEF TypeOK, ExchangeState
    <2>3. FlagState'
      BY DEF TypeOK, ExchangeState, FlagState, Initializes, Initialize, NoBody, None, Refused, Reply
    <2>4. FlagHasCause'
      BY DEF TypeOK, ExchangeState, FlagHasCause, Initializes, Initialize, NoBody
    <2>5. CellsAccounted'
      BY CellSpent DEF TypeOK, ExchangeState, None, Reply
    <2>6. AuditAgrees'
      BY DEF TypeOK, ExchangeState, AuditAgrees, NoBody, Others
    <2>. QED  BY <2>1, <2>2, <2>3, <2>4, <2>5, <2>6
  <1>5. ASSUME NEW x \in Exchanges, NEW i \in Ips, NEW token \in Presented,
               Authorized(x, i, token) PROVE HttpInv'
    <2>. USE <1>5 DEF Authorized
    <2>1. TypeOK'
      BY BurstPositive DEF TypeOK, Phases, Answers, CheckKey, WithinBudget
    <2>2. ExchangeState'
      BY DEF TypeOK, ExchangeState
    <2>3. FlagState'
      BY DEF TypeOK, ExchangeState, FlagState, Initializes, Initialize, NoBody, None, Refused, Reply
    <2>4. FlagHasCause'
      BY DEF TypeOK, ExchangeState, FlagHasCause, Initializes, Initialize, NoBody
    <2>5. CellsAccounted'
      <3>1. answer'[x].kind # "too_many"
        BY DEF ExchangeState, None, Reply
      <3>2. \A y \in Exchanges \ {x} : answer'[y] = answer[y]
        OBVIOUS
      <3>. QED  BY <3>1, <3>2, CellSpent
    <2>6. AuditAgrees'
      BY DEF TypeOK, ExchangeState, AuditAgrees, NoBody, Others
    <2>. QED  BY <2>1, <2>2, <2>3, <2>4, <2>5, <2>6
  <1>6. ASSUME NEW x \in Exchanges, NEW b \in Others, OtherBody(x, b) PROVE HttpInv'
    <2>. USE <1>6 DEF OtherBody, Answer
    <2>0. b.kind # "request" /\ x \notin late \cup ran
      BY DEF Others, ExchangeState
    <2>1. TypeOK'
      BY BurstPositive DEF TypeOK, Phases, Answers, Replies, Codes, Reply
    <2>2. ExchangeState'
      BY DEF TypeOK, ExchangeState
    <2>3. FlagState'
      BY <2>0 DEF TypeOK, FlagState, Initializes, Initialize
    <2>4. FlagHasCause'
      BY DEF TypeOK, FlagHasCause, Initializes, Initialize
    <2>5. CellsAccounted'
      <3>1. answer[x].kind # "too_many"
        BY DEF ExchangeState, None, Reply
      <3>2. answer'[x] \in {Reply("error", "invalid_request"), Reply("accepted", "ok")}
        BY DEF TypeOK
      <3>3. answer'[x].kind # "too_many"
        BY <3>2 DEF Reply
      <3>. QED  BY <3>1, <3>3, AccountsKept DEF TypeOK
    <2>6. AuditAgrees'
      BY <2>0 DEF TypeOK, ExchangeState, AuditAgrees
    <2>. QED  BY <2>1, <2>2, <2>3, <2>4, <2>5, <2>6
  <1>7. ASSUME NEW x \in Exchanges, NEW q \in Requests, Dispatch(x, q) PROVE HttpInv'
    <2>. USE <1>7 DEF Dispatch
    <2>. DEFINE o == [reply |-> ReplyOf(Refusal(q, initialized)), code |-> Refusal(q, initialized)]
    <2>0. initialized \in BOOLEAN /\ initialized' \in BOOLEAN
      BY DEF TypeOK
    <2>a. Agrees(o) /\ (initialized => o.reply # Refused)
      BY <2>0, DispatchAgrees
    <2>b. late' \subseteq late \cup {x} /\ (x \in late' \ late => InitializeAnswered)
      BY DEF NoteLate
    <2>c. outcome' = [outcome EXCEPT ![x] = o]
      OBVIOUS
    <2>d. x \notin late \cup ran /\ answer[x] = None /\ audit[x] = <<>>
      BY DEF ExchangeState
    <2>e. InitializeAnswered => initialized
      BY DEF InitializeAnswered, FlagState, Initializes
    <2>f. q.kind = "request"
      BY <2>0, RefusalFacts
    <2>. HIDE DEF o
    <2>1. TypeOK'
      BY <2>0, <2>a, <2>b, <2>c DEF TypeOK, Phases, Agrees
    <2>2. ExchangeState'
      BY <2>a, <2>b, <2>c, <2>d, <2>f DEF TypeOK, ExchangeState
    <2>3. FlagState'
      <3>1. ASSUME NEW y \in Exchanges, y # x
            PROVE  /\ phase'[y] = phase[y] /\ body'[y] = body[y] /\ outcome'[y] = outcome[y]
                   /\ y \in late' => y \in late
        BY <2>b, <2>c, <3>1 DEF TypeOK
      <3>2. initialized => initialized'
        OBVIOUS
      <3>3. ASSUME NEW y \in Exchanges, y # x
            PROVE  /\ phase'[y] = "tool" => initialized'
                   /\ y \in ran' => initialized'
                   /\ Initializes(y)' => initialized'
                   /\ y \in late' => answer'[y] # Refused
                   /\ y \in late' /\ phase'[y] \in {"dispatched", "audited"}
                         => outcome'[y].reply # Refused
        BY <3>1, <3>2, <3>3 DEF FlagState, Initializes, Initialize
      <3>4. phase'[x] = "dispatched" /\ body'[x] = q /\ outcome'[x] = o /\ answer'[x] = None
        BY <2>c, <2>d DEF TypeOK
      <3>5. None # Refused
        BY DEF None, Refused, Reply
      <3>6. /\ Initializes(x)' => initialized'
            /\ x \in late' => outcome'[x].reply # Refused
        BY <2>a, <2>b, <2>d, <2>e, <3>4 DEF Initializes, Initialize
      <3>. QED  BY <2>d, <3>3, <3>4, <3>5, <3>6 DEF FlagState
    <2>4. FlagHasCause'
      <3>1. CASE q.method = "initialize"
        <4>1. Initializes(x)'
          BY <2>f, <3>1 DEF TypeOK, Initializes, Initialize
        <4>. QED  BY <4>1 DEF FlagHasCause
      <3>2. CASE q.method # "initialize" /\ initialized
        <4>1. PICK y \in Exchanges : Initializes(y)
          BY <3>2 DEF FlagHasCause
        <4>2. y # x
          BY <4>1 DEF Initializes
        <4>3. Initializes(y)'
          BY <4>1, <4>2 DEF TypeOK, Initializes, Initialize
        <4>. QED  BY <4>3 DEF FlagHasCause
      <3>3. CASE q.method # "initialize" /\ ~initialized
        BY <3>3 DEF FlagHasCause
      <3>. QED  BY <2>0, <3>1, <3>2, <3>3
    <2>5. CellsAccounted'
      BY AccountsKept
    <2>6. AuditAgrees'
      BY <2>d, <2>f DEF TypeOK, ExchangeState, AuditAgrees
    <2>. QED  BY <2>1, <2>2, <2>3, <2>4, <2>5, <2>6
  <1>8. ASSUME NEW x \in Exchanges, NEW q \in Requests, CallBegins(x, q) PROVE HttpInv'
    <2>. USE <1>8 DEF CallBegins
    <2>1. TypeOK'
      BY RefusalFacts, BurstPositive DEF TypeOK, Phases, Answers, NoteLate
    <2>2. ExchangeState'
      BY RefusalFacts DEF TypeOK, ExchangeState, NoteLate
    <2>3. FlagState'
      BY RefusalFacts DEF TypeOK, ExchangeState, FlagState, Initializes, Initialize, None,
         Refused, Reply, NoteLate
    <2>4. FlagHasCause'
      BY RefusalFacts DEF TypeOK, ExchangeState, FlagHasCause, Initializes, Initialize, NoBody
    <2>5. CellsAccounted'
      BY AccountsKept
    <2>6. AuditAgrees'
      BY RefusalFacts DEF TypeOK, ExchangeState, AuditAgrees
    <2>. QED  BY <2>1, <2>2, <2>3, <2>4, <2>5, <2>6
  <1>9. ASSUME NEW x \in Exchanges, ToolWorks(x) PROVE HttpInv'
    <2>. USE <1>9 DEF ToolWorks
    <2>1. TypeOK'
      BY DEF TypeOK
    <2>2. ExchangeState'
      BY DEF TypeOK, ExchangeState
    <2>3. FlagState'
      BY DEF TypeOK, FlagState, Initializes, Initialize
    <2>4. FlagHasCause'
      BY DEF FlagHasCause, Initializes, Initialize
    <2>5. CellsAccounted'
      BY AccountsKept
    <2>6. AuditAgrees'
      BY DEF AuditAgrees
    <2>. QED  BY <2>1, <2>2, <2>3, <2>4, <2>5, <2>6
  <1>10. ASSUME NEW x \in Exchanges, NEW r \in ToolResults, ToolReturns(x, r) PROVE HttpInv'
    <2>. USE <1>10 DEF ToolReturns
    <2>. DEFINE o == [reply |-> ToolReply(r), code |-> ToolCode(r)]
    <2>a. Agrees(o) /\ o.reply # Refused
      BY ToolAgrees
    <2>b. outcome' = [outcome EXCEPT ![x] = o]
      OBVIOUS
    <2>. HIDE DEF o
    <2>1. TypeOK'
      BY <2>a, <2>b DEF TypeOK, Phases, Agrees
    <2>2. ExchangeState'
      BY <2>a, <2>b DEF TypeOK, ExchangeState
    <2>3. FlagState'
      BY <2>a, <2>b DEF TypeOK, FlagState, Initializes, Initialize
    <2>4. FlagHasCause'
      BY DEF TypeOK, FlagHasCause, Initializes, Initialize
    <2>5. CellsAccounted'
      BY AccountsKept
    <2>6. AuditAgrees'
      BY DEF TypeOK, ExchangeState, AuditAgrees
    <2>. QED  BY <2>1, <2>2, <2>3, <2>4, <2>5, <2>6
  <1>11. ASSUME NEW x \in Exchanges, Record(x) PROVE HttpInv'
    <2>. USE <1>11 DEF Record
    <2>a. Agrees(outcome[x]) /\ audit[x] = <<>> /\ body[x].kind = "request"
      BY DEF ExchangeState
    <2>b. outcome[x].code \in Codes
      BY <2>a DEF Agrees, Outcomes
    <2>c. audit' = [audit EXCEPT ![x] = Append(<<>>, outcome[x].code)]
      BY <2>a
    <2>d. Append(<<>>, outcome[x].code) \in Seq(Codes)
      BY <2>b
    <2>e. /\ Len(Append(<<>>, outcome[x].code)) = 1
          /\ Append(<<>>, outcome[x].code)[1] = outcome[x].code
      BY <2>b, FirstRecord
    <2>1. TypeOK'
      BY <2>c, <2>d DEF TypeOK, Phases
    <2>2. ExchangeState'
      BY <2>c, <2>e DEF TypeOK, ExchangeState
    <2>3. FlagState'
      BY DEF TypeOK, FlagState, Initializes, Initialize
    <2>4. FlagHasCause'
      BY DEF TypeOK, FlagHasCause, Initializes, Initialize
    <2>5. CellsAccounted'
      BY AccountsKept
    <2>6. AuditAgrees'
      BY <2>a DEF TypeOK, AuditAgrees
    <2>. QED  BY <2>1, <2>2, <2>3, <2>4, <2>5, <2>6
  <1>12. ASSUME NEW x \in Exchanges, Respond(x) PROVE HttpInv'
    <2>. USE <1>12 DEF Respond, Answer
    <2>a. Agrees(outcome[x]) /\ Len(audit[x]) = 1 /\ audit[x][1] = outcome[x].code
      BY DEF ExchangeState
    <2>b. outcome[x].reply \in Replies /\ outcome[x].reply.kind # "too_many"
      BY <2>a DEF Agrees, Outcomes
    <2>c. answer[x].kind # "too_many" /\ body[x].kind = "request"
      BY DEF ExchangeState, None, Reply
    <2>1. TypeOK'
      BY <2>b DEF TypeOK, Phases, Answers
    <2>2. ExchangeState'
      BY DEF TypeOK, ExchangeState
    <2>3. FlagState'
      BY DEF TypeOK, FlagState, Initializes, Initialize
    <2>4. FlagHasCause'
      BY DEF TypeOK, FlagHasCause, Initializes, Initialize
    <2>5. CellsAccounted'
      BY <2>b, <2>c, AccountsKept DEF TypeOK
    <2>6. AuditAgrees'
      BY <2>a, <2>c DEF TypeOK, AuditAgrees, Agrees
    <2>. QED  BY <2>1, <2>2, <2>3, <2>4, <2>5, <2>6
  <1>13. ASSUME NEW x \in Exchanges, ClientGone(x) PROVE HttpInv'
    <2>. USE <1>13 DEF ClientGone
    <2>1. TypeOK'
      BY DEF TypeOK, Phases
    <2>2. ExchangeState'
      BY DEF TypeOK, ExchangeState
    <2>3. FlagState'
      BY DEF TypeOK, FlagState, Initializes, Initialize
    <2>4. FlagHasCause'
      BY DEF TypeOK, FlagHasCause, Initializes, Initialize
    <2>5. CellsAccounted'
      BY AccountsKept
    <2>6. AuditAgrees'
      BY DEF TypeOK, AuditAgrees
    <2>. QED  BY <2>1, <2>2, <2>3, <2>4, <2>5, <2>6
  <1>. QED
    BY <1>1, <1>2, <1>3, <1>4, <1>5, <1>6, <1>7, <1>8, <1>9, <1>10, <1>11, <1>12, <1>13
       DEF ServeHttp, Next

(* The stdio transport uses the same session.                               *)
LEMMA SameSession ==
    /\ Stdio!Requests = Requests /\ Stdio!Others = Others
    /\ Stdio!Replies = Replies /\ Stdio!Codes = Codes
    /\ Stdio!ToolResults = ToolResults
    /\ \A q, i : /\ Stdio!RunsTool(q, i) <=> RunsTool(q, i)
                 /\ Stdio!Refusal(q, i) = Refusal(q, i)
    /\ \A c : Stdio!ReplyOf(c) = ReplyOf(c)
    /\ \A r : Stdio!ToolReply(r) = ToolReply(r) /\ Stdio!ToolCode(r) = ToolCode(r)
    /\ \A k, c : Stdio!Reply(k, c) = Reply(k, c)
  BY DEF Stdio!Requests, Requests, Stdio!Methods, Methods, Stdio!CallParams, CallParams,
         Stdio!Others, Others, Stdio!Replies, Replies, Stdio!Codes, Codes,
         Stdio!ToolResults, ToolResults, Stdio!RunsTool, RunsTool, Stdio!Refusal, Refusal,
         Stdio!CallRefusal, CallRefusal, Stdio!ReplyOf, ReplyOf, Stdio!ToolReply, ToolReply,
         Stdio!ToolCode, ToolCode, Stdio!Reply, Reply, Stdio!Success, Success

(* A record about a line after all those recorded keeps the order.          *)
LEMMA InOrderAppend ==
    ASSUME NEW S, NEW s \in Seq(S), NEW e \in S, NEW lines,
           \A r \in S : r.line \in Nat,
           Stdio!InOrder(s, lines),
           \A i \in lines : i < e.line
    PROVE  Stdio!InOrder(Append(s, e), lines \cup {e.line})
  <1>. DEFINE t == Append(s, e)
  <1>1. /\ Len(s) \in Nat /\ DOMAIN s = 1 .. Len(s)
        /\ DOMAIN t = 1 .. Len(s) + 1
        /\ t[Len(s) + 1] = e
        /\ \A k \in 1 .. Len(s) : t[k] = s[k]
    BY LenProperties
  <1>2. \A k \in 1 .. Len(s) : s[k].line \in lines
    BY <1>1 DEF Stdio!InOrder
  <1>. HIDE DEF t
  <1>3. ASSUME NEW j \in DOMAIN t, NEW k \in DOMAIN t, j < k
        PROVE  t[j].line < t[k].line
    <2>1. CASE k = Len(s) + 1
      BY <1>1, <1>2, <1>3, <2>1
    <2>2. CASE k \in 1 .. Len(s)
      BY <1>1, <1>3, <2>2 DEF Stdio!InOrder
    <2>. QED  BY <1>1, <2>1, <2>2
  <1>4. {t[k].line : k \in DOMAIN t} = lines \cup {e.line}
    <2>1. ASSUME NEW k \in DOMAIN t PROVE t[k].line \in lines \cup {e.line}
      <3>1. k = Len(s) + 1 \/ k \in 1 .. Len(s)
        BY <1>1
      <3>. QED  BY <1>1, <1>2, <3>1
    <2>2. ASSUME NEW i \in lines PROVE \E k \in DOMAIN t : t[k].line = i
      <3>1. PICK k \in DOMAIN s : s[k].line = i
        BY DEF Stdio!InOrder
      <3>. QED  BY <1>1, <3>1
    <2>3. \E k \in DOMAIN t : t[k].line = e.line
      <3>1. Len(s) + 1 \in DOMAIN t
        BY <1>1
      <3>. QED  BY <1>1, <3>1
    <2>. QED  BY <2>1, <2>2, <2>3
  <1>. QED  BY <1>3, <1>4 DEF Stdio!InOrder, t

(* Reading a line changes nothing about the lines before it.                *)
LEMMA LineRead ==
    ASSUME Stdio!TypeOK, NEW l \in Stdio!Lines, Stdio!ReadLine(l)
    PROVE  /\ Len(read) \in Nat /\ Len(read') = Len(read) + 1
           /\ read' \in Seq(Stdio!Lines)
           /\ read'[Len(read) + 1] = l
           /\ \A j \in 1 .. Len(read) : read'[j] = read[j]
           /\ out \in Seq([line : 1 .. Len(read'), reply : Replies])
           /\ line_audit \in Seq([line : 1 .. Len(read'), code : Codes])
  <1>1. /\ Len(read) \in Nat /\ Len(read') = Len(read) + 1
        /\ read' \in Seq(Stdio!Lines)
        /\ read'[Len(read) + 1] = l
        /\ \A j \in 1 .. Len(read) : read'[j] = read[j]
    BY LenProperties DEF Stdio!TypeOK, Stdio!ReadLine
  <1>2. /\ [line : 1 .. Len(read), reply : Replies] \subseteq [line : 1 .. Len(read'), reply : Replies]
        /\ [line : 1 .. Len(read), code : Codes] \subseteq [line : 1 .. Len(read'), code : Codes]
    BY <1>1
  <1>. QED  BY <1>1, <1>2, SeqMonotonic, SameSession DEF Stdio!TypeOK

(* Reading a line that is not answered at once leaves the replies in order. *)
LEMMA RepliesKept ==
    ASSUME Stdio!TypeOK, LinesServed, UNCHANGED out,
           NEW l \in Stdio!Lines, Stdio!ReadLine(l),
           \/ pc' \in {"write", "tool"}
           \/ pc' = "read" /\ l.kind \notin {"request", "undecodable"}
    PROVE  RepliesExact' /\ Stdio!InitializeTakesEffectInOrder'
  <1>. DEFINE K == {"request", "undecodable"}
  <1>1. Stdio!InOrder(out, {i \in 1 .. Len(read) : read[i].kind \in K})
    BY DEF Stdio!ReadLine, Stdio!Completed, LinesServed,
           RepliesExact
  <1>2. ASSUME NEW k \in DOMAIN out
        PROVE  /\ read'[out[k].line] = read[out[k].line]
               /\ \A j \in 1 .. out[k].line - 1 : read'[j] = read[j]
    <2>1. out[k].line \in 1 .. Len(read)
      BY <1>1 DEF Stdio!InOrder
    <2>. QED  BY <2>1, LineRead
  <1>3. Stdio!InitializeTakesEffectInOrder'
    BY <1>2 DEF LinesServed, Stdio!InitializeTakesEffectInOrder
  <1>4. {i \in 1 .. Stdio!Completed' : read'[i].kind \in K} = {i \in 1 .. Len(read) : read[i].kind \in K}
    <2>1. CASE pc' \in {"write", "tool"}
      BY <2>1, LineRead DEF Stdio!Completed
    <2>2. CASE pc' = "read" /\ l.kind \notin K
      BY <2>2, LineRead DEF Stdio!Completed
    <2>. QED  BY <2>1, <2>2
  <1>5. RepliesExact'
    BY <1>1, <1>4 DEF RepliesExact, Stdio!InOrder
  <1>. QED  BY <1>3, <1>5

(* Reading a line that is not dispatched at once leaves the records in      *)
(* order.                                                                   *)
LEMMA RecordsKept ==
    ASSUME Stdio!TypeOK, LinesServed, UNCHANGED line_audit,
           NEW l \in Stdio!Lines, Stdio!ReadLine(l),
           pc' = "tool" \/ l.kind # "request"
    PROVE  Stdio!AuditInOrder'
  <1>1. Stdio!InOrder(line_audit, {i \in 1 .. Len(read) : read[i].kind = "request"})
    BY DEF Stdio!ReadLine, Stdio!Handled, LinesServed,
           Stdio!AuditInOrder
  <1>2. {i \in 1 .. Stdio!Handled' : read'[i].kind = "request"}
           = {i \in 1 .. Len(read) : read[i].kind = "request"}
    <2>1. CASE pc' = "tool"
      BY <2>1, LineRead DEF Stdio!Handled
    <2>2. CASE pc' # "tool" /\ l.kind # "request"
      BY <2>2, LineRead DEF Stdio!Handled
    <2>. QED  BY <2>1, <2>2
  <1>. QED  BY <1>1, <1>2 DEF Stdio!AuditInOrder, Stdio!InOrder

(* Every step of the stdio loop preserves the stdio part.                   *)
LEMMA StdioStep ==
    ASSUME IndInv, ServeStdio
    PROVE  StdioInv'
  <1>. USE DEF IndInv, StdioInv
  <1>. serving = "stdio" /\ serving' = "stdio"
    BY DEF ServeStdio
  <1>. USE SameSession
  <1>0. /\ Len(read) \in Nat
        /\ initialized \in BOOLEAN
    BY DEF Stdio!TypeOK, HttpInv, TypeOK
  <1>1. ASSUME NEW l \in Stdio!Lines, Stdio!Skip(l) PROVE StdioInv'
    <2>. USE <1>1 DEF Stdio!Skip
    <2>1. l.kind \notin {"request", "undecodable"} /\ l.method # "initialize"
      BY DEF Stdio!Skipped
    <2>2. Stdio!TypeOK'
      BY LineRead DEF Stdio!TypeOK
    <2>3. LineState'
      BY <2>1, <1>0, LineRead DEF LineState, InitializeRead, Stdio!ReadLine
    <2>4. LinesServed'
      BY <2>1, RepliesKept, RecordsKept
         DEF LinesServed, Stdio!ReadLine
    <2>. QED  BY <2>2, <2>3, <2>4
  <1>2. ASSUME NEW l \in Stdio!Lines, Stdio!OtherMessage(l) PROVE StdioInv'
    <2>. USE <1>2 DEF Stdio!OtherMessage
    <2>1. l.kind \in {"notification", "response", "undecodable"} /\ l.method = "other"
      BY DEF Others
    <2>2. Stdio!TypeOK'
      BY LineRead DEF Stdio!TypeOK, Replies, Codes, Reply
    <2>3. LineState'
      BY <2>1, <1>0, LineRead DEF LineState, InitializeRead, Stdio!ReadLine, Suits, Replies, Codes
    <2>4. LinesServed'
      BY <2>1, RepliesKept, RecordsKept
         DEF LinesServed, Stdio!ReadLine
    <2>. QED  BY <2>2, <2>3, <2>4
  <1>3. ASSUME NEW l \in Stdio!Lines, Stdio!Request(l) PROVE StdioInv'
    <2>. USE <1>3 DEF Stdio!Request
    <2>. DEFINE e == [line |-> Len(read'), code |-> Refusal(l, initialized)]
    <2>1. /\ l \in Requests /\ l.kind = "request" /\ Refusal(l, initialized) \in Codes
          /\ ReplyOf(Refusal(l, initialized)) \in Replies
      BY <1>0, RefusalFacts, ReplyFacts
    <2>2. /\ line_audit' = Append(line_audit, e)
          /\ reply' = ReplyOf(Refusal(l, initialized))
      OBVIOUS
    <2>3. /\ initialized' \in BOOLEAN
          /\ initialized' <=> (initialized \/ l.method = "initialize")
      BY <1>0, Zenon
    <2>4. Stdio!TypeOK'
      <3>. DEFINE S == [line : 1 .. Len(read'), code : Codes]
      <3>1. e \in S
        BY <2>1, LineRead
      <3>2. line_audit' \in Seq(S)
        <4>1. line_audit \in Seq(S)
          BY LineRead
        <4>. HIDE DEF S, e
        <4>. QED  BY <2>2, <3>1, <4>1
      <3>. QED  BY <2>1, <2>2, <2>3, <3>2, LineRead DEF Stdio!TypeOK
    <2>5. LineState'
      <3>1. /\ Len(read') = Len(read) + 1 /\ read'[Len(read) + 1] = l
            /\ \A j \in 1 .. Len(read) : read'[j] = read[j]
        BY LineRead
      <3>2. initialized <=> InitializeRead(Len(read))
        BY DEF LineState
      <3>3. InitializeRead(Len(read) - 1)' <=> InitializeRead(Len(read))
        BY <1>0, <3>1 DEF InitializeRead
      <3>4. InitializeRead(Len(read))' <=> InitializeRead(Len(read)) \/ l.method = "initialize"
        BY <1>0, <3>1 DEF InitializeRead
      <3>5. Suits(reply, Len(read))'
        BY <1>0, <2>1, <2>2, <3>1, <3>2, <3>3, RefusalFacts, ReplyFacts DEF Suits
      <3>. QED  BY <1>0, <2>1, <2>2, <2>3, <3>1, <3>2, <3>4, <3>5 DEF LineState
    <2>6. LinesServed'
      <3>1. RepliesExact' /\ Stdio!InitializeTakesEffectInOrder'
        BY RepliesKept
      <3>2. Stdio!AuditInOrder'
        <4>. DEFINE S == [line : 1 .. Len(read'), code : Codes]
                    L == {i \in 1 .. Len(read) : read[i].kind = "request"}
        <4>1. Stdio!InOrder(line_audit, L)
          BY DEF Stdio!ReadLine, Stdio!Handled, LinesServed,
                 Stdio!AuditInOrder
        <4>2. /\ line_audit \in Seq(S)
              /\ e \in S
          <5>1. line_audit \in Seq(S)
            BY LineRead
          <5>2. e \in S
            BY <2>1, LineRead
          <5>. QED  BY <5>1, <5>2
        <4>3. (\A r \in S : r.line \in Nat) /\ (\A i \in L : i < e.line) /\ e.line = Len(read')
          BY LineRead
        <4>. HIDE DEF S, e, L
        <4>4. Stdio!InOrder(line_audit', L \cup {Len(read')})
          BY <2>2, <4>1, <4>2, <4>3, InOrderAppend
        <4>5. {i \in 1 .. Stdio!Handled' : read'[i].kind = "request"} = L \cup {Len(read')}
          BY <2>1, LineRead DEF Stdio!Handled, L
        <4>. QED  BY <4>4, <4>5 DEF Stdio!AuditInOrder, Stdio!InOrder
      <3>. QED  BY <3>1, <3>2 DEF LinesServed
    <2>. QED  BY <2>4, <2>5, <2>6
  <1>4. ASSUME NEW l \in Stdio!Lines, Stdio!ToolCall(l) PROVE StdioInv'
    <2>. USE <1>4 DEF Stdio!ToolCall
    <2>1. initialized /\ l.kind = "request" /\ l.method = "tools/call"
      BY <1>0, RefusalFacts
    <2>2. Stdio!TypeOK'
      BY LineRead DEF Stdio!TypeOK
    <2>3. LineState'
      BY <2>1, <1>0, LineRead DEF LineState, InitializeRead, Stdio!ReadLine
    <2>4. LinesServed'
      BY <2>1, RepliesKept, RecordsKept
         DEF LinesServed, Stdio!ReadLine
    <2>. QED  BY <2>2, <2>3, <2>4
  <1>5. ASSUME NEW r \in ToolResults, Stdio!ToolReturns(r) PROVE StdioInv'
    <2>. USE <1>5 DEF Stdio!ToolReturns
    <2>1. Len(read) > 0 /\ read[Len(read)].kind = "request" /\ InitializeRead(Len(read) - 1)
      BY DEF LineState
    <2>2. Stdio!TypeOK'
      BY <1>0, <2>1, ToolFacts DEF Stdio!TypeOK
    <2>3. LineState'
      BY <1>0, <2>1, ToolFacts DEF LineState, InitializeRead, Suits, Reply
    <2>4. LinesServed'
      <3>1. RepliesExact' /\ Stdio!InitializeTakesEffectInOrder'
        BY DEF LinesServed, RepliesExact, Stdio!InOrder,
           Stdio!InitializeTakesEffectInOrder, Stdio!Completed
      <3>2. Stdio!AuditInOrder'
        <4>. DEFINE S == [line : 1 .. Len(read), code : Codes]
                    e == [line |-> Len(read), code |-> ToolCode(r)]
                    L == {i \in 1 .. Len(read) - 1 : read[i].kind = "request"}
        <4>1. Stdio!InOrder(line_audit, L)
          BY DEF Stdio!Handled, LinesServed, Stdio!AuditInOrder
        <4>2. line_audit \in Seq(S) /\ e \in S /\ line_audit' = Append(line_audit, e)
          BY <1>0, <2>1, ToolFacts DEF Stdio!TypeOK
        <4>3. (\A x \in S : x.line \in Nat) /\ (\A i \in L : i < e.line) /\ e.line = Len(read)
          BY <1>0
        <4>. HIDE DEF S, e, L
        <4>4. Stdio!InOrder(line_audit', L \cup {Len(read)})
          BY <4>1, <4>2, <4>3, InOrderAppend
        <4>5. {i \in 1 .. Stdio!Handled' : read'[i].kind = "request"} = L \cup {Len(read)}
          BY <1>0, <2>1 DEF Stdio!Handled, L
        <4>. QED  BY <4>4, <4>5 DEF Stdio!AuditInOrder, Stdio!InOrder
      <3>. QED  BY <3>1, <3>2 DEF LinesServed
    <2>. QED  BY <2>2, <2>3, <2>4
  <1>6. ASSUME Stdio!WriteReply PROVE StdioInv'
    <2>. USE <1>6 DEF Stdio!WriteReply
    <2>1. Len(read) > 0 /\ read[Len(read)].kind \in {"request", "undecodable"} /\ reply \in Replies
      BY DEF LineState
    <2>2. Stdio!TypeOK'
      BY <1>0, <2>1 DEF Stdio!TypeOK
    <2>3. LineState'
      BY DEF LineState, InitializeRead
    <2>4. LinesServed'
      <3>. DEFINE S == [line : 1 .. Len(read), reply : Replies]
                  e == [line |-> Len(read), reply |-> reply]
                  K == {"request", "undecodable"}
                  L == {i \in 1 .. Len(read) - 1 : read[i].kind \in K}
      <3>1. out \in Seq(S) /\ e \in S /\ out' = Append(out, e)
        BY <1>0, <2>1 DEF Stdio!TypeOK
      <3>2. RepliesExact'
        <4>1. Stdio!InOrder(out, L)
          BY DEF Stdio!Completed, LinesServed, RepliesExact
        <4>2. (\A x \in S : x.line \in Nat) /\ (\A i \in L : i < e.line) /\ e.line = Len(read)
          BY <1>0
        <4>. HIDE DEF S, e, L
        <4>3. Stdio!InOrder(out', L \cup {Len(read)})
          BY <3>1, <4>1, <4>2, InOrderAppend
        <4>4. {i \in 1 .. Stdio!Completed' : read'[i].kind \in K} = L \cup {Len(read)}
          BY <1>0, <2>1 DEF Stdio!Completed, L
        <4>. QED  BY <4>3, <4>4 DEF RepliesExact, Stdio!InOrder
      <3>3. Stdio!InitializeTakesEffectInOrder'
        <4>1. /\ Len(out) \in Nat /\ DOMAIN out = 1 .. Len(out)
              /\ DOMAIN out' = 1 .. Len(out) + 1
              /\ out'[Len(out) + 1] = e
              /\ \A k \in 1 .. Len(out) : out'[k] = out[k]
          BY <3>1, LenProperties
        <4>2. Suits(reply, Len(read))
          BY DEF LineState
        <4>. QED
          BY <4>1, <4>2 DEF LinesServed,
             Stdio!InitializeTakesEffectInOrder, Suits, InitializeRead
      <3>4. Stdio!AuditInOrder'
        BY DEF LinesServed, Stdio!AuditInOrder, Stdio!InOrder,
           Stdio!Handled
      <3>. QED  BY <3>2, <3>3, <3>4 DEF LinesServed
    <2>. QED  BY <2>2, <2>3, <2>4
  <1>7. ASSUME Stdio!WriteFails \/ Stdio!Eof PROVE StdioInv'
    <2>. USE <1>7 DEF Stdio!WriteFails, Stdio!Eof
    <2>1. Stdio!TypeOK'
      BY DEF Stdio!TypeOK
    <2>2. LineState'
      BY DEF LineState, InitializeRead
    <2>3. LinesServed'
      BY DEF LinesServed, RepliesExact, Stdio!InOrder,
         Stdio!AuditInOrder, Stdio!InitializeTakesEffectInOrder, Stdio!Completed, Stdio!Handled
    <2>. QED  BY <2>1, <2>2, <2>3
  <1>. QED
    BY <1>1, <1>2, <1>3, <1>4, <1>5, <1>6, <1>7 DEF ServeStdio, Stdio!Next

(* The inductive invariant holds initially: nothing was read, no address    *)
(* has spent a cell.                                                        *)
LEMMA InitIndInv == ServerInit => IndInv
  <1>. SUFFICES ASSUME ServerInit PROVE IndInv
    OBVIOUS
  <1>. USE DEF ServerInit, Init, Stdio!Init
  <1>1. OneTransport
    BY DEF OneTransport
  <1>2. TypeOK
    <2>1. None \in Answers
      BY DEF Answers, None, Reply
    <2>2. limiter \in [Ips -> 0 .. Burst] /\ refills \in [Ips -> 0 .. MaxRefills]
      BY BurstPositive
    <2>3. audit \in [Exchanges -> Seq(Codes)]
      BY EmptySeq
    <2>. QED  BY <2>1, <2>2, <2>3 DEF TypeOK, Phases
  <1>3. ExchangeState /\ FlagState /\ FlagHasCause
    BY DEF ExchangeState, FlagState, FlagHasCause, Initializes, Initialize, NoBody, None,
       Refused, Reply
  <1>4. CellsAccounted
    <2>1. \A i \in Ips : Admitted(i) = {} /\ FromIp(i) = {}
      BY DEF Admitted, FromIp
    <2>2. Cardinality({}) = 0
      BY FS_EmptySet
    <2>3. ASSUME NEW i \in Ips
          PROVE  Cardinality(Admitted(i)) + limiter[i] = Burst + refills[i]
      <3>1. limiter[i] = Burst /\ refills[i] = 0 /\ Cardinality(Admitted(i)) = 0
        BY <2>1, <2>2
      <3>. QED  BY <3>1, BurstPositive
    <2>. QED  BY <2>1, <2>3 DEF CellsAccounted
  <1>5. AuditAgrees
    BY DEF AuditAgrees
  <1>6. Stdio!TypeOK
    BY EmptySeq DEF Stdio!TypeOK
  <1>7. LineState
    BY DEF LineState, InitializeRead
  <1>8. LinesServed
    BY DEF LinesServed, RepliesExact, Stdio!AuditInOrder,
       Stdio!InitializeTakesEffectInOrder, Stdio!InOrder, Stdio!Completed, Stdio!Handled
  <1>. QED  BY <1>1, <1>2, <1>3, <1>4, <1>5, <1>6, <1>7, <1>8 DEF IndInv, HttpInv, StdioInv

(* A step that leaves the exchanges alone preserves the HTTP part, unless   *)
(* it sets the flag while HTTP is served.                                   *)
LEMMA HttpIdle ==
    ASSUME HttpInv, UNCHANGED httpVars, initialized' \in BOOLEAN,
           \/ UNCHANGED initialized /\ (serving' = "http" /\ serving # "http" => ~initialized)
           \/ serving' # "http" /\ \A x \in Exchanges : phase[x] = "new"
    PROVE  HttpInv'
  <1>. USE DEF HttpInv, httpVars
  <1>1. TypeOK' /\ AuditAgrees'
    BY DEF TypeOK, AuditAgrees
  <1>2. CellsAccounted'
    BY AccountsKept
  <1>3. ExchangeState' /\ FlagState'
    BY DEF TypeOK, ExchangeState, FlagState, Initializes, Initialize
  <1>4. FlagHasCause'
    BY DEF FlagHasCause, Initializes, Initialize
  <1>. QED  BY <1>1, <1>2, <1>3, <1>4

(* A step that leaves the loop alone preserves the stdio part, if it leaves *)
(* the flag alone too or HTTP is served.                                    *)
LEMMA StdioIdle ==
    ASSUME StdioInv, UNCHANGED stdioVars, initialized' \in BOOLEAN,
           UNCHANGED initialized \/ serving' = "http",
           serving = "http" => serving' = "http"
    PROVE  StdioInv'
  <1>. USE DEF StdioInv, stdioVars
  <1>1. Stdio!TypeOK'
    BY DEF Stdio!TypeOK
  <1>2. LineState'
    BY DEF LineState, InitializeRead, Suits
  <1>3. LinesServed'
    BY DEF LinesServed, RepliesExact, Stdio!AuditInOrder,
       Stdio!InitializeTakesEffectInOrder, Stdio!InOrder, Stdio!Completed, Stdio!Handled
  <1>. QED  BY <1>1, <1>2, <1>3

(* Every step of the process preserves the inductive invariant.             *)
LEMMA NextIndInv == IndInv /\ [ServerNext]_serverVars => IndInv'
  <1>. SUFFICES ASSUME IndInv, [ServerNext]_serverVars PROVE IndInv'
    OBVIOUS
  <1>. USE DEF IndInv
  <1>0. initialized \in BOOLEAN
    BY DEF HttpInv, TypeOK
  <1>1. ASSUME NEW env \in Environments, Start(env) PROVE IndInv'
    <2>. USE <1>1 DEF Start, vars
    <2>1. OneTransport'
      BY DEF OneTransport, stdioVars
    <2>2. HttpInv'
      BY <1>0, HttpIdle DEF OneTransport, httpVars
    <2>3. StdioInv'
      BY <1>0, StdioIdle DEF OneTransport
    <2>. QED  BY <2>1, <2>2, <2>3
  <1>2. CASE ServeHttp
    <2>1. HttpInv'
      BY <1>2, HttpStep
    <2>2. OneTransport'
      BY <1>2 DEF ServeHttp, OneTransport, stdioVars
    <2>3. StdioInv'
      BY <1>2, <2>1, StdioIdle DEF ServeHttp, HttpInv, TypeOK
    <2>. QED  BY <2>1, <2>2, <2>3
  <1>3. CASE ServeStdio
    <2>1. StdioInv'
      BY <1>3, StdioStep
    <2>2. OneTransport'
      BY <1>3 DEF ServeStdio, OneTransport, httpVars
    <2>3. HttpInv'
      BY <1>3, <2>1, HttpIdle DEF ServeStdio, OneTransport, StdioInv, Stdio!TypeOK
    <2>. QED  BY <2>1, <2>2, <2>3
  <1>4. CASE StdioReturns
    <2>. USE <1>4 DEF StdioReturns, vars
    <2>1. OneTransport'
      BY DEF OneTransport, stdioVars
    <2>2. HttpInv'
      BY <1>0, HttpIdle DEF httpVars
    <2>3. StdioInv'
      BY <1>0, StdioIdle
    <2>. QED  BY <2>1, <2>2, <2>3
  <1>5. CASE UNCHANGED serverVars
    <2>. USE <1>5 DEF serverVars, vars
    <2>1. OneTransport'
      BY DEF OneTransport, stdioVars
    <2>2. HttpInv'
      BY <1>0, HttpIdle DEF httpVars
    <2>3. StdioInv'
      BY <1>0, StdioIdle
    <2>. QED  BY <2>1, <2>2, <2>3
  <1>. QED  BY <1>1, <1>2, <1>3, <1>4, <1>5 DEF ServerNext

(* The inductive invariant is an invariant. *)
LEMMA IndInvHolds == ServerSpec => []IndInv
  BY InitIndInv, NextIndInv, PTL DEF ServerSpec

(* The variables of both transports keep their types.                       *)
THEOREM ServerTypeCorrect == ServerSpec => [](TypeOK /\ Stdio!TypeOK)
  <1>1. IndInv => TypeOK /\ Stdio!TypeOK
    BY DEF IndInv, HttpInv, StdioInv
  <1>. QED  BY <1>1, IndInvHolds, PTL

(* The rate limit: no address gets more through than its burst and what     *)
(* time gave back, and none is refused before it has used its own burst.    *)
THEOREM ServerBudgetPerIp == ServerSpec => []BudgetPerIp
  <1>1. IndInv => BudgetPerIp
    <2>. SUFFICES ASSUME IndInv, NEW i \in Ips
                  PROVE  /\ Cardinality(Admitted(i)) <= Burst + refills[i]
                         /\ Admitted(i) # FromIp(i) => Cardinality(Admitted(i)) >= Burst
      BY DEF BudgetPerIp
    <2>1. limiter[i] \in Nat /\ refills[i] \in Nat
      BY BurstPositive DEF IndInv, HttpInv, TypeOK
    <2>. QED
      BY <2>1, AdmittedFinite, BurstPositive DEF IndInv, HttpInv, CellsAccounted
  <1>. QED  BY <1>1, IndInvHolds, PTL

(* No tool works before an initialize was accepted, and nobody is told to   *)
(* initialize once some client's initialize was answered.                   *)
THEOREM ServerToolsAfterInitialize == ServerSpec => []ToolsAfterInitialize
  <1>1. IndInv => ToolsAfterInitialize
    BY DEF IndInv, OneTransport, HttpInv, TypeOK, ExchangeState, FlagState, FlagHasCause,
       Initializes, Refused, ToolsAfterInitialize
  <1>. QED  BY <1>1, IndInvHolds, PTL

(* The audit record of an answered request says what the reply says.        *)
THEOREM ServerAuditAgrees == ServerSpec => []AuditAgrees
  <1>1. IndInv => AuditAgrees
    BY DEF IndInv, HttpInv
  <1>. QED  BY <1>1, IndInvHolds, PTL

(* Over stdio replies, records and the effect of initialize follow the      *)
(* order of the lines, for every number of lines.                           *)
THEOREM ServerSequentialOverStdio == ServerSpec => []SequentialOverStdio
  <1>1. IndInv => SequentialOverStdio
    BY DEF IndInv, StdioInv, LinesServed, RepliesExact, Stdio!InOrder, SequentialOverStdio,
       Stdio!SequentialService, Stdio!RepliesInOrder
  <1>. QED  BY <1>1, IndInvHolds, PTL
=============================================================================
