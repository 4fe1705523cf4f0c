--------------------------- MODULE PostgresQueries ---------------------------
(***************************************************************************)
(* Calls on one PostgresDriver (crates/driver-postgres/src/driver.rs,      *)
(* query.rs) under the client-side backstop of run_user_query              *)
(* (crates/connections/src/tools/support.rs).                              *)
(*                                                                         *)
(* A user query holds the client's RwLock for writing and makes one round  *)
(* trip each for BEGIN, prepare, bind, every portal fetch and COMMIT; an   *)
(* introspection call holds the lock for reading and runs one statement;   *)
(* disconnect holds it for writing.  The session is one ordered pipe to    *)
(* the server.  Time passes in ticks: the server ends what one round trip  *)
(* asked for after ServerTicks (statement_timeout, if it could be set),    *)
(* the client ends a user query after BackstopTicks, counted from the      *)
(* call.  BEGIN, ROLLBACK and lock hand-over take no time.                 *)
(*                                                                         *)
(*   pc[u]:  idle -> queued -> begin -> prepare -> bind -> exec -> commit   *)
(*           -> done                                                       *)
(*   pc[r]:  idle -> queued -> exec -> done                                *)
(***************************************************************************)
EXTENDS Naturals, Sequences

CONSTANTS Users,            \* run_user_query calls
          Readers,          \* introspection calls (fetch_*), without backstop
          Closers,          \* disconnect calls
          NoTask,
          ServerTicks,      \* QueryTimeouts::SERVER_SECS
          BackstopTicks,    \* QueryTimeouts::CLIENT_BACKSTOP_SECS
          MaxSilences       \* bound on how often the link goes silent

\* The compile-time assertion of core/src/timeouts.rs.
ASSUME TimeoutAssumption ==
    ServerTicks \in Nat /\ BackstopTicks \in Nat /\ BackstopTicks > ServerTicks

Tasks == Users \cup Readers \cup Closers

\* A call is of one kind.
ASSUME CallsAssumption ==
    /\ Users \cap Readers = {} /\ (Users \cup Readers) \cap Closers = {}
    /\ NoTask \notin Tasks
    /\ MaxSilences \in Nat

VARIABLES pc,           \* where each call is
          queue,        \* calls waiting for the RwLock, first come first served
          holders,      \* calls holding it
          conn,         \* the session: up, silent, reset (dead socket), none
          silences,     \* how often the link went silent
          pipe,         \* messages sent and not yet answered
          txn,          \* whose transaction is open on the server
          stmtAge,      \* ticks the first message of the pipe has taken
          age,          \* ticks since the call of a user query
          cancels,      \* cancel requests spawned and not yet delivered
          spent,        \* history: where the time of a user query went
          timeoutSet    \* apply_query_timeout reached this session

vars == <<pc, queue, holders, conn, silences, pipe, txn, stmtAge, age, cancels,
          spent, timeoutSet>>

\* The round trips of a user query inside its transaction: prepare, bind and
\* query_portal.  An introspection call makes one, "exec".
Statements == {"prepare", "bind", "exec"}
Kinds == Statements \cup {"begin", "commit", "rollback"}
Messages == [task : Tasks, kind : Kinds]
Finished == {"done", "failed", "timedOut"}

TypeOK ==
    /\ pc \in [Tasks -> {"idle", "queued", "begin", "commit"} \cup Statements \cup Finished]
    /\ queue \in Seq(Tasks)
    /\ holders \subseteq Tasks
    /\ conn \in {"up", "silent", "reset", "none"}
    /\ silences \in 0 .. MaxSilences
    /\ pipe \in Seq(Messages)
    /\ txn \in Tasks \cup {NoTask}
    /\ stmtAge \in 0 .. ServerTicks
    /\ age \in [Users -> 0 .. BackstopTicks]
    /\ cancels \subseteq Users
    /\ spent \in [Users -> {"nowhere", "one", "several"}]
    /\ timeoutSet \in BOOLEAN

Init ==
    /\ pc = [t \in Tasks |-> "idle"]
    /\ queue = <<>>
    /\ holders = {}
    /\ conn = "up"
    /\ silences = 0
    /\ pipe = <<>>
    /\ txn = NoTask
    /\ stmtAge = 0
    /\ age = [u \in Users |-> 0]
    /\ cancels = {}
    /\ spent = [u \in Users |-> "nowhere"]
    /\ timeoutSet \in BOOLEAN

\* connect only logs an error of apply_query_timeout (connections/src/manager.rs),
\* and switch_database does not call it for the session it opens: whether the
\* session has a statement_timeout is not known.
histVars == <<spent, timeoutSet>>

Msg(t, k) == [task |-> t, kind |-> k]
Goto(t, loc) == pc' = [pc EXCEPT ![t] = loc]
Active(t) == pc[t] \in {"queued", "begin", "commit"} \cup Statements

\* The first message is answered; `more` is what its caller sends next.
Answered(more) == pipe' = Tail(pipe) \o more /\ stmtAge' = 0

-----------------------------------------------------------------------------
(* The RwLock and the calls *)

Call(t) ==
    /\ pc[t] = "idle"
    /\ Goto(t, "queued")
    /\ queue' = Append(queue, t)
    /\ UNCHANGED <<holders, conn, silences, pipe, txn, stmtAge, age, cancels,
                   histVars>>

\* tokio's RwLock is fair: the first in the queue goes next, readers share.
Grantable(t) ==
    /\ queue # <<>> /\ Head(queue) = t
    /\ IF t \in Readers THEN holders \subseteq Readers ELSE holders = {}

\* The lock is granted on a dead or closed session: an error at once.
GrantFails(t) ==
    /\ Grantable(t)
    /\ conn \in {"reset", "none"}
    /\ t \notin Closers
    /\ queue' = Tail(queue)
    /\ Goto(t, "failed")
    /\ UNCHANGED <<holders, conn, silences, pipe, txn, stmtAge, age, cancels,
                   histVars>>

\* execute_user_query: build_transaction().start()
GrantUser(u) ==
    /\ Grantable(u)
    /\ conn \in {"up", "silent"}
    /\ queue' = Tail(queue)
    /\ holders' = holders \cup {u}
    /\ pipe' = Append(pipe, Msg(u, "begin"))
    /\ Goto(u, "begin")
    /\ UNCHANGED <<conn, silences, txn, stmtAge, age, cancels, histVars>>

\* fetch_*: one statement outside any transaction
GrantReader(r) ==
    /\ Grantable(r)
    /\ conn \in {"up", "silent"}
    /\ queue' = Tail(queue)
    /\ holders' = holders \cup {r}
    /\ pipe' = Append(pipe, Msg(r, "exec"))
    /\ Goto(r, "exec")
    /\ UNCHANGED <<conn, silences, txn, stmtAge, age, cancels, histVars>>

\* disconnect: the client is dropped, the token and the caches cleared.
GrantCloser(c) ==
    /\ Grantable(c)
    /\ queue' = Tail(queue)
    /\ conn' = "none"
    /\ pipe' = <<>>
    /\ stmtAge' = 0
    /\ txn' = NoTask
    /\ Goto(c, "done")
    /\ UNCHANGED <<holders, silences, age, cancels, histVars>>

-----------------------------------------------------------------------------
(* The server answers the first message of the pipe *)

First == Head(pipe)
Serving(k) == conn = "up" /\ pipe # <<>> /\ First.kind = k

ServingStatement == \E k \in Statements : Serving(k)

\* BEGIN; the caller prepares its statement.
BeginAnswered ==
    /\ Serving("begin")
    /\ txn' = First.task
    /\ IF pc[First.task] = "begin"
       THEN Goto(First.task, "prepare") /\ Answered(<<Msg(First.task, "prepare")>>)
       ELSE Answered(<<>>) /\ UNCHANGED pc
    /\ UNCHANGED <<queue, holders, conn, silences, age, cancels, histVars>>

\* One of a query's round trips succeeds; its caller makes the next.
StatementAnswered(k, next) ==
    /\ Serving(k)
    /\ First.task \in Users /\ pc[First.task] = k
    /\ Goto(First.task, next)
    /\ Answered(<<Msg(First.task, next)>>)
    /\ UNCHANGED <<queue, holders, conn, silences, txn, age, cancels, histVars>>

PrepareAnswered == StatementAnswered("prepare", "bind")
BindAnswered == StatementAnswered("bind", "exec")

\* With row cap 0 nothing is fetched.
NothingToFetch == StatementAnswered("bind", "commit")

\* query_portal: a full batch below the cap is followed by another one; after
\* the last the transaction is committed, never rolled back.
FetchMore == StatementAnswered("exec", "exec")
FetchLast == StatementAnswered("exec", "commit")

ReaderAnswered ==
    /\ Serving("exec")
    /\ First.task \in Readers
    /\ \E loc \in {"done", "failed"} : Goto(First.task, loc)
    /\ holders' = holders \ {First.task}
    /\ Answered(<<>>)
    /\ UNCHANGED <<queue, conn, silences, txn, age, cancels, histVars>>

\* A statement of a user query fails (an SQL error, statement_timeout or a
\* cancel request): `?` drops the Transaction, which sends ROLLBACK.
ExecFails ==
    /\ First.task \in Users /\ pc[First.task] = First.kind
    /\ Goto(First.task, "failed")
    /\ holders' = holders \ {First.task}
    /\ Answered(<<Msg(First.task, "rollback")>>)

ExecError ==
    /\ ServingStatement
    /\ ExecFails
    /\ UNCHANGED <<queue, conn, silences, txn, age, cancels, histVars>>

\* The answer to a query whose future was dropped is thrown away.
OrphanAnswered ==
    /\ ServingStatement
    /\ First.task \in Users /\ pc[First.task] # First.kind
    /\ Answered(<<>>)
    /\ UNCHANGED <<pc, queue, holders, conn, silences, txn, age, cancels, histVars>>

\* COMMIT ends the transaction whether or not it succeeds.
CommitAnswered ==
    /\ Serving("commit")
    /\ txn' = NoTask
    /\ IF pc[First.task] = "commit"
       THEN /\ \E loc \in {"done", "failed"} : Goto(First.task, loc)
            /\ holders' = holders \ {First.task}
       ELSE UNCHANGED <<pc, holders>>
    /\ Answered(<<>>)
    /\ UNCHANGED <<queue, conn, silences, age, cancels, histVars>>

RollbackAnswered ==
    /\ Serving("rollback")
    /\ txn' = NoTask
    /\ Answered(<<>>)
    /\ UNCHANGED <<pc, queue, holders, conn, silences, age, cancels, histVars>>

ServerStep ==
    \/ BeginAnswered \/ PrepareAnswered \/ BindAnswered \/ NothingToFetch
    \/ FetchMore \/ FetchLast \/ ReaderAnswered \/ ExecError \/ OrphanAnswered
    \/ CommitAnswered \/ RollbackAnswered

-----------------------------------------------------------------------------
(* The backstop and the cancel request *)

\* Mutant: the transaction is dropped without a ROLLBACK.
DroppedSilently(u) == pipe

\* What dropping the query future leaves in the pipe: a Transaction that was
\* begun and not yet committing sends ROLLBACK.
Dropped(u) ==
    IF pc[u] \in {"begin"} \cup Statements /\ conn \in {"up", "silent"}
    THEN Append(pipe, Msg(u, "rollback")) ELSE pipe

\* The queue without u, which waits in it once at most.
WithoutWaiter(u) ==
    LET places == {i \in 1 .. Len(queue) : queue[i] = u}
        place  == CHOOSE i \in places : TRUE
    IN  IF places = {} THEN queue
        ELSE SubSeq(queue, 1, place - 1) \o SubSeq(queue, place + 1, Len(queue))

\* Mutant: the query goes on in a task of its own, and keeps the lock.
BackstopKeepsLock(u) ==
    /\ Active(u)
    /\ age[u] = BackstopTicks
    /\ queue' = WithoutWaiter(u)
    /\ cancels' = IF conn = "none" THEN cancels ELSE cancels \cup {u}
    /\ Goto(u, "timedOut")
    /\ UNCHANGED <<holders, conn, silences, pipe, txn, stmtAge, age, histVars>>

\* timeout() elapses: the future is dropped wherever it is, which gives up
\* the lock or the place in the queue; then cancel_query spawns a request
\* with the session's token (an error, only logged, when there is none).
Backstop(u) ==
    /\ Active(u)
    /\ age[u] = BackstopTicks
    /\ pipe' = Dropped(u)
    /\ queue' = WithoutWaiter(u)
    /\ holders' = holders \ {u}
    /\ cancels' = IF conn = "none" THEN cancels ELSE cancels \cup {u}
    /\ Goto(u, "timedOut")
    /\ UNCHANGED <<conn, silences, txn, stmtAge, age, histVars>>

\* The cancel request arrives and interrupts whatever the session executes.
CancelHits(u) ==
    /\ u \in cancels
    /\ cancels' = cancels \ {u}
    /\ ServingStatement
    /\ \/ ExecFails
       \/ /\ First.task \in Readers
          /\ Goto(First.task, "failed")
          /\ holders' = holders \ {First.task}
          /\ Answered(<<>>)
       \/ /\ First.task \in Users /\ pc[First.task] # First.kind
          /\ Answered(<<>>)
          /\ UNCHANGED <<pc, holders>>
    /\ UNCHANGED <<queue, conn, silences, txn, age, histVars>>

\* It arrives while the session is idle, or it is lost.
CancelMisses(u) ==
    /\ u \in cancels
    /\ cancels' = cancels \ {u}
    /\ UNCHANGED <<pc, queue, holders, conn, silences, pipe, txn, stmtAge, age,
                   histVars>>

-----------------------------------------------------------------------------
(* The link and the clock *)

GoSilent ==
    /\ conn = "up" /\ silences < MaxSilences
    /\ conn' = "silent"
    /\ silences' = silences + 1
    /\ UNCHANGED <<pc, queue, holders, pipe, txn, stmtAge, age, cancels, histVars>>

GoLoud ==
    /\ conn = "silent"
    /\ conn' = "up"
    /\ UNCHANGED <<pc, queue, holders, silences, pipe, txn, stmtAge, age, cancels,
                   histVars>>

\* TCP keepalive and user timeout declare the socket dead: every call that
\* waits for an answer fails, the server gives the session up.
KeepaliveReset ==
    /\ conn = "silent"
    /\ conn' = "reset"
    /\ pc' = [t \in Tasks |-> IF t \in holders THEN "failed" ELSE pc[t]]
    /\ holders' = {}
    /\ pipe' = <<>>
    /\ stmtAge' = 0
    /\ txn' = NoTask
    /\ UNCHANGED <<queue, silences, age, cancels, histVars>>

\* The time of u goes into the statement the server is at, and all of it so
\* far did: the link talks, u is not behind another call, and the statement
\* is the first of u's that takes time.
InOneStatement(u) ==
    /\ conn = "up" /\ pipe # <<>> /\ First.task = u
    /\ spent[u] = "nowhere" \/ (spent[u] = "one" /\ stmtAge > 0)

\* No timeout() of run_user_query is due.
TimersNotDue == \A u \in Users : Active(u) => age[u] < BackstopTicks

\* Mutant: SET statement_timeout does not take effect.
StatementUnlimited == (conn = "up" /\ pipe # <<>>) => First.kind \in {"commit"} \cup Statements

\* A talking server is busy with a statement that may still run.
StatementNotDue ==
    (conn = "up" /\ pipe # <<>>) =>
        /\ First.kind \in {"commit"} \cup Statements
        /\ timeoutSet => stmtAge < ServerTicks

\* Time passes once everything that takes no time has happened.
Tick ==
    /\ \E u \in Users : Active(u)
    /\ TimersNotDue
    /\ \A t \in Tasks : ~Grantable(t)
    /\ StatementNotDue
    /\ age' = [u \in Users |-> IF Active(u) THEN age[u] + 1 ELSE age[u]]
    /\ stmtAge' = IF pipe # <<>> /\ stmtAge < ServerTicks THEN stmtAge + 1 ELSE stmtAge
    /\ spent' = [u \in Users |-> IF ~Active(u) THEN spent[u]
                                 ELSE IF InOneStatement(u) THEN "one" ELSE "several"]
    /\ UNCHANGED <<pc, queue, holders, conn, silences, pipe, txn, cancels, timeoutSet>>

Quiescent == (\A t \in Tasks : pc[t] \in Finished) /\ UNCHANGED vars

Grant ==
    \/ \E t \in Tasks : GrantFails(t)
    \/ \E u \in Users : GrantUser(u)
    \/ \E r \in Readers : GrantReader(r)
    \/ \E c \in Closers : GrantCloser(c)

Next ==
    \/ \E t \in Tasks : Call(t)
    \/ Grant
    \/ ServerStep
    \/ \E u \in Users : Backstop(u) \/ CancelHits(u) \/ CancelMisses(u)
    \/ GoSilent \/ GoLoud \/ KeepaliveReset
    \/ Tick
    \/ Quiescent

Spec == Init /\ [][Next]_vars

\* Without statement_timeout nothing makes the server answer a statement.
ServerOwes == ServerStep /\ (timeoutSet \/ First.kind \in {"begin", "rollback"})

\* The lock is handed over, a talking server answers what it owes, time
\* passes, timers fire, and a socket that stays silent is declared dead.
Fairness ==
    /\ WF_vars(Grant)
    /\ WF_vars(ServerOwes)
    /\ WF_vars(Tick)
    /\ \A u \in Users : WF_vars(Backstop(u))
    /\ WF_vars(KeepaliveReset)

FairSpec == Spec /\ Fairness

-----------------------------------------------------------------------------
(* Properties *)

(***************************************************************************)
(* No statement runs inside a foreign transaction (driver.rs:10-15): what  *)
(* the server executes for a user query it executes in that query's own    *)
(* transaction, and everything else outside any, also after futures were   *)
(* dropped and statements cancelled.                                       *)
(***************************************************************************)
TransactionsSeparate ==
    (conn \in {"up", "silent"} /\ pipe # <<>>) =>
        CASE First.kind = "begin" -> txn = NoTask
          [] First.kind = "exec" /\ First.task \in Readers -> txn = NoTask
          [] OTHER -> txn \in {First.task, NoTask}

(***************************************************************************)
(* Why a backstop trips: the session has no statement_timeout, or part of  *)
(* the time went by while the link was silent, while the call waited for   *)
(* the lock or behind a statement some dropped query left on the server,   *)
(* or in another of the query's own round trips (prepare, bind, fetches,   *)
(* COMMIT), each of which has a statement_timeout of its own.  A query     *)
(* whose time goes into one statement always gets the engine's answer,     *)
(* which is what the assertion that the backstop is longer than            *)
(* statement_timeout (core/src/timeouts.rs) is for.                        *)
(***************************************************************************)
BackstopHasCause ==
    \A u \in Users : (pc[u] = "timedOut" /\ timeoutSet) => spent[u] = "several"

(***************************************************************************)
(* A user query returns, whatever the link, the server and the other calls *)
(* on the connection do ("instead of hanging indefinitely", README.md:152).*)
(* So does a disconnect if the session has a statement_timeout: it waits   *)
(* for introspection calls, which have no backstop.                        *)
(***************************************************************************)
CallsReturn ==
    /\ \A u \in Users : pc[u] = "queued" ~> pc[u] \in Finished
    /\ \A c \in Closers : (pc[c] = "queued" /\ timeoutSet) ~> pc[c] \in Finished
=============================================================================
