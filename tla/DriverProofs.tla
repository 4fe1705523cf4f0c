----------------------------- MODULE DriverProofs -----------------------------
(***************************************************************************)
(* What the three drivers guarantee about the query in flight and about    *)
(* cancelling it, for every number of calls, queries and clients, every    *)
(* timeout and every bound of the models.                                  *)
(*                                                                         *)
(* PostgreSQL: between a statement and its answer futures are dropped,     *)
(* rollbacks queued and cancel requests delivered late.  The invariant     *)
(* therefore speaks of the whole pipe of messages: if they are answered in *)
(* order, each meets the transaction it is meant for.                      *)
(*                                                                         *)
(* ClickHouse: the slot names a request of the query that put it there,    *)
(* and a query that is alone still holds it, also after it was dropped.    *)
(*                                                                         *)
(* Redis: the cached id was told to an adopted call, by the run of the     *)
(* server that call connected to; within one run no id is given out twice. *)
(***************************************************************************)
EXTENDS PostgresQueries, ClickHouseQueries, RedisSession, SequenceTheorems, TLAPS

-----------------------------------------------------------------------------
(* The PostgreSQL driver *)

\* A message of the call is under way; its transaction is begun; it goes on.
Sending == {"begin", "commit"} \cup Statements
Began == {"begin"} \cup Statements
Unfinished == {"idle", "queued"} \cup Sending

USE DEF Statements, Sending, Began, Unfinished

EachOnce(q) == \A i, j \in 1 .. Len(q) : q[i] = q[j] => i = j

\* A call waits at one place of the queue, and nobody else does.
Waiting == EachOnce(queue) /\ \A i \in 1 .. Len(queue) : pc[queue[i]] = "queued"

\* The holders of the lock are the calls whose message is under way, a user
\* query alone; a session that is gone has none, and nothing in its pipe.
Holding ==
    /\ \A t \in Tasks : t \in holders <=> pc[t] \in Sending
    /\ \A u \in Users : u \in holders => holders = {u}
    /\ \A t \in holders : t \notin Closers
    /\ \A r \in Readers : pc[r] \in Sending => pc[r] = "exec"
    /\ conn \in {"reset", "none"} => holders = {} /\ pipe = <<>>

\* Whose messages are in the pipe: those of calls that were granted the lock,
\* and of a reader the one it waits for.
Senders ==
    /\ \A i \in 1 .. Len(pipe) :
          /\ pipe[i].task \in Users \cup Readers
          /\ pc[pipe[i].task] \notin {"idle", "queued"}
          /\ pipe[i].task \in Readers => pipe[i].kind = "exec" /\ pc[pipe[i].task] = "exec"
    /\ \A i, j \in 1 .. Len(pipe) :
          pipe[i].task \in Readers /\ pipe[j].task = pipe[i].task => i = j

\* The message a user query waits for is its only one, and the last.
LastIsOwn ==
    \A u \in Users : pc[u] \in Sending =>
        /\ Len(pipe) > 0
        /\ pipe[Len(pipe)] = Msg(u, pc[u])
        /\ \A i \in 1 .. Len(pipe) - 1 : pipe[i].task # u

\* Whose transaction is open once the first i messages are answered.
OpenAfter(i) ==
    IF i = 0 THEN txn
    ELSE IF pipe[i].kind \in {"commit", "rollback"} \/ pipe[i].task \in Readers THEN NoTask
    ELSE pipe[i].task

\* Every message meets the transaction it is meant for.
Chained ==
    \A i \in 1 .. Len(pipe) :
        OpenAfter(i - 1) = IF pipe[i].kind = "begin" \/ pipe[i].task \in Readers
                           THEN NoTask ELSE pipe[i].task

\* What the pipe leaves open is the transaction of a query that goes on.
OpenAtEnd ==
    OpenAfter(Len(pipe)) # NoTask =>
        OpenAfter(Len(pipe)) \in Users /\ pc[OpenAfter(Len(pipe))] \in Began

\* The server is at a statement of u.
Served(u) == pipe # <<>> /\ pipe[1].task = u

\* The clock of a query whose time went into one statement shows how long the
\* server is at it, or was.
OnTime ==
    /\ pipe = <<>> => stmtAge = 0
    /\ \A u \in Users :
          /\ pc[u] = "idle" => age[u] = 0 /\ spent[u] = "nowhere"
          /\ Active(u) /\ timeoutSet =>
                /\ spent[u] = "nowhere" => age[u] = 0 /\ (Served(u) => stmtAge = 0)
                /\ spent[u] = "one" => /\ age[u] <= ServerTicks
                                       /\ Served(u) /\ stmtAge > 0 => age[u] = stmtAge

PgInv ==
    /\ TypeOK
    /\ Waiting
    /\ Holding
    /\ Senders
    /\ LastIsOwn
    /\ Chained
    /\ OpenAtEnd
    /\ OnTime
    /\ BackstopHasCause

\* A reader's statement ends, a query's fails, or one nobody waits for ends:
\* by itself or because a cancel request hit it.
Ending ==
    /\ cancels' \subseteq cancels
    /\ UNCHANGED <<queue, conn, silences, txn, age, histVars>>

ReaderEnds(loc) ==
    /\ ServingStatement /\ First.task \in Readers
    /\ Goto(First.task, loc)
    /\ holders' = holders \ {First.task}
    /\ Answered(<<>>) /\ Ending

QueryFails == ServingStatement /\ ExecFails /\ Ending

OrphanEnds ==
    /\ ServingStatement /\ First.task \in Users /\ pc[First.task] # First.kind
    /\ Answered(<<>>) /\ Ending /\ UNCHANGED <<pc, holders>>

(***************************************************************************)
(* A session with an empty pipe and no calls satisfies the invariant.      *)
(***************************************************************************)
LEMMA PgInit == Init => PgInv
  <1>. SUFFICES ASSUME Init PROVE PgInv
    OBVIOUS
  <1>1. TypeOK
    BY TimeoutAssumption, CallsAssumption DEF Init, TypeOK, Finished
  <1>2. Len(pipe) = 0 /\ Len(queue) = 0
    BY DEF Init
  <1>3. Waiting /\ Senders /\ Chained
    BY <1>2 DEF Waiting, EachOnce, Senders, Chained
  <1>4. Holding /\ LastIsOwn /\ OpenAtEnd
    BY <1>2 DEF Init, Holding, LastIsOwn, OpenAtEnd, OpenAfter, Tasks
  <1>5. OnTime /\ BackstopHasCause
    BY DEF Init, OnTime, Active, BackstopHasCause, Tasks
  <1>. QED
    BY <1>1, <1>3, <1>4, <1>5 DEF PgInv

(***************************************************************************)
(* The message the server answers is the first of the pipe.                *)
(***************************************************************************)
LEMMA FirstMessage ==
    ASSUME TypeOK, pipe # <<>>
    PROVE  Len(pipe) \in Nat \ {0} /\ First = pipe[1] /\ First \in Messages
  BY DEF TypeOK, First

(***************************************************************************)
(* The first message meets the transaction it is meant for, and leaves     *)
(* open what OpenAfter(1) says.                                            *)
(***************************************************************************)
LEMMA FirstMeets ==
    ASSUME PgInv, pipe # <<>>
    PROVE  /\ First.task \in Users \cup Readers
           /\ First.task \in Readers => First.kind = "exec" /\ pc[First.task] = "exec"
           /\ txn = IF First.kind = "begin" \/ First.task \in Readers
                    THEN NoTask ELSE First.task
           /\ OpenAfter(1) = IF First.kind \in {"commit", "rollback"} \/ First.task \in Readers
                             THEN NoTask ELSE First.task
  <1>1. Len(pipe) \in Nat \ {0} /\ First = pipe[1]
    BY FirstMessage DEF PgInv
  <1>2. 1 \in 1 .. Len(pipe) /\ OpenAfter(1 - 1) = txn
    BY <1>1 DEF OpenAfter
  <1>3. OpenAfter(1) = IF First.kind \in {"commit", "rollback"} \/ First.task \in Readers
                       THEN NoTask ELSE First.task
    BY <1>1 DEF OpenAfter
  <1>. QED
    BY <1>1, <1>2, <1>3 DEF PgInv, Senders, Chained

(***************************************************************************)
(* What is left of the pipe when its first message is answered.            *)
(***************************************************************************)
LEMMA AnswerOnly ==
    ASSUME TypeOK, pipe # <<>>, Answered(<<>>)
    PROVE  /\ pipe' \in Seq(Messages)
           /\ Len(pipe') = Len(pipe) - 1
           /\ \A i \in 1 .. Len(pipe') : pipe'[i] = pipe[i + 1]
           /\ stmtAge' = 0
  <1>1. pipe' = Tail(pipe)
    BY DEF TypeOK, Answered
  <1>. QED
    BY <1>1 DEF TypeOK, Answered

(***************************************************************************)
(* A call that waits for the first message waits for the only one.         *)
(***************************************************************************)
LEMMA OnlyMessage ==
    ASSUME PgInv, pipe # <<>>, First.task \in Users, pc[First.task] \in Sending
    PROVE  Len(pipe) = 1 /\ First = Msg(First.task, pc[First.task])
  <1>1. Len(pipe) \in Nat \ {0} /\ First = pipe[1]
    BY FirstMessage DEF PgInv
  <1>2. /\ pipe[Len(pipe)] = Msg(First.task, pc[First.task])
        /\ \A i \in 1 .. Len(pipe) - 1 : pipe[i].task # First.task
    BY DEF PgInv, LastIsOwn
  <1>3. ASSUME Len(pipe) # 1 PROVE FALSE
    <2>1. \A n \in Nat \ {0} : n # 1 => 1 \in 1 .. n - 1
      OBVIOUS
    <2>2. 1 \in 1 .. Len(pipe) - 1
      BY <1>1, <1>3, <2>1, Zenon
    <2>. QED
      BY <1>1, <1>2, <2>2
  <1>. QED
    BY <1>1, <1>2, <1>3

(***************************************************************************)
(* What its caller sends next is then alone in the pipe.                   *)
(***************************************************************************)
LEMMA AnswerAndSend ==
    ASSUME TypeOK, Len(pipe) = 1, NEW m \in Messages, Answered(<<m>>)
    PROVE  /\ pipe' \in Seq(Messages) /\ Len(pipe') = 1 /\ pipe'[1] = m
           /\ stmtAge' = 0
  <1>1. Tail(pipe) \in Seq(Messages) /\ Len(Tail(pipe)) = 0
    <2>1. pipe \in Seq(Messages) /\ pipe # <<>>
      <3>1. Len(<<>>) = 0 /\ 0 # 1
        OBVIOUS
      <3>. QED
        BY <3>1, Zenon DEF TypeOK
    <2>. QED
      BY <2>1, HeadTailProperties
  <1>2. <<m>> \in Seq(Messages) /\ Len(<<m>>) = 1 /\ <<m>>[1] = m
    OBVIOUS
  <1>3. pipe' = Tail(pipe) \o <<m>> /\ stmtAge' = 0
    BY DEF Answered
  <1>. QED
    BY <1>1, <1>2, <1>3, ConcatProperties

(***************************************************************************)
(* A step that is not a tick keeps what the clocks show, if it begins no   *)
(* statement that already took time.                                       *)
(***************************************************************************)
LEMMA ClockKept ==
    ASSUME TypeOK, OnTime, UNCHANGED <<age, spent, timeoutSet>>,
           \A u \in Users : pc'[u] = "idle" => pc[u] = "idle",
           \A u \in Users : Active(u)' => Active(u),
           \/ stmtAge' = 0
           \/ /\ stmtAge' = stmtAge /\ pipe' # <<>>
              /\ \A u \in Users : stmtAge > 0 /\ Served(u)' => Served(u)
    PROVE  OnTime'
  BY DEF TypeOK, OnTime

(***************************************************************************)
(* The first message is answered and nothing sent: if its call does not go *)
(* on, everything said of the messages behind it stays true.               *)
(***************************************************************************)
LEMMA AnswerKeeps ==
    ASSUME PgInv, pipe # <<>>, Answered(<<>>), txn' = OpenAfter(1),
           \A t \in Tasks : t # First.task => pc'[t] = pc[t],
           pc'[First.task] \notin Unfinished,
           First.task \in Users => pc[First.task] \notin Began,
           UNCHANGED <<age, spent, timeoutSet>>
    PROVE  Senders' /\ LastIsOwn' /\ Chained' /\ OpenAtEnd' /\ OnTime'
  <1>1. Len(pipe) \in Nat \ {0} /\ First = pipe[1] /\ First \in Messages
    BY FirstMessage DEF PgInv
  <1>2. /\ pipe' \in Seq(Messages) /\ Len(pipe') = Len(pipe) - 1
        /\ \A i \in 1 .. Len(pipe') : pipe'[i] = pipe[i + 1]
        /\ stmtAge' = 0
    BY AnswerOnly DEF PgInv
  <1>3. \A i \in 1 .. Len(pipe') : /\ pipe'[i] \in Messages
                                   /\ i + 1 \in 1 .. Len(pipe) /\ pipe'[i] = pipe[i + 1]
    BY <1>1, <1>2
  <1>4. \A i \in 1 .. Len(pipe') : pipe'[i].task \in Tasks /\ pipe'[i].kind \in Kinds
    BY <1>3 DEF Messages
  <1>5. \A i \in 1 .. Len(pipe') : pipe'[i].task \in Readers => pipe'[i].task # First.task
    <2>1. ASSUME NEW j \in 1 .. Len(pipe), pipe[j].task \in Readers, pipe[j].task = pipe[1].task
          PROVE  j = 1
      BY <1>1, <2>1 DEF PgInv, Senders
    <2>2. \A i \in 1 .. Len(pipe') : i + 1 # 1
      BY <1>1, <1>2
    <2>. QED
      BY <1>1, <1>3, <2>1, <2>2
  <1>6. Senders'
    <2>1. ASSUME NEW i \in 1 .. Len(pipe')
          PROVE  /\ pipe'[i].task \in Users \cup Readers
                 /\ pc'[pipe'[i].task] \notin {"idle", "queued"}
                 /\ pipe'[i].task \in Readers =>
                       pipe'[i].kind = "exec" /\ pc'[pipe'[i].task] = "exec"
      BY <1>3, <1>4, <1>5 DEF PgInv, Senders
    <2>2. ASSUME NEW i \in 1 .. Len(pipe'), NEW j \in 1 .. Len(pipe'),
                 pipe'[i].task \in Readers, pipe'[j].task = pipe'[i].task
          PROVE  i = j
      <3>1. i + 1 = j + 1
        <4>1. \A a, b \in 1 .. Len(pipe) :
                 pipe[a].task \in Readers /\ pipe[b].task = pipe[a].task => a = b
          BY DEF PgInv, Senders
        <4>. QED
          BY <1>3, <2>2, <4>1
      <3>. QED
        BY <1>2, <3>1
    <2>. QED
      BY <2>1, <2>2 DEF Senders
  <1>7. LastIsOwn'
    <2>. SUFFICES ASSUME NEW u \in Users, pc'[u] \in Sending
                  PROVE  /\ Len(pipe') > 0
                         /\ pipe'[Len(pipe')] = Msg(u, pc'[u])
                         /\ \A i \in 1 .. Len(pipe') - 1 : pipe'[i].task # u
      BY DEF LastIsOwn, Msg
    <2>1. u # First.task /\ u \in Tasks /\ pc'[u] = pc[u]
      BY DEF Tasks
    <2>2. /\ pipe[Len(pipe)] = Msg(u, pc[u])
          /\ \A i \in 1 .. Len(pipe) - 1 : pipe[i].task # u
      BY <2>1 DEF PgInv, LastIsOwn
    <2>3. Len(pipe) # 1
      BY <1>1, <2>1, <2>2 DEF Msg
    <2>4. Len(pipe') > 0 /\ pipe'[Len(pipe')] = pipe[Len(pipe)]
      BY <1>1, <1>2, <2>3
    <2>5. \A i \in 1 .. Len(pipe') - 1 : pipe'[i].task # u
      BY <1>1, <1>2, <2>2
    <2>. QED
      BY <2>1, <2>2, <2>4, <2>5
  <1>8. \A i \in 0 .. Len(pipe') : OpenAfter(i)' = OpenAfter(i + 1)
    BY <1>1, <1>2 DEF OpenAfter
  <1>9. Chained'
    <2>. SUFFICES ASSUME NEW i \in 1 .. Len(pipe')
                  PROVE  OpenAfter(i - 1)' =
                           IF pipe'[i].kind = "begin" \/ pipe'[i].task \in Readers
                           THEN NoTask ELSE pipe'[i].task
      BY DEF Chained
    <2>1. OpenAfter(i - 1)' = OpenAfter(i)
      BY <1>2, <1>8
    <2>2. OpenAfter(i) = IF pipe[i + 1].kind = "begin" \/ pipe[i + 1].task \in Readers
                         THEN NoTask ELSE pipe[i + 1].task
      BY <1>1, <1>3 DEF PgInv, Chained
    <2>. QED
      BY <1>3, <2>1, <2>2
  <1>10. OpenAtEnd'
    <2>1. OpenAfter(Len(pipe))' = OpenAfter(Len(pipe))
      BY <1>1, <1>2, <1>8
    <2>. QED
      BY <2>1 DEF PgInv, OpenAtEnd, Tasks
  <1>11. OnTime'
    <2>1. \A u \in Users : pc'[u] \in Unfinished => pc'[u] = pc[u]
      BY DEF Tasks
    <2>. QED
      BY <1>2, <2>1, ClockKept DEF PgInv, Active
  <1>. QED
    BY <1>6, <1>7, <1>9, <1>10, <1>11

(***************************************************************************)
(* What the pipe is when a message was sent.                               *)
(***************************************************************************)
LEMMA Sent ==
    ASSUME TypeOK, NEW m \in Messages, pipe' = Append(pipe, m)
    PROVE  /\ pipe' \in Seq(Messages)
           /\ Len(pipe') = Len(pipe) + 1
           /\ \A i \in 1 .. Len(pipe) : pipe'[i] = pipe[i]
           /\ pipe'[Len(pipe) + 1] = m
  BY DEF TypeOK

(***************************************************************************)
(* A message that is sent into the transaction it is meant for keeps the   *)
(* chain.                                                                  *)
(***************************************************************************)
LEMMA SentChained ==
    ASSUME TypeOK, Chained, NEW m \in Messages, pipe' = Append(pipe, m), txn' = txn,
           OpenAfter(Len(pipe)) = IF m.kind = "begin" \/ m.task \in Readers
                                  THEN NoTask ELSE m.task
    PROVE  /\ Chained'
           /\ OpenAfter(Len(pipe))' = IF m.kind \in {"commit", "rollback"} \/ m.task \in Readers
                                      THEN NoTask ELSE m.task
  <1>1. /\ pipe' \in Seq(Messages) /\ Len(pipe) \in Nat /\ Len(pipe') = Len(pipe) + 1
        /\ \A i \in 1 .. Len(pipe) : pipe'[i] = pipe[i]
        /\ pipe'[Len(pipe) + 1] = m
    BY Sent DEF TypeOK
  <1>2. \A i \in 0 .. Len(pipe) : OpenAfter(i)' = OpenAfter(i)
    BY <1>1 DEF OpenAfter
  <1>3. ASSUME NEW i \in 1 .. Len(pipe')
        PROVE  OpenAfter(i - 1)' = IF pipe'[i].kind = "begin" \/ pipe'[i].task \in Readers
                                   THEN NoTask ELSE pipe'[i].task
    <2>1. OpenAfter(i - 1)' = OpenAfter(i - 1)
      BY <1>1, <1>2
    <2>2. CASE i = Len(pipe) + 1
      BY <1>1, <2>1, <2>2
    <2>3. CASE i \in 1 .. Len(pipe)
      BY <1>1, <2>1, <2>3 DEF Chained
    <2>. QED
      BY <1>1, <2>2, <2>3
  <1>4. OpenAfter(Len(pipe))' = IF m.kind \in {"commit", "rollback"} \/ m.task \in Readers
                                THEN NoTask ELSE m.task
    BY <1>1 DEF OpenAfter
  <1>. QED
    BY <1>3, <1>4 DEF Chained

(***************************************************************************)
(* The queue when its first call is granted the lock.                      *)
(***************************************************************************)
LEMMA FirstGranted ==
    ASSUME TypeOK, Waiting, NEW t \in Tasks, Grantable(t), queue' = Tail(queue)
    PROVE  /\ pc[t] = "queued"
           /\ queue' \in Seq(Tasks)
           /\ \A i \in 1 .. Len(queue') : queue'[i] # t /\ pc[queue'[i]] = "queued"
           /\ EachOnce(queue')
  <1>1. queue \in Seq(Tasks) /\ queue # <<>> /\ Len(queue) \in Nat \ {0} /\ queue[1] = t
    BY DEF TypeOK, Grantable
  <1>2. /\ queue' \in Seq(Tasks) /\ Len(queue') = Len(queue) - 1
        /\ \A i \in 1 .. Len(queue') : queue'[i] = queue[i + 1]
    BY <1>1
  <1>. QED
    BY <1>1, <1>2 DEF Waiting, EachOnce

(***************************************************************************)
(* A step that moves none of the waiting calls leaves the queue in order.  *)
(***************************************************************************)
LEMMA StillWaiting ==
    ASSUME TypeOK, Waiting, queue' = queue,
           \A t \in Tasks : pc[t] = "queued" => pc'[t] = "queued"
    PROVE  Waiting'
  <1>1. \A i \in 1 .. Len(queue) : queue[i] \in Tasks
    BY DEF TypeOK
  <1>. QED
    BY <1>1 DEF Waiting

(***************************************************************************)
(* A call that gives up leaves the queue, and the others keep their order. *)
(***************************************************************************)
LEMMA PlaceGivenUp ==
    ASSUME TypeOK, Waiting, NEW u \in Users, queue' = WithoutWaiter(u)
    PROVE  /\ queue' \in Seq(Tasks)
           /\ \A i \in 1 .. Len(queue') : queue'[i] # u /\ pc[queue'[i]] = "queued"
           /\ EachOnce(queue')
  <1>. DEFINE places == {i \in 1 .. Len(queue) : queue[i] = u}
              place == CHOOSE i \in places : TRUE
  <1>1. queue \in Seq(Tasks) /\ Len(queue) \in Nat
    BY DEF TypeOK
  <1>2. CASE places = {}
    <2>1. queue' = queue
      BY <1>2 DEF WithoutWaiter
    <2>. QED
      BY <1>1, <1>2, <2>1 DEF Waiting
  <1>3. CASE places # {}
    <2>1. place \in 1 .. Len(queue) /\ queue[place] = u
      BY <1>3
    <2>2. queue' = SubSeq(queue, 1, place - 1) \o SubSeq(queue, place + 1, Len(queue))
      BY <1>3 DEF WithoutWaiter
    <2>. HIDE DEF place, places
    <2>3. /\ queue' \in Seq(Tasks) /\ Len(queue') = Len(queue) - 1
          /\ \A i \in 1 .. Len(queue') : queue'[i] = IF i < place THEN queue[i] ELSE queue[i + 1]
      <3>. DEFINE a == SubSeq(queue, 1, place - 1)
                  b == SubSeq(queue, place + 1, Len(queue))
      <3>1. /\ place \in Int /\ Len(queue) \in Int
            /\ \A i \in 1 .. Len(queue) : queue[i] \in Tasks
        BY <1>1, <2>1
      <3>2. /\ a \in Seq(Tasks) /\ Len(a) = place - 1
            /\ \A i \in 1 .. place - 1 : a[i] = queue[i]
        BY <2>1, <3>1, SubSeqProperties
      <3>3. /\ b \in Seq(Tasks) /\ Len(b) = Len(queue) - place
            /\ \A i \in 1 .. Len(queue) - place : b[i] = queue[place + i]
        <4>1. \A i \in place + 1 .. Len(queue) : queue[i] \in Tasks
          BY <2>1, <3>1
        <4>2. /\ b \in Seq(Tasks)
              /\ Len(b) = IF place + 1 <= Len(queue) THEN Len(queue) - (place + 1) + 1 ELSE 0
              /\ \A i \in 1 .. Len(queue) - (place + 1) + 1 : b[i] = queue[(place + 1) + i - 1]
          BY <3>1, <4>1, SubSeqProperties
        <4>. QED
          BY <2>1, <3>1, <4>2
      <3>4. queue' = a \o b
        BY <2>2
      <3>. HIDE DEF a, b
      <3>5. /\ a \o b \in Seq(Tasks) /\ Len(a \o b) = Len(a) + Len(b)
            /\ \A i \in 1 .. Len(a) + Len(b) :
                  (a \o b)[i] = IF i <= Len(a) THEN a[i] ELSE b[i - Len(a)]
        BY <3>2, <3>3, ConcatProperties
      <3>6. Len(a \o b) = Len(queue) - 1
        BY <2>1, <3>1, <3>2, <3>3, <3>5
      <3>7. ASSUME NEW i \in 1 .. Len(queue) - 1
            PROVE  (a \o b)[i] = IF i < place THEN queue[i] ELSE queue[i + 1]
        <4>1. CASE i < place
          <5>1. i \in 1 .. place - 1 /\ i \in 1 .. Len(a) + Len(b) /\ i <= Len(a)
            BY <2>1, <3>1, <3>2, <3>3, <4>1
          <5>. QED
            BY <3>2, <3>5, <4>1, <5>1
        <4>2. CASE ~(i < place)
          <5>1. (a \o b)[i] = b[i - (place - 1)]
            BY <2>1, <3>1, <3>2, <3>3, <3>5, <4>2
          <5>2. /\ i - (place - 1) \in 1 .. Len(queue) - place
                /\ place + (i - (place - 1)) = i + 1
            BY <2>1, <3>1, <4>2
          <5>. QED
            BY <3>3, <4>2, <5>1, <5>2
        <4>. QED
          BY <4>1, <4>2
      <3>. QED
        BY <3>4, <3>5, <3>6, <3>7
    <2>4. \A i \in 1 .. Len(queue') : queue'[i] # u /\ pc[queue'[i]] = "queued"
      <3>1. ASSUME NEW j \in 1 .. Len(queue), j # place
            PROVE  queue[j] # u /\ pc[queue[j]] = "queued"
        BY <1>1, <2>1, <3>1 DEF Waiting, EachOnce
      <3>2. ASSUME NEW i \in 1 .. Len(queue')
            PROVE  \E j \in 1 .. Len(queue) : j # place /\ queue'[i] = queue[j]
        <4>1. CASE i < place
          <5>1. i \in 1 .. Len(queue) /\ i # place
            BY <2>1, <2>3, <4>1
          <5>. QED
            BY <2>3, <4>1, <5>1
        <4>2. CASE ~(i < place)
          <5>1. i + 1 \in 1 .. Len(queue) /\ i + 1 # place
            BY <2>1, <2>3, <4>2
          <5>. QED
            BY <2>3, <4>2, <5>1
        <4>. QED
          BY <4>1, <4>2
      <3>. QED
        BY <3>1, <3>2
    <2>5. EachOnce(queue')
      <3>. DEFINE from(i) == IF i < place THEN i ELSE i + 1
      <3>. SUFFICES ASSUME NEW i \in 1 .. Len(queue'), NEW j \in 1 .. Len(queue'),
                           queue'[i] = queue'[j]
                    PROVE  i = j
        BY DEF EachOnce
      <3>1. from(i) \in 1 .. Len(queue) /\ from(j) \in 1 .. Len(queue)
        BY <1>1, <2>1, <2>3
      <3>2. queue[from(i)] = queue[from(j)]
        BY <2>3
      <3>3. from(i) = from(j)
        BY <3>1, <3>2 DEF Waiting, EachOnce
      <3>. QED
        BY <2>1, <3>3
    <2>. QED
      BY <2>3, <2>4, <2>5
  <1>. QED
    BY <1>2, <1>3

(***************************************************************************)
(* Every step of the calls, the server, the backstop, the link and the     *)
(* clock keeps the invariant.                                              *)
(***************************************************************************)
LEMMA PgStep == PgInv /\ [Next]_vars => PgInv'
  <1>. SUFFICES ASSUME PgInv, [Next]_vars PROVE PgInv'
    OBVIOUS
  <1>. USE DEF PgInv, TypeOK
  <1>1. ASSUME NEW t \in Tasks, Call(t) PROVE PgInv'
    <2>. USE <1>1 DEF Call, Goto, histVars
    <2>1. TypeOK' /\ Holding' /\ Senders'
      BY DEF Holding, Tasks, Senders
    <2>2. Waiting'
      BY DEF Waiting, EachOnce
    <2>3. LastIsOwn' /\ Chained' /\ OpenAtEnd'
      BY DEF LastIsOwn, Chained, OpenAfter, OpenAtEnd
    <2>4. OnTime'
      <3>1. ASSUME NEW u \in Users, u = t PROVE ~Served(u) /\ age[u] = 0 /\ spent[u] = "nowhere"
        BY <3>1 DEF Served, Senders, OnTime
      <3>2. \A u \in Users : u # t => pc'[u] = pc[u]
        OBVIOUS
      <3>. QED
        BY <3>1, <3>2 DEF OnTime, Active, Served
    <2>5. BackstopHasCause'
      BY DEF BackstopHasCause
    <2>. QED  BY <2>1, <2>2, <2>3, <2>4, <2>5
  <1>2. ASSUME NEW t \in Tasks, GrantFails(t) PROVE PgInv'
    <2>. USE <1>2 DEF GrantFails, Goto, histVars
    <2>1. /\ pc[t] = "queued" /\ queue' \in Seq(Tasks)
          /\ \A i \in 1 .. Len(queue') : queue'[i] # t /\ pc[queue'[i]] = "queued"
          /\ EachOnce(queue')
      BY FirstGranted DEF Tasks
    <2>2. TypeOK'
      BY <2>1 DEF Finished
    <2>3. Waiting'
      BY <2>1 DEF Waiting
    <2>4. Holding' /\ LastIsOwn' /\ Chained'
      BY DEF Holding, LastIsOwn, Chained, OpenAfter
    <2>5. Senders'
      BY <2>1 DEF Senders
    <2>6. OpenAtEnd'
      BY <2>1 DEF OpenAtEnd, OpenAfter
    <2>7. OnTime' /\ BackstopHasCause'
      BY DEF OnTime, Active, Served, BackstopHasCause
    <2>. QED  BY <2>2, <2>3, <2>4, <2>5, <2>6, <2>7
  <1>3. ASSUME NEW u \in Users, GrantUser(u) PROVE PgInv'
    <2>. USE <1>3 DEF GrantUser, Goto, histVars, Grantable
    <2>1. /\ pc[u] = "queued" /\ queue' \in Seq(Tasks)
          /\ \A i \in 1 .. Len(queue') : queue'[i] # u /\ pc[queue'[i]] = "queued"
          /\ EachOnce(queue')
      BY FirstGranted DEF Tasks
    <2>2. /\ Msg(u, "begin") \in Messages /\ pipe' \in Seq(Messages)
          /\ Len(pipe') = Len(pipe) + 1
          /\ \A i \in 1 .. Len(pipe) : pipe'[i] = pipe[i]
          /\ pipe'[Len(pipe) + 1] = Msg(u, "begin")
      BY Sent DEF Msg, Messages, Kinds, Tasks
    <2>3. TypeOK'
      BY <2>2
    <2>4. Waiting'
      BY <2>1 DEF Waiting
    <2>5. Holding'
      BY CallsAssumption DEF Holding
    <2>6. Senders'
      BY CallsAssumption DEF Senders, Msg, Holding
    <2>7. LastIsOwn'
      BY <2>1, CallsAssumption DEF LastIsOwn, Holding, Tasks, Senders
    <2>8. Chained'
      BY CallsAssumption DEF Chained, OpenAfter, Msg, OpenAtEnd, Holding,
         Tasks
    <2>9. OpenAtEnd'
      BY DEF OpenAtEnd, OpenAfter, Msg
    <2>10. OnTime'
      <3>1. pipe' # <<>>
        BY <2>2
      <3>2. \A v \in Users : stmtAge > 0 /\ Served(v)' => Served(v)
        BY <2>2 DEF OnTime, Served
      <3>3. \A v \in Users : (pc'[v] = "idle" => pc[v] = "idle") /\ (Active(v)' => Active(v))
        BY <2>1 DEF Active
      <3>. QED
        BY <3>1, <3>2, <3>3, ClockKept
    <2>11. BackstopHasCause'
      BY DEF BackstopHasCause
    <2>. QED  BY <2>3, <2>4, <2>5, <2>6, <2>7, <2>8, <2>9, <2>10, <2>11
  <1>4. ASSUME NEW r \in Readers, GrantReader(r) PROVE PgInv'
    <2>. USE <1>4 DEF GrantReader, Goto, histVars, Grantable
    <2>1. /\ pc[r] = "queued" /\ queue' \in Seq(Tasks)
          /\ \A i \in 1 .. Len(queue') : queue'[i] # r /\ pc[queue'[i]] = "queued"
          /\ EachOnce(queue')
      BY FirstGranted DEF Tasks
    <2>2. /\ Msg(r, "exec") \in Messages /\ pipe' \in Seq(Messages)
          /\ Len(pipe') = Len(pipe) + 1
          /\ \A i \in 1 .. Len(pipe) : pipe'[i] = pipe[i]
          /\ pipe'[Len(pipe) + 1] = Msg(r, "exec")
      BY Sent DEF Msg, Messages, Kinds, Tasks
    <2>3. TypeOK'
      BY <2>2
    <2>4. Waiting'
      BY <2>1 DEF Waiting
    <2>5. Holding'
      BY CallsAssumption DEF Holding
    <2>6. Senders'
      BY <2>1 DEF Senders, Msg
    <2>7. LastIsOwn'
      BY CallsAssumption DEF LastIsOwn, Holding, Tasks
    <2>8. Chained'
      BY CallsAssumption DEF Chained, OpenAfter, Msg, OpenAtEnd, Holding,
         Tasks
    <2>9. OpenAtEnd' /\ BackstopHasCause'
      BY DEF OpenAtEnd, OpenAfter, Msg, BackstopHasCause
    <2>10. OnTime'
      <3>1. pipe' # <<>>
        <4>1. Len(pipe) \in Nat /\ Len(pipe') = Len(pipe) + 1
          BY <2>2
        <4>. QED
          BY <4>1
      <3>2. \A v \in Users : stmtAge > 0 /\ Served(v)' => Served(v)
        BY <2>2 DEF OnTime, Served
      <3>3. \A v \in Users : (pc'[v] = "idle" => pc[v] = "idle") /\ (Active(v)' => Active(v))
        BY <2>1 DEF Active
      <3>. QED
        BY <3>1, <3>2, <3>3, ClockKept
    <2>. QED  BY <2>3, <2>4, <2>5, <2>6, <2>7, <2>8, <2>9, <2>10
  <1>5. ASSUME NEW c \in Closers, GrantCloser(c) PROVE PgInv'
    <2>. USE <1>5 DEF GrantCloser, Goto, histVars, Grantable
    <2>1. /\ pc[c] = "queued" /\ queue' \in Seq(Tasks)
          /\ \A i \in 1 .. Len(queue') : queue'[i] # c /\ pc[queue'[i]] = "queued"
          /\ EachOnce(queue')
      BY FirstGranted DEF Tasks
    <2>2. TypeOK'
      BY TimeoutAssumption DEF Finished
    <2>3. Waiting'
      BY <2>1 DEF Waiting
    <2>4. Holding'
      BY CallsAssumption DEF Holding
    <2>5. Senders' /\ Chained' /\ OpenAtEnd'
      BY DEF Senders, Chained, OpenAtEnd, OpenAfter
    <2>6. LastIsOwn'
      BY CallsAssumption DEF LastIsOwn, Holding, Tasks
    <2>7. BackstopHasCause'
      BY DEF BackstopHasCause
    <2>8. OnTime'
      BY <2>1, ClockKept DEF Active, Tasks
    <2>. QED  BY <2>2, <2>3, <2>4, <2>5, <2>6, <2>7, <2>8
  <1>6. ASSUME BeginAnswered, pc[First.task] = "begin" PROVE PgInv'
    <2>. USE <1>6 DEF BeginAnswered, Serving, Goto, histVars
    <2>1. Len(pipe) \in Nat \ {0} /\ First = pipe[1] /\ First \in Messages
      BY FirstMessage
    <2>2. Len(pipe) = 1 /\ First = Msg(First.task, pc[First.task])
      BY <2>1, FirstMeets, OnlyMessage
    <2>3. Msg(First.task, "prepare") \in Messages
      BY <2>1 DEF Messages, Msg, Kinds
    <2>4. /\ pipe' \in Seq(Messages) /\ Len(pipe') = 1
          /\ pipe'[1] = Msg(First.task, "prepare") /\ stmtAge' = 0
      BY <2>2, <2>3, AnswerAndSend
    <2>5. /\ First.task \in Users
          /\ pc' = [pc EXCEPT ![First.task] = "prepare"]
      BY FirstMeets
    <2>6. Waiting'
      <3>1. \A t \in Tasks : pc[t] = "queued" => pc'[t] = "queued"
        BY <2>5
      <3>. QED
        BY <3>1, StillWaiting
    <2>7. TypeOK'
      BY <2>1, <2>4, <2>5, TimeoutAssumption DEF Messages
    <2>8. Holding'
      BY <2>5 DEF Holding
    <2>9. Senders'
      BY <2>1, <2>2, <2>4 DEF Senders, Msg
    <2>10. LastIsOwn'
      BY <2>4, <2>5 DEF LastIsOwn, Holding, Tasks
    <2>11. Chained'
      BY <2>4, <2>5, CallsAssumption DEF Chained, OpenAfter, Msg
    <2>12. OpenAtEnd'
      BY <2>4, <2>5 DEF OpenAtEnd, OpenAfter, Msg
    <2>13. OnTime'
      BY <2>4, <2>5, ClockKept DEF Active, Tasks
    <2>14. BackstopHasCause'
      BY <2>5 DEF BackstopHasCause
    <2>. QED  BY <2>6, <2>7, <2>8, <2>9, <2>10, <2>11, <2>12, <2>13, <2>14
  <1>7. ASSUME BeginAnswered, pc[First.task] # "begin" PROVE PgInv'
    <2>. USE <1>7 DEF BeginAnswered, Serving, Goto, histVars
    <2>1. Len(pipe) \in Nat \ {0} /\ First = pipe[1] /\ First \in Messages
      BY FirstMessage
    <2>2. /\ pipe' \in Seq(Messages) /\ Len(pipe') = Len(pipe) - 1
          /\ \A i \in 1 .. Len(pipe') : pipe'[i] = pipe[i + 1]
          /\ stmtAge' = 0
      BY AnswerOnly
    <2>3. txn' = OpenAfter(1)
      BY FirstMeets
    <2>4. /\ \A t \in Tasks : t # First.task => pc'[t] = pc[t]
          /\ pc'[First.task] \notin Unfinished
          /\ First.task \in Users => pc[First.task] \notin Began
      BY <2>1, FirstMeets, OnlyMessage, CallsAssumption
         DEF Senders, Msg, Messages
    <2>5. Senders' /\ LastIsOwn' /\ Chained' /\ OpenAtEnd' /\ OnTime'
      BY <2>3, <2>4, AnswerKeeps
    <2>6. Waiting'
      <3>1. \A t \in Tasks : pc[t] = "queued" => pc'[t] = "queued"
        BY <2>1
      <3>. QED
        BY <3>1, StillWaiting
    <2>7. TypeOK'
      BY <2>1, <2>2, TimeoutAssumption DEF Messages
    <2>8. Holding' /\ BackstopHasCause'
      BY DEF Holding, BackstopHasCause
    <2>. QED  BY <2>5, <2>6, <2>7, <2>8
  <1>8. ASSUME NEW k \in Statements, NEW next \in {"bind", "exec", "commit"},
               StatementAnswered(k, next)
        PROVE  PgInv'
    <2>. USE <1>8 DEF StatementAnswered, Serving, Goto, histVars
    <2>1. Len(pipe) \in Nat \ {0} /\ First = pipe[1] /\ First \in Messages
      BY FirstMessage
    <2>2. Len(pipe) = 1 /\ First = Msg(First.task, pc[First.task])
      BY <2>1, OnlyMessage
    <2>3. Msg(First.task, next) \in Messages
      BY <2>1 DEF Messages, Msg, Kinds
    <2>4. /\ pipe' \in Seq(Messages) /\ Len(pipe') = 1
          /\ pipe'[1] = Msg(First.task, next) /\ stmtAge' = 0
      BY <2>2, <2>3, AnswerAndSend
    <2>5. Waiting'
      <3>1. \A t \in Tasks : pc[t] = "queued" => pc'[t] = "queued"
        BY <2>1, <2>2
      <3>. QED
        BY <3>1, StillWaiting
    <2>6. TypeOK'
      BY <2>1, <2>4, TimeoutAssumption DEF Messages
    <2>7. Holding'
      BY CallsAssumption DEF Holding
    <2>8. Senders'
      BY <2>4, CallsAssumption DEF Senders, Msg
    <2>9. LastIsOwn'
      BY <2>4 DEF LastIsOwn, Holding, Tasks
    <2>10. Chained'
      <3>1. txn = First.task
        BY FirstMeets, CallsAssumption
      <3>. QED
        BY <2>4, <3>1, CallsAssumption DEF Chained, OpenAfter, Msg
    <2>11. OpenAtEnd'
      BY <2>4 DEF OpenAtEnd, OpenAfter, Msg, Tasks
    <2>12. OnTime'
      BY <2>4, ClockKept DEF Active, Tasks
    <2>13. BackstopHasCause'
      BY DEF BackstopHasCause, Tasks
    <2>. QED  BY <2>5, <2>6, <2>7, <2>8, <2>9, <2>10, <2>11, <2>12, <2>13
  <1>9. ASSUME NEW loc \in {"done", "failed"}, ReaderEnds(loc) PROVE PgInv'
    <2>. USE <1>9 DEF ReaderEnds, ServingStatement, Serving, Goto, histVars, Ending
    <2>1. Len(pipe) \in Nat \ {0} /\ First = pipe[1] /\ First \in Messages
      BY FirstMessage
    <2>2. /\ pipe' \in Seq(Messages) /\ Len(pipe') = Len(pipe) - 1
          /\ \A i \in 1 .. Len(pipe') : pipe'[i] = pipe[i + 1]
          /\ stmtAge' = 0
      BY AnswerOnly
    <2>3. txn' = OpenAfter(1)
      BY FirstMeets
    <2>4. /\ \A t \in Tasks : t # First.task => pc'[t] = pc[t]
          /\ pc'[First.task] \notin Unfinished
          /\ First.task \in Users => pc[First.task] \notin Began
      BY <2>1, FirstMeets, OnlyMessage, CallsAssumption
         DEF Senders, Msg, Messages
    <2>5. Senders' /\ LastIsOwn' /\ Chained' /\ OpenAtEnd' /\ OnTime'
      BY <2>3, <2>4, AnswerKeeps
    <2>6. Waiting'
      <3>1. \A t \in Tasks : pc[t] = "queued" => pc'[t] = "queued"
        BY FirstMeets
      <3>. QED
        BY <3>1, StillWaiting
    <2>7. TypeOK'
      BY <2>1, <2>2, TimeoutAssumption DEF Messages, Finished
    <2>8. Holding' /\ BackstopHasCause'
      BY DEF Holding, BackstopHasCause
    <2>. QED  BY <2>5, <2>6, <2>7, <2>8
  <1>10. ASSUME QueryFails PROVE PgInv'
    <2>. USE <1>10 DEF QueryFails, ExecFails, ServingStatement, Serving, Goto, histVars, Ending
    <2>1. Len(pipe) \in Nat \ {0} /\ First = pipe[1] /\ First \in Messages
      BY FirstMessage
    <2>2. Len(pipe) = 1 /\ First = Msg(First.task, pc[First.task])
      BY <2>1, OnlyMessage
    <2>3. Msg(First.task, "rollback") \in Messages
      BY <2>1 DEF Messages, Msg, Kinds
    <2>4. /\ pipe' \in Seq(Messages) /\ Len(pipe') = 1
          /\ pipe'[1] = Msg(First.task, "rollback") /\ stmtAge' = 0
      BY <2>2, <2>3, AnswerAndSend
    <2>5. Waiting'
      <3>1. \A t \in Tasks : pc[t] = "queued" => pc'[t] = "queued"
        BY <2>1, <2>2
      <3>. QED
        BY <3>1, StillWaiting
    <2>6. TypeOK'
      BY <2>1, <2>4, TimeoutAssumption DEF Messages, Finished
    <2>7. Holding' /\ BackstopHasCause'
      BY DEF Holding, BackstopHasCause
    <2>8. Senders'
      BY <2>4, CallsAssumption DEF Senders, Msg
    <2>9. LastIsOwn'
      BY DEF LastIsOwn, Holding, Tasks
    <2>10. Chained'
      BY <2>1, <2>4 DEF Chained, OpenAfter, Msg
    <2>11. OpenAtEnd'
      BY <2>4 DEF OpenAtEnd, OpenAfter, Msg
    <2>12. OnTime'
      BY <2>4, ClockKept DEF Active, Tasks
    <2>. QED  BY <2>5, <2>6, <2>7, <2>8, <2>9, <2>10, <2>11, <2>12
  <1>11. ASSUME OrphanEnds PROVE PgInv'
    <2>. USE <1>11 DEF OrphanEnds, ServingStatement, Serving, Goto, histVars, Ending
    <2>1. Len(pipe) \in Nat \ {0} /\ First = pipe[1] /\ First \in Messages
      BY FirstMessage
    <2>2. /\ pipe' \in Seq(Messages) /\ Len(pipe') = Len(pipe) - 1
          /\ \A i \in 1 .. Len(pipe') : pipe'[i] = pipe[i + 1]
          /\ stmtAge' = 0
      BY AnswerOnly
    <2>3. txn' = OpenAfter(1)
      BY FirstMeets
    <2>4. /\ \A t \in Tasks : t # First.task => pc'[t] = pc[t]
          /\ pc'[First.task] \notin Unfinished
          /\ First.task \in Users => pc[First.task] \notin Began
      BY <2>1, FirstMeets, OnlyMessage, CallsAssumption
         DEF Senders, Msg, Messages
    <2>5. Senders' /\ LastIsOwn' /\ Chained' /\ OpenAtEnd' /\ OnTime'
      BY <2>3, <2>4, AnswerKeeps
    <2>6. TypeOK'
      BY <2>2, TimeoutAssumption
    <2>7. Waiting' /\ Holding'
      BY DEF Waiting, Holding
    <2>8. BackstopHasCause'
      BY DEF BackstopHasCause
    <2>. QED  BY <2>5, <2>6, <2>7, <2>8
  <1>12. ASSUME CommitAnswered PROVE PgInv'
    <2>. USE <1>12 DEF CommitAnswered, Serving, Goto, histVars
    <2>1. Len(pipe) \in Nat \ {0} /\ First = pipe[1] /\ First \in Messages
      BY FirstMessage
    <2>2. /\ pipe' \in Seq(Messages) /\ Len(pipe') = Len(pipe) - 1
          /\ \A i \in 1 .. Len(pipe') : pipe'[i] = pipe[i + 1]
          /\ stmtAge' = 0
      BY AnswerOnly
    <2>3. txn' = OpenAfter(1)
      BY FirstMeets
    <2>4. /\ \A t \in Tasks : t # First.task => pc'[t] = pc[t]
          /\ pc'[First.task] \notin Unfinished
          /\ First.task \in Users => pc[First.task] \notin Began
      BY <2>1, FirstMeets, OnlyMessage, CallsAssumption
         DEF Senders, Msg, Messages
    <2>5. Senders' /\ LastIsOwn' /\ Chained' /\ OpenAtEnd' /\ OnTime'
      BY <2>3, <2>4, AnswerKeeps
    <2>6. /\ pc' \in [Tasks -> Unfinished \cup Finished]
          /\ holders' \subseteq Tasks
      BY DEF Finished
    <2>7. Waiting'
      <3>1. \A t \in Tasks : pc[t] = "queued" => pc'[t] = "queued"
        BY <2>1
      <3>. QED
        BY <3>1, StillWaiting
    <2>8. TypeOK'
      BY <2>2, <2>6, TimeoutAssumption
    <2>9. Holding' /\ BackstopHasCause'
      BY DEF Holding, Tasks, BackstopHasCause
    <2>. QED  BY <2>5, <2>7, <2>8, <2>9
  <1>13. ASSUME RollbackAnswered PROVE PgInv'
    <2>. USE <1>13 DEF RollbackAnswered, Serving, Goto, histVars
    <2>1. Len(pipe) \in Nat \ {0} /\ First = pipe[1] /\ First \in Messages
      BY FirstMessage
    <2>2. /\ pipe' \in Seq(Messages) /\ Len(pipe') = Len(pipe) - 1
          /\ \A i \in 1 .. Len(pipe') : pipe'[i] = pipe[i + 1]
          /\ stmtAge' = 0
      BY AnswerOnly
    <2>3. txn' = OpenAfter(1)
      BY FirstMeets
    <2>4. /\ \A t \in Tasks : t # First.task => pc'[t] = pc[t]
          /\ pc'[First.task] \notin Unfinished
          /\ First.task \in Users => pc[First.task] \notin Began
      BY <2>1, FirstMeets, OnlyMessage, CallsAssumption
         DEF Senders, Msg, Messages
    <2>5. Senders' /\ LastIsOwn' /\ Chained' /\ OpenAtEnd' /\ OnTime'
      BY <2>3, <2>4, AnswerKeeps
    <2>6. Waiting'
      <3>1. \A t \in Tasks : pc[t] = "queued" => pc'[t] = "queued"
        OBVIOUS
      <3>. QED
        BY <3>1, StillWaiting
    <2>7. TypeOK'
      BY <2>2, TimeoutAssumption
    <2>8. Holding' /\ BackstopHasCause'
      BY DEF Holding, BackstopHasCause
    <2>. QED  BY <2>5, <2>6, <2>7, <2>8
  <1>14. ASSUME NEW u \in Users, Backstop(u), pc[u] \in Began
         PROVE  PgInv'
    <2>. USE <1>14 DEF Backstop, Goto, histVars, Active
    <2>1. /\ queue' \in Seq(Tasks)
          /\ \A i \in 1 .. Len(queue') : queue'[i] # u /\ pc[queue'[i]] = "queued"
          /\ EachOnce(queue')
      BY PlaceGivenUp
    <2>2. pipe' = Append(pipe, Msg(u, "rollback")) /\ Msg(u, "rollback") \in Messages
      BY DEF Dropped, Holding, Msg, Messages, Kinds, Tasks
    <2>3. /\ pipe' \in Seq(Messages) /\ Len(pipe) \in Nat /\ Len(pipe') = Len(pipe) + 1
          /\ \A i \in 1 .. Len(pipe) : pipe'[i] = pipe[i]
          /\ pipe'[Len(pipe) + 1] = Msg(u, "rollback")
      BY <2>2, Sent
    <2>4. OpenAfter(Len(pipe)) = u
      <3>1. Len(pipe) > 0 /\ pipe[Len(pipe)] = Msg(u, pc[u])
        BY DEF LastIsOwn
      <3>2. Msg(u, pc[u]).task = u /\ Msg(u, pc[u]).kind = pc[u] /\ u \notin Readers
        BY CallsAssumption DEF Msg
      <3>. QED
        BY <2>3, <3>1, <3>2 DEF OpenAfter
    <2>5. Chained' /\ OpenAfter(Len(pipe))' = NoTask
      BY <2>2, <2>4, SentChained, CallsAssumption DEF Msg
    <2>6. Senders'
      <3>1. \A t \in Users \cup Readers : pc'[t] = IF t = u THEN "timedOut" ELSE pc[t]
        BY DEF Tasks
      <3>2. Msg(u, "rollback").task = u /\ u \notin Readers
        BY CallsAssumption DEF Msg
      <3>3. \A i \in 1 .. Len(pipe') :
              pipe'[i].task = u \/ (i \in 1 .. Len(pipe) /\ pipe'[i] = pipe[i])
        BY <2>3, <3>2
      <3>4. ASSUME NEW i \in 1 .. Len(pipe')
            PROVE  /\ pipe'[i].task \in Users \cup Readers
                   /\ pc'[pipe'[i].task] \notin {"idle", "queued"}
                   /\ pipe'[i].task \in Readers =>
                         pipe'[i].kind = "exec" /\ pc'[pipe'[i].task] = "exec"
        <4>1. CASE pipe'[i].task = u
          BY <3>1, <3>2, <4>1
        <4>2. CASE i \in 1 .. Len(pipe) /\ pipe'[i] = pipe[i] /\ pipe'[i].task # u
          BY <3>1, <4>2 DEF Senders
        <4>. QED
          BY <3>3, <4>1, <4>2
      <3>5. ASSUME NEW i \in 1 .. Len(pipe'), NEW j \in 1 .. Len(pipe'),
                   pipe'[i].task \in Readers, pipe'[j].task = pipe'[i].task
            PROVE  i = j
        <4>1. \A a, b \in 1 .. Len(pipe) :
                 pipe[a].task \in Readers /\ pipe[b].task = pipe[a].task => a = b
          BY DEF Senders
        <4>2. /\ i \in 1 .. Len(pipe) /\ pipe'[i] = pipe[i]
              /\ j \in 1 .. Len(pipe) /\ pipe'[j] = pipe[j]
          BY <3>2, <3>3, <3>5
        <4>. QED
          BY <3>5, <4>1, <4>2
      <3>. QED
        BY <3>4, <3>5 DEF Senders
    <2>7. BackstopHasCause'
      <3>1. age[u] > ServerTicks
        BY TimeoutAssumption
      <3>2. timeoutSet => spent[u] = "several"
        BY <3>1, TimeoutAssumption DEF OnTime
      <3>. QED
        BY <3>2 DEF BackstopHasCause
    <2>8. TypeOK'
      BY <2>1, <2>3 DEF Finished
    <2>9. Waiting'
      BY <2>1 DEF Waiting
    <2>10. Holding'
      BY DEF Holding, Tasks
    <2>11. LastIsOwn'
      BY DEF LastIsOwn, Holding, Tasks
    <2>12. OpenAtEnd'
      BY <2>5 DEF OpenAtEnd
    <2>13. OnTime'
      <3>1. pipe' # <<>>
        BY <2>3
      <3>2. \A v \in Users : stmtAge > 0 /\ Served(v)' => Served(v)
        BY <2>3 DEF OnTime, Served
      <3>. QED
        BY <3>1, <3>2, ClockKept
    <2>. QED  BY <2>5, <2>6, <2>7, <2>8, <2>9, <2>10, <2>11, <2>12, <2>13
  <1>15. ASSUME NEW u \in Users, Backstop(u), pc[u] \notin Began
         PROVE  PgInv'
    <2>. USE <1>15 DEF Backstop, Goto, histVars, Active
    <2>1. /\ queue' \in Seq(Tasks)
          /\ \A i \in 1 .. Len(queue') : queue'[i] # u /\ pc[queue'[i]] = "queued"
          /\ EachOnce(queue')
      BY PlaceGivenUp
    <2>2. pipe' = pipe
      BY DEF Dropped
    <2>3. BackstopHasCause'
      <3>1. age[u] > ServerTicks
        BY TimeoutAssumption
      <3>2. timeoutSet => spent[u] = "several"
        BY <3>1, TimeoutAssumption DEF OnTime
      <3>. QED
        BY <3>2 DEF BackstopHasCause
    <2>4. TypeOK'
      BY <2>1, <2>2 DEF Finished
    <2>5. Waiting'
      BY <2>1 DEF Waiting
    <2>6. Holding'
      BY <2>2 DEF Holding
    <2>7. Senders'
      BY <2>2 DEF Senders
    <2>8. LastIsOwn'
      BY <2>2 DEF LastIsOwn
    <2>9. Chained'
      BY <2>2 DEF Chained, OpenAfter
    <2>10. OpenAtEnd'
      BY <2>2 DEF OpenAtEnd, OpenAfter
    <2>11. OnTime'
      BY <2>2 DEF OnTime, Served
    <2>. QED  BY <2>3, <2>4, <2>5, <2>6, <2>7, <2>8, <2>9, <2>10, <2>11
  <1>16. ASSUME NEW u \in Users, CancelMisses(u) PROVE PgInv'
    <2>. USE <1>16 DEF CancelMisses, histVars
    <2>1. TypeOK' /\ Waiting' /\ Holding'
      BY DEF Waiting, Holding
    <2>2. Senders' /\ LastIsOwn' /\ Chained'
      BY DEF Senders, LastIsOwn, Chained, OpenAfter
    <2>3. OpenAtEnd' /\ OnTime'
      BY DEF OpenAtEnd, OpenAfter, OnTime, Active, Served
    <2>4. BackstopHasCause'
      BY DEF BackstopHasCause
    <2>. QED  BY <2>1, <2>2, <2>3, <2>4
  <1>17. ASSUME GoSilent PROVE PgInv'
    <2>. USE <1>17 DEF GoSilent, histVars
    <2>1. TypeOK'
      BY CallsAssumption
    <2>2. Waiting' /\ Holding' /\ Senders'
      BY DEF Waiting, Holding, Senders
    <2>3. LastIsOwn' /\ Chained' /\ OpenAtEnd'
      BY DEF LastIsOwn, Chained, OpenAfter, OpenAtEnd
    <2>4. OnTime' /\ BackstopHasCause'
      BY DEF OnTime, Active, Served, BackstopHasCause
    <2>. QED  BY <2>1, <2>2, <2>3, <2>4
  <1>18. ASSUME GoLoud PROVE PgInv'
    <2>. USE <1>18 DEF GoLoud, histVars
    <2>1. TypeOK' /\ Waiting' /\ Holding'
      BY DEF Waiting, Holding
    <2>2. Senders' /\ LastIsOwn' /\ Chained'
      BY DEF Senders, LastIsOwn, Chained, OpenAfter
    <2>3. OpenAtEnd' /\ OnTime'
      BY DEF OpenAtEnd, OpenAfter, OnTime, Active, Served
    <2>4. BackstopHasCause'
      BY DEF BackstopHasCause
    <2>. QED  BY <2>1, <2>2, <2>3, <2>4
  <1>19. ASSUME KeepaliveReset PROVE PgInv'
    <2>. USE <1>19 DEF KeepaliveReset, histVars
    <2>1. Waiting'
      <3>1. \A t \in Tasks : pc[t] = "queued" => pc'[t] = "queued"
        BY DEF Holding
      <3>. QED
        BY <3>1, StillWaiting
    <2>2. TypeOK'
      BY TimeoutAssumption DEF Finished
    <2>3. Holding' /\ Senders' /\ Chained'
      BY DEF Holding, Tasks, Senders, Chained
    <2>4. LastIsOwn'
      BY DEF LastIsOwn, Holding, Tasks
    <2>5. OpenAtEnd' /\ BackstopHasCause'
      BY DEF OpenAtEnd, OpenAfter, Tasks, BackstopHasCause
    <2>6. OnTime'
      BY ClockKept DEF Active, Tasks
    <2>. QED  BY <2>1, <2>2, <2>3, <2>4, <2>5, <2>6
  <1>20. ASSUME Tick PROVE PgInv'
    <2>. USE <1>20 DEF Tick, TimersNotDue, StatementNotDue
    <2>1. OnTime'
      <3>1. ASSUME pipe' = <<>> PROVE stmtAge' = 0
        BY <3>1 DEF OnTime
      <3>2. ASSUME NEW u \in Users, pc'[u] = "idle"
            PROVE  age'[u] = 0 /\ spent'[u] = "nowhere"
        BY <3>2 DEF OnTime, Active
      <3>3. ASSUME NEW u \in Users, Active(u)', timeoutSet'
            PROVE  /\ spent'[u] = "nowhere" => age'[u] = 0 /\ (Served(u)' => stmtAge' = 0)
                   /\ spent'[u] = "one" => /\ age'[u] <= ServerTicks
                                           /\ Served(u)' /\ stmtAge' > 0 => age'[u] = stmtAge'
        <4>1. Active(u) /\ timeoutSet /\ age'[u] = age[u] + 1
          BY <3>3 DEF Active
        <4>2. CASE ~InOneStatement(u)
          BY <4>1, <4>2
        <4>3. CASE InOneStatement(u)
          <5>1. Served(u) /\ stmtAge < ServerTicks /\ stmtAge' = stmtAge + 1
            BY <4>1, <4>3, FirstMessage DEF InOneStatement, Served
          <5>2. spent'[u] = "one"
            BY <4>1, <4>3
          <5>3. age[u] = stmtAge
            BY <4>1, <4>3, <5>1 DEF InOneStatement, OnTime
          <5>. QED
            BY <4>1, <5>1, <5>2, <5>3, TimeoutAssumption
        <4>. QED
          BY <4>2, <4>3
      <3>. QED
        BY <3>1, <3>2, <3>3 DEF OnTime
    <2>2. TypeOK'
      BY TimeoutAssumption
    <2>3. Waiting' /\ Holding' /\ Senders'
      BY DEF Waiting, Holding, Senders
    <2>4. LastIsOwn' /\ Chained' /\ OpenAtEnd'
      BY DEF LastIsOwn, Chained, OpenAfter, OpenAtEnd
    <2>5. BackstopHasCause'
      BY DEF BackstopHasCause, Active, Tasks
    <2>. QED  BY <2>1, <2>2, <2>3, <2>4, <2>5
  <1>21. CASE UNCHANGED vars
    BY <1>21 DEF vars, Waiting, Holding, Senders, LastIsOwn, Chained,
       OpenAtEnd, OnTime, BackstopHasCause, OpenAfter, Active, Served
  <1>. QED
    BY <1>1, <1>2, <1>3, <1>4, <1>5, <1>6, <1>7, <1>8, <1>9, <1>10,
       <1>11, <1>12, <1>13, <1>14, <1>15, <1>16, <1>17, <1>18, <1>19, <1>20,
       <1>21 DEF Next, Grant, ServerStep, ReaderAnswered, ExecError,
       OrphanAnswered, CancelHits, Quiescent, ReaderEnds, QueryFails,
       OrphanEnds, Ending, PrepareAnswered, BindAnswered, NothingToFetch,
       FetchMore, FetchLast, ServingStatement

(***************************************************************************)
(* The inductive invariant holds of every behaviour.                       *)
(***************************************************************************)
LEMMA PgInvHolds == Spec => []PgInv
  BY PgInit, PgStep, PTL DEF Spec

(***************************************************************************)
(* No statement of one call ever runs in the transaction of another.       *)
(***************************************************************************)
THEOREM PostgresTransactionsSeparate == Spec => []TransactionsSeparate
  <1>1. PgInv => TransactionsSeparate
    <2>. SUFFICES ASSUME PgInv, pipe # <<>>
                  PROVE  /\ First.kind = "begin" => txn = NoTask
                         /\ First.kind = "exec" /\ First.task \in Readers => txn = NoTask
                         /\ txn \in {First.task, NoTask}
      BY DEF TransactionsSeparate
    <2>. QED
      BY FirstMeets
  <1>. QED
    BY <1>1, PgInvHolds, PTL

(***************************************************************************)
(* A backstop that trips has one of its causes.                            *)
(***************************************************************************)
THEOREM PostgresBackstopHasCause == Spec => []BackstopHasCause
  <1>1. PgInv => BackstopHasCause
    BY DEF PgInv
  <1>. QED
    BY <1>1, PgInvHolds, PTL

HIDE DEF Statements, Sending, Began, Unfinished

-----------------------------------------------------------------------------
(* The ClickHouse driver *)

\* How far a query's requests have come at each location.
ChRequests ==
    \A q \in Queries :
        /\ stage[q] \in {"idle", "waiting"} => request[q] = 0
        /\ InFlight(q) => request[q] \in 1 .. last[q]
        /\ q \in unguarded => stage[q] \in {"tripped", "timedOut", "gone"}

\* While no other query has sent anything, a query that is sending, or was
\* when it was dropped, is the one the slot names.
SoloHoldsSlot ==
    \A q \in Queries :
        (/\ stage[q] = "sending" \/ (q \in unguarded /\ connected)
         /\ \A o \in Queries \ {q} : request[o] = 0)
        => slot = Current(q)

ChInv == ClickHouseTypeOK /\ ChRequests /\ SlotNamesLiveRequest /\ SoloHoldsSlot

(***************************************************************************)
(* A driver without queries satisfies the invariant.                       *)
(***************************************************************************)
LEMMA ChInit ==
    ASSUME ClickHouseInit
    PROVE  ChInv
  BY DEF ClickHouseInit, ChInv, ClickHouseTypeOK, Locations, ChRequests,
     SlotNamesLiveRequest, SoloHoldsSlot, InFlight

(***************************************************************************)
(* Every step of a query, of its backstop and of the server, and the       *)
(* disconnect, keep the invariant.                                         *)
(***************************************************************************)
LEMMA ChStep ==
    ASSUME ChInv, [ClickHouseNext]_clickHouseVars
    PROVE  ChInv'
  <1>. USE DEF ChInv, ClickHouseTypeOK
  <1>1. ASSUME NEW q \in Queries, NEW n \in 1 .. 2, Start(q, n) PROVE ChInv'
    <2>. USE <1>1 DEF Start, SendNext, MoveTo
    <2>1. ClickHouseTypeOK'
      BY DEF Locations, Requests, ChRequests
    <2>2. ChRequests' /\ SlotNamesLiveRequest' /\ SoloHoldsSlot'
      BY DEF ChRequests, InFlight, SlotNamesLiveRequest, Current,
         SoloHoldsSlot
    <2>. QED  BY <2>1, <2>2
  <1>2. ASSUME NEW q \in Queries, StartNotConnected(q) PROVE ChInv'
    <2>. USE <1>2 DEF StartNotConnected, MoveTo
    <2>1. ClickHouseTypeOK' /\ ChRequests' /\ SlotNamesLiveRequest' /\ SoloHoldsSlot'
      BY DEF Locations, ChRequests, InFlight, SlotNamesLiveRequest,
         Current, SoloHoldsSlot
    <2>. QED  BY <2>1
  <1>3. ASSUME NEW q \in Queries, ResponseArrives(q) PROVE ChInv'
    <2>. USE <1>3 DEF ResponseArrives, MoveTo
    <2>1. ClickHouseTypeOK' /\ ChRequests' /\ SlotNamesLiveRequest'
      BY DEF Locations, ChRequests, InFlight, SlotNamesLiveRequest,
         Current
    <2>2. SoloHoldsSlot'
      BY DEF SoloHoldsSlot, ChRequests, InFlight
    <2>. QED  BY <2>1, <2>2
  <1>4. ASSUME NEW q \in Queries, RequestFails(q) PROVE ChInv'
    <2>. USE <1>4 DEF RequestFails, Cleared, MoveTo
    <2>1. ClickHouseTypeOK' /\ ChRequests' /\ SlotNamesLiveRequest'
      BY DEF Locations, ChRequests, InFlight, SlotNamesLiveRequest,
         Current
    <2>2. SoloHoldsSlot'
      BY DEF SoloHoldsSlot, ChRequests, InFlight, Current
    <2>. QED  BY <2>1, <2>2
  <1>5. ASSUME NEW q \in Queries, ProbeDone(q) PROVE ChInv'
    <2>. USE <1>5 DEF ProbeDone, MoveTo
    <2>1. ClickHouseTypeOK' /\ ChRequests' /\ SlotNamesLiveRequest' /\ SoloHoldsSlot'
      BY DEF Locations, Requests, ChRequests, InFlight,
         SlotNamesLiveRequest, Current, SoloHoldsSlot
    <2>. QED  BY <2>1
  <1>6. ASSUME NEW q \in Queries, QueryDone(q) PROVE ChInv'
    <2>. USE <1>6 DEF QueryDone, Cleared, MoveTo
    <2>1. ClickHouseTypeOK' /\ ChRequests' /\ SlotNamesLiveRequest' /\ SoloHoldsSlot'
      BY DEF Locations, ChRequests, InFlight, SlotNamesLiveRequest,
         Current, SoloHoldsSlot
    <2>. QED  BY <2>1
  <1>7. ASSUME NEW q \in Queries, QueryBackstop(q) \/ ClientGone(q) PROVE ChInv'
    <2>. USE DEF DropFuture, SlotAfterDrop, Cleared, MoveTo
    <2>1. PICK loc \in {"tripped", "gone"} : DropFuture(q) /\ stage' = [stage EXCEPT ![q] = loc]
      BY <1>7 DEF QueryBackstop, ClientGone
    <2>2. ClickHouseTypeOK' /\ ChRequests'
      BY <2>1 DEF Locations, ChRequests, InFlight
    <2>3. SlotNamesLiveRequest'
      BY <2>1 DEF ChRequests, InFlight, SlotNamesLiveRequest, Current
    <2>4. SoloHoldsSlot'
      BY <2>1 DEF SoloHoldsSlot, ChRequests, InFlight, Current
    <2>. QED  BY <2>2, <2>3, <2>4
  <1>8. ASSUME NEW r \in Requests, KillArrives(r) PROVE ChInv'
    <2>. USE <1>8 DEF KillArrives
    <2>1. ClickHouseTypeOK' /\ ChRequests' /\ SlotNamesLiveRequest' /\ SoloHoldsSlot'
      BY DEF ChRequests, InFlight, SlotNamesLiveRequest, Current,
         SoloHoldsSlot
    <2>. QED  BY <2>1
  <1>9. ASSUME NEW r \in Requests, ServerFinishes(r) PROVE ChInv'
    <2>. USE <1>9 DEF ServerFinishes
    <2>1. ClickHouseTypeOK' /\ ChRequests' /\ SlotNamesLiveRequest' /\ SoloHoldsSlot'
      BY DEF ChRequests, InFlight, SlotNamesLiveRequest, Current,
         SoloHoldsSlot
    <2>. QED  BY <2>1
  <1>10. ASSUME Disconnect PROVE ChInv'
    <2>. USE <1>10 DEF Disconnect
    <2>1. ClickHouseTypeOK' /\ ChRequests' /\ SlotNamesLiveRequest' /\ SoloHoldsSlot'
      BY DEF ChRequests, InFlight, SlotNamesLiveRequest, SoloHoldsSlot
    <2>. QED  BY <2>1
  <1>11. CASE UNCHANGED clickHouseVars
    BY <1>11
       DEF clickHouseVars, ChRequests, InFlight, Current,
           SlotNamesLiveRequest, SoloHoldsSlot
  <1>12. ASSUME NEW q \in Queries, CallQuery(q) PROVE ChInv'
    <2>. USE <1>12 DEF CallQuery, MoveTo
    <2>1. ClickHouseTypeOK' /\ ChRequests' /\ SlotNamesLiveRequest' /\ SoloHoldsSlot'
      BY DEF Locations, ChRequests, InFlight, SlotNamesLiveRequest,
         Current, SoloHoldsSlot
    <2>. QED  BY <2>1
  <1>13. ASSUME NEW q \in Queries, CancelQuery(q) PROVE ChInv'
    <2>. USE <1>13 DEF CancelQuery, MoveTo
    <2>1. ClickHouseTypeOK'
      BY DEF Locations
    <2>2. ChRequests' /\ SlotNamesLiveRequest' /\ SoloHoldsSlot'
      BY DEF ChRequests, InFlight, SlotNamesLiveRequest, Current, SoloHoldsSlot
    <2>. QED  BY <2>1, <2>2
  <1>. QED
    BY <1>1, <1>2, <1>3, <1>4, <1>5, <1>6, <1>7, <1>8, <1>9, <1>10, <1>11, <1>12, <1>13
       DEF ClickHouseNext, QueryStep

(***************************************************************************)
(* The inductive invariant holds of every behaviour.                       *)
(***************************************************************************)
LEMMA ChInvHolds == ClickHouseSpec => []ChInv
  <1>1. ClickHouseInit => ChInv
    BY ChInit
  <1>2. ChInv /\ [ClickHouseNext]_clickHouseVars => ChInv'
    BY ChStep
  <1>. QED
    BY <1>1, <1>2, PTL DEF ClickHouseSpec

(***************************************************************************)
(* active_query_id names a request in flight, or one whose query was       *)
(* dropped while it was being sent, and is otherwise released.             *)
(***************************************************************************)
THEOREM ClickHouseSlotLive ==
    ClickHouseSpec => []SlotNamesLiveRequest
  <1>1. ChInv => SlotNamesLiveRequest
    BY DEF ChInv
  <1>. QED
    BY <1>1, ChInvHolds, PTL

(***************************************************************************)
(* No query that ends takes the slot from one that is in flight.           *)
(***************************************************************************)
THEOREM ClickHouseSlotReleased ==
    ClickHouseSpec => SlotReleasedByOwner
  <1>1. ChInv /\ [ClickHouseNext]_clickHouseVars
          => [(slot # NoRequest /\ slot' = NoRequest)
              => stage'[slot[1]] \notin {"sending", "reading"}]_clickHouseVars
    <2>. SUFFICES ASSUME ChInv, ClickHouseNext, slot # NoRequest, slot' = NoRequest
                  PROVE  stage'[slot[1]] \notin {"sending", "reading"}
      BY DEF clickHouseVars
    <2>1. slot \in Requests /\ slot[1] \in Queries
      BY DEF ChInv, ClickHouseTypeOK, Requests
    <2>2. ASSUME NEW q \in Queries,
                 RequestFails(q) \/ QueryDone(q) \/ QueryBackstop(q) \/ ClientGone(q)
          PROVE  slot = Current(q) /\ stage'[q] \notin {"sending", "reading"}
      BY <2>2
         DEF ChInv, ClickHouseTypeOK, RequestFails, QueryDone, QueryBackstop, ClientGone,
             DropFuture, SlotAfterDrop, Cleared, MoveTo, InFlight
    <2>3. ASSUME Disconnect
          PROVE  stage'[slot[1]] \notin {"sending", "reading"}
      BY <2>1, <2>3 DEF Disconnect, InFlight
    <2>4. ASSUME NEW q \in Queries, NEW n \in 1 .. 2,
                 \/ Start(q, n) \/ CallQuery(q) \/ StartNotConnected(q)
                 \/ ResponseArrives(q) \/ ProbeDone(q) \/ CancelQuery(q)
          PROVE  FALSE
      BY <2>4, ClickHouseAssumption DEF Requests, ChInv, ClickHouseTypeOK,
         ChRequests, InFlight, Start, SendNext, CallQuery, StartNotConnected,
         ResponseArrives, ProbeDone, CancelQuery
    <2>5. ASSUME NEW r \in Requests, KillArrives(r) \/ ServerFinishes(r)
          PROVE  FALSE
      BY <2>5 DEF KillArrives, ServerFinishes
    <2>. QED
      BY <2>2, <2>3, <2>4, <2>5 DEF ClickHouseNext, QueryStep, Current
  <1>. QED
    BY <1>1, ChInvHolds, PTL DEF ClickHouseSpec, SlotReleasedByOwner

(***************************************************************************)
(* A query that is alone and times out while its request is being sent has *)
(* exactly that request killed, unless the driver was disconnected between *)
(* the drop of its future and cancel_query.                                *)
(***************************************************************************)
THEOREM ClickHouseSoloKilled ==
    ClickHouseSpec => SoloSendIsKilled
  <1>1. ChInv /\ [ClickHouseNext]_clickHouseVars
          => [\A q \in Queries :
                (/\ stage[q] = "tripped" /\ stage'[q] = "timedOut"
                 /\ q \in unguarded /\ connected
                 /\ \A o \in Queries \ {q} : request[o] = 0)
                => cancelled'[q] = Current(q)]_clickHouseVars
    <2>. SUFFICES ASSUME ChInv, ClickHouseNext, NEW q \in Queries,
                         stage[q] = "tripped", stage'[q] = "timedOut",
                         q \in unguarded, connected,
                         \A o \in Queries \ {q} : request[o] = 0
                  PROVE  cancelled'[q] = Current(q)
      BY DEF clickHouseVars
    <2>1. slot = Current(q)
      BY DEF ChInv, SoloHoldsSlot
    <2>2. CancelQuery(q)
      BY DEF ChInv, ClickHouseTypeOK, ClickHouseNext, QueryStep, Start, CallQuery,
         SendNext, StartNotConnected, ResponseArrives, RequestFails,
         ProbeDone, QueryDone, QueryBackstop, ClientGone, CancelQuery, DropFuture, MoveTo,
         KillArrives, ServerFinishes, Disconnect
    <2>. QED
      BY <2>1, <2>2 DEF ChInv, ClickHouseTypeOK, CancelQuery
  <1>. QED
    BY <1>1, ChInvHolds, PTL DEF ClickHouseSpec, SoloSendIsKilled

-----------------------------------------------------------------------------
(* The Redis driver *)

Adopted(c) == call[c] \in {"stored", "done"}

\* The driver's manager was adopted, and so was that of every query.
ManagersAdopted ==
    /\ connection # None => Adopted(connection)
    /\ \A q \in Commands : query[q].by # None => Adopted(query[q].by)

\* Until its manager reconnects, a call's id is that of the manager's
\* connection, and the queries it carries are on it.
IdOfLink ==
    /\ \A c \in Calls : call[c] \notin {"idle", "failed"} /\ c \notin reconnected
                        => fetched[c] = link[c].id
    /\ \A q \in Commands : query[q].by # None /\ query[q].by \notin reconnected
                        => query[q].on = link[query[q].by]

\* Without overlap, at most one call is between the two halves of adopt, its
\* manager is the driver's, and no disconnect is half done.
OneAdopts ==
    ~overlapped =>
        /\ \A c \in InWindow : connection = c
        /\ InWindow # {} => closing # "half"
        /\ closing = "half" => connection = None

\* Outside adopt and disconnect the cached id is the adopted call's.
CachedIdAdopted ==
    (InWindow = {} /\ closing # "half" /\ ~overlapped)
    => client_id = IF connection = None THEN 0 ELSE fetched[connection]

\* The cached id, and that of a kill under way, is one some adopted call was
\* told, or none.
IdsOfCalls ==
    /\ client_id # 0 => \E c \in Calls : Adopted(c) /\ client_id = fetched[c]
    /\ \A q \in Commands :
          kill[q] # 0 => \E c \in Calls : Adopted(c) /\ kill[q] = fetched[c]

\* Only a query that timed out, and may have been answered since, is killed.
KillAfterTimeout ==
    \A q \in Commands :
        kill[q] # 0 \/ q \in delivered =>
            query[q].st \in {"timed_out", "ok"} /\ query[q].by # None

\* In the first run of the server ids are given out once: all that are known
\* are behind the counter, and none of a foreign connection is a call's.
FirstRun ==
    run = 1 =>
        /\ \A c \in Calls : fetched[c] <= issued /\ link[c].run = 1 /\ link[c].id <= issued
        /\ \A q \in Commands : query[q].on.run = 1 /\ query[q].on.id <= issued
        /\ \A k \in foreign : /\ 0 < k.id /\ k.id <= issued
                               /\ \A c \in Calls : fetched[c] # k.id

RdInv ==
    /\ RedisTypeOK
    /\ ManagersAdopted
    /\ IdOfLink
    /\ OneAdopts
    /\ CachedIdAdopted
    /\ IdsOfCalls
    /\ KillAfterTimeout
    /\ FirstRun
    /\ KillReachesOwnConnection

(***************************************************************************)
(* The id the server gives out next belongs to its current run.            *)
(***************************************************************************)
LEMMA NewConnFacts ==
    ASSUME RedisTypeOK, issued < MaxId
    PROVE  /\ NewConn \in Connections
           /\ NewConn.run = run /\ NewConn.id = issued + 1
  BY RedisAssumption DEF RedisTypeOK, NewConn, Connections

(***************************************************************************)
(* A driver without a connection satisfies the invariant.                  *)
(***************************************************************************)
LEMMA RdInit ==
    ASSUME RedisInit
    PROVE  RdInv
  <1>1. NoConn \in Connections
    BY RedisAssumption DEF NoConn, Connections
  <1>2. /\ query \in [Commands -> [st : {"idle", "running", "timed_out", "ok", "failed"},
                                   by : Calls \cup {None}, on : Connections]]
        /\ \A q \in Commands : query[q].st = "idle"
    BY <1>1 DEF RedisInit
  <1>3. RedisTypeOK
    <2>1. link \in [Calls -> Connections]
      BY <1>1 DEF RedisInit
    <2>2. /\ connection \in Calls \cup {None} /\ client_id \in 0 .. MaxId
          /\ run \in 1 .. MaxRuns /\ issued \in 0 .. MaxId
          /\ live \subseteq Connections /\ foreign \subseteq live
      BY RedisAssumption DEF RedisInit
    <2>3. /\ call \in [Calls -> {"idle", "established", "stored", "done", "failed"}]
          /\ fetched \in [Calls -> 0 .. MaxId] /\ kill \in [Commands -> 0 .. MaxId]
          /\ closing \in {"no", "half", "done"}
      BY RedisAssumption DEF RedisInit
    <2>4. /\ delivered \subseteq Commands /\ reconnected \subseteq Calls
          /\ overlapped \in BOOLEAN /\ foreign_hit \in BOOLEAN
      BY DEF RedisInit
    <2>. QED
      BY <1>2, <2>1, <2>2, <2>3, <2>4 DEF RedisTypeOK
  <1>4. /\ ManagersAdopted /\ IdOfLink /\ OneAdopts /\ CachedIdAdopted /\ IdsOfCalls
        /\ KillAfterTimeout /\ FirstRun /\ KillReachesOwnConnection
    BY DEF RedisInit, NoConn, InWindow, ManagersAdopted, IdOfLink,
       OneAdopts, CachedIdAdopted, IdsOfCalls, KillAfterTimeout, FirstRun,
       KillReachesOwnConnection
  <1>. QED
    BY <1>3, <1>4 DEF RdInv

(***************************************************************************)
(* Every half of connect, switch_database and disconnect, every step of a  *)
(* command and of its kill, and whatever the server does, keep the         *)
(* invariant.                                                              *)
(***************************************************************************)
LEMMA RdStep ==
    ASSUME RdInv, [RedisNext]_redisVars
    PROVE  RdInv'
  <1>. USE RedisAssumption DEF RdInv, RedisTypeOK
  <1>1. ASSUME NEW c \in Calls, Establish(c) PROVE RdInv'
    <2>. USE <1>1 DEF Establish, history
    <2>1. issued < MaxId => /\ NewConn \in Connections /\ NewConn.id \in 0 .. MaxId
                            /\ issued + 1 \in 0 .. MaxId
      BY NewConnFacts, RedisAssumption
    <2>2. RedisTypeOK'
      BY <2>1
    <2>3. ManagersAdopted' /\ OneAdopts'
      BY DEF ManagersAdopted, Adopted, OneAdopts, InWindow
    <2>4. IdOfLink'
      BY NewConnFacts DEF IdOfLink, ManagersAdopted, Adopted
    <2>5. CachedIdAdopted'
      BY DEF CachedIdAdopted, InWindow, ManagersAdopted, Adopted
    <2>6. IdsOfCalls' /\ KillAfterTimeout'
      BY DEF IdsOfCalls, Adopted, KillAfterTimeout
    <2>7. FirstRun'
      BY DEF FirstRun, NewConn, Connections
    <2>8. KillReachesOwnConnection'
      BY DEF KillReachesOwnConnection, Missed, FirstRun, NewConn
    <2>. QED  BY <2>2, <2>3, <2>4, <2>5, <2>6, <2>7, <2>8
  <1>2. ASSUME NEW c \in Calls, AdoptConnection(c) PROVE RdInv'
    <2>. USE <1>2 DEF AdoptConnection, server_vars
    <2>1. RedisTypeOK' /\ ManagersAdopted'
      BY DEF ManagersAdopted, Adopted
    <2>2. IdOfLink' /\ OneAdopts'
      BY DEF IdOfLink, OneAdopts, InWindow
    <2>3. CachedIdAdopted' /\ IdsOfCalls'
      BY DEF CachedIdAdopted, InWindow, IdsOfCalls, Adopted
    <2>4. KillAfterTimeout' /\ FirstRun'
      BY DEF KillAfterTimeout, FirstRun
    <2>5. KillReachesOwnConnection'
      BY DEF KillReachesOwnConnection, Missed
    <2>. QED  BY <2>1, <2>2, <2>3, <2>4, <2>5
  <1>3. ASSUME NEW c \in Calls, AdoptId(c) PROVE RdInv'
    <2>. USE <1>3 DEF AdoptId, server_vars, history
    <2>1. RedisTypeOK' /\ ManagersAdopted'
      BY DEF ManagersAdopted, Adopted
    <2>2. IdOfLink' /\ OneAdopts'
      BY DEF IdOfLink, OneAdopts, InWindow
    <2>3. CachedIdAdopted'
      BY DEF CachedIdAdopted, OneAdopts, InWindow
    <2>4. IdsOfCalls' /\ KillAfterTimeout'
      BY DEF IdsOfCalls, Adopted, KillAfterTimeout
    <2>5. FirstRun' /\ KillReachesOwnConnection'
      BY DEF FirstRun, KillReachesOwnConnection, Missed
    <2>. QED  BY <2>1, <2>2, <2>3, <2>4, <2>5
  <1>4. ASSUME DisconnectConnection PROVE RdInv'
    <2>. USE <1>4 DEF DisconnectConnection, server_vars
    <2>1. RedisTypeOK' /\ ManagersAdopted'
      BY DEF ManagersAdopted, Adopted
    <2>2. IdOfLink' /\ OneAdopts'
      BY DEF IdOfLink, OneAdopts, InWindow
    <2>3. CachedIdAdopted' /\ IdsOfCalls'
      BY DEF CachedIdAdopted, IdsOfCalls, Adopted
    <2>4. KillAfterTimeout' /\ FirstRun'
      BY DEF KillAfterTimeout, FirstRun
    <2>5. KillReachesOwnConnection'
      BY DEF KillReachesOwnConnection, Missed
    <2>. QED  BY <2>1, <2>2, <2>3, <2>4, <2>5
  <1>5. ASSUME DisconnectId PROVE RdInv'
    <2>. USE <1>5 DEF DisconnectId, server_vars, history
    <2>1. RedisTypeOK' /\ ManagersAdopted'
      BY DEF ManagersAdopted, Adopted
    <2>2. IdOfLink' /\ OneAdopts'
      BY DEF IdOfLink, OneAdopts, InWindow
    <2>3. CachedIdAdopted'
      BY DEF CachedIdAdopted, OneAdopts
    <2>4. IdsOfCalls' /\ KillAfterTimeout'
      BY DEF IdsOfCalls, Adopted, KillAfterTimeout
    <2>5. FirstRun' /\ KillReachesOwnConnection'
      BY DEF FirstRun, KillReachesOwnConnection, Missed
    <2>. QED  BY <2>1, <2>2, <2>3, <2>4, <2>5
  <1>6. ASSUME NEW q \in Commands, StartCommand(q) PROVE RdInv'
    <2>. USE <1>6 DEF StartCommand, driver_vars, server_vars, history
    <2>1. RedisTypeOK' /\ ManagersAdopted' /\ IdOfLink'
      BY DEF ManagersAdopted, Adopted, IdOfLink
    <2>2. OneAdopts' /\ CachedIdAdopted' /\ IdsOfCalls'
      BY DEF OneAdopts, InWindow, CachedIdAdopted, IdsOfCalls, Adopted
    <2>3. KillAfterTimeout' /\ FirstRun'
      BY DEF KillAfterTimeout, FirstRun
    <2>4. KillReachesOwnConnection'
      BY DEF KillReachesOwnConnection, Missed, KillAfterTimeout
    <2>. QED  BY <2>1, <2>2, <2>3, <2>4
  <1>7. ASSUME NEW q \in Commands, NotConnected(q) PROVE RdInv'
    <2>. USE <1>7 DEF NotConnected, driver_vars, server_vars, history
    <2>1. RedisTypeOK' /\ ManagersAdopted' /\ IdOfLink'
      BY DEF ManagersAdopted, Adopted, IdOfLink
    <2>2. OneAdopts' /\ CachedIdAdopted' /\ IdsOfCalls'
      BY DEF OneAdopts, InWindow, CachedIdAdopted, IdsOfCalls, Adopted
    <2>3. KillAfterTimeout' /\ FirstRun' /\ KillReachesOwnConnection'
      BY DEF KillAfterTimeout, FirstRun, KillReachesOwnConnection, Missed
    <2>. QED  BY <2>1, <2>2, <2>3
  <1>8. ASSUME NEW q \in Commands, Finish(q) PROVE RdInv'
    <2>. USE <1>8 DEF Finish, driver_vars, server_vars, history
    <2>1. RedisTypeOK' /\ ManagersAdopted' /\ IdOfLink'
      BY DEF ManagersAdopted, Adopted, IdOfLink
    <2>2. OneAdopts' /\ CachedIdAdopted' /\ IdsOfCalls'
      BY DEF OneAdopts, InWindow, CachedIdAdopted, IdsOfCalls, Adopted
    <2>3. KillAfterTimeout' /\ FirstRun' /\ KillReachesOwnConnection'
      BY DEF KillAfterTimeout, FirstRun, KillReachesOwnConnection, Missed
    <2>. QED  BY <2>1, <2>2, <2>3
  <1>9. ASSUME NEW q \in Commands, Broken(q) PROVE RdInv'
    <2>. USE <1>9 DEF Broken, driver_vars
    <2>1. issued < MaxId => /\ NewConn \in Connections /\ NewConn.id \in 0 .. MaxId
                            /\ issued + 1 \in 0 .. MaxId
      BY NewConnFacts, RedisAssumption
    <2>2. RedisTypeOK'
      BY <2>1
    <2>3. ManagersAdopted' /\ IdOfLink' /\ OneAdopts'
      BY DEF ManagersAdopted, Adopted, IdOfLink, OneAdopts, InWindow
    <2>4. CachedIdAdopted' /\ IdsOfCalls' /\ KillAfterTimeout'
      BY DEF CachedIdAdopted, InWindow, IdsOfCalls, Adopted, KillAfterTimeout
    <2>5. FirstRun'
      <3>1. \A p \in Commands : query'[p].on = query[p].on
        OBVIOUS
      <3>2. issued <= issued' /\ \A c \in Calls : link'[c] \in {link[c], NewConn}
        OBVIOUS
      <3>3. ASSUME run = 1, NEW c \in Calls
            PROVE  link'[c].run = 1 /\ link'[c].id <= issued'
        <4>1. CASE link'[c] = link[c]
          <5>1. link[c].run = 1 /\ link[c].id <= issued /\ link[c].id \in Nat
            BY <3>3 DEF FirstRun, Connections
          <5>. QED
            BY <3>2, <4>1, <5>1
        <4>2. CASE link' # link
          <5>1. NewConn.run = run /\ NewConn.id = issued'
            BY <4>2, NewConnFacts
          <5>. QED
            BY <2>2, <3>2, <3>3, <4>1, <5>1
        <4>. QED
          BY <4>1, <4>2
      <3>4. ASSUME run = 1, NEW p \in Commands
            PROVE  query[p].on.run = 1 /\ query[p].on.id <= issued'
        <4>1. query[p].on.run = 1 /\ query[p].on.id <= issued /\ query[p].on.id \in Nat
          BY <3>4 DEF FirstRun, Connections
        <4>. QED
          BY <3>2, <4>1
      <3>5. run = 1 => \A c \in Calls : fetched[c] <= issued'
        BY <3>2 DEF FirstRun
      <3>6. ASSUME run = 1, NEW k \in foreign
            PROVE  k.id <= issued'
        <4>1. k.id <= issued /\ k.id \in Nat
          BY <3>6 DEF FirstRun, Connections
        <4>. QED
          BY <3>2, <4>1
      <3>. QED
        BY <3>1, <3>3, <3>4, <3>5, <3>6 DEF FirstRun
    <2>6. KillReachesOwnConnection'
      BY DEF KillReachesOwnConnection, Missed, Adopted, ManagersAdopted
    <2>. QED  BY <2>2, <2>3, <2>4, <2>5, <2>6
  <1>10. ASSUME NEW q \in Commands, CommandBackstop(q) PROVE RdInv'
    <2>. USE <1>10 DEF CommandBackstop, driver_vars, server_vars, history
    <2>1. RedisTypeOK' /\ ManagersAdopted' /\ IdOfLink'
      BY DEF ManagersAdopted, Adopted, IdOfLink
    <2>2. OneAdopts' /\ CachedIdAdopted' /\ IdsOfCalls'
      BY DEF OneAdopts, InWindow, CachedIdAdopted, IdsOfCalls, Adopted
    <2>3. KillAfterTimeout' /\ FirstRun' /\ KillReachesOwnConnection'
      BY DEF KillAfterTimeout, FirstRun, KillReachesOwnConnection, Missed
    <2>. QED  BY <2>1, <2>2, <2>3
  <1>11. ASSUME NEW q \in Commands, KillClient(q) PROVE RdInv'
    <2>. USE <1>11 DEF KillClient, driver_vars
    <2>1. foreign_hit' \in BOOLEAN
      BY Zenon
    <2>2. RedisTypeOK'
      BY <2>1
    <2>3. ManagersAdopted' /\ IdOfLink'
      BY DEF ManagersAdopted, Adopted, IdOfLink
    <2>4. OneAdopts' /\ CachedIdAdopted'
      BY DEF OneAdopts, InWindow, CachedIdAdopted
    <2>5. IdsOfCalls' /\ KillAfterTimeout'
      BY DEF IdsOfCalls, Adopted, KillAfterTimeout
    <2>6. FirstRun'
      BY DEF FirstRun
    <2>7. KillReachesOwnConnection'
      BY DEF KillReachesOwnConnection, Missed, FirstRun, IdsOfCalls,
         Adopted, IdOfLink, Connections
    <2>. QED  BY <2>2, <2>3, <2>4, <2>5, <2>6, <2>7
  <1>12. ASSUME ForeignConnects PROVE RdInv'
    <2>. USE <1>12 DEF ForeignConnects, driver_vars, history
    <2>1. issued < MaxId => /\ NewConn \in Connections /\ NewConn.id \in 0 .. MaxId
                            /\ issued + 1 \in 0 .. MaxId
      BY NewConnFacts, RedisAssumption
    <2>2. RedisTypeOK'
      BY <2>1
    <2>3. ManagersAdopted' /\ IdOfLink' /\ OneAdopts'
      BY DEF ManagersAdopted, Adopted, IdOfLink, OneAdopts, InWindow
    <2>4. CachedIdAdopted' /\ IdsOfCalls' /\ KillAfterTimeout'
      BY DEF CachedIdAdopted, InWindow, IdsOfCalls, Adopted, KillAfterTimeout
    <2>5. FirstRun'
      BY DEF FirstRun, NewConn, Connections
    <2>6. KillReachesOwnConnection'
      BY DEF KillReachesOwnConnection, Missed, FirstRun, NewConn
    <2>. QED  BY <2>2, <2>3, <2>4, <2>5, <2>6
  <1>13. ASSUME NEW k \in live, Cull(k) PROVE RdInv'
    <2>. USE <1>13 DEF Cull, driver_vars, history
    <2>1. RedisTypeOK' /\ ManagersAdopted' /\ IdOfLink'
      BY DEF ManagersAdopted, Adopted, IdOfLink
    <2>2. OneAdopts' /\ CachedIdAdopted' /\ IdsOfCalls'
      BY DEF OneAdopts, InWindow, CachedIdAdopted, IdsOfCalls, Adopted
    <2>3. KillAfterTimeout' /\ FirstRun' /\ KillReachesOwnConnection'
      BY DEF KillAfterTimeout, FirstRun, KillReachesOwnConnection, Missed
    <2>. QED  BY <2>1, <2>2, <2>3
  <1>14. ASSUME ServerRestarts PROVE RdInv'
    <2>. USE <1>14 DEF ServerRestarts, driver_vars, history
    <2>1. RedisTypeOK' /\ ManagersAdopted' /\ IdOfLink'
      BY DEF ManagersAdopted, Adopted, IdOfLink
    <2>2. OneAdopts' /\ CachedIdAdopted' /\ IdsOfCalls'
      BY DEF OneAdopts, InWindow, CachedIdAdopted, IdsOfCalls, Adopted
    <2>3. KillAfterTimeout' /\ FirstRun' /\ KillReachesOwnConnection'
      BY DEF KillAfterTimeout, FirstRun, KillReachesOwnConnection
    <2>. QED  BY <2>1, <2>2, <2>3
  <1>15. CASE UNCHANGED redisVars
    BY <1>15
       DEF redisVars, driver_vars, server_vars, history,
           ManagersAdopted, IdOfLink, OneAdopts, CachedIdAdopted, IdsOfCalls,
           KillAfterTimeout, FirstRun, KillReachesOwnConnection, Adopted,
           InWindow, Missed
  <1>. QED
    BY <1>1, <1>2, <1>3, <1>4, <1>5, <1>6, <1>7, <1>8, <1>9, <1>10, <1>11,
       <1>12, <1>13, <1>14, <1>15 DEF RedisNext

(***************************************************************************)
(* The inductive invariant holds of every behaviour.                       *)
(***************************************************************************)
LEMMA RdInvHolds == RedisSpec => []RdInv
  <1>1. RedisInit => RdInv
    BY RdInit
  <1>2. RdInv /\ [RedisNext]_redisVars => RdInv'
    BY RdStep
  <1>. QED
    BY <1>1, <1>2, PTL DEF RedisSpec

(***************************************************************************)
(* The cached client id is that of the driver's connection, unless the     *)
(* manager reconnected by itself or two calls overlapped.                  *)
(***************************************************************************)
THEOREM RedisCachedIdCurrent ==
    RedisSpec => []CachedIdCurrent
  <1>1. RdInv => CachedIdCurrent
    BY RedisAssumption DEF RdInv, RedisTypeOK, ManagersAdopted, Adopted,
       IdOfLink, CachedIdAdopted, CachedIdCurrent
  <1>. QED
    BY <1>1, RdInvHolds, PTL

(***************************************************************************)
(* An executed CLIENT KILL ended the timed-out command it was sent for and *)
(* closed no foreign connection, unless a reconnect, another call or a     *)
(* server restart came between.                                            *)
(***************************************************************************)
THEOREM RedisKillReaches ==
    RedisSpec => []KillReachesOwnConnection
  <1>1. RdInv => KillReachesOwnConnection
    BY DEF RdInv
  <1>. QED
    BY <1>1, RdInvHolds, PTL
=============================================================================
