--------------------------- MODULE WorkerProcess ----------------------------
(***************************************************************************)
(* What one pool process of celery_worker carries from task to task.  Each *)
(* generation task runs in an asyncio.run of its own, that is in a new     *)
(* event loop, while the SQLAlchemy engine and the NotificationPublisher   *)
(* behind the lru_cached facades live as long as the process.  A           *)
(* connection belongs to the loop that opened it and is useless in any     *)
(* other, so every task has to close what it opened.                       *)
(*                                                                         *)
(* Event loops are numbered 1, 2, ...; 0 stands for "no connection".       *)
(*                                                                         *)
(* Fault kinds, at most MaxFaults of them in one behaviour:                *)
(*   "db"       a session raises                                           *)
(*   "connect"  aio_pika.connect_robust raises                             *)
(*   "declare"  the channel or the exchange cannot be declared             *)
(*   "amqp"     exchange.publish raises                                    *)
(*   "close"    connection.close raises                                    *)
(*   "crash"    the process is killed, the pool starts a new one           *)
(***************************************************************************)
EXTENDS Integers

CONSTANTS
  MaxTasks,    \* bound: tasks one pool slot runs
  FaultKinds,  \* the faults that may happen
  MaxFaults    \* bound: faults in one behaviour

AllFaults == {"db", "connect", "declare", "amqp", "close", "crash"}

ASSUME FaultAssumption == FaultKinds \subseteq AllFaults
ASSUME BoundAssumption == MaxTasks \in Nat /\ MaxFaults \in Nat

VARIABLES
  pc,          \* the next statement of the task, or "idle"
  loop,        \* the newest event loop
  pool,        \* the loop of the engine's pooled connection
  connection,  \* the loop of NotificationPublisher._connection
  link,        \* "up" or "down": not _connection.is_closed
  exchange,    \* the loop of NotificationPublisher._exchange
  faults       \* faults so far

vars == <<pc, loop, pool, connection, link, exchange, faults>>
publisher == <<connection, link, exchange>>

Loops == 0 .. MaxTasks

\* The statements of GenerationExecutor.execute that use the database or the
\* publisher, then the two lines of the finally clause, then asyncio.run's end.
Publishing == {"announce", "stream", "saved", "recorded"}
Labels == {"idle", "find", "mark", "excepted", "close", "dispose", "ended"}
            \cup Publishing

Goto(label) == pc' = label

Fault(kind) ==
  /\ kind \in FaultKinds
  /\ faults < MaxFaults
  /\ faults' = faults + 1

Init ==
  /\ pc = "idle"
  /\ loop = 0
  /\ pool = 0
  /\ connection = 0 /\ link = "down" /\ exchange = 0
  /\ faults = 0

(***************************************************************************)
(* One database session and one publish, as used by any statement.         *)
(***************************************************************************)
\* A pooled connection of an older loop raises; the pool may keep it.
Session(ok, raised) ==
  /\ \/ pool \in {0, loop} /\ pool' = loop /\ Goto(ok) /\ UNCHANGED faults
     \/ pool \in {0, loop} /\ Fault("db") /\ pool' \in {0, loop} /\ Goto(raised)
     \/ pool \notin {0, loop} /\ pool' \in {0, pool} /\ Goto(raised)
                              /\ UNCHANGED faults
  /\ UNCHANGED <<loop, publisher>>

Connected == connection # 0 /\ link = "up"

\* exchange.publish, or the assertion before it.
SendMessage(ok, raised) ==
  LET usable == connection' = loop /\ exchange' = loop
  IN \/ usable  /\ Goto(ok) /\ UNCHANGED faults
     \/ usable  /\ Goto(raised) /\ Fault("amqp")
     \/ ~usable /\ Goto(raised) /\ UNCHANGED faults

Publish(ok, raised) ==
  /\ \/ Connected /\ UNCHANGED publisher /\ SendMessage(ok, raised)
     \/ ~Connected /\ Fault("connect") /\ UNCHANGED publisher /\ Goto(raised)
     \/ ~Connected /\ Fault("declare") /\ Goto(raised)
        /\ connection' = loop /\ link' = "up" /\ UNCHANGED exchange
     \/ ~Connected /\ connection' = loop /\ link' = "up" /\ exchange' = loop
        /\ SendMessage(ok, raised)
  /\ UNCHANGED <<loop, pool>>

(***************************************************************************)
(* The task.                                                               *)
(***************************************************************************)
Start ==
  /\ pc = "idle"
  /\ loop < MaxTasks
  /\ loop' = loop + 1
  /\ Goto("find")
  /\ UNCHANGED <<pool, publisher, faults>>

\* find_by_id; a row that is not pending ends the task.
FindById == pc = "find" /\ \E next \in {"mark", "close"} : Session(next, "close")

MarkRunning == pc = "mark" /\ Session("announce", "close")

\* Broken: "running" is announced inside the try.
PublishRunningInTry == pc = "announce" /\ Publish("stream", "excepted")

PublishRunning == pc = "announce" /\ Publish("stream", "close")

\* Events of the stream, then save_result or mark_failed.
Stream ==
  /\ pc = "stream"
  /\ \/ Publish("stream", "excepted")
     \/ \E next \in {"saved", "close"} : Session(next, "excepted")

PublishCompleted == pc = "saved" /\ Publish("close", "excepted")

MarkFailed == pc = "excepted" /\ Session("recorded", "close")

PublishFailed == pc = "recorded" /\ Publish("close", "close")

\* NotifierFacade.close: nothing to close, closed, or raised on the way.
CloseNotifier ==
  /\ pc = "close"
  /\ \/ /\ connection' = 0 /\ link' = "down" /\ exchange' = 0
        /\ Goto("dispose") /\ UNCHANGED faults
     \/ /\ Connected
        /\ IF connection = loop THEN Fault("close") ELSE UNCHANGED faults
        /\ link' \in {"up", "down"} /\ UNCHANGED <<connection, exchange>>
        /\ Goto("ended")
  /\ UNCHANGED <<loop, pool>>

\* Broken: the task ends without engine.dispose().
KeepEngine ==
  /\ pc = "dispose"
  /\ Goto("ended")
  /\ UNCHANGED <<loop, pool, publisher, faults>>

DisposeEngine ==
  /\ pc = "dispose"
  /\ pool' = 0
  /\ Goto("ended")
  /\ UNCHANGED <<loop, publisher, faults>>

\* asyncio.run cancels what is left in the loop: an open connection may close.
EndLoop ==
  /\ pc = "ended"
  /\ link' \in {link, "down"}
  /\ Goto("idle")
  /\ UNCHANGED <<loop, pool, connection, exchange, faults>>

Crash ==
  /\ pc # "idle"
  /\ Fault("crash")
  /\ pool' = 0 /\ connection' = 0 /\ link' = "down" /\ exchange' = 0
  /\ Goto("idle")
  /\ UNCHANGED loop

Run == \/ FindById \/ MarkRunning \/ PublishRunning \/ Stream
       \/ PublishCompleted \/ MarkFailed \/ PublishFailed
       \/ CloseNotifier \/ DisposeEngine \/ EndLoop

Next == Start \/ Run \/ Crash

Spec == Init /\ [][Next]_vars

-----------------------------------------------------------------------------
\* Types, and an exchange or an open connection only where there is a connection.
TypeOK ==
  /\ pc \in Labels
  /\ loop \in Loops /\ pool \in Loops
  /\ connection \in Loops /\ exchange \in Loops /\ link \in {"up", "down"}
  /\ exchange # 0 \/ link = "up" => connection # 0
  /\ faults \in 0 .. MaxFaults

\* A task that goes on after announcing "running" has its session and its
\* publisher in its own event loop: a connection left over by an earlier task,
\* or one without an exchange (the assertion of publisher.py:24), can fail a
\* task only before it opens an LLM stream.
PaidOnOwnLoop ==
  pc \in {"stream", "saved", "excepted", "recorded"} =>
    /\ pool \in {0, loop}
    /\ Connected /\ connection = loop /\ exchange = loop

\* Between two tasks a process whose publisher is closed holds nothing at all:
\* no task can leave a database connection behind and still close its notifier,
\* so the failure of generation_task.py:10 ("got Future attached to a different
\* loop") needs a close that raised.
CleanAfterClose ==
  pc = "idle" /\ connection = 0 => pool = 0 /\ exchange = 0 /\ link = "down"
=============================================================================
