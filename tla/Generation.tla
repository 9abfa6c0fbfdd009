---------------------------- MODULE Generation -----------------------------
(***************************************************************************)
(* One landing generation, end to end inside the backend:                  *)
(*                                                                         *)
(*   POST /api/generations   GenerationScheduler.schedule commits a row    *)
(*                           and then hands a Celery task to the broker;   *)
(*   RabbitMQ and Celery     deliver the task, late-acknowledge it and     *)
(*                           requeue it when the worker is lost;           *)
(*   celery_worker           GenerationExecutor.execute walks the row      *)
(*                           through its life cycle and publishes what     *)
(*                           happens to the notifier.                      *)
(*                                                                         *)
(* Every await of the code that talks to another system is a step, so the  *)
(* workers interleave between any two of them.  Each behaviour has a       *)
(* profile, the kinds of faults that may happen in it, and at most         *)
(* MaxFaults of them happen; a property names the profiles it withstands:  *)
(*                                                                         *)
(*   "publish"    send_task raises, or the broker loses the task silently  *)
(*                (Celery publishes without confirms), or both lie         *)
(*   "duplicate"  send_task retries a publish that had arrived             *)
(*   "requeue"    the broker connection drops: the broker hands the        *)
(*                unacknowledged task out again, the worker runs on        *)
(*   "crash"      a worker process or the backend process dies             *)
(*   "db"         a session raises before its commit                       *)
(*   "commit"     a session raises although its commit took effect         *)
(*   "amqp"       NotifierFacade.publish raises, the event sent or not     *)
(***************************************************************************)
EXTENDS Integers, Sequences, FiniteSets

CONSTANTS
  Gens,        \* generation ids
  Workers,     \* pool processes of celery_worker
  NoTask,      \* what an idle worker runs
  Profiles,    \* the sets of fault kinds a behaviour may be exposed to
  MaxFaults,   \* bound: faults in one behaviour
  MaxTools     \* bound: tool events published about one generation

AllFaults ==
  {"publish", "duplicate", "requeue", "crash", "db", "commit", "amqp"}

\* Two copies of a task exist at most: a duplicate is a fault like the others.
Copies == Gens \X {1, 2}

Resting == {"unsent", "ready", "acked"}

ASSUME FaultAssumption == Profiles \subseteq SUBSET AllFaults
ASSUME BoundAssumption == MaxFaults \in Nat /\ MaxTools \in Nat
ASSUME NameAssumption ==
  /\ Workers \cap Resting = {}
  /\ NoTask \notin Copies

VARIABLES
  row,     \* row[g]: the row of table "generations"
  req,     \* req[g]: how far the POST that creates g has come
  loc,     \* loc[c]: where the broker has task copy c
  pc,      \* pc[w]: the next statement of worker w
  task,    \* task[w]: the task copy worker w runs
  feed,    \* feed[g]: every notification published about g, in order
  calls,   \* calls[g]: LLM streams opened for g (each one is paid for)
  faults   \* the profile of the behaviour, and how many faults so far

vars == <<row, req, loc, pc, task, feed, calls, faults>>

(***************************************************************************)
(* A row.  The prompt, the owner and the timestamps never change a         *)
(* decision; the result and the error text are there or not.  "page" is    *)
(* what save_result stores, be it the empty page of a stream that ended    *)
(* without one, as it may (module OpenAiStream).                           *)
(***************************************************************************)
Statuses == {"absent", "pending", "running", "completed", "failed"}
Row == [status : Statuses, html : {"none", "page"}, error : {"none", "text"}]

Absent  == [status |-> "absent",  html |-> "none", error |-> "none"]
Pending == [status |-> "pending", html |-> "none", error |-> "none"]

\* "running", "completed", "failed": the status events of the executor;
\* "tool": tool_start, tool_delta, tool_complete; "done", "error": the last
\* event of an LLM stream.
Events == {"running", "tool", "done", "error", "completed", "failed"}

\* The executor at work on a row it has marked running.
Executing == {"marked", "announced", "streaming", "finished", "refused",
              "excepted"}

Labels == {"idle", "received", "checked", "saved", "recorded", "closing"}
            \cup Executing

Exposure == [kinds : Profiles, count : 0 .. MaxFaults]

Gen(w) == task[w][1]

Goto(w, label) == pc' = [pc EXCEPT ![w] = label]

Fault(kind) ==
  /\ kind \in faults.kinds
  /\ faults.count < MaxFaults
  /\ faults' = [faults EXCEPT !.count = @ + 1]

Write(g, new) == row' = [row EXCEPT ![g] = new]

\* One write of the executor in a session of its own.
WriteRow(w, new, ok, raised) ==
  \/ Write(Gen(w), new) /\ Goto(w, ok) /\ UNCHANGED faults
  \/ Fault("db")        /\ Goto(w, raised) /\ UNCHANGED row
  \/ Fault("commit")    /\ Goto(w, raised) /\ Write(Gen(w), new)

\* One notification: a publish that raises may have reached the exchange.
Notify(w, event, ok, raised) ==
  LET sent == [feed EXCEPT ![Gen(w)] = Append(@, event)]
  IN \/ feed' = sent    /\ Goto(w, ok) /\ UNCHANGED faults
     \/ Fault("amqp")   /\ Goto(w, raised) /\ feed' \in {feed, sent}

Init ==
  /\ row    = [g \in Gens |-> Absent]
  /\ req    = [g \in Gens |-> "none"]
  /\ loc    = [c \in Copies |-> "unsent"]
  /\ pc     = [w \in Workers |-> "idle"]
  /\ task   = [w \in Workers |-> NoTask]
  /\ feed   = [g \in Gens |-> << >>]
  /\ calls  = [g \in Gens |-> 0]
  /\ faults \in [kinds : Profiles, count : {0}]

(***************************************************************************)
(* The HTTP request.  A fault makes it answer 500 ("failed").              *)
(***************************************************************************)
CreateRow(g) ==
  /\ req[g] = "none"
  /\ \E outcome \in {"ok", "db", "commit"} :
       /\ IF outcome = "ok" THEN UNCHANGED faults ELSE Fault(outcome)
       /\ IF outcome = "db" THEN UNCHANGED row ELSE Write(g, Pending)
       /\ req' = [req EXCEPT ![g] = IF outcome = "ok" THEN "created"
                                                      ELSE "failed"]
  /\ UNCHANGED <<loc, pc, task, feed, calls>>

\* Broken: send_task repeated without asking whether the first one arrived.
SendTwice(g, copies) ==
  loc' = [c \in Copies |-> IF c[1] = g THEN "ready" ELSE loc[c]]

Send(g, copies) ==
  loc' = [c \in Copies |-> IF c \in {<<g, i>> : i \in copies}
                           THEN "ready" ELSE loc[c]]

Answer(g, outcome) == req' = [req EXCEPT ![g] = outcome]

PublishTask(g) ==
  /\ req[g] = "created"
  /\ \/ Send(g, {1})         /\ Answer(g, "accepted") /\ UNCHANGED faults
     \/ Fault("publish")     /\ Send(g, {1}) /\ Answer(g, "failed")
     \/ Fault("publish")     /\ Send(g, {})
                             /\ \E a \in {"accepted", "failed"} : Answer(g, a)
     \/ Fault("duplicate")   /\ Send(g, {1, 2}) /\ Answer(g, "accepted")
  /\ UNCHANGED <<row, pc, task, feed, calls>>

\* The backend process dies between the commit and the publish.
RequestLost(g) ==
  /\ req[g] = "created"
  /\ Fault("crash")
  /\ Answer(g, "failed")
  /\ UNCHANGED <<row, loc, pc, task, feed, calls>>

(***************************************************************************)
(* Broker and pool.  Prefetch 1 and late acks: a process holds the one     *)
(* task it runs.  Celery acknowledges a task that raised, too.             *)
(***************************************************************************)
\* Broken: task_acks_late = False.
DeliverAcked(w, c) ==
  /\ pc[w] = "idle"
  /\ loc[c] = "ready"
  /\ loc' = [loc EXCEPT ![c] = "acked"]
  /\ task' = [task EXCEPT ![w] = c]
  /\ Goto(w, "received")
  /\ UNCHANGED <<row, req, feed, calls, faults>>

Deliver(w, c) ==
  /\ pc[w] = "idle"
  /\ loc[c] = "ready"
  /\ loc' = [loc EXCEPT ![c] = w]
  /\ task' = [task EXCEPT ![w] = c]
  /\ Goto(w, "received")
  /\ UNCHANGED <<row, req, feed, calls, faults>>

Holds(w) == pc[w] # "idle" /\ loc[task[w]] = w

\* Leave the task: what the broker then does with it, if it is still ours.
Release(w, state) ==
  /\ loc' = IF Holds(w) THEN [loc EXCEPT ![task[w]] = state] ELSE loc
  /\ task' = [task EXCEPT ![w] = NoTask]
  /\ Goto(w, "idle")

\* Broken: the task is acknowledged by hand, after a success only.
AckOnSuccess(w) ==
  /\ pc[w] = "closing"
  /\ row[Gen(w)].status = "completed"
  /\ Release(w, "acked")
  /\ UNCHANGED <<row, req, feed, calls, faults>>

Ack(w) ==
  /\ pc[w] = "closing"
  /\ Release(w, "acked")
  /\ UNCHANGED <<row, req, feed, calls, faults>>

Crash(w) ==
  /\ pc[w] # "idle"
  /\ Fault("crash")
  /\ Release(w, "ready")
  /\ UNCHANGED <<row, req, feed, calls>>

Requeue(w) ==
  /\ Holds(w)
  /\ Fault("requeue")
  /\ loc' = [loc EXCEPT ![task[w]] = "ready"]
  /\ UNCHANGED <<row, req, pc, task, feed, calls>>

(***************************************************************************)
(* GenerationExecutor.execute.  "closing" is the way out of the task: an   *)
(* exception that leaves execute and a plain return both end there.        *)
(***************************************************************************)
\* Broken: execute without its check of the status.
FindByIdUnchecked(w) ==
  /\ pc[w] = "received"
  /\ Goto(w, "checked")
  /\ UNCHANGED <<row, req, loc, task, feed, calls, faults>>

\* Broken: the check lets everything but a completed generation through, so
\* that a failed one can be tried again.
FindByIdRetrying(w) ==
  /\ pc[w] = "received"
  /\ Goto(w, IF row[Gen(w)].status # "completed" THEN "checked"
                                                 ELSE "closing")
  /\ UNCHANGED <<row, req, loc, task, feed, calls, faults>>

FindById(w) ==
  /\ pc[w] = "received"
  /\ \/ /\ Goto(w, IF row[Gen(w)].status = "pending" THEN "checked"
                                                     ELSE "closing")
        /\ UNCHANGED faults
     \/ Fault("db") /\ Goto(w, "closing")
  /\ UNCHANGED <<row, req, loc, task, feed, calls>>

MarkRunning(w) ==
  /\ pc[w] = "checked"
  /\ WriteRow(w, [row[Gen(w)] EXCEPT !.status = "running"],
              "marked", "closing")
  /\ UNCHANGED <<req, loc, task, feed, calls>>

\* Still outside the try of execute: a failure here leaves the row running.
PublishRunning(w) ==
  /\ pc[w] = "marked"
  /\ Notify(w, "running", "announced", "closing")
  /\ UNCHANGED <<row, req, loc, task, calls>>

OpenStream(w) ==
  /\ pc[w] = "announced"
  /\ Goto(w, "streaming")
  /\ calls' = [calls EXCEPT ![Gen(w)] = @ + 1]
  /\ UNCHANGED <<row, req, loc, task, feed, faults>>

Published(g, event) == Cardinality({i \in DOMAIN feed[g] : feed[g][i] = event})

\* An event is published before the executor looks at its type. The stream is
\* that of module LlmStream: tool events, then "done" or "error".
StreamEvent(w) ==
  /\ pc[w] = "streaming"
  /\ \/ /\ Published(Gen(w), "tool") < MaxTools
        /\ Notify(w, "tool", "streaming", "excepted")
     \/ Notify(w, "done", "finished", "excepted")
     \/ Notify(w, "error", "refused", "excepted")
  /\ UNCHANGED <<row, req, loc, task, calls>>

\* Broken: the status is written without the result.
SaveStatusOnly(w) ==
  /\ pc[w] = "finished"
  /\ WriteRow(w, [row[Gen(w)] EXCEPT !.status = "completed"],
              "saved", "excepted")
  /\ UNCHANGED <<req, loc, task, feed, calls>>

\* Broken: the result is written without the status.
SavePageOnly(w) ==
  /\ pc[w] = "finished"
  /\ WriteRow(w, [row[Gen(w)] EXCEPT !.html = "page"], "saved", "excepted")
  /\ UNCHANGED <<req, loc, task, feed, calls>>

SaveResult(w) ==
  /\ pc[w] = "finished"
  /\ WriteRow(w, [row[Gen(w)] EXCEPT !.status = "completed", !.html = "page"],
              "saved", "excepted")
  /\ UNCHANGED <<req, loc, task, feed, calls>>

PublishCompleted(w) ==
  /\ pc[w] = "saved"
  /\ Notify(w, "completed", "closing", "excepted")
  /\ UNCHANGED <<row, req, loc, task, calls>>

\* Broken: the event type "error" written where the status "failed" belongs.
FailedAsError(g) == [row[g] EXCEPT !.status = "error", !.error = "text"]

Failed(g) == [row[g] EXCEPT !.status = "failed", !.error = "text"]

\* Broken: execute returns on an error event without mark_failed.
MarkErrorForgotten(w) ==
  /\ pc[w] = "refused"
  /\ Goto(w, "closing")
  /\ UNCHANGED <<row, req, loc, task, feed, calls, faults>>

\* The stream ended with an error event: no status event follows.
MarkError(w) ==
  /\ pc[w] = "refused"
  /\ WriteRow(w, Failed(Gen(w)), "closing", "excepted")
  /\ UNCHANGED <<req, loc, task, feed, calls>>

\* Broken: the except clause announces the failure and does not record it.
MarkFailedForgotten(w) ==
  /\ pc[w] = "excepted"
  /\ Goto(w, "recorded")
  /\ UNCHANGED <<row, req, loc, task, feed, calls, faults>>

MarkFailed(w) ==
  /\ pc[w] = "excepted"
  /\ WriteRow(w, Failed(Gen(w)), "recorded", "closing")
  /\ UNCHANGED <<req, loc, task, feed, calls>>

PublishFailed(w) ==
  /\ pc[w] = "recorded"
  /\ Notify(w, "failed", "closing", "closing")
  /\ UNCHANGED <<row, req, loc, task, calls>>

Execute(w) ==
  \/ FindById(w) \/ MarkRunning(w) \/ PublishRunning(w) \/ OpenStream(w)
  \/ StreamEvent(w) \/ SaveResult(w) \/ PublishCompleted(w)
  \/ MarkError(w) \/ MarkFailed(w) \/ PublishFailed(w)

Next ==
  \/ \E g \in Gens : CreateRow(g) \/ PublishTask(g) \/ RequestLost(g)
  \/ \E w \in Workers : \/ \E c \in Copies : Deliver(w, c)
                        \/ Execute(w) \/ Ack(w) \/ Crash(w) \/ Requeue(w)

Spec == Init /\ [][Next]_vars

\* A started request and a started task run on, and a ready task is handed to
\* a free process; a client need not send requests and no fault need happen.
Fairness ==
  /\ \A g \in Gens : WF_vars(PublishTask(g))
  /\ \A w \in Workers : WF_vars(Execute(w) \/ Ack(w))
  /\ WF_vars(\E w \in Workers, c \in Copies : Deliver(w, c))

FairSpec == Spec /\ Fairness

-----------------------------------------------------------------------------
(***************************************************************************)
(* Properties.                                                             *)
(***************************************************************************)

\* Every variable keeps the shape the code gives it; in particular a busy
\* process always has a task and an idle one never has.
TypeOK ==
  /\ row \in [Gens -> Row]
  /\ req \in [Gens -> {"none", "created", "accepted", "failed"}]
  /\ loc \in [Copies -> Resting \cup Workers]
  /\ pc \in [Workers -> Labels]
  /\ task \in [Workers -> Copies \cup {NoTask}]
  /\ \A w \in Workers : pc[w] = "idle" <=> task[w] = NoTask
  /\ feed \in [Gens -> Seq(Events)]
  /\ calls \in [Gens -> Nat]
  /\ faults \in Exposure

\* What a behaviour may be exposed to: no second delivery at the same time; no
\* call that takes effect and raises; nothing that loses a task or a read of a
\* row; nothing but the broker.
SingleDelivery == faults.kinds \cap {"duplicate", "requeue"} = {}
CleanFaults    == faults.kinds \subseteq {"publish", "crash", "db"}
NoTaskLost     == faults.kinds \cap {"publish", "db"} = {}
BrokerFaults   == faults.kinds \subseteq {"publish", "duplicate", "requeue"}

\* While the broker delivers no task twice at the same time, two processes
\* never work on one generation, whatever crashes and is redelivered: the
\* status check of execute (lines 40-43) is not atomic and relies on this.
OneExecutor ==
  SingleDelivery =>
    \A v, w \in Workers :
      pc[v] # "idle" /\ pc[w] # "idle" /\ Gen(v) = Gen(w) => v = w

\* Late acknowledgement redelivers the task of a lost worker, yet a generation
\* never pays for a second LLM stream: the redelivered task finds the row no
\* longer pending.
AtMostOneCall == SingleDelivery => \A g \in Gens : calls[g] <= 1

\* The order in which a client may hear of a generation.
Rank == [running |-> 1, tool |-> 2, done |-> 3, error |-> 3,
         completed |-> 4, failed |-> 4]

\* The notifications about one generation tell one story: it runs, tools
\* report, the stream ends, one final status. Nothing is repeated, nothing
\* follows the end, even when the task is delivered again.
FeedOrdered ==
  CleanFaults =>
    \A g \in Gens : \A j \in DOMAIN feed[g] :
      /\ j = 1 <=> feed[g][j] = "running"
      /\ \A i \in 1 .. j - 1 :
           \/ Rank[feed[g][i]] < Rank[feed[g][j]]
           \/ feed[g][i] = "tool" /\ feed[g][j] = "tool"

\* Whoever hears a final status and then reads the row finds that status.
LastEventAgrees ==
  CleanFaults =>
    \A g \in Gens :
      LET n == Len(feed[g])
      IN n > 0 /\ feed[g][n] \in {"completed", "failed"}
           => row[g].status = feed[g][n]

\* Under every fault at once, a final status that was announced has its payload
\* in the row: the page for "completed", the error text for "failed".
FeedTruthful ==
  \A g \in Gens : \A i \in DOMAIN feed[g] :
    /\ feed[g][i] = "completed" => row[g].html = "page"
    /\ feed[g][i] = "failed"    => row[g].error = "text"

\* An accepted generation that is still pending has a task that will run it:
\* in the queue, or held unacknowledged by a process that has not passed the
\* status check of execute with another answer.
PendingAccountedFor ==
  NoTaskLost =>
    \A g \in Gens :
      req[g] = "accepted" /\ row[g].status = "pending" =>
        \E i \in {1, 2} :
          \/ loc[<<g, i>>] = "ready"
          \/ \E w \in Workers : /\ loc[<<g, i>>] = w
                                /\ task[w] = <<g, i>>
                                /\ pc[w] \in {"received", "checked"}

\* A row says "running" only while some process executes it, even when the
\* broker lets two processes run the same generation.
RunningIsExecuted ==
  BrokerFaults =>
    \A g \in Gens :
      row[g].status = "running" =>
        \E w \in Workers : pc[w] \in Executing /\ Gen(w) = g

Lifecycle == INSTANCE GenerationLifecycle
               WITH status <- [g \in Gens |-> row[g].status]

\* The executor implements the life cycle of models/status.py: every write of
\* every process is one of its arrows.
LifecycleSpec == Lifecycle!Spec

\* Under every fault at once, a task in the queue is eventually acknowledged:
\* no failure makes a poison task that circulates or blocks a process forever.
TasksDrain ==
  \A c \in Copies : loc[c] = "ready" ~> loc[c] = "acked"

\* With the broker as the only source of trouble (tasks doubled and handed out
\* again to another process), an accepted generation ends completed or failed
\* and stays so.
EveryAcceptedSettles ==
  \A g \in Gens :
    req[g] = "accepted" /\ NoTaskLost /\ BrokerFaults ~>
      [](row[g].status \in Lifecycle!Settled)

(***************************************************************************)
(* What the repository says of the program and the code does not keep.     *)
(***************************************************************************)

\* models/status.py:7: nothing follows "completed" or "failed".
TerminalIsFinal ==
  [][\A g \in Gens : row[g].status \in Lifecycle!Settled
                       => row'[g].status = row[g].status]_vars

\* celery_app.py:28: "ack only after successful processing".
AckedIsProcessed ==
  \A g \in Gens : \A i \in {1, 2} :
    loc[<<g, i>>] = "acked" => row[g].status \in Lifecycle!Settled
=============================================================================
