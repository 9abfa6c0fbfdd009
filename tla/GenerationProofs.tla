-------------------------- MODULE GenerationProofs --------------------------
(***************************************************************************)
(* Theorems about Generation and about LiveGeneration, the page composed   *)
(* with it, for any number of generations, processes and faults, lists and *)
(* glitches.  First the backend by itself, then what the page shows and    *)
(* waits for.                                                              *)
(***************************************************************************)
EXTENDS LiveGeneration, SequenceTheorems, TLAPS

\* The two copies of a task are different tasks to the broker.
LEMMA CopyFacts ==
  ASSUME NEW g \in Gens, NEW h \in Gens
  PROVE  /\ <<g, 1>> \in Copies /\ <<g, 2>> \in Copies
         /\ <<h, 2>> # <<g, 1>>
<1>1. <<g, 1>> \in Copies /\ <<g, 2>> \in Copies
  BY DEF Copies
<1>2. <<h, 2>>[2] # <<g, 1>>[2]
  OBVIOUS
<1> QED BY <1>1, <1>2

LEMMA GenOfBusy ==
  ASSUME TypeOK, NEW w \in Workers, pc[w] # "idle"
  PROVE  task[w] \in Copies /\ Gen(w) \in Gens
  BY DEF TypeOK, Copies, Gen

-----------------------------------------------------------------------------
(***************************************************************************)
(* Types.                                                                  *)
(***************************************************************************)

LEMMA InitTypeOK == Init => TypeOK
  BY BoundAssumption, NameAssumption
  DEF Init, TypeOK, Absent, Copies, Resting, Labels, Events, Statuses, Row,
      Exposure

LEMMA FaultTyped ==
  ASSUME faults \in Exposure, NEW kind, Fault(kind)
  PROVE  faults' \in Exposure /\ faults'.kinds = faults.kinds
  BY BoundAssumption DEF Fault, Exposure

\* Going to a label keeps the labels typed and a busy process busy.
LEMMA GotoTyped ==
  ASSUME TypeOK, NEW w \in Workers, pc[w] # "idle",
         NEW label \in Labels, label # "idle", Goto(w, label)
  PROVE  /\ pc' \in [Workers -> Labels]
         /\ \A v \in Workers : pc'[v] = "idle" <=> pc[v] = "idle"
  BY DEF TypeOK, Goto

\* A write of the executor keeps the rows, the labels and the fault count typed.
LEMMA WriteRowTyped ==
  ASSUME TypeOK, NEW w \in Workers, pc[w] # "idle", NEW new \in Row,
         NEW ok \in Labels, ok # "idle",
         NEW raised \in Labels, raised # "idle",
         WriteRow(w, new, ok, raised)
  PROVE  /\ row' \in [Gens -> Row]
         /\ pc' \in [Workers -> Labels]
         /\ \A v \in Workers : pc'[v] = "idle" <=> pc[v] = "idle"
         /\ faults' \in Exposure
<1>1. Goto(w, ok) \/ Goto(w, raised)
  BY DEF WriteRow
<1>2. row' \in [Gens -> Row]
  BY GenOfBusy DEF WriteRow, Write, TypeOK
<1>3. faults' \in Exposure
  BY FaultTyped DEF WriteRow, TypeOK
<1> QED BY <1>1, <1>2, <1>3, GotoTyped

\* So does a notification, and the feed stays a sequence of events.
LEMMA NotifyTyped ==
  ASSUME TypeOK, NEW w \in Workers, pc[w] # "idle",
         NEW event \in Events,
         NEW ok \in Labels, ok # "idle",
         NEW raised \in Labels, raised # "idle",
         Notify(w, event, ok, raised)
  PROVE  /\ feed' \in [Gens -> Seq(Events)]
         /\ pc' \in [Workers -> Labels]
         /\ \A v \in Workers : pc'[v] = "idle" <=> pc[v] = "idle"
         /\ faults' \in Exposure
<1> DEFINE sent == [feed EXCEPT ![Gen(w)] = Append(@, event)]
<1>1. sent \in [Gens -> Seq(Events)]
  BY GenOfBusy DEF TypeOK
<1>2. feed' \in {feed, sent}
  BY DEF Notify
<1>3. Goto(w, ok) \/ Goto(w, raised)
  BY DEF Notify
<1>4. faults' \in Exposure
  BY FaultTyped DEF Notify, TypeOK
<1>5. feed' \in [Gens -> Seq(Events)]
  BY <1>1, <1>2 DEF TypeOK
<1> QED BY <1>3, <1>4, <1>5, GotoTyped

\* Release frees the process together with its task.
LEMMA ReleaseTyped ==
  ASSUME TypeOK, NEW w \in Workers, NEW place \in Resting, Release(w, place)
  PROVE  /\ loc' \in [Copies -> Resting \cup Workers]
         /\ pc' \in [Workers -> Labels]
         /\ task' \in [Workers -> Copies \cup {NoTask}]
         /\ \A v \in Workers : pc'[v] = "idle" <=> task'[v] = NoTask
<1>1. loc' \in [Copies -> Resting \cup Workers]
  BY DEF Release, TypeOK
<1>2. /\ pc' = [pc EXCEPT ![w] = "idle"]
      /\ task' = [task EXCEPT ![w] = NoTask]
  BY DEF Release, Goto
<1>3. "idle" \in Labels
  BY DEF Labels
<1> QED BY <1>1, <1>2, <1>3 DEF TypeOK

LEMMA RowsTyped ==
  ASSUME TypeOK, NEW g \in Gens
  PROVE  /\ Pending \in Row
         /\ Failed(g) \in Row
         /\ [row[g] EXCEPT !.status = "running"] \in Row
         /\ [row[g] EXCEPT !.status = "completed", !.html = "page"] \in Row
  BY DEF TypeOK, Row, Statuses, Pending, Failed

LEMMA NextTypeOK == TypeOK /\ [Next]_vars => TypeOK'
<1> SUFFICES ASSUME TypeOK, [Next]_vars PROVE TypeOK'
  OBVIOUS
<1>1. ASSUME NEW g \in Gens, CreateRow(g) PROVE TypeOK'
  <2>1. faults' \in Exposure
    BY <1>1, FaultTyped DEF CreateRow, TypeOK
  <2> QED BY <1>1, <2>1, RowsTyped DEF CreateRow, Write, TypeOK
<1>2. ASSUME NEW g \in Gens, PublishTask(g) PROVE TypeOK'
  <2>1. faults' \in Exposure
    BY <1>2, FaultTyped DEF PublishTask, TypeOK
  <2>2. loc' \in [Copies -> Resting \cup Workers]
    BY <1>2 DEF PublishTask, Send, TypeOK, Resting
  <2> QED BY <1>2, <2>1, <2>2 DEF PublishTask, Answer, TypeOK
<1>3. ASSUME NEW g \in Gens, RequestLost(g) PROVE TypeOK'
  <2>1. faults' \in Exposure
    BY <1>3, FaultTyped DEF RequestLost, TypeOK
  <2> QED BY <1>3, <2>1 DEF RequestLost, Answer, TypeOK
<1>4. ASSUME NEW w \in Workers, NEW c \in Copies, Deliver(w, c) PROVE TypeOK'
  BY <1>4, NameAssumption DEF Deliver, Goto, TypeOK, Labels
<1>5. ASSUME NEW w \in Workers, Execute(w) PROVE TypeOK'
  <2>1. CASE FindById(w)
    <3>1. \E label \in {"checked", "closing"} : Goto(w, label)
      BY <2>1 DEF FindById
    <3>2. pc[w] # "idle" /\ {"checked", "closing"} \subseteq Labels
      BY <2>1 DEF FindById, Labels
    <3>3. faults' \in Exposure
      BY <2>1, FaultTyped DEF FindById, TypeOK
    <3> QED BY <2>1, <3>1, <3>2, <3>3, GotoTyped DEF FindById, TypeOK
  <2>2. CASE MarkRunning(w)
    BY <2>2, WriteRowTyped, RowsTyped, GenOfBusy
    DEF MarkRunning, TypeOK, Labels, Executing
  <2>3. CASE PublishRunning(w)
    BY <2>3, NotifyTyped DEF PublishRunning, TypeOK, Labels, Executing, Events
  <2>4. CASE OpenStream(w)
    <3>1. pc[w] # "idle" /\ "streaming" \in Labels /\ Goto(w, "streaming")
      BY <2>4 DEF OpenStream, Labels, Executing
    <3>2. calls' \in [Gens -> Nat]
      BY <2>4, <3>1, GenOfBusy DEF OpenStream, TypeOK
    <3> QED BY <2>4, <3>1, <3>2, GotoTyped DEF OpenStream, TypeOK
  <2>5. CASE StreamEvent(w)
    BY <2>5, NotifyTyped DEF StreamEvent, TypeOK, Labels, Executing, Events
  <2>6. CASE SaveResult(w)
    BY <2>6, WriteRowTyped, RowsTyped, GenOfBusy
    DEF SaveResult, TypeOK, Labels, Executing
  <2>7. CASE PublishCompleted(w)
    BY <2>7, NotifyTyped DEF PublishCompleted, TypeOK, Labels, Executing, Events
  <2>8. CASE MarkError(w)
    BY <2>8, WriteRowTyped, RowsTyped, GenOfBusy
    DEF MarkError, TypeOK, Labels, Executing
  <2>9. CASE MarkFailed(w)
    BY <2>9, WriteRowTyped, RowsTyped, GenOfBusy
    DEF MarkFailed, TypeOK, Labels, Executing
  <2>10. CASE PublishFailed(w)
    BY <2>10, NotifyTyped DEF PublishFailed, TypeOK, Labels, Executing, Events
  <2> QED BY <1>5, <2>1, <2>2, <2>3, <2>4, <2>5, <2>6, <2>7, <2>8, <2>9, <2>10
          DEF Execute
<1>6. ASSUME NEW w \in Workers, Ack(w) PROVE TypeOK'
  BY <1>6, ReleaseTyped DEF Ack, TypeOK, Resting
<1>7. ASSUME NEW w \in Workers, Crash(w) PROVE TypeOK'
  <2>1. faults' \in Exposure
    BY <1>7, FaultTyped DEF Crash, TypeOK
  <2> QED BY <1>7, <2>1, ReleaseTyped DEF Crash, TypeOK, Resting
<1>8. ASSUME NEW w \in Workers, Requeue(w) PROVE TypeOK'
  <2>1. faults' \in Exposure
    BY <1>8, FaultTyped DEF Requeue, TypeOK
  <2> QED BY <1>8, <2>1 DEF Requeue, TypeOK, Resting
<1>9. CASE UNCHANGED vars
  BY <1>9 DEF vars, TypeOK
<1> QED BY <1>1, <1>2, <1>3, <1>4, <1>5, <1>6, <1>7, <1>8, <1>9 DEF Next

\* The type invariant, for every instance.
THEOREM TypeCorrect == Spec => []TypeOK
<1> QED BY InitTypeOK, NextTypeOK, PTL DEF Spec

-----------------------------------------------------------------------------
(***************************************************************************)
(* What a step leaves alone.                                               *)
(***************************************************************************)

\* A statement of the executor touches its own process and its own generation.
LEMMA ExecuteFrame ==
  ASSUME TypeOK, NEW w \in Workers, Execute(w)
  PROVE  /\ pc[w] \notin {"idle", "closing"}
         /\ pc'[w] # "idle"
         /\ UNCHANGED <<req, loc, task>>
         /\ \A v \in Workers \ {w} : pc'[v] = pc[v]
         /\ \A g \in Gens : g # Gen(w) =>
              /\ row'[g] = row[g]
              /\ feed'[g] = feed[g]
              /\ calls'[g] = calls[g]
<1> DEFINE Frame == /\ pc[w] \notin {"idle", "closing"}
                    /\ pc'[w] # "idle"
                    /\ UNCHANGED <<req, loc, task>>
                    /\ \A v \in Workers \ {w} : pc'[v] = pc[v]
                    /\ \A g \in Gens : g # Gen(w) =>
                         /\ row'[g] = row[g]
                         /\ feed'[g] = feed[g]
                         /\ calls'[g] = calls[g]
<1>1. ASSUME NEW new, NEW ok, ok # "idle", NEW raised, raised # "idle",
             pc[w] \notin {"idle", "closing"},
             WriteRow(w, new, ok, raised), UNCHANGED <<req, loc, task, feed, calls>>
      PROVE  Frame
  BY <1>1, GenOfBusy DEF WriteRow, Write, Goto, TypeOK
<1>2. ASSUME NEW event, NEW ok, ok # "idle", NEW raised, raised # "idle",
             pc[w] \notin {"idle", "closing"},
             Notify(w, event, ok, raised), UNCHANGED <<row, req, loc, task, calls>>
      PROVE  Frame
  BY <1>2, GenOfBusy DEF Notify, Goto, TypeOK
<1>3. CASE FindById(w)
  BY <1>3 DEF FindById, Goto, TypeOK
<1>4. CASE MarkRunning(w)
  BY <1>4, <1>1 DEF MarkRunning
<1>5. CASE PublishRunning(w)
  BY <1>5, <1>2 DEF PublishRunning
<1>6. CASE OpenStream(w)
  BY <1>6, GenOfBusy DEF OpenStream, Goto, TypeOK
<1>7. CASE StreamEvent(w)
  BY <1>7, <1>2 DEF StreamEvent
<1>8. CASE SaveResult(w)
  BY <1>8, <1>1 DEF SaveResult
<1>9. CASE PublishCompleted(w)
  BY <1>9, <1>2 DEF PublishCompleted
<1>10. CASE MarkError(w)
  BY <1>10, <1>1 DEF MarkError
<1>11. CASE MarkFailed(w)
  BY <1>11, <1>1 DEF MarkFailed
<1>12. CASE PublishFailed(w)
  BY <1>12, <1>2 DEF PublishFailed
<1> QED BY <1>3, <1>4, <1>5, <1>6, <1>7, <1>8, <1>9, <1>10, <1>11, <1>12
        DEF Execute

\* A behaviour keeps its profile.
LEMMA ProfileKept ==
  ASSUME TypeOK, [Next]_vars
  PROVE  faults'.kinds = faults.kinds
<1>1. UNCHANGED faults \/ \E kind : Fault(kind)
  BY DEF Next, vars, CreateRow, PublishTask, RequestLost, Deliver, Ack, Crash,
         Requeue, Execute, FindById, MarkRunning, PublishRunning, OpenStream,
         StreamEvent, SaveResult, PublishCompleted, MarkError, MarkFailed,
         PublishFailed, WriteRow, Notify
<1> QED BY <1>1, FaultTyped, SMTT(30) DEF TypeOK

-----------------------------------------------------------------------------
(***************************************************************************)
(* A task exists only after its row: what holds before a request has       *)
(* reached the publish, under every fault.                                 *)
(***************************************************************************)
Begun ==
  /\ \A g \in Gens : req[g] = "none" =>
       row[g] = Absent /\ feed[g] = << >> /\ calls[g] = 0
  /\ \A c \in Copies : req[c[1]] \in {"none", "created"} => loc[c] = "unsent"
  /\ \A w \in Workers : pc[w] # "idle" => loc[task[w]] # "unsent"

LEMMA BusyBegun ==
  ASSUME TypeOK, Begun, NEW w \in Workers, pc[w] # "idle"
  PROVE  req[Gen(w)] \notin {"none", "created"}
  BY GenOfBusy DEF Begun, Gen

LEMMA BegunInit == Init => Begun
  BY DEF Init, Begun, Copies

LEMMA BegunNext == TypeOK /\ Begun /\ [Next]_vars => Begun'
<1> SUFFICES ASSUME TypeOK, Begun, [Next]_vars PROVE Begun'
  OBVIOUS
<1> USE DEF Begun
<1>1. ASSUME NEW g \in Gens, CreateRow(g) PROVE Begun'
  BY <1>1 DEF CreateRow, Write, TypeOK, Copies
<1>2. ASSUME NEW g \in Gens, PublishTask(g) PROVE Begun'
  <2>1. /\ req[g] = "created"
        /\ \A h \in Gens \ {g} : req'[h] = req[h]
        /\ req'[g] \in {"accepted", "failed"}
        /\ UNCHANGED <<row, pc, task, feed, calls>>
    BY <1>2 DEF PublishTask, Answer, TypeOK
  <2>2. \A c \in Copies : loc'[c] \in {loc[c], "ready"}
    BY <1>2 DEF PublishTask, Send
  <2>3. \A c \in Copies : c[1] # g => loc'[c] = loc[c]
    BY <1>2 DEF PublishTask, Send
  <2>4. \A c \in Copies : c[1] \in Gens
    BY DEF Copies
  <2>5. \A c \in Copies : req'[c[1]] \in {"none", "created"} => loc'[c] = "unsent"
    BY <2>1, <2>3, <2>4
  <2>6. \A w \in Workers : pc'[w] # "idle" => loc'[task'[w]] # "unsent"
    BY <2>1, <2>2, GenOfBusy
  <2> QED BY <2>1, <2>5, <2>6
<1>3. ASSUME NEW g \in Gens, RequestLost(g) PROVE Begun'
  BY <1>3 DEF RequestLost, Answer, TypeOK, Copies
<1>4. ASSUME NEW w \in Workers, NEW c \in Copies, Deliver(w, c) PROVE Begun'
  BY <1>4, NameAssumption DEF Deliver, Goto, TypeOK, Resting
<1>5. ASSUME NEW w \in Workers, Execute(w) PROVE Begun'
  BY <1>5, ExecuteFrame, BusyBegun, GenOfBusy DEF TypeOK
<1>6. ASSUME NEW w \in Workers, NEW place \in {"acked", "ready"},
             Release(w, place), UNCHANGED <<row, req, feed, calls>>
      PROVE  Begun'
  <2>1. \A c \in Copies : loc'[c] = loc[c] \/ (loc[c] = w /\ loc'[c] = place)
    BY <1>6 DEF Release, Holds, TypeOK
  <2>2. /\ \A v \in Workers : pc'[v] # "idle" => pc[v] # "idle"
        /\ \A v \in Workers : pc'[v] # "idle" => task'[v] = task[v]
    BY <1>6 DEF Release, Goto, TypeOK
  <2>3. w # "unsent"
    BY NameAssumption DEF Resting
  <2> QED BY <1>6, <2>1, <2>2, <2>3, GenOfBusy DEF TypeOK
<1>7. ASSUME NEW w \in Workers, Ack(w) \/ Crash(w) PROVE Begun'
  BY <1>7, <1>6 DEF Ack, Crash
<1>8. ASSUME NEW w \in Workers, Requeue(w) PROVE Begun'
  <2>1. \A c \in Copies : loc'[c] = loc[c] \/ (loc[c] = w /\ loc'[c] = "ready")
    BY <1>8 DEF Requeue, Holds, TypeOK
  <2>2. w # "unsent"
    BY NameAssumption DEF Resting
  <2> QED BY <1>8, <2>1, <2>2, GenOfBusy DEF Requeue, TypeOK
<1>9. CASE UNCHANGED vars
  BY <1>9 DEF vars
<1> QED BY <1>1, <1>2, <1>3, <1>4, <1>5, <1>7, <1>8, <1>9 DEF Next

-----------------------------------------------------------------------------
(***************************************************************************)
(* Without a broker that doubles tasks, the process that runs a task is    *)
(* the one the broker counts as its holder.                                *)
(***************************************************************************)
Exclusive ==
  /\ \A g \in Gens : loc[<<g, 2>>] = "unsent"
  /\ \A w \in Workers : pc[w] # "idle" => loc[task[w]] = w

LEMMA ExclusiveInit == Init => Exclusive
  BY DEF Init, Exclusive, Copies

LEMMA ExclusiveNext ==
  ASSUME SingleDelivery, TypeOK, Begun, Exclusive, [Next]_vars
  PROVE  Exclusive'
<1> USE DEF Exclusive
<1>1. ASSUME NEW g \in Gens, CreateRow(g) PROVE Exclusive'
  BY <1>1 DEF CreateRow
<1>2. ASSUME NEW g \in Gens, PublishTask(g) PROVE Exclusive'
  <2>1. \E copies \in {{1}, {}} : Send(g, copies)
    BY <1>2 DEF PublishTask, Fault, SingleDelivery
  <2>2. \A c \in Copies : loc'[c] = loc[c] \/ (c = <<g, 1>> /\ loc'[c] = "ready")
    BY <2>1 DEF Send
  <2>3. \A h \in Gens : <<h, 2>> \in Copies /\ <<h, 2>> # <<g, 1>>
    BY CopyFacts
  <2>4. req[g] = "created" /\ UNCHANGED <<pc, task>>
    BY <1>2 DEF PublishTask
  <2>5. loc[<<g, 1>>] = "unsent"
    BY <2>4 DEF Begun, Copies
  <2>6. ASSUME NEW w \in Workers, pc'[w] # "idle" PROVE loc'[task'[w]] = w
    BY <2>2, <2>4, <2>5, <2>6, GenOfBusy, NameAssumption DEF Resting
  <2> QED BY <2>2, <2>3, <2>6
<1>3. ASSUME NEW g \in Gens, RequestLost(g) PROVE Exclusive'
  BY <1>3 DEF RequestLost
<1>4. ASSUME NEW w \in Workers, NEW c \in Copies, Deliver(w, c) PROVE Exclusive'
  <2>1. \A g \in Gens : c # <<g, 2>>
    BY <1>4 DEF Deliver
  <2>2. ASSUME NEW v \in Workers, pc'[v] # "idle" PROVE loc'[task'[v]] = v
    BY <1>4, <2>2, GenOfBusy, NameAssumption DEF Deliver, Goto, TypeOK, Resting
  <2>3. \A g \in Gens : <<g, 2>> \in Copies
    BY DEF Copies
  <2> QED BY <1>4, <2>1, <2>2, <2>3 DEF Deliver, TypeOK
<1>5. ASSUME NEW w \in Workers, Execute(w) PROVE Exclusive'
  BY <1>5, ExecuteFrame
<1>6. ASSUME NEW w \in Workers, NEW place, Release(w, place), pc[w] # "idle"
      PROVE  Exclusive'
  <2>1. \A c \in Copies : loc'[c] = loc[c] \/ c = task[w]
    BY <1>6 DEF Release, TypeOK
  <2>2. \A g \in Gens : <<g, 2>> \in Copies /\ <<g, 2>> # task[w]
    BY <1>6, NameAssumption DEF Copies, Resting
  <2>3. ASSUME NEW v \in Workers, pc'[v] # "idle" PROVE loc'[task'[v]] = v
    <3>1. pc[v] # "idle" /\ v # w /\ task'[v] = task[v]
      BY <1>6, <2>3 DEF Release, Goto, TypeOK
    <3>2. task[v] # task[w]
      BY <1>6, <3>1
    <3> QED BY <2>1, <3>1, <3>2, GenOfBusy
  <2> QED BY <2>1, <2>2, <2>3
<1>7. ASSUME NEW w \in Workers, Ack(w) \/ Crash(w) PROVE Exclusive'
  BY <1>7, <1>6 DEF Ack, Crash
<1>8. ASSUME NEW w \in Workers, Requeue(w) PROVE FALSE
  BY <1>8 DEF Requeue, Fault, SingleDelivery
<1>9. CASE UNCHANGED vars
  BY <1>9 DEF vars
<1> QED BY <1>1, <1>2, <1>3, <1>4, <1>5, <1>7, <1>8, <1>9 DEF Next

LEMMA ExclusiveOne == TypeOK /\ Exclusive => OneExecutor
<1> SUFFICES ASSUME TypeOK, Exclusive, NEW v \in Workers, NEW w \in Workers,
                    pc[v] # "idle", pc[w] # "idle", Gen(v) = Gen(w)
             PROVE  v = w
  BY DEF OneExecutor
<1>1. loc[task[v]] # "unsent" /\ loc[task[w]] # "unsent"
  BY NameAssumption DEF Exclusive, Resting
<1>2. \A c \in Copies : c = <<c[1], 1>> \/ c = <<c[1], 2>>
  BY DEF Copies
<1>3. task[v] = <<Gen(v), 1>> /\ task[w] = <<Gen(w), 1>>
  BY <1>1, <1>2, GenOfBusy DEF Exclusive, Gen
<1> QED BY <1>3 DEF Exclusive

DeliveryInv == TypeOK /\ Begun /\ (SingleDelivery => Exclusive)

LEMMA DeliveryInit == Init => DeliveryInv
  BY InitTypeOK, BegunInit, ExclusiveInit DEF DeliveryInv

LEMMA DeliveryNext == DeliveryInv /\ [Next]_vars => DeliveryInv'
<1> SUFFICES ASSUME DeliveryInv, [Next]_vars PROVE DeliveryInv'
  OBVIOUS
<1>1. TypeOK' /\ Begun'
  BY NextTypeOK, BegunNext DEF DeliveryInv
<1>2. SingleDelivery' <=> SingleDelivery
  BY ProfileKept DEF DeliveryInv, SingleDelivery
<1>3. SingleDelivery => Exclusive'
  BY ExclusiveNext DEF DeliveryInv
<1> QED BY <1>1, <1>2, <1>3 DEF DeliveryInv

\* Two processes never work on one generation when the broker doubles no task,
\* whatever else fails.
THEOREM OneExecutorAlways == Spec => []OneExecutor
<1>1. DeliveryInv => OneExecutor
  BY ExclusiveOne DEF DeliveryInv, OneExecutor
<1> QED BY <1>1, DeliveryInit, DeliveryNext, PTL DEF Spec

-----------------------------------------------------------------------------
(***************************************************************************)
(* One LLM stream per generation.                                          *)
(***************************************************************************)
Fresh == {"absent", "pending"}

OneCallInv ==
  /\ \A g \in Gens : calls[g] <= 1
  /\ \A g \in Gens : calls[g] > 0 => row[g].status \notin Fresh
  /\ \A w \in Workers :
       /\ pc[w] \in {"checked", "marked", "announced"} => calls[Gen(w)] = 0
       /\ pc[w] \in {"marked", "announced"} => row[Gen(w)].status \notin Fresh

LEMMA NewStatuses ==
  ASSUME TypeOK, NEW g \in Gens
  PROVE  /\ [row[g] EXCEPT !.status = "running"].status = "running"
         /\ [row[g] EXCEPT !.status = "completed", !.html = "page"].status
              = "completed"
         /\ Failed(g).status = "failed"
  BY DEF TypeOK, Row, Failed

LEMMA OneCallInit == Init => OneCallInv
  BY DEF Init, OneCallInv

LEMMA OneCallNext ==
  ASSUME SingleDelivery, TypeOK, Begun, OneExecutor, OneCallInv, [Next]_vars
  PROVE  OneCallInv'
<1> USE DEF OneCallInv, Fresh
<1>1. ASSUME NEW g \in Gens, CreateRow(g) PROVE OneCallInv'
  <2>1. /\ calls[g] = 0
        /\ \A w \in Workers : pc[w] # "idle" => Gen(w) # g
    BY <1>1, BusyBegun DEF CreateRow, Begun
  <2>2. \A h \in Gens \ {g} : row'[h] = row[h]
    BY <1>1 DEF CreateRow, Write, TypeOK
  <2>3. UNCHANGED <<pc, task, calls>>
    BY <1>1 DEF CreateRow
  <2> QED BY <2>1, <2>2, <2>3, GenOfBusy DEF Gen
<1>2. ASSUME NEW g \in Gens, PublishTask(g) \/ RequestLost(g) PROVE OneCallInv'
  BY <1>2 DEF PublishTask, RequestLost, Gen
<1>3. ASSUME NEW w \in Workers, NEW c \in Copies, Deliver(w, c) PROVE OneCallInv'
  BY <1>3 DEF Deliver, Goto, TypeOK, Gen
<1>4. ASSUME NEW w \in Workers, Execute(w) PROVE OneCallInv'
  <2> DEFINE g == Gen(w)
  <2>1. /\ pc[w] # "idle" /\ g \in Gens /\ UNCHANGED task
        /\ \A v \in Workers \ {w} : pc'[v] = pc[v]
        /\ \A h \in Gens \ {g} : row'[h] = row[h] /\ calls'[h] = calls[h]
    BY <1>4, ExecuteFrame, GenOfBusy
  <2>2. \A v \in Workers \ {w} : pc[v] # "idle" => Gen(v) \in Gens \ {g}
    BY <2>1, GenOfBusy DEF OneExecutor
  <2>3. SUFFICES /\ calls'[g] <= 1
                 /\ calls'[g] > 0 => row'[g].status \notin Fresh
                 /\ pc'[w] \in {"checked", "marked", "announced"} => calls'[g] = 0
                 /\ pc'[w] \in {"marked", "announced"}
                      => row'[g].status \notin Fresh
    BY <2>1, <2>2 DEF Gen
  <2>4. CASE FindById(w)
    BY <2>4, <2>1 DEF FindById, Goto, TypeOK
  <2>5. CASE MarkRunning(w)
    BY <2>5, <2>1, NewStatuses DEF MarkRunning, WriteRow, Write, Goto, TypeOK
  <2>6. CASE PublishRunning(w)
    BY <2>6, <2>1 DEF PublishRunning, Notify, Goto, TypeOK
  <2>7. CASE OpenStream(w)
    BY <2>7, <2>1 DEF OpenStream, Goto, TypeOK
  <2>8. CASE StreamEvent(w)
    BY <2>8, <2>1 DEF StreamEvent, Notify, Goto, TypeOK
  <2>9. CASE SaveResult(w)
    BY <2>9, <2>1, NewStatuses DEF SaveResult, WriteRow, Write, Goto, TypeOK
  <2>10. CASE PublishCompleted(w)
    BY <2>10, <2>1 DEF PublishCompleted, Notify, Goto, TypeOK
  <2>11. CASE MarkError(w)
    BY <2>11, <2>1, NewStatuses DEF MarkError, WriteRow, Write, Goto, TypeOK
  <2>12. CASE MarkFailed(w)
    BY <2>12, <2>1, NewStatuses DEF MarkFailed, WriteRow, Write, Goto, TypeOK
  <2>13. CASE PublishFailed(w)
    BY <2>13, <2>1 DEF PublishFailed, Notify, Goto, TypeOK
  <2> QED BY <1>4, <2>4, <2>5, <2>6, <2>7, <2>8, <2>9, <2>10, <2>11, <2>12, <2>13
          DEF Execute
<1>5. ASSUME NEW w \in Workers, Ack(w) \/ Crash(w) PROVE OneCallInv'
  BY <1>5 DEF Ack, Crash, Release, Goto, TypeOK, Gen
<1>6. ASSUME NEW w \in Workers, Requeue(w) PROVE OneCallInv'
  BY <1>6 DEF Requeue, Gen
<1>7. CASE UNCHANGED vars
  BY <1>7 DEF vars, Gen
<1> QED BY <1>1, <1>2, <1>3, <1>4, <1>5, <1>6, <1>7 DEF Next

CallInv == DeliveryInv /\ (SingleDelivery => OneCallInv)

LEMMA CallNext == CallInv /\ [Next]_vars => CallInv'
<1> SUFFICES ASSUME CallInv, [Next]_vars PROVE CallInv'
  OBVIOUS
<1>1. SingleDelivery' <=> SingleDelivery
  BY ProfileKept DEF CallInv, DeliveryInv, SingleDelivery
<1>2. SingleDelivery => OneCallInv'
  BY ExclusiveOne, OneCallNext DEF CallInv, DeliveryInv
<1> QED BY <1>1, <1>2, DeliveryNext DEF CallInv

LEMMA CallOnce == CallInv => AtMostOneCall
  BY DEF CallInv, OneCallInv, AtMostOneCall

\* A generation never opens a second LLM stream when the broker doubles no
\* task, whatever crashes and is redelivered.
THEOREM AtMostOneCallAlways == Spec => []AtMostOneCall
<1>1. Init => CallInv
  BY DeliveryInit, OneCallInit DEF CallInv
<1> QED BY <1>1, CallNext, CallOnce, PTL DEF Spec

-----------------------------------------------------------------------------
(***************************************************************************)
(* Refinement of the life cycle.  Besides single delivery it takes that a  *)
(* call that raised did nothing: a publish of "completed" or a commit that *)
(* takes effect and then raises sends a completed row to "failed".         *)
(***************************************************************************)
\* The executor acts on the status it has read or written last: nobody else
\* writes in between.
StatusKnown ==
  \A w \in Workers :
    /\ pc[w] = "checked"   => row[Gen(w)].status = "pending"
    /\ pc[w] \in Executing => row[Gen(w)].status = "running"

\* A write either takes effect and goes on, or raises and changes nothing.
LEMMA CleanWrite ==
  ASSUME CleanFaults, NEW w, NEW new, NEW ok, NEW raised,
         WriteRow(w, new, ok, raised)
  PROVE  \/ Write(Gen(w), new) /\ Goto(w, ok)
         \/ UNCHANGED row /\ Goto(w, raised)
  BY DEF WriteRow, Fault, CleanFaults

LEMMA CleanNotify ==
  ASSUME CleanFaults, NEW w, NEW event, NEW ok, NEW raised,
         Notify(w, event, ok, raised)
  PROVE  Goto(w, ok)
  BY DEF Notify, Fault, CleanFaults

LEMMA StatusKnownInit == Init => StatusKnown
  BY DEF Init, StatusKnown, Executing

LEMMA StatusKnownNext ==
  ASSUME CleanFaults, SingleDelivery, TypeOK, Begun, OneExecutor, StatusKnown,
         [Next]_vars
  PROVE  StatusKnown'
<1> USE DEF StatusKnown, Executing
<1>1. ASSUME NEW g \in Gens, CreateRow(g) PROVE StatusKnown'
  <2>1. \A w \in Workers : pc[w] # "idle" => Gen(w) # g
    BY <1>1, BusyBegun DEF CreateRow
  <2>2. \A h \in Gens \ {g} : row'[h] = row[h]
    BY <1>1 DEF CreateRow, Write, TypeOK
  <2>3. UNCHANGED <<pc, task>>
    BY <1>1 DEF CreateRow
  <2> QED BY <2>1, <2>2, <2>3, GenOfBusy DEF Gen
<1>2. ASSUME NEW g \in Gens, PublishTask(g) \/ RequestLost(g) PROVE StatusKnown'
  BY <1>2 DEF PublishTask, RequestLost, Gen
<1>3. ASSUME NEW w \in Workers, NEW c \in Copies, Deliver(w, c) PROVE StatusKnown'
  BY <1>3 DEF Deliver, Goto, TypeOK, Gen
<1>4. ASSUME NEW w \in Workers, Execute(w) PROVE StatusKnown'
  <2> DEFINE g == Gen(w)
  <2>1. /\ pc[w] # "idle" /\ g \in Gens /\ UNCHANGED task
        /\ \A v \in Workers \ {w} : pc'[v] = pc[v]
        /\ \A h \in Gens \ {g} : row'[h] = row[h]
    BY <1>4, ExecuteFrame, GenOfBusy
  <2>2. \A v \in Workers \ {w} : pc[v] # "idle" => Gen(v) \in Gens \ {g}
    BY <2>1, GenOfBusy DEF OneExecutor
  <2>3. SUFFICES /\ pc'[w] = "checked"   => row'[g].status = "pending"
                 /\ pc'[w] \in Executing => row'[g].status = "running"
    BY <2>1, <2>2 DEF Gen
  <2>4. CASE FindById(w)
    BY <2>4, <2>1 DEF FindById, Goto, TypeOK
  <2>5. CASE MarkRunning(w)
    <3>1. \/ /\ Write(g, [row[g] EXCEPT !.status = "running"])
             /\ Goto(w, "marked")
          \/ Goto(w, "closing")
      BY <2>5, CleanWrite DEF MarkRunning
    <3>2. CASE Goto(w, "closing")
      BY <3>2, <2>1 DEF Goto, TypeOK
    <3>3. CASE /\ Write(g, [row[g] EXCEPT !.status = "running"])
               /\ Goto(w, "marked")
      <4>1. row'[g] = [row[g] EXCEPT !.status = "running"]
        BY <3>3, <2>1 DEF Write, TypeOK
      <4>2. row'[g].status = "running"
        BY <4>1, <2>1, NewStatuses
      <4>3. pc'[w] = "marked"
        BY <3>3 DEF Goto, TypeOK
      <4> QED BY <4>2, <4>3
    <3> QED BY <3>1, <3>2, <3>3
  <2>6. CASE PublishRunning(w)
    BY <2>6, <2>1, CleanNotify DEF PublishRunning, Goto, TypeOK
  <2>7. CASE OpenStream(w)
    BY <2>7, <2>1 DEF OpenStream, Goto, TypeOK
  <2>8. CASE StreamEvent(w)
    BY <2>8, <2>1, CleanNotify DEF StreamEvent, Goto, TypeOK
  <2>9. CASE SaveResult(w)
    BY <2>9, <2>1, CleanWrite, NewStatuses DEF SaveResult, Write, Goto, TypeOK
  <2>10. CASE PublishCompleted(w)
    BY <2>10, <2>1, CleanNotify DEF PublishCompleted, Goto, TypeOK
  <2>11. CASE MarkError(w)
    BY <2>11, <2>1, CleanWrite, NewStatuses DEF MarkError, Write, Goto, TypeOK
  <2>12. CASE MarkFailed(w)
    BY <2>12, <2>1, CleanWrite, NewStatuses, SMTT(30)
    DEF MarkFailed, Write, Goto, TypeOK
  <2>13. CASE PublishFailed(w)
    BY <2>13, <2>1, CleanNotify DEF PublishFailed, Goto, TypeOK
  <2> QED BY <1>4, <2>4, <2>5, <2>6, <2>7, <2>8, <2>9, <2>10, <2>11, <2>12, <2>13
          DEF Execute
<1>5. ASSUME NEW w \in Workers, Ack(w) \/ Crash(w) PROVE StatusKnown'
  BY <1>5 DEF Ack, Crash, Release, Goto, TypeOK, Gen
<1>6. ASSUME NEW w \in Workers, Requeue(w) PROVE StatusKnown'
  BY <1>6 DEF Requeue, Gen
<1>7. CASE UNCHANGED vars
  BY <1>7 DEF vars, Gen
<1> QED BY <1>1, <1>2, <1>3, <1>4, <1>5, <1>6, <1>7 DEF Next

status == [g \in Gens |-> row[g].status]

\* A write of one row is one arrow of the life cycle, or none.
LEMMA RowStep ==
  ASSUME TypeOK, NEW g \in Gens, NEW new, row' = [row EXCEPT ![g] = new]
  PROVE  status' = [status EXCEPT ![g] = new.status]
  BY DEF TypeOK, status

LEMMA LifecycleStep ==
  ASSUME CleanFaults, TypeOK, Begun, StatusKnown, [Next]_vars
  PROVE  [Lifecycle!Next]_status
<1> DEFINE Arrow(g, new) ==
      row' = [row EXCEPT ![g] = new] /\
        \/ row[g].status = "absent"  /\ new.status = "pending"
        \/ row[g].status = "pending" /\ new.status = "running"
        \/ row[g].status = "running" /\ new.status \in {"completed", "failed"}
<1>1. ASSUME NEW g \in Gens, NEW new, Arrow(g, new)
      PROVE  Lifecycle!Next
  <2>1. status[g] = row[g].status /\ status' = [status EXCEPT ![g] = new.status]
    BY <1>1, RowStep DEF status
  <2>2. CASE new.status = "pending"
    BY <1>1, <2>1, <2>2
    DEF Lifecycle!Next, Lifecycle!Create, Lifecycle!Become, status
  <2>3. CASE new.status = "running"
    BY <1>1, <2>1, <2>3
    DEF Lifecycle!Next, Lifecycle!Start, Lifecycle!Become, status
  <2>4. CASE new.status \in {"completed", "failed"}
    BY <1>1, <2>1, <2>4
    DEF Lifecycle!Next, Lifecycle!Settle, Lifecycle!Settled, Lifecycle!Become,
        status
  <2> QED BY <1>1, <2>2, <2>3, <2>4
<1>2. ASSUME NEW g \in Gens, CreateRow(g)
      PROVE  UNCHANGED row \/ Arrow(g, Pending)
  BY <1>2 DEF CreateRow, Begun, Write, Absent, Pending
<1>3. ASSUME NEW w \in Workers, Execute(w)
      PROVE  UNCHANGED row \/ \E g \in Gens : \E new : Arrow(g, new)
  <2>1. Gen(w) \in Gens
    BY <1>3, ExecuteFrame, GenOfBusy
  <2>2. CASE MarkRunning(w)
    BY <2>2, <2>1, CleanWrite, NewStatuses DEF MarkRunning, Write, StatusKnown
  <2>3. CASE SaveResult(w)
    BY <2>3, <2>1, CleanWrite, NewStatuses
    DEF SaveResult, Write, StatusKnown, Executing
  <2>4. CASE MarkError(w) \/ MarkFailed(w)
    BY <2>4, <2>1, CleanWrite, NewStatuses
    DEF MarkError, MarkFailed, Write, StatusKnown, Executing
  <2>5. CASE UNCHANGED row
    BY <2>5
  <2> QED BY <1>3, <2>2, <2>3, <2>4, <2>5
          DEF Execute, FindById, PublishRunning, OpenStream, StreamEvent,
              PublishCompleted, PublishFailed
<1>4. ASSUME UNCHANGED row PROVE UNCHANGED status
  BY <1>4 DEF status
<1>5. UNCHANGED row \/ \E g \in Gens : \E new : Arrow(g, new)
  BY <1>2, <1>3
  DEF Next, vars, PublishTask, RequestLost, Deliver, Ack, Crash, Requeue
<1> QED BY <1>1, <1>4, <1>5

\* The executor implements the life cycle of models/status.py while no task is
\* doubled and no call that raised has taken effect.
THEOREM ImplementsLifecycle ==
  ASSUME \A kinds \in Profiles : kinds \subseteq {"publish", "crash", "db"}
  PROVE  Spec => LifecycleSpec
<1> DEFINE IInv == TypeOK /\ Begun /\ Exclusive /\ StatusKnown
<1>1. Init => Lifecycle!Init
  BY DEF Init, Absent, Lifecycle!Init
<1>2. Init => IInv
  BY InitTypeOK, BegunInit, ExclusiveInit, StatusKnownInit
<1>3. TypeOK => CleanFaults /\ SingleDelivery
  BY DEF TypeOK, Exposure, CleanFaults, SingleDelivery
<1>4. IInv /\ [Next]_vars => IInv'
  BY <1>3, NextTypeOK, BegunNext, ExclusiveNext, ExclusiveOne, StatusKnownNext
<1>5. IInv /\ [Next]_vars => [Lifecycle!Next]_status
  BY <1>3, LifecycleStep
<1> QED BY <1>1, <1>2, <1>4, <1>5, PTL
        DEF Spec, LifecycleSpec, Lifecycle!Spec, status

-----------------------------------------------------------------------------
(***************************************************************************)
(* What survives the faults excluded above: truth of the feed under all of *)
(* them, and the two facts a redelivered or doubled task relies on.        *)
(***************************************************************************)
\* The result and the error text of a row, once written, are never erased:
\* after CreateRow only the executor writes, and it only adds.
LEMMA WritesAdd ==
  ASSUME TypeOK, NEW w \in Workers, Execute(w)
  PROVE  \A g \in Gens :
           /\ row[g].html = "page"  => row'[g].html = "page"
           /\ row[g].error = "text" => row'[g].error = "text"
<1> DEFINE g == Gen(w)
<1>1. g \in Gens /\ \A h \in Gens : h # g => row'[h] = row[h]
  BY ExecuteFrame, GenOfBusy
<1>2. ASSUME NEW new \in Row, row[g].html = "page" => new.html = "page",
             row[g].error = "text" => new.error = "text",
             row' \in {row, [row EXCEPT ![g] = new]}
      PROVE  /\ row[g].html = "page"  => row'[g].html = "page"
             /\ row[g].error = "text" => row'[g].error = "text"
  BY <1>1, <1>2 DEF TypeOK
<1>4. \A new, ok, raised : WriteRow(w, new, ok, raised)
                             => row' \in {row, [row EXCEPT ![g] = new]}
  BY DEF WriteRow, Write
<1>5. CASE MarkRunning(w)
  <2> DEFINE new == [row[g] EXCEPT !.status = "running"]
  <2>1. new \in Row /\ new.html = row[g].html /\ new.error = row[g].error
    BY <1>1, RowsTyped DEF TypeOK, Row
  <2> QED BY <1>1, <1>2, <1>4, <1>5, <2>1 DEF MarkRunning
<1>6. CASE SaveResult(w)
  <2> DEFINE new == [row[g] EXCEPT !.status = "completed", !.html = "page"]
  <2>1. new \in Row /\ new.html = "page" /\ new.error = row[g].error
    BY <1>1, RowsTyped, ZenonT(60) DEF TypeOK, Row
  <2> QED BY <1>1, <1>2, <1>4, <1>6, <2>1 DEF SaveResult
<1>7. CASE MarkError(w) \/ MarkFailed(w)
  <2>1. /\ Failed(g) \in Row /\ Failed(g).html = row[g].html
        /\ Failed(g).error = "text"
    BY <1>1, RowsTyped DEF TypeOK, Row, Failed
  <2> QED BY <1>1, <1>2, <1>4, <1>7, <2>1 DEF MarkError, MarkFailed
<1>8. CASE UNCHANGED row
  BY <1>8
<1> QED BY <1>5, <1>6, <1>7, <1>8
        DEF Execute, FindById, PublishRunning, OpenStream, StreamEvent,
            PublishCompleted, PublishFailed

-----------------------------------------------------------------------------
(***************************************************************************)
(* The feed tells the truth.                                               *)
(***************************************************************************)
Backed(g, event) ==
  /\ event = "completed" => row[g].html = "page"
  /\ event = "failed"    => row[g].error = "text"

\* What a process is about to announce is in the row already.
TruthInv ==
  /\ FeedTruthful
  /\ \A w \in Workers :
       /\ pc[w] = "saved"    => row[Gen(w)].html = "page"
       /\ pc[w] = "recorded" => row[Gen(w)].error = "text"

LEMMA TruthInit == Init => TruthInv
  BY DEF Init, TruthInv, FeedTruthful

\* One notification that is backed by the row keeps the feed truthful.
LEMMA BackedNotify ==
  ASSUME TypeOK, FeedTruthful, NEW w \in Workers, pc[w] # "idle",
         NEW event \in Events, NEW ok, NEW raised,
         Notify(w, event, ok, raised), UNCHANGED row, Backed(Gen(w), event)
  PROVE  FeedTruthful'
<1> DEFINE g == Gen(w)
<1>1. g \in Gens /\ feed[g] \in Seq(Events)
  BY GenOfBusy DEF TypeOK
<1>2. \A h \in Gens \ {g} : feed'[h] = feed[h]
  BY DEF Notify, TypeOK
<1>3. feed'[g] \in {feed[g], Append(feed[g], event)}
  BY <1>1 DEF Notify, TypeOK
<1>4. ASSUME NEW i \in DOMAIN feed'[g]
      PROVE  \/ i \in DOMAIN feed[g] /\ feed'[g][i] = feed[g][i]
             \/ feed'[g][i] = event
  BY <1>1, <1>3
<1> QED BY <1>1, <1>2, <1>4 DEF FeedTruthful, Backed

LEMMA TruthNext ==
  ASSUME TypeOK, Begun, TruthInv, [Next]_vars
  PROVE  TruthInv'
<1>1. ASSUME NEW g \in Gens, CreateRow(g) PROVE TruthInv'
  <2>1. /\ feed[g] = << >>
        /\ \A w \in Workers : pc[w] # "idle" => Gen(w) # g
    BY <1>1, BusyBegun DEF CreateRow, Begun
  <2>2. \A h \in Gens \ {g} : row'[h] = row[h]
    BY <1>1 DEF CreateRow, Write, TypeOK
  <2>3. UNCHANGED <<pc, task, feed>>
    BY <1>1 DEF CreateRow
  <2> QED BY <2>1, <2>2, <2>3, GenOfBusy DEF TruthInv, FeedTruthful, Gen
<1>2. ASSUME NEW g \in Gens, PublishTask(g) \/ RequestLost(g) PROVE TruthInv'
  BY <1>2 DEF PublishTask, RequestLost, TruthInv, FeedTruthful, Gen
<1>3. ASSUME NEW w \in Workers, NEW c \in Copies, Deliver(w, c) PROVE TruthInv'
  BY <1>3 DEF Deliver, Goto, TypeOK, TruthInv, FeedTruthful, Gen
<1>4. ASSUME NEW w \in Workers, Execute(w) PROVE TruthInv'
  <2> DEFINE g == Gen(w)
  <2>1. /\ pc[w] # "idle" /\ g \in Gens /\ UNCHANGED task
        /\ \A v \in Workers \ {w} : pc'[v] = pc[v]
    BY <1>4, ExecuteFrame, GenOfBusy
  <2>2. \A h \in Gens : /\ row[h].html = "page"  => row'[h].html = "page"
                        /\ row[h].error = "text" => row'[h].error = "text"
    BY <1>4, WritesAdd
  <2>3. \A v \in Workers \ {w} :
          /\ pc'[v] = "saved"    => row'[Gen(v)].html = "page"
          /\ pc'[v] = "recorded" => row'[Gen(v)].error = "text"
    BY <2>1, <2>2, GenOfBusy DEF TruthInv
  <2>4. SUFFICES /\ FeedTruthful'
                 /\ pc'[w] = "saved"    => row'[g].html = "page"
                 /\ pc'[w] = "recorded" => row'[g].error = "text"
    BY <2>1, <2>3 DEF TruthInv, Gen
  <2>5. UNCHANGED feed => FeedTruthful'
    BY <2>2 DEF TruthInv, FeedTruthful
  <2>6. ASSUME NEW event \in Events, NEW ok, NEW raised,
               Notify(w, event, ok, raised), UNCHANGED row, Backed(g, event)
        PROVE  FeedTruthful'
    BY <2>6, <2>1, BackedNotify DEF TruthInv
  <2>7. CASE FindById(w)
    BY <2>7, <2>5 DEF FindById, Goto, TypeOK
  <2>8. CASE MarkRunning(w)
    BY <2>8, <2>5 DEF MarkRunning, WriteRow, Goto, TypeOK
  <2>9. CASE PublishRunning(w)
    BY <2>9, <2>6 DEF PublishRunning, Notify, Goto, TypeOK, Backed, Events
  <2>10. CASE OpenStream(w)
    BY <2>10, <2>5 DEF OpenStream, Goto, TypeOK
  <2>11. CASE StreamEvent(w)
    BY <2>11, <2>6 DEF StreamEvent, Notify, Goto, TypeOK, Backed, Events
  <2>12. CASE SaveResult(w)
    <3>1. pc'[w] = "saved" => row'[g].html = "page"
      BY <2>12, <2>1 DEF SaveResult, WriteRow, Write, Goto, TypeOK, Row
    <3> QED BY <2>12, <2>5, <3>1 DEF SaveResult, WriteRow, Goto, TypeOK
  <2>13. CASE PublishCompleted(w)
    BY <2>13, <2>6
    DEF PublishCompleted, Notify, Goto, TypeOK, Backed, Events, TruthInv
  <2>14. CASE MarkError(w)
    BY <2>14, <2>5 DEF MarkError, WriteRow, Goto, TypeOK
  <2>15. CASE MarkFailed(w)
    <3>1. pc'[w] = "recorded" => row'[g].error = "text"
      BY <2>15, <2>1 DEF MarkFailed, WriteRow, Write, Goto, TypeOK, Row, Failed
    <3> QED BY <2>15, <2>5, <3>1 DEF MarkFailed, WriteRow, Goto, TypeOK
  <2>16. CASE PublishFailed(w)
    BY <2>16, <2>6
    DEF PublishFailed, Notify, Goto, TypeOK, Backed, Events, TruthInv
  <2> QED BY <1>4, <2>7, <2>8, <2>9, <2>10, <2>11, <2>12, <2>13, <2>14, <2>15,
             <2>16 DEF Execute
<1>5. ASSUME NEW w \in Workers, Ack(w) \/ Crash(w) PROVE TruthInv'
  <2>1. UNCHANGED <<row, feed>>
    BY <1>5 DEF Ack, Crash
  <2>2. \A v \in Workers :
          pc'[v] = "idle" \/ (pc'[v] = pc[v] /\ task'[v] = task[v])
    BY <1>5 DEF Ack, Crash, Release, Goto, TypeOK
  <2> QED BY <2>1, <2>2 DEF TruthInv, FeedTruthful, Gen
<1>6. ASSUME NEW w \in Workers, Requeue(w) PROVE TruthInv'
  BY <1>6 DEF Requeue, TruthInv, FeedTruthful, Gen
<1>7. CASE UNCHANGED vars
  BY <1>7 DEF vars, TruthInv, FeedTruthful, Gen
<1> QED BY <1>1, <1>2, <1>3, <1>4, <1>5, <1>6, <1>7 DEF Next

\* Under every fault, whoever is told "completed" finds the page in the row and
\* whoever is told "failed" finds the error text.
THEOREM FeedTruthfulAlways == Spec => []FeedTruthful
<1>1. Init => TypeOK /\ Begun /\ TruthInv
  BY InitTypeOK, BegunInit, TruthInit
<1>2. TypeOK /\ Begun /\ TruthInv /\ [Next]_vars => (TypeOK /\ Begun /\ TruthInv)'
  BY NextTypeOK, BegunNext, TruthNext
<1>3. TruthInv => FeedTruthful
  BY DEF TruthInv
<1> QED BY <1>1, <1>2, <1>3, PTL DEF Spec

-----------------------------------------------------------------------------
(***************************************************************************)
(* An accepted generation keeps its task.                                  *)
(***************************************************************************)
\* c is queued, or its holder has not decided yet what to do with it.
Alive(c) ==
  \/ loc[c] = "ready"
  \/ \E w \in Workers : /\ loc[c] = w /\ task[w] = c
                        /\ pc[w] \in {"received", "checked"}

LEMMA PendingNext ==
  ASSUME NoTaskLost, TypeOK, Begun, PendingAccountedFor, [Next]_vars
  PROVE  PendingAccountedFor'
<1>0. \A g \in Gens : \A i \in {1, 2} : <<g, i>> \in Copies
  BY DEF Copies
<1> SUFFICES ASSUME NEW h \in Gens,
                    req'[h] = "accepted", row'[h].status = "pending"
             PROVE  \E i \in {1, 2} : Alive(<<h, i>>)'
  BY DEF PendingAccountedFor, Alive
<1>1. ASSUME req[h] = "accepted", row[h].status = "pending",
             \A i \in {1, 2} : Alive(<<h, i>>) => Alive(<<h, i>>)'
      PROVE  \E i \in {1, 2} : Alive(<<h, i>>)'
  BY <1>1 DEF PendingAccountedFor, Alive
<1>2. ASSUME NEW g \in Gens, CreateRow(g)
      PROVE  \E i \in {1, 2} : Alive(<<h, i>>)'
  <2>1. h # g /\ req[h] = "accepted" /\ row'[h] = row[h]
    BY <1>2 DEF CreateRow, Write, TypeOK
  <2> QED BY <1>1, <1>2, <2>1 DEF CreateRow, Alive
<1>3. ASSUME NEW g \in Gens, PublishTask(g)
      PROVE  \E i \in {1, 2} : Alive(<<h, i>>)'
  <2>1. \E copies \in {{1}, {1, 2}} : Send(g, copies)
    BY <1>3 DEF PublishTask, Fault, NoTaskLost
  <2>2. UNCHANGED <<row, pc, task>>
    BY <1>3 DEF PublishTask
  <2>3. CASE h = g
    <3>1. /\ <<h, 1>> \in {<<g, i>> : i \in {1}}
          /\ <<h, 1>> \in {<<g, i>> : i \in {1, 2}}
      BY <2>3
    <3>2. loc'[<<h, 1>>] = "ready"
      BY <2>1, <3>1, <1>0 DEF Send
    <3> QED BY <3>2 DEF Alive
  <2>4. CASE h # g
    <3>1. \A i \in {1, 2} : loc'[<<h, i>>] = loc[<<h, i>>]
      BY <2>1, <2>4, <1>0 DEF Send
    <3>2. req[h] = "accepted"
      BY <1>3, <2>4 DEF PublishTask, Answer, TypeOK
    <3> QED BY <1>1, <2>2, <3>1, <3>2 DEF Alive
  <2> QED BY <2>3, <2>4
<1>4. ASSUME NEW g \in Gens, RequestLost(g)
      PROVE  \E i \in {1, 2} : Alive(<<h, i>>)'
  <2>1. req[h] = "accepted"
    BY <1>4 DEF RequestLost, Answer, TypeOK
  <2> QED BY <1>1, <1>4, <2>1 DEF RequestLost, Alive
<1>5. ASSUME NEW w \in Workers, NEW c \in Copies, Deliver(w, c)
      PROVE  \E i \in {1, 2} : Alive(<<h, i>>)'
  <2>1. Alive(c)'
    BY <1>5 DEF Deliver, Goto, Alive, TypeOK
  <2>2. ASSUME NEW d \in Copies, d # c, Alive(d) PROVE Alive(d)'
    BY <1>5, <2>2 DEF Deliver, Goto, Alive, TypeOK
  <2> QED BY <1>0, <1>1, <1>5, <2>1, <2>2 DEF Deliver
<1>6. ASSUME NEW w \in Workers, Execute(w)
      PROVE  \E i \in {1, 2} : Alive(<<h, i>>)'
  <2>1. /\ pc[w] # "idle" /\ Gen(w) \in Gens /\ UNCHANGED <<req, loc, task>>
        /\ \A v \in Workers \ {w} : pc'[v] = pc[v]
        /\ \A g \in Gens : g # Gen(w) => row'[g] = row[g]
    BY <1>6, ExecuteFrame, GenOfBusy
  <2>2. ASSUME NEW i \in {1, 2}, Alive(<<h, i>>),
               task[w] = <<h, i>> => pc'[w] \in {"received", "checked"}
        PROVE  Alive(<<h, i>>)'
    BY <2>1, <2>2 DEF Alive
  <2>3. CASE Gen(w) # h
    <3>1. \A i \in {1, 2} : task[w] # <<h, i>>
      BY <2>3 DEF Gen
    <3> QED BY <1>1, <2>1, <2>2, <2>3, <3>1
  <2>4. CASE Gen(w) = h /\ FindById(w)
    <3>1. row[h].status = "pending" /\ pc'[w] = "checked"
      BY <2>4 DEF FindById, Goto, Fault, NoTaskLost, TypeOK
    <3> QED BY <1>1, <2>1, <2>2, <3>1
  <2>5. CASE Gen(w) = h /\ MarkRunning(w)
    <3>1. row'[h] = [row[h] EXCEPT !.status = "running"]
      BY <2>5, <2>1 DEF MarkRunning, WriteRow, Write, Fault, NoTaskLost, TypeOK
    <3> QED BY <3>1, NewStatuses
  <2>6. CASE Gen(w) = h /\ SaveResult(w)
    <3>1. row'[h] = [row[h] EXCEPT !.status = "completed", !.html = "page"]
      BY <2>6, <2>1 DEF SaveResult, WriteRow, Write, Fault, NoTaskLost, TypeOK
    <3> QED BY <3>1, NewStatuses
  <2>7. CASE Gen(w) = h /\ (MarkError(w) \/ MarkFailed(w))
    <3>1. row'[h] = Failed(h)
      BY <2>7, <2>1
      DEF MarkError, MarkFailed, WriteRow, Write, Fault, NoTaskLost, TypeOK
    <3> QED BY <3>1, NewStatuses
  <2>8. CASE UNCHANGED row /\ pc[w] \notin {"received", "checked"}
    <3>1. ASSUME NEW i \in {1, 2}, Alive(<<h, i>>) PROVE Alive(<<h, i>>)'
      BY <2>1, <2>8, <3>1 DEF Alive
    <3> QED BY <1>1, <2>1, <2>8, <3>1
  <2>9. \/ FindById(w) \/ MarkRunning(w) \/ SaveResult(w)
        \/ MarkError(w) \/ MarkFailed(w)
        \/ UNCHANGED row /\ pc[w] \notin {"received", "checked"}
    BY <1>6
    DEF Execute, PublishRunning, OpenStream, StreamEvent, PublishCompleted,
        PublishFailed
  <2> QED BY <2>3, <2>4, <2>5, <2>6, <2>7, <2>8, <2>9
<1>7. ASSUME NEW w \in Workers, Ack(w)
      PROVE  \E i \in {1, 2} : Alive(<<h, i>>)'
  <2>1. pc[w] = "closing" /\ UNCHANGED <<row, req>>
    BY <1>7 DEF Ack
  <2>2. ASSUME NEW c \in Copies, Alive(c) PROVE Alive(c)'
    BY <1>7, <2>1, <2>2, NameAssumption
    DEF Ack, Release, Holds, Goto, Alive, TypeOK, Resting
  <2> QED BY <1>0, <1>1, <2>1, <2>2
<1>8. ASSUME NEW w \in Workers, Crash(w)
      PROVE  \E i \in {1, 2} : Alive(<<h, i>>)'
  <2>1. UNCHANGED <<row, req>> /\ Release(w, "ready")
    BY <1>8 DEF Crash
  <2>2. ASSUME NEW c \in Copies, Alive(c) PROVE Alive(c)'
    BY <2>1, <2>2 DEF Release, Holds, Goto, Alive, TypeOK
  <2> QED BY <1>0, <1>1, <2>1, <2>2
<1>9. ASSUME NEW w \in Workers, Requeue(w)
      PROVE  \E i \in {1, 2} : Alive(<<h, i>>)'
  <2>1. UNCHANGED <<row, req, pc, task>>
    BY <1>9 DEF Requeue
  <2>2. ASSUME NEW c \in Copies, Alive(c) PROVE Alive(c)'
    BY <1>9, <2>2 DEF Requeue, Holds, Alive, TypeOK
  <2> QED BY <1>0, <1>1, <2>1, <2>2
<1>10. CASE UNCHANGED vars
  BY <1>10, <1>1 DEF vars, Alive
<1> QED BY <1>2, <1>3, <1>4, <1>5, <1>6, <1>7, <1>8, <1>9, <1>10 DEF Next

LEMMA PendingKept ==
  TypeOK /\ Begun /\ PendingAccountedFor /\ [Next]_vars
    => (TypeOK /\ Begun /\ PendingAccountedFor)'
<1> SUFFICES ASSUME TypeOK, Begun, PendingAccountedFor, [Next]_vars
             PROVE  (TypeOK /\ Begun /\ PendingAccountedFor)'
  OBVIOUS
<1>1. NoTaskLost' <=> NoTaskLost
  BY ProfileKept DEF NoTaskLost
<1>2. CASE NoTaskLost
  BY <1>2, NextTypeOK, BegunNext, PendingNext
<1>3. CASE ~NoTaskLost
  BY <1>1, <1>3, NextTypeOK, BegunNext DEF PendingAccountedFor
<1> QED BY <1>2, <1>3

\* While the broker takes what it is given and execute can read and write the
\* row, an accepted pending generation has a task that will run it, whatever
\* crashes, is requeued or doubled.
THEOREM PendingAccountedForAlways == Spec => []PendingAccountedFor
<1>1. Init => TypeOK /\ Begun /\ PendingAccountedFor
  BY InitTypeOK, BegunInit DEF Init, PendingAccountedFor
<1> QED BY <1>1, PendingKept, PTL DEF Spec

-----------------------------------------------------------------------------
(***************************************************************************)
(* A running generation is being run.                                      *)
(***************************************************************************)
LEMMA RunningNext ==
  ASSUME BrokerFaults, TypeOK, Begun, RunningIsExecuted, [Next]_vars
  PROVE  RunningIsExecuted'
<1> DEFINE Runs(w, g) == pc[w] \in Executing /\ Gen(w) = g
<1> SUFFICES ASSUME NEW h \in Gens, row'[h].status = "running"
             PROVE  \E w \in Workers : pc'[w] \in Executing /\ Gen(w)' = h
  BY DEF RunningIsExecuted
<1>1. ASSUME row[h].status = "running",
             \A w \in Workers : Runs(w, h) => Runs(w, h)'
      PROVE  \E w \in Workers : pc'[w] \in Executing /\ Gen(w)' = h
  BY <1>1 DEF RunningIsExecuted
<1>2. ASSUME NEW g \in Gens, CreateRow(g)
      PROVE  \E w \in Workers : pc'[w] \in Executing /\ Gen(w)' = h
  <2>1. row'[h] \in {row[h], Pending}
    BY <1>2 DEF CreateRow, Write, TypeOK
  <2>2. row[h].status = "running"
    BY <2>1 DEF Pending
  <2>3. UNCHANGED <<pc, task>>
    BY <1>2 DEF CreateRow
  <2> QED BY <1>1, <2>2, <2>3 DEF Gen
<1>3. ASSUME NEW g \in Gens, PublishTask(g) \/ RequestLost(g)
      PROVE  \E w \in Workers : pc'[w] \in Executing /\ Gen(w)' = h
  BY <1>1, <1>3 DEF PublishTask, RequestLost, Gen
<1>4. ASSUME NEW w \in Workers, NEW c \in Copies, Deliver(w, c)
      PROVE  \E v \in Workers : pc'[v] \in Executing /\ Gen(v)' = h
  BY <1>1, <1>4 DEF Deliver, Goto, TypeOK, Gen, Executing
<1>5. ASSUME NEW w \in Workers, Execute(w)
      PROVE  \E v \in Workers : pc'[v] \in Executing /\ Gen(v)' = h
  <2>1. /\ pc[w] # "idle" /\ Gen(w) \in Gens /\ UNCHANGED task
        /\ \A v \in Workers \ {w} : pc'[v] = pc[v]
        /\ \A g \in Gens : g # Gen(w) => row'[g] = row[g]
    BY <1>5, ExecuteFrame, GenOfBusy
  <2>2. CASE pc'[w] \in Executing /\ Gen(w) = h
    BY <2>1, <2>2 DEF Gen
  <2>3. CASE row[h].status = "running" /\ ~Runs(w, h)
    BY <1>1, <2>1, <2>3 DEF Gen
  <2>4. CASE pc[w] \in Executing /\ Gen(w) = h /\ pc'[w] \notin Executing
    <3>1. SaveResult(w) \/ MarkError(w) \/ MarkFailed(w)
      BY <1>5, <2>4
      DEF Execute, Executing, FindById, MarkRunning, PublishRunning, OpenStream,
          StreamEvent, PublishCompleted, PublishFailed, Notify, Fault,
          BrokerFaults, Goto, TypeOK
    <3>2. row'[h] \in {[row[h] EXCEPT !.status = "completed", !.html = "page"],
                       Failed(h)}
      BY <2>1, <2>4, <3>1
      DEF SaveResult, MarkError, MarkFailed, WriteRow, Write, Fault,
          BrokerFaults, TypeOK
    <3> QED BY <3>2, NewStatuses
  <2>5. CASE pc[w] \notin Executing /\ Gen(w) = h /\ pc'[w] \notin Executing
    <3>1. row'[h] = row[h]
      BY <1>5, <2>5
      DEF Execute, Executing, FindById, MarkRunning, PublishRunning, OpenStream,
          StreamEvent, SaveResult, PublishCompleted, MarkError, MarkFailed,
          PublishFailed, WriteRow, Fault, BrokerFaults, Goto, TypeOK
    <3> QED BY <2>3, <2>5, <3>1
  <2>6. CASE Gen(w) # h
    BY <2>1, <2>3, <2>6
  <2> QED BY <2>2, <2>4, <2>5, <2>6
<1>6. ASSUME NEW w \in Workers, Ack(w)
      PROVE  \E v \in Workers : pc'[v] \in Executing /\ Gen(v)' = h
  BY <1>1, <1>6 DEF Ack, Release, Goto, TypeOK, Gen, Executing
<1>7. ASSUME NEW w \in Workers, Crash(w) PROVE FALSE
  BY <1>7 DEF Crash, Fault, BrokerFaults
<1>8. ASSUME NEW w \in Workers, Requeue(w)
      PROVE  \E v \in Workers : pc'[v] \in Executing /\ Gen(v)' = h
  BY <1>1, <1>8 DEF Requeue, Gen
<1>9. CASE UNCHANGED vars
  BY <1>1, <1>9 DEF vars, Gen
<1> QED BY <1>2, <1>3, <1>4, <1>5, <1>6, <1>7, <1>8, <1>9 DEF Next

LEMMA RunningKept ==
  TypeOK /\ Begun /\ RunningIsExecuted /\ [Next]_vars
    => (TypeOK /\ Begun /\ RunningIsExecuted)'
<1> SUFFICES ASSUME TypeOK, Begun, RunningIsExecuted, [Next]_vars
             PROVE  (TypeOK /\ Begun /\ RunningIsExecuted)'
  OBVIOUS
<1>1. BrokerFaults' <=> BrokerFaults
  BY ProfileKept DEF BrokerFaults
<1>2. CASE BrokerFaults
  BY <1>2, NextTypeOK, BegunNext, RunningNext
<1>3. CASE ~BrokerFaults
  BY <1>1, <1>3, NextTypeOK, BegunNext DEF RunningIsExecuted
<1> QED BY <1>2, <1>3

\* With the broker as the only source of trouble, no row is left running by
\* nobody.
THEOREM RunningIsExecutedAlways == Spec => []RunningIsExecuted
<1>1. Init => TypeOK /\ Begun /\ RunningIsExecuted
  BY InitTypeOK, BegunInit DEF Init, RunningIsExecuted, Absent
<1> QED BY <1>1, RunningKept, PTL DEF Spec

-----------------------------------------------------------------------------
(***************************************************************************)
(* What TasksDrain needs besides fairness, under every fault at once.      *)
(***************************************************************************)
\* Whoever the broker counts as the holder of a task is busy with that very task,
\* so that he acknowledges it or dies, and no task waits behind another one.
HeldIsRun ==
  /\ \A c \in Copies : loc[c] \notin Resting =>
       \E w \in Workers : loc[c] = w /\ task[w] = c /\ pc[w] # "idle"
  /\ \A c, d \in Copies : loc[c] = loc[d] /\ loc[c] \notin Resting => c = d

HolderInv == \A c \in Copies : loc[c] \in Workers => task[loc[c]] = c

LEMMA HolderNext ==
  ASSUME TypeOK, HolderInv, [Next]_vars
  PROVE  HolderInv'
<1> USE NameAssumption DEF HolderInv, Resting
<1>1. ASSUME UNCHANGED task, \A c \in Copies : loc'[c] \in {loc[c], "ready"}
      PROVE  HolderInv'
  BY <1>1
<1>2. ASSUME NEW g \in Gens, CreateRow(g) \/ PublishTask(g) \/ RequestLost(g)
      PROVE  HolderInv'
  BY <1>1, <1>2 DEF CreateRow, PublishTask, RequestLost, Send
<1>3. ASSUME NEW w \in Workers, NEW c \in Copies, Deliver(w, c) PROVE HolderInv'
  <2>1. task[w] \notin Copies
    BY <1>3 DEF Deliver, TypeOK
  <2> QED  BY <1>3, <2>1 DEF Deliver, TypeOK
<1>4. ASSUME NEW w \in Workers, Execute(w) PROVE HolderInv'
  BY <1>4, ExecuteFrame
<1>5. ASSUME NEW w \in Workers, NEW place \in Resting, pc[w] # "idle",
             Release(w, place)
      PROVE  HolderInv'
  <2>1. \A c \in Copies : \/ loc'[c] = loc[c] /\ loc[c] # w
                          \/ loc'[c] = place
    BY <1>5, GenOfBusy DEF Release, Holds, TypeOK
  <2>2. \A v \in Workers \ {w} : task'[v] = task[v]
    BY <1>5 DEF Release, TypeOK
  <2> QED  BY <1>5, <2>1, <2>2
<1>6. ASSUME NEW w \in Workers, Ack(w) \/ Crash(w) PROVE HolderInv'
  BY <1>5, <1>6 DEF Ack, Crash
<1>7. ASSUME NEW w \in Workers, Requeue(w) PROVE HolderInv'
  BY <1>1, <1>7 DEF Requeue, TypeOK
<1>8. CASE UNCHANGED vars
  BY <1>1, <1>8 DEF vars
<1> QED  BY <1>2, <1>3, <1>4, <1>6, <1>7, <1>8 DEF Next

LEMMA HolderRuns == TypeOK /\ HolderInv => HeldIsRun
BY NameAssumption DEF TypeOK, HolderInv, HeldIsRun

\* No task is stranded with a process that does not run it, whatever is doubled,
\* requeued or crashes, and whatever raises.
THEOREM HeldIsRunAlways == Spec => []HeldIsRun
<1>1. Init => HolderInv
  BY NameAssumption DEF Init, HolderInv, Resting
<1> QED BY <1>1, HolderRuns, InitTypeOK, NextTypeOK, HolderNext, PTL DEF Spec

-----------------------------------------------------------------------------
(***************************************************************************)
(* The story of the feed, while a call that raised did nothing.            *)
(***************************************************************************)
Orderly(events) ==
  \A j \in DOMAIN events :
    /\ j = 1 <=> events[j] = "running"
    /\ \A i \in 1 .. j - 1 : \/ Rank[events[i]] < Rank[events[j]]
                             \/ events[i] = "tool" /\ events[j] = "tool"

Telling == Executing \cup {"saved", "recorded"}

\* How far the feed has come when the executor is at a label.
Height == [l \in Telling |-> CASE l = "marked"    -> 0
                               [] l = "announced" -> 1
                               [] l = "streaming" -> 2
                               [] OTHER           -> 3]

Told(w) ==
  /\ pc[w] \in Telling =>
       /\ feed[Gen(w)] = << >> <=> pc[w] = "marked"
       /\ \A i \in DOMAIN feed[Gen(w)] : Rank[feed[Gen(w)][i]] <= Height[pc[w]]
  /\ pc[w] = "saved"    => row[Gen(w)].status = "completed"
  /\ pc[w] = "recorded" => row[Gen(w)].status = "failed"

Final == {"completed", "failed"}

Story(g) ==
  /\ row[g].status \in Fresh => feed[g] = << >>
  /\ Orderly(feed[g])
  /\ \A j \in DOMAIN feed[g] :
       feed[g][j] \in Final => row[g].status = feed[g][j]

StoryInv == (\A g \in Gens : Story(g)) /\ (\A w \in Workers : Told(w))

LEMMA CleanSent ==
  ASSUME TypeOK, CleanFaults, NEW w \in Workers, pc[w] # "idle",
         NEW event \in Events, NEW ok, NEW raised,
         Notify(w, event, ok, raised)
  PROVE  /\ feed'[Gen(w)] = Append(feed[Gen(w)], event)
         /\ pc'[w] = ok
<1>1. Gen(w) \in Gens
  BY GenOfBusy
<1> QED  BY <1>1 DEF Notify, Fault, CleanFaults, TypeOK, Goto

\* An event that ranks above what was told continues the story.
LEMMA Continued ==
  ASSUME NEW events \in Seq(Events), Orderly(events), NEW e \in Events,
         events = << >> <=> e = "running",
         \A i \in DOMAIN events : \/ Rank[events[i]] < Rank[e]
                                  \/ events[i] = "tool" /\ e = "tool"
  PROVE  Orderly(Append(events, e))
<1> DEFINE n == Len(events)
           more == Append(events, e)
<1>1. /\ n \in Nat /\ DOMAIN more = 1 .. n + 1 /\ DOMAIN events = 1 .. n
      /\ \A i \in 1 .. n : more[i] = events[i]
      /\ more[n + 1] = e
      /\ n = 0 <=> events = << >>
  OBVIOUS
<1> HIDE DEF n, more
<1>2. ASSUME NEW j \in 1 .. n
      PROVE  /\ j = 1 <=> more[j] = "running"
             /\ \A i \in 1 .. j - 1 : \/ Rank[more[i]] < Rank[more[j]]
                                      \/ more[i] = "tool" /\ more[j] = "tool"
  BY <1>1 DEF Orderly
<1>3. /\ n + 1 = 1 <=> e = "running"
      /\ \A i \in 1 .. n + 1 - 1 : \/ Rank[more[i]] < Rank[e]
                                   \/ more[i] = "tool" /\ e = "tool"
  BY <1>1
<1> QED  BY <1>1, <1>2, <1>3 DEF Orderly, more

LEMMA StoryInit == Init => StoryInv
  BY DEF Init, StoryInv, Story, Told, Orderly, Telling, Executing

\* What one statement of the executor does to the story of its generation.
LEMMA StoryExecute ==
  ASSUME CleanFaults, TypeOK, StatusKnown, NEW w \in Workers, Execute(w),
         Story(Gen(w)), Told(w)
  PROVE  Story(Gen(w))' /\ Told(w)'
<1> DEFINE g == Gen(w)
<1>1. /\ pc[w] # "idle" /\ g \in Gens /\ UNCHANGED task /\ Gen(w)' = g
      /\ feed[g] \in Seq(Events)
  BY ExecuteFrame, GenOfBusy DEF TypeOK, Gen
<1>2. ASSUME UNCHANGED <<row, feed>>,
             pc'[w] = pc[w] \/ pc'[w] \notin Telling
                \/ (pc[w] \in {"finished", "refused"} /\ pc'[w] = "excepted")
      PROVE  Story(g)' /\ Told(w)'
  BY <1>1, <1>2 DEF Story, Told, Telling, Executing, Height
<1>3. ASSUME NEW event \in Events, NEW ok, NEW raised,
             Notify(w, event, ok, raised), UNCHANGED row,
             pc[w] \in Telling,
             feed[g] = << >> <=> event = "running",
             \A i \in DOMAIN feed[g] :
               \/ Rank[feed[g][i]] < Rank[event]
               \/ feed[g][i] = "tool" /\ event = "tool",
             row[g].status \notin Fresh,
             event \in Final => row[g].status = event
      PROVE  /\ Story(g)' /\ pc'[w] = ok /\ feed'[g] # << >>
             /\ \A i \in DOMAIN feed'[g] :
                  \/ \E k \in DOMAIN feed[g] : feed'[g][i] = feed[g][k]
                  \/ feed'[g][i] = event
  <2>1. feed'[g] = Append(feed[g], event) /\ pc'[w] = ok
    BY <1>1, <1>3, CleanSent
  <2>2. Orderly(feed'[g])
    BY <1>1, <1>3, <2>1, Continued DEF Story
  <2>3. /\ feed'[g] # << >>
        /\ \A i \in DOMAIN feed'[g] :
             \/ i \in DOMAIN feed[g] /\ feed'[g][i] = feed[g][i]
             \/ feed'[g][i] = event
    BY <1>1, <2>1
  <2> QED  BY <1>1, <1>3, <2>1, <2>2, <2>3 DEF Story
<1>4. ASSUME NEW new, new.status \notin Fresh, NEW ok, NEW raised,
             WriteRow(w, new, ok, raised), UNCHANGED feed,
             pc[w] \in Telling => \A i \in DOMAIN feed[g] : feed[g][i] \notin Final,
             pc[w] \notin Telling => feed[g] = << >>
      PROVE  /\ Story(g)' /\ feed'[g] = feed[g]
             /\ \/ pc'[w] = ok /\ row'[g] = new
                \/ pc'[w] = raised /\ row' = row
  <2>1. \/ Write(g, new) /\ Goto(w, ok)
        \/ UNCHANGED row /\ Goto(w, raised)
    BY <1>4, CleanWrite
  <2>2. \/ pc'[w] = ok /\ row'[g] = new
        \/ pc'[w] = raised /\ row' = row
    BY <1>1, <2>1 DEF Write, Goto, TypeOK
  <2>3. Story(g)'
    BY <1>1, <1>4, <2>2 DEF Story
  <2> QED  BY <1>4, <2>2, <2>3
<1>5. \A i \in DOMAIN feed[g] : feed[g][i] \in Events
  BY <1>1
<1>6. CASE FindById(w)
  BY <1>2, <1>6 DEF FindById, Goto, TypeOK, Telling, Executing
<1>7. CASE MarkRunning(w)
  <2> DEFINE new == [row[g] EXCEPT !.status = "running"]
  <2>1. /\ pc[w] = "checked" /\ WriteRow(w, new, "marked", "closing")
        /\ UNCHANGED feed /\ "checked" \notin Telling
    BY <1>7 DEF MarkRunning, Telling, Executing
  <2>2. new.status = "running" /\ "running" \notin Fresh
    BY <1>1, NewStatuses DEF Fresh
  <2>3. feed[g] = << >>
    BY <2>1 DEF StatusKnown, Story, Fresh
  <2> HIDE DEF new
  <2>4. /\ Story(g)' /\ feed'[g] = feed[g]
        /\ pc'[w] \in {"marked", "closing"}
    BY <1>4, <2>1, <2>2, <2>3
  <2> QED  BY <1>1, <2>3, <2>4 DEF Told, Telling, Executing, Height
<1>8. CASE PublishRunning(w)
  <2>1. /\ pc[w] = "marked" /\ Notify(w, "running", "announced", "closing")
        /\ UNCHANGED row /\ "marked" \in Telling
    BY <1>8 DEF PublishRunning, Telling, Executing
  <2>2. feed[g] = << >> /\ row[g].status = "running"
    BY <2>1 DEF Told, StatusKnown, Executing
  <2>3. /\ Story(g)' /\ pc'[w] = "announced" /\ feed'[g] # << >>
        /\ \A i \in DOMAIN feed'[g] : feed'[g][i] = "running"
    BY <1>3, <2>1, <2>2 DEF Events, Fresh, Final
  <2> QED  BY <1>1, <2>3 DEF Told, Telling, Executing, Height, Rank
<1>9. CASE OpenStream(w)
  <2>1. pc[w] = "announced" /\ pc'[w] = "streaming" /\ UNCHANGED <<row, feed>>
    BY <1>9 DEF OpenStream, Goto, TypeOK
  <2>2. Story(g)'
    BY <1>1, <2>1 DEF Story
  <2>3. /\ feed[g] # << >>
        /\ \A i \in DOMAIN feed[g] : Rank[feed[g][i]] <= 1
    BY <2>1 DEF Told, Telling, Executing, Height
  <2>4. \A i \in DOMAIN feed[g] : Rank[feed[g][i]] <= 2
    BY <1>5, <2>3 DEF Rank, Events
  <2> QED  BY <1>1, <2>1, <2>2, <2>3, <2>4 DEF Told, Telling, Executing, Height
<1>10. CASE StreamEvent(w)
  <2>1. /\ pc[w] = "streaming" /\ UNCHANGED row
        /\ \/ Notify(w, "tool", "streaming", "excepted")
           \/ Notify(w, "done", "finished", "excepted")
           \/ Notify(w, "error", "refused", "excepted")
    BY <1>10 DEF StreamEvent
  <2>2. /\ feed[g] # << >> /\ row[g].status = "running"
        /\ \A i \in DOMAIN feed[g] : Rank[feed[g][i]] <= 2
    BY <2>1 DEF Told, StatusKnown, Telling, Executing, Height
  <2>3. \A i \in DOMAIN feed[g] : feed[g][i] \in {"running", "tool"}
    BY <1>5, <2>2 DEF Rank, Events
  <2>4. pc[w] \in Telling /\ "running" \notin Fresh
    BY <2>1 DEF Telling, Executing, Fresh
  <2>5. CASE Notify(w, "tool", "streaming", "excepted")
    <3>1. /\ Story(g)' /\ pc'[w] = "streaming" /\ feed'[g] # << >>
          /\ \A i \in DOMAIN feed'[g] : feed'[g][i] \in {"running", "tool"}
      <4>1. \A i \in DOMAIN feed[g] : \/ Rank[feed[g][i]] < Rank["tool"]
                                      \/ feed[g][i] = "tool"
        BY <2>3 DEF Rank
      <4> QED  BY <1>3, <2>1, <2>2, <2>3, <2>4, <2>5, <4>1 DEF Events, Final
    <3> QED  BY <1>1, <3>1 DEF Told, Telling, Executing, Height, Rank
  <2>6. ASSUME NEW event \in {"done", "error"}, NEW ok \in {"finished", "refused"},
               Notify(w, event, ok, "excepted")
        PROVE  Story(g)' /\ Told(w)'
    <3>1. \A i \in DOMAIN feed[g] : Rank[feed[g][i]] < Rank[event]
      BY <2>3 DEF Rank
    <3>2. /\ Story(g)' /\ pc'[w] = ok /\ feed'[g] # << >>
          /\ \A i \in DOMAIN feed'[g] :
               feed'[g][i] \in {"running", "tool", "done", "error"}
      BY <1>3, <2>1, <2>2, <2>3, <2>4, <2>6, <3>1 DEF Events, Final
    <3>3. \A i \in DOMAIN feed'[g] : Rank[feed'[g][i]] <= 3
      BY <3>2 DEF Rank
    <3> QED  BY <1>1, <3>2, <3>3 DEF Told, Telling, Executing, Height
  <2> QED  BY <2>1, <2>5, <2>6
<1>11. ASSUME pc[w] \in {"finished", "refused", "excepted", "saved", "recorded"}
       PROVE  /\ feed[g] # << >> /\ pc[w] \in Telling
              /\ \A i \in DOMAIN feed[g] :
                   /\ Rank[feed[g][i]] <= 3
                   /\ feed[g][i] \notin Final
                   /\ Rank[feed[g][i]] < 4
  <2>1. /\ feed[g] # << >> /\ pc[w] \in Telling
        /\ \A i \in DOMAIN feed[g] : Rank[feed[g][i]] <= 3
    BY <1>11 DEF Told, Telling, Executing, Height
  <2> QED  BY <1>5, <2>1 DEF Rank, Events, Final
<1>12. CASE SaveResult(w)
  <2> DEFINE new == [row[g] EXCEPT !.status = "completed", !.html = "page"]
  <2>1. /\ pc[w] = "finished" /\ WriteRow(w, new, "saved", "excepted")
        /\ UNCHANGED feed
    BY <1>12 DEF SaveResult
  <2>2. new.status = "completed" /\ "completed" \notin Fresh
    BY <1>1, NewStatuses DEF Fresh
  <2> HIDE DEF new
  <2>3. /\ Story(g)' /\ feed'[g] = feed[g]
        /\ \/ pc'[w] = "saved" /\ row'[g].status = "completed"
           \/ pc'[w] = "excepted" /\ row' = row
    BY <1>4, <1>11, <2>1, <2>2
  <2> QED  BY <1>1, <1>11, <2>1, <2>3 DEF Told, Telling, Executing, Height
<1>13. CASE MarkError(w) \/ MarkFailed(w)
  <2>1. /\ pc[w] \in {"refused", "excepted"} /\ UNCHANGED feed
        /\ \/ WriteRow(w, Failed(g), "closing", "excepted")
           \/ WriteRow(w, Failed(g), "recorded", "closing")
    BY <1>13 DEF MarkError, MarkFailed
  <2>2. Failed(g).status = "failed" /\ "failed" \notin Fresh
    BY <1>1, NewStatuses DEF Fresh
  <2>3. /\ Story(g)' /\ feed'[g] = feed[g]
        /\ \/ pc'[w] \in {"recorded", "closing"} /\ row'[g].status = "failed"
           \/ pc'[w] \in {"excepted", "closing"} /\ row' = row
    BY <1>4, <1>11, <2>1, <2>2
  <2> QED  BY <1>1, <1>11, <2>1, <2>3 DEF Told, Telling, Executing, Height
<1>14. CASE PublishCompleted(w) \/ PublishFailed(w)
  <2>1. PICK event \in Final, raised \in Labels :
          /\ Notify(w, event, "closing", raised) /\ UNCHANGED row
          /\ pc[w] = IF event = "completed" THEN "saved" ELSE "recorded"
    BY <1>14 DEF PublishCompleted, PublishFailed, Final, Labels, Executing
  <2>2. pc[w] \in {"saved", "recorded"} /\ row[g].status = event
    BY <2>1 DEF Told, Final
  <2>3. Rank[event] = 4 /\ event \in Events /\ event # "running"
        /\ event \notin Fresh
    BY <2>1 DEF Final, Rank, Events, Fresh
  <2>4. \A i \in DOMAIN feed[g] : Rank[feed[g][i]] < Rank[event]
    BY <1>11, <2>2, <2>3
  <2>5. Story(g)' /\ pc'[w] = "closing"
    BY <1>3, <1>11, <2>1, <2>2, <2>3, <2>4
  <2> QED  BY <1>1, <2>5 DEF Told, Telling, Executing
<1> QED  BY <1>1, <1>6, <1>7, <1>8, <1>9, <1>10, <1>12, <1>13, <1>14 DEF Execute

LEMMA StoryNext ==
  ASSUME CleanFaults, SingleDelivery, TypeOK, Begun, OneExecutor, StatusKnown,
         StoryInv, [Next]_vars
  PROVE  StoryInv'
<1>1. ASSUME NEW g \in Gens, CreateRow(g) PROVE StoryInv'
  <2>1. /\ feed[g] = << >> /\ UNCHANGED <<pc, task, feed>>
        /\ \A w \in Workers : pc[w] # "idle" => Gen(w) # g
    BY <1>1, BusyBegun DEF CreateRow, Begun
  <2>2. \A h \in Gens \ {g} : row'[h] = row[h]
    BY <1>1 DEF CreateRow, Write, TypeOK
  <2>3. Story(g)'
    BY <2>1 DEF StoryInv, Story, Orderly
  <2>4. \A h \in Gens \ {g} : Story(h)'
    BY <2>1, <2>2 DEF StoryInv, Story
  <2>5. ASSUME NEW w \in Workers PROVE Told(w)'
    BY <2>1, <2>2, GenOfBusy DEF StoryInv, Told, Telling, Executing, Gen
  <2> QED  BY <2>3, <2>4, <2>5 DEF StoryInv
<1>2. ASSUME UNCHANGED <<row, feed>>,
             \A w \in Workers : \/ pc'[w] \notin Telling
                                \/ pc'[w] = pc[w] /\ task'[w] = task[w]
      PROVE  StoryInv'
  <2>1. \A g \in Gens : Story(g)'
    BY <1>2 DEF StoryInv, Story
  <2>2. \A w \in Workers : Told(w)'
    BY <1>2 DEF StoryInv, Told, Telling, Executing, Gen
  <2> QED  BY <2>1, <2>2 DEF StoryInv
<1>3. ASSUME NEW g \in Gens, PublishTask(g) \/ RequestLost(g) PROVE StoryInv'
  BY <1>2, <1>3 DEF PublishTask, RequestLost
<1>4. ASSUME NEW w \in Workers, NEW c \in Copies, Deliver(w, c) PROVE StoryInv'
  BY <1>2, <1>4 DEF Deliver, Goto, TypeOK, Telling, Executing
<1>5. ASSUME NEW w \in Workers, Execute(w) PROVE StoryInv'
  <2> DEFINE g == Gen(w)
  <2>1. /\ pc[w] # "idle" /\ g \in Gens /\ UNCHANGED task
        /\ \A v \in Workers \ {w} : pc'[v] = pc[v]
        /\ \A h \in Gens \ {g} : row'[h] = row[h] /\ feed'[h] = feed[h]
    BY <1>5, ExecuteFrame, GenOfBusy
  <2>2. \A v \in Workers \ {w} : pc[v] # "idle" => Gen(v) \in Gens \ {g}
    BY <2>1, GenOfBusy DEF OneExecutor
  <2>3. Story(g)' /\ Told(w)' /\ g' = g
    BY <1>5, <2>1, StoryExecute DEF StoryInv, Gen
  <2>4. \A h \in Gens \ {g} : Story(h)'
    BY <2>1 DEF StoryInv, Story
  <2>5. \A v \in Workers \ {w} : Told(v)'
    BY <2>1, <2>2 DEF StoryInv, Told, Telling, Executing, Gen
  <2>6. \A h \in Gens : Story(h)'
    BY <2>3, <2>4 DEF Story
  <2> QED  BY <2>3, <2>5, <2>6 DEF StoryInv
<1>6. ASSUME NEW w \in Workers, Ack(w) \/ Crash(w) PROVE StoryInv'
  BY <1>2, <1>6 DEF Ack, Crash, Release, Goto, TypeOK, Telling, Executing
<1>7. ASSUME NEW w \in Workers, Requeue(w) PROVE StoryInv'
  BY <1>2, <1>7 DEF Requeue
<1>8. CASE UNCHANGED vars
  BY <1>2, <1>8 DEF vars
<1> QED  BY <1>1, <1>3, <1>4, <1>5, <1>6, <1>7, <1>8 DEF Next

\* What is known of executors, rows and feeds together under clean faults.
CleanInv ==
  /\ DeliveryInv
  /\ CleanFaults => StatusKnown /\ StoryInv

LEMMA CleanInit == Init => CleanInv
  BY DeliveryInit, StatusKnownInit, StoryInit DEF CleanInv

LEMMA CleanNext == CleanInv /\ [Next]_vars => CleanInv'
<1> SUFFICES ASSUME CleanInv, [Next]_vars PROVE CleanInv'
  OBVIOUS
<1>1. DeliveryInv' /\ (CleanFaults' <=> CleanFaults)
  BY DeliveryNext, ProfileKept DEF CleanInv, DeliveryInv, CleanFaults
<1>2. CleanFaults => SingleDelivery
  BY DEF CleanFaults, SingleDelivery
<1>3. CleanFaults => StatusKnown' /\ StoryInv'
  BY <1>2, ExclusiveOne, StatusKnownNext, StoryNext DEF CleanInv, DeliveryInv
<1> QED  BY <1>1, <1>3 DEF CleanInv

LEMMA CleanOrdered == CleanInv => FeedOrdered
  BY DEF CleanInv, StoryInv, Story, Orderly, FeedOrdered

\* The notifications about one generation tell one story, whatever crashes and
\* is redelivered.
THEOREM FeedOrderedAlways == Spec => []FeedOrdered
<1> QED  BY CleanOrdered, CleanInit, CleanNext, PTL DEF Spec

LEMMA CleanAgrees == CleanInv => LastEventAgrees
<1> SUFFICES ASSUME CleanInv, CleanFaults, NEW g \in Gens, Len(feed[g]) > 0,
                    feed[g][Len(feed[g])] \in Final
             PROVE  row[g].status = feed[g][Len(feed[g])]
  BY DEF LastEventAgrees, Final
<1>1. feed[g] \in Seq(Events)
  BY DEF CleanInv, DeliveryInv, TypeOK
<1>2. Len(feed[g]) \in DOMAIN feed[g]
  BY <1>1
<1> QED  BY <1>2 DEF CleanInv, StoryInv, Story

\* Whoever hears a final status finds it in the row.
THEOREM LastEventAgreesAlways == Spec => []LastEventAgrees
<1> QED  BY CleanAgrees, CleanInit, CleanNext, PTL DEF Spec

-----------------------------------------------------------------------------
(***************************************************************************)
(* The backend inside the composition with the page, LiveGeneration.       *)
(***************************************************************************)
Message == [gen : Gens, event : Events]
Answered == [read : BOOLEAN, rows : List]

\* What the page adds is a step of the backend, or none.
LEMMA BackendStep ==
  ASSUME [LiveNext]_liveVars
  PROVE  [Next]_vars
BY DEF LiveNext, liveVars, Backend, Bind, Deafen, Close, Posted, HandleWsEvent,
       ReadList, SetHistory, Generate, ClickHistory, Viewed, Next

\* The past is a state of which all that is known of the backend holds.
LEMMA QuietClean == Quiet => CleanInv
<1> SUFFICES ASSUME Quiet PROVE CleanInv
  OBVIOUS
<1> DEFINE story == <<"running", "done", "completed">>
<1>1. /\ story \in Seq(Events) /\ Orderly(story)
      /\ DOMAIN story = 1 .. 3 /\ story[1] = "running" /\ story[2] = "done"
      /\ story[3] = "completed"
  BY DEF Events, Orderly, Rank
<1>2. feed = [g \in Gens |-> IF g \in Past THEN story ELSE << >>]
  BY DEF Quiet
<1>3. << >> \in Seq(Events)
  BY EmptySeq
<1> HIDE DEF story
<1>4. TypeOK
  <2>1. row \in [Gens -> Row]
    BY DEF Quiet, Absent, Row, Statuses
  <2>2. /\ req \in [Gens -> {"none", "created", "accepted", "failed"}]
        /\ calls \in [Gens -> Nat]
    BY DEF Quiet
  <2>3. loc \in [Copies -> Resting \cup Workers]
    BY DEF Quiet, Resting
  <2>4. /\ pc \in [Workers -> Labels]
        /\ task \in [Workers -> Copies \cup {NoTask}]
        /\ \A w \in Workers : pc[w] = "idle" <=> task[w] = NoTask
    BY DEF Quiet, Labels
  <2>5. feed \in [Gens -> Seq(Events)]
    BY <1>1, <1>2, <1>3
  <2>6. faults \in Exposure
    BY BoundAssumption DEF Quiet, Exposure
  <2> QED  BY <2>1, <2>2, <2>3, <2>4, <2>5, <2>6 DEF TypeOK
<1>5. Begun
  BY <1>2 DEF Quiet, Begun, Copies
<1>6. Exclusive
  BY DEF Quiet, Exclusive, Copies
<1>7. StatusKnown
  BY DEF Quiet, StatusKnown, Executing
<1>8. ASSUME NEW g \in Gens PROVE Story(g)
  <2>1. CASE g \in Past
    <3>1. feed[g] = story /\ row[g].status = "completed"
      BY <1>2, <2>1 DEF Quiet
    <3> QED  BY <1>1, <3>1 DEF Story, Fresh, Final
  <2>2. CASE g \notin Past
    <3>1. feed[g] = << >>
      BY <1>2, <2>2
    <3> QED  BY <3>1 DEF Story, Orderly
  <2> QED  BY <2>1, <2>2
<1>9. \A w \in Workers : Told(w)
  BY DEF Quiet, Told, Telling, Executing
<1> QED  BY <1>4, <1>5, <1>6, <1>7, <1>8, <1>9
         DEF CleanInv, DeliveryInv, StoryInv

\* The feed of a generation grows by one event, or not at all.
LEMMA FeedStep ==
  ASSUME TypeOK, [Next]_vars, NEW g \in Gens
  PROVE  \/ feed'[g] = feed[g]
         \/ \E event \in Events : feed'[g] = Append(feed[g], event)
<1>1. ASSUME NEW w \in Workers, pc[w] # "idle", NEW event \in Events,
             NEW ok, NEW raised, Notify(w, event, ok, raised)
      PROVE  \/ feed'[g] = feed[g]
             \/ \E e \in Events : feed'[g] = Append(feed[g], e)
  BY <1>1, GenOfBusy DEF Notify, TypeOK
<1>2. ASSUME NEW w \in Workers, Execute(w)
      PROVE  \/ feed'[g] = feed[g]
             \/ \E e \in Events : feed'[g] = Append(feed[g], e)
  <2>1. CASE PublishRunning(w)
    BY <1>1, <2>1 DEF PublishRunning, Events
  <2>2. CASE StreamEvent(w)
    BY <1>1, <2>2 DEF StreamEvent, Events
  <2>3. CASE PublishCompleted(w) \/ PublishFailed(w)
    BY <1>1, <2>3 DEF PublishCompleted, PublishFailed, Events
  <2>4. CASE UNCHANGED feed
    BY <2>4
  <2> QED  BY <1>2, <2>1, <2>2, <2>3, <2>4
           DEF Execute, FindById, MarkRunning, OpenStream, SaveResult, MarkError,
               MarkFailed
<1> QED  BY <1>2
         DEF Next, vars, CreateRow, PublishTask, RequestLost, Deliver, Ack,
             Crash, Requeue

LEMMA NewestTyped ==
  ASSUME TypeOK, [Next]_vars, NEW g \in Gens, feed'[g] # feed[g]
  PROVE  Latest(g) \in Events /\ Len(feed'[g]) \in DOMAIN feed'[g]
<1>1. PICK event \in Events : feed'[g] = Append(feed[g], event)
  BY FeedStep
<1>2. feed[g] \in Seq(Events)
  BY DEF TypeOK
<1> QED  BY <1>1, <1>2 DEF Latest

\* An accepted request stays accepted.
LEMMA AcceptedStays ==
  ASSUME TypeOK, [Next]_vars, NEW g \in Gens, req[g] = "accepted"
  PROVE  req'[g] = "accepted"
BY ExecuteFrame
DEF TypeOK, Next, vars, CreateRow, PublishTask, RequestLost, Answer, Deliver, Ack,
    Crash, Requeue

-----------------------------------------------------------------------------
(***************************************************************************)
(* Types.                                                                  *)
(***************************************************************************)
LEMMA LiveInitTyped == LiveInit => LiveTypeOK
<1> SUFFICES ASSUME LiveInit PROVE LiveTypeOK
  OBVIOUS
<1>1. TypeOK
  BY QuietClean DEF LiveInit, CleanInv, DeliveryInv
<1>2. Empty \in List
  BY DEF Empty, List, Statuses
<1>3. /\ lists \in Seq(Answered) /\ Len(lists) <= MaxLists
  <2>1. lists = <<Unread>> /\ Unread \in Answered
    BY <1>2 DEF LiveInit, Unread, Answered
  <2> QED  BY <2>1, LiveBoundAssumption
<1>4. /\ state \in {"off", "on", "deaf"} /\ inbox \in Seq(Message)
      /\ glitches \in 0 .. MaxGlitches
  BY EmptySeq, LiveBoundAssumption DEF LiveInit, Channel!Init
<1>5. /\ {posting, active, result, subject} \subseteq Page
      /\ generating \in BOOLEAN /\ error \in BOOLEAN
      /\ listed \in {"out", "shown", "covered"}
      /\ {viewing, missed, heard} \subseteq SUBSET Gens
      /\ history \in List
  BY <1>2 DEF LiveInit, Page
<1> QED  BY <1>1, <1>3, <1>4, <1>5 DEF LiveTypeOK, Answered, Message

\* What the channel does to the notifications on their way.
LEMMA KeptTyped ==
  ASSUME LiveTypeOK,
         \/ UNCHANGED channel
         \/ Channel!Bind \/ Channel!Handle \/ Channel!Deafen \/ Channel!Close
  PROVE  /\ state' \in {"off", "on", "deaf"} /\ inbox' \in Seq(Message)
         /\ \A i \in DOMAIN inbox' : \E j \in DOMAIN inbox : inbox'[i] = inbox[j]
<1>1. /\ state \in {"off", "on", "deaf"} /\ inbox \in Seq(Message)
      /\ Len(inbox) \in Nat /\ DOMAIN inbox = 1 .. Len(inbox)
  BY LenProperties DEF LiveTypeOK, Message
<1>2. CASE UNCHANGED channel
  BY <1>1, <1>2 DEF channel
<1>3. CASE Channel!Bind \/ Channel!Close
  <2>1. inbox' = << >> /\ state' \in {"off", "on"}
    BY <1>3 DEF Channel!Bind, Channel!Close
  <2>2. << >> \in Seq(Message) /\ DOMAIN << >> = {}
    BY EmptySeq
  <2> QED  BY <2>1, <2>2
<1>4. CASE Channel!Handle
  <2>1. inbox # << >> /\ inbox' = Tail(inbox) /\ state' = state
    BY <1>4 DEF Channel!Handle
  <2>2. /\ Tail(inbox) \in Seq(Message) /\ Len(Tail(inbox)) = Len(inbox) - 1
        /\ \A i \in 1 .. Len(Tail(inbox)) : Tail(inbox)[i] = inbox[i + 1]
    BY <1>1, <2>1, HeadTailProperties
  <2>3. DOMAIN Tail(inbox) = 1 .. Len(inbox) - 1
    BY <2>2, LenProperties
  <2>4. ASSUME NEW i \in DOMAIN inbox'
        PROVE  \E j \in DOMAIN inbox : inbox'[i] = inbox[j]
    <3>1. i + 1 \in DOMAIN inbox /\ inbox'[i] = inbox[i + 1]
      BY <1>1, <2>1, <2>2, <2>3
    <3> QED  BY <3>1
  <2> QED  BY <1>1, <2>1, <2>2, <2>4
<1>5. CASE Channel!Deafen
  <2>1. PICK k \in 0 .. Len(inbox) : inbox' = SubSeq(inbox, 1, k)
    BY <1>5 DEF Channel!Deafen, Channel!Prefix
  <2>2. /\ inbox' \in Seq(Message) /\ DOMAIN inbox' = 1 .. k
        /\ \A i \in 1 .. k : inbox'[i] = inbox[i]
    BY <1>1, <2>1
  <2> QED  BY <1>1, <1>5, <2>2 DEF Channel!Deafen
<1> QED  BY <1>2, <1>3, <1>4, <1>5

LEMMA PublishTyped ==
  ASSUME LiveTypeOK, NEW message \in Message, Channel!Publish(message)
  PROVE  /\ state' \in {"off", "on", "deaf"} /\ inbox' \in Seq(Message)
         /\ \A i \in DOMAIN inbox' :
              \/ \E j \in DOMAIN inbox : inbox'[i] = inbox[j]
              \/ inbox'[i] = message
<1>1. /\ state \in {"off", "on", "deaf"} /\ inbox \in Seq(Message)
      /\ Len(inbox) \in Nat /\ DOMAIN inbox = 1 .. Len(inbox)
  BY LenProperties DEF LiveTypeOK, Message
<1>2. /\ inbox' = IF state = "on" THEN Append(inbox, message) ELSE inbox
      /\ state' = state
  BY DEF Channel!Publish
<1>3. CASE inbox' = inbox
  BY <1>1, <1>2, <1>3
<1>4. CASE inbox' = Append(inbox, message)
  <2>1. /\ inbox' \in Seq(Message) /\ DOMAIN inbox' = 1 .. Len(inbox) + 1
        /\ \A i \in 1 .. Len(inbox) : inbox'[i] = inbox[i]
        /\ inbox'[Len(inbox) + 1] = message
    BY <1>1, <1>4
  <2>2. ASSUME NEW i \in DOMAIN inbox'
        PROVE  \/ \E j \in DOMAIN inbox : inbox'[i] = inbox[j]
               \/ inbox'[i] = message
    BY <1>1, <2>1
  <2> QED  BY <1>1, <1>2, <2>1, <2>2
<1> QED  BY <1>2, <1>3, <1>4

\* What a step does to the channel; a backend tells what it has just published.
LEMMA ChannelStep ==
  ASSUME LiveTypeOK, [LiveNext]_liveVars
  PROVE  \/ UNCHANGED channel
         \/ Channel!Bind \/ Channel!Handle \/ Channel!Deafen \/ Channel!Close
         \/ \E g \in Gens :
              /\ feed'[g] # feed[g]
              /\ [gen |-> g, event |-> Latest(g)] \in Message
              /\ Channel!Publish([gen |-> g, event |-> Latest(g)])
<1>1. CASE Backend
  <2>1. \A g \in Gens : feed'[g] # feed[g] => Latest(g) \in Events
    BY NewestTyped, BackendStep DEF LiveTypeOK
  <2> QED  BY <1>1, <2>1 DEF Backend, Notified, Message
<1> QED  BY <1>1
         DEF LiveNext, liveVars, Bind, Deafen, Close, Posted, HandleWsEvent,
             ReadList, SetHistory, Generate, ClickHistory, Viewed, channel

\* What is on its way after a step was so before, or was just published.
LEMMA InboxStep ==
  ASSUME LiveTypeOK, [LiveNext]_liveVars
  PROVE  /\ state' \in {"off", "on", "deaf"} /\ inbox' \in Seq(Message)
         /\ \A i \in DOMAIN inbox' :
              \/ \E j \in DOMAIN inbox : inbox'[i] = inbox[j]
              \/ \E g \in Gens : /\ feed'[g] # feed[g]
                                 /\ inbox'[i] = [gen |-> g, event |-> Latest(g)]
<1>1. CASE \/ UNCHANGED channel
           \/ Channel!Bind \/ Channel!Handle \/ Channel!Deafen \/ Channel!Close
  BY <1>1, KeptTyped
<1>2. ASSUME NEW g \in Gens, feed'[g] # feed[g],
             [gen |-> g, event |-> Latest(g)] \in Message,
             Channel!Publish([gen |-> g, event |-> Latest(g)])
      PROVE  /\ state' \in {"off", "on", "deaf"} /\ inbox' \in Seq(Message)
             /\ \A i \in DOMAIN inbox' :
                  \/ \E j \in DOMAIN inbox : inbox'[i] = inbox[j]
                  \/ inbox'[i] = [gen |-> g, event |-> Latest(g)]
  BY <1>2, PublishTyped
<1> QED  BY <1>1, <1>2, ChannelStep

LEMMA ListsFacts ==
  ASSUME LiveTypeOK
  PROVE  /\ lists \in Seq(Answered) /\ Len(lists) \in Nat
         /\ DOMAIN lists = 1 .. Len(lists) /\ Len(lists) <= MaxLists
         /\ lists = << >> <=> Len(lists) = 0
         /\ MaxLists \in Nat
BY LenProperties, EmptySeq, LiveBoundAssumption DEF LiveTypeOK, Answered

\* The lists that are out after a request for one.
LEMMA RequestTyped ==
  ASSUME LiveTypeOK, NEW needed \in BOOLEAN, Request(needed)
  PROVE  /\ lists' \in Seq(Answered) /\ Len(lists') <= MaxLists
         /\ listed' \in {"out", "shown", "covered"}
         /\ needed => /\ listed' = "out" /\ Len(lists') > 0
                      /\ ~lists'[Len(lists')].read
         /\ ~needed => lists' = lists /\ listed' = listed
<1>1. Unread \in Answered /\ ~Unread.read
  BY DEF Unread, Answered, Empty, List, Statuses
<1>2. CASE needed
  <2>1. lists' = Append(lists, Unread) /\ Len(lists) < MaxLists /\ listed' = "out"
    BY <1>2 DEF Request
  <2> HIDE DEF Unread
  <2>2. /\ lists' \in Seq(Answered) /\ Len(lists') = Len(lists) + 1
        /\ lists'[Len(lists) + 1] = Unread
    BY <1>1, <2>1, ListsFacts, AppendProperties
  <2> DEFINE n == Len(lists)
             m == Len(lists')
  <2>3. n \in Nat /\ MaxLists \in Nat /\ n < MaxLists /\ m = n + 1
    BY <2>1, <2>2, ListsFacts
  <2>4. m <= MaxLists /\ m > 0
    <3> HIDE DEF n, m
    <3> QED  BY <2>3
  <2> QED  BY <1>1, <1>2, <2>1, <2>2, <2>4
<1>3. CASE ~needed
  BY <1>3, ListsFacts DEF Request, LiveTypeOK
<1> QED  BY <1>2, <1>3

LEMMA ReloadTyped ==
  ASSUME LiveTypeOK, NEW event, Reload(event)
  PROVE  /\ lists' \in Seq(Answered) /\ Len(lists') <= MaxLists
         /\ listed' \in {"out", "shown", "covered"}
         /\ event \in Ends \cup Verdicts =>
              /\ listed' = "out" /\ Len(lists') > 0
              /\ ~lists'[Len(lists')].read
         /\ event \notin Ends \cup Verdicts =>
              lists' = lists /\ listed' = listed
<1> DEFINE needed == event \in Ends \cup Verdicts
<1>1. Request(needed) /\ needed \in BOOLEAN
  BY DEF Reload
<1> HIDE DEF needed
<1>2. /\ lists' \in Seq(Answered) /\ Len(lists') <= MaxLists
      /\ listed' \in {"out", "shown", "covered"}
      /\ needed => /\ listed' = "out" /\ Len(lists') > 0
                   /\ ~lists'[Len(lists')].read
      /\ ~needed => lists' = lists /\ listed' = listed
  BY <1>1, RequestTyped
<1> QED  BY <1>2 DEF needed

\* The lists that are out after an answer was shown: the others, in order.
LEMMA ShownTyped ==
  ASSUME LiveTypeOK, NEW i \in DOMAIN lists, SetHistory(i)
  PROVE  /\ lists' \in Seq(Answered) /\ Len(lists') = Len(lists) - 1
         /\ \A j \in 1 .. Len(lists) - 1 :
              lists'[j] = lists[IF j < i THEN j ELSE j + 1]
<1> DEFINE n == Len(lists)
<1>1. n \in Nat /\ i \in 1 .. n /\ lists \in Seq(Answered)
  BY ListsFacts
<1>2. lists' = [j \in 1 .. n - 1 |-> lists[IF j < i THEN j ELSE j + 1]]
  BY DEF SetHistory
<1>3. ASSUME NEW j \in 1 .. n - 1
      PROVE  lists[IF j < i THEN j ELSE j + 1] \in Answered
  <2>1. (IF j < i THEN j ELSE j + 1) \in 1 .. n
    BY <1>1
  <2> QED  BY <1>1, <2>1, ElementOfSeq
<1> HIDE DEF n
<1>4. n - 1 \in Nat
  BY <1>1
<1>5. lists' \in [1 .. n - 1 -> Answered]
  BY <1>2, <1>3
<1>6. lists' \in Seq(Answered) /\ Len(lists') = n - 1
  BY <1>4, <1>5
<1> QED  BY <1>2, <1>6 DEF n

LEMMA LiveNextTyped == LiveTypeOK /\ [LiveNext]_liveVars => LiveTypeOK'
<1> SUFFICES ASSUME LiveTypeOK, [LiveNext]_liveVars PROVE LiveTypeOK'
  OBVIOUS
<1>1. TypeOK'
  BY BackendStep, NextTypeOK DEF LiveTypeOK
<1>2. state' \in {"off", "on", "deaf"} /\ inbox' \in Seq(Message)
  BY InboxStep
<1> DEFINE Form == /\ {posting, active, result, subject} \subseteq Page
                   /\ generating \in BOOLEAN /\ error \in BOOLEAN
           Lists == /\ history \in List
                    /\ lists \in Seq(Answered) /\ Len(lists) <= MaxLists
                    /\ listed \in {"out", "shown", "covered"}
           Sets == /\ {viewing, missed, heard} \subseteq SUBSET Gens
                   /\ glitches \in 0 .. MaxGlitches
<1>3. Form /\ Lists /\ Sets
  BY DEF LiveTypeOK, Answered
<1>4. Glitch => glitches' \in 0 .. MaxGlitches
  BY <1>3, LiveBoundAssumption DEF Glitch
<1>5. CASE Backend
  <2>1. missed' \in SUBSET Gens
    BY <1>3, <1>5 DEF Backend, Notified, Awaited
  <2> QED  BY <1>1, <1>2, <1>3, <1>5, <2>1
           DEF Backend, form, requests, LiveTypeOK, Message, Answered
<1>6. CASE Bind
  BY <1>1, <1>2, <1>3, <1>6
  DEF Bind, form, requests, told, LiveTypeOK, Message, Answered
<1>7. CASE Deafen \/ Close
  <2>1. missed' \in SUBSET Gens
    BY <1>3, <1>7 DEF Deafen, Close, Lost, Awaited, Page
  <2> QED  BY <1>1, <1>2, <1>3, <1>4, <1>7, <2>1
           DEF Deafen, Close, form, requests, LiveTypeOK, Message, Answered
<1>8. CASE Posted
  <2>1. Form'
    BY <1>3, <1>8 DEF Posted, Page
  <2>2. glitches' \in 0 .. MaxGlitches
    BY <1>3, <1>4, <1>8 DEF Posted
  <2> QED  BY <1>1, <1>2, <1>3, <1>8, <2>1, <2>2
           DEF Posted, requests, told, LiveTypeOK, Message, Answered
<1>9. CASE HandleWsEvent
  <2>1. Head(inbox) \in Message
    BY <1>9, HeadTailProperties
    DEF HandleWsEvent, Channel!Handle, LiveTypeOK, Message
  <2>2. Head(inbox).gen \in Gens
    BY <2>1 DEF Message
  <2>3. Form' /\ Sets'
    BY <1>3, <1>9, <2>2 DEF HandleWsEvent, Show, Page
  <2>4. Lists'
    BY <1>3, <1>9, ReloadTyped DEF HandleWsEvent
  <2> QED  BY <1>1, <1>2, <2>3, <2>4 DEF LiveTypeOK, Message, Answered
<1>10. ASSUME NEW i \in DOMAIN lists, ReadList(i) PROVE LiveTypeOK'
  <2>1. [read |-> TRUE, rows |-> Recent] \in Answered
    BY DEF Recent, LiveTypeOK, TypeOK, Row, Statuses, Answered, List
  <2>2. lists' \in Seq(Answered) /\ Len(lists') <= MaxLists
    BY <1>3, <1>10, <2>1, ListsFacts, ExceptSeq DEF ReadList
  <2> QED  BY <1>1, <1>2, <1>3, <1>10, <2>2
           DEF ReadList, form, told, LiveTypeOK, Message, Answered
<1>11. ASSUME NEW i \in DOMAIN lists, SetHistory(i) PROVE LiveTypeOK'
  <2>1. lists' \in Seq(Answered) /\ Len(lists') <= MaxLists
    <3> DEFINE n == Len(lists)
               m == Len(lists')
    <3>1. n \in Nat /\ MaxLists \in Nat /\ n <= MaxLists /\ m = n - 1
      BY <1>11, ListsFacts, ShownTyped
    <3> HIDE DEF n, m
    <3>2. m <= MaxLists
      BY <3>1
    <3> QED  BY <1>11, <3>2, ShownTyped, SMTT(30) DEF m
  <2>2. lists[i] \in Answered /\ Empty \in List
    BY ListsFacts, ElementOfSeq DEF Empty, List, Statuses
  <2>3. history' \in List
    BY <1>3, <1>11, <2>2 DEF SetHistory, Answered
  <2>4. glitches' \in 0 .. MaxGlitches /\ listed' \in {"out", "shown", "covered"}
    BY <1>3, <1>4, <1>11 DEF SetHistory
  <2> QED  BY <1>1, <1>2, <1>3, <1>11, <2>1, <2>3, <2>4, SMTT(30)
           DEF SetHistory, form, told, LiveTypeOK, Message, Answered
<1>12. ASSUME NEW g \in Gens, Generate(g) \/ ClickHistory(g) \/ Viewed(g)
       PROVE  LiveTypeOK'
  <2>1. Form'
    BY <1>3, <1>12 DEF Generate, ClickHistory, Viewed, Turn, Page
  <2>3. Sets'
    <3>1. /\ viewing' \in {viewing, viewing \cup {g}, viewing \ {g}}
          /\ UNCHANGED <<missed, heard, glitches>>
      BY <1>12 DEF Generate, ClickHistory, Viewed, told
    <3> QED  BY <1>3, <3>1
  <2>2. Lists'
    BY <1>3, <1>12 DEF Generate, ClickHistory, Viewed
  <2> QED  BY <1>1, <1>2, <2>1, <2>2, <2>3 DEF LiveTypeOK, Message, Answered
<1>13. CASE UNCHANGED liveVars
  BY <1>1, <1>2, <1>3, <1>13
  DEF liveVars, form, requests, told, LiveTypeOK, Message, Answered
<1> QED  BY <1>5, <1>6, <1>7, <1>8, <1>9, <1>10, <1>11, <1>12, <1>13 DEF LiveNext

\* The page and the backend keep the shape their code gives them.
THEOREM LiveTypeCorrect == LiveSpec => []LiveTypeOK
BY LiveInitTyped, LiveNextTyped, PTL DEF LiveSpec

-----------------------------------------------------------------------------
(***************************************************************************)
(* What the form is about.                                                 *)
(***************************************************************************)
\* While a POST is out nothing else is active: the form is disabled.
FormInv ==
  /\ posting # None => posting = subject /\ active = None
  /\ active # None => active = subject /\ req[active] = "accepted"
  /\ generating <=> active # None \/ posting # None
  /\ generating => ~error

LEMMA FormFacts == LiveInit => FormInv
BY DEF LiveInit, FormInv

\* What leaves the form alone leaves its meaning alone.
LEMMA FormKept ==
  ASSUME LiveTypeOK, FormInv, [LiveNext]_liveVars, UNCHANGED form
  PROVE  FormInv'
<1>1. active # None => active \in Gens
  BY DEF LiveTypeOK, Page
<1>2. active # None => req'[active] = "accepted"
  BY <1>1, AcceptedStays, BackendStep DEF FormInv, LiveTypeOK
<1> QED  BY <1>2 DEF FormInv, form

LEMMA FormNext == LiveTypeOK /\ FormInv /\ [LiveNext]_liveVars => FormInv'
<1> SUFFICES ASSUME LiveTypeOK, FormInv, [LiveNext]_liveVars PROVE FormInv'
  OBVIOUS
<1>1. CASE Posted
  <2>1. posting \in Gens /\ posting # None /\ active = None /\ generating /\ ~error
    BY <1>1 DEF Posted, FormInv, LiveTypeOK, Page
  <2>2. CASE /\ req[posting] = "accepted" /\ active' = posting
             /\ UNCHANGED <<generating, error, glitches>>
    BY <1>1, <2>1, <2>2 DEF Posted, FormInv, vars
  <2>3. CASE generating' = FALSE /\ error' = TRUE /\ UNCHANGED active
    BY <1>1, <2>1, <2>3 DEF Posted, FormInv
  <2> QED  BY <1>1, <2>2, <2>3 DEF Posted
<1>2. CASE HandleWsEvent
  <2>1. /\ UNCHANGED <<vars, posting, subject>>
        /\ Show(Head(inbox).gen, Head(inbox).event)
    BY <1>2 DEF HandleWsEvent
  <2>2. Head(inbox).gen # None
    <3>1. Head(inbox) \in Message
      BY <1>2, HeadTailProperties
      DEF HandleWsEvent, Channel!Handle, LiveTypeOK, Message
    <3> QED  BY <3>1, NoneAssumption DEF Message
  <2>3. CASE UNCHANGED <<generating, active, result, error>>
    BY <2>1, <2>3, FormKept DEF form
  <2>4. CASE ~UNCHANGED <<generating, active, result, error>>
    <3>1. active # None /\ generating' = FALSE /\ active' = None
      BY <2>1, <2>2, <2>4 DEF Show
    <3> QED  BY <2>1, <3>1 DEF FormInv
  <2> QED  BY <2>3, <2>4
<1>3. ASSUME NEW g \in Gens, Generate(g) PROVE FormInv'
  <2>1. ~generating /\ posting = None /\ active = None
    BY <1>3 DEF Generate, FormInv
  <2>2. /\ posting' = g /\ generating' = TRUE /\ active' = None
        /\ subject' = g /\ error' = FALSE
    BY <1>3, <2>1 DEF Generate, Turn
  <2> QED  BY <2>2, NoneAssumption DEF FormInv
<1>4. ASSUME NEW g \in Gens, ClickHistory(g) PROVE FormInv'
  <2>1. ~generating /\ posting = None /\ active = None
    BY <1>4 DEF ClickHistory, FormInv
  <2>2. UNCHANGED <<posting, generating, active>> /\ error' = FALSE
    BY <1>4 DEF ClickHistory, Turn
  <2> QED  BY <2>1, <2>2 DEF FormInv
<1>5. ASSUME NEW g \in Gens, Viewed(g) PROVE FormInv'
  BY <1>5 DEF Viewed, FormInv, vars
<1>6. CASE UNCHANGED form
  BY <1>6, FormKept
<1> QED  BY <1>1, <1>2, <1>3, <1>4, <1>5, <1>6
         DEF LiveNext, liveVars, Backend, Bind, Deafen, Close, ReadList, SetHistory

\* The page waits for one generation at a time, the one its form is about.
THEOREM OneAtATimeAlways == LiveSpec => []OneAtATime
<1>1. FormInv => OneAtATime
  BY DEF FormInv, OneAtATime
<1> QED  BY <1>1, LiveInitTyped, LiveNextTyped, FormFacts, FormNext, PTL DEF LiveSpec

\* The page shown is that of the generation the form is about, but for the late
\* answer to a click.
THEOREM ResultIsSubjectAlways == LiveSpec => ResultIsSubject
<1> DEFINE Step == /\ subject' # subject => result' = None
                   /\ result' # result => result' \in {None, subject'} \cup viewing
<1>1. ASSUME LiveTypeOK, FormInv, [LiveNext]_liveVars PROVE [Step]_liveVars
  <2>1. CASE HandleWsEvent
    <3>1. /\ UNCHANGED subject
          /\ \/ UNCHANGED result
             \/ active = Head(inbox).gen /\ result' \in {result, active}
      BY <2>1 DEF HandleWsEvent, Show
    <3>2. CASE UNCHANGED result
      BY <3>1, <3>2
    <3>3. CASE active = Head(inbox).gen /\ result' = active
      <4>1. Head(inbox) \in Message
        BY <1>1, <2>1, HeadTailProperties
        DEF HandleWsEvent, Channel!Handle, LiveTypeOK, Message
      <4>2. active # None
        BY <3>3, <4>1, NoneAssumption DEF Message
      <4>3. active = subject
        BY <1>1, <4>2 DEF FormInv
      <4> QED  BY <3>1, <3>3, <4>3
    <3> QED  BY <3>1, <3>2, <3>3
  <2>2. ASSUME NEW g \in Gens, Generate(g) \/ ClickHistory(g) \/ Viewed(g)
        PROVE  Step
    BY <2>2 DEF Generate, ClickHistory, Viewed, Turn
  <2>3. CASE UNCHANGED <<result, subject>>
    BY <2>3
  <2> QED  BY <1>1, <2>1, <2>2, <2>3
           DEF LiveNext, liveVars, Backend, Bind, Deafen, Close, Posted, ReadList,
               SetHistory, form
<1>2. []LiveTypeOK /\ []FormInv /\ [][LiveNext]_liveVars => [][Step]_liveVars
  BY <1>1, PTL
<1> QED  BY <1>2, LiveInitTyped, LiveNextTyped, FormFacts, FormNext, PTL
         DEF LiveSpec, ResultIsSubject

-----------------------------------------------------------------------------
(***************************************************************************)
(* The list.  A final status is the row's when it is published, and it     *)
(* stays; so the row is settled when the page is told, and a list that is  *)
(* asked for then is read from it.                                         *)
(***************************************************************************)
Settles(g) == row[g].status \in Verdicts

LEMMA SettledStays ==
  ASSUME CleanInv, CleanFaults, [Next]_vars, NEW g \in Gens, Settles(g)
  PROVE  row'[g].status = row[g].status
<1>1. [Lifecycle!Next]_status
  BY LifecycleStep DEF CleanInv, DeliveryInv
<1>2. CASE UNCHANGED status
  BY <1>2 DEF status
<1>3. ASSUME NEW h \in Gens, NEW from \in {"absent", "pending", "running"}, NEW to,
             Lifecycle!Become(h, from, to)
      PROVE  row'[g].status = row[g].status
  <2>1. /\ status[h] = from /\ status' = [status EXCEPT ![h] = to]
        /\ status = [k \in Gens |-> row[k].status]
    BY <1>3 DEF Lifecycle!Become, status
  <2>2. h # g
    BY <1>3, <2>1 DEF Settles, Verdicts
  <2>3. status'[g] = status[g]
    BY <2>1, <2>2
  <2> QED  BY <2>3 DEF status
<1> QED  BY <1>1, <1>2, <1>3
         DEF Lifecycle!Next, Lifecycle!Create, Lifecycle!Start, Lifecycle!Settle

\* Rows never vanish: what made room for newer ones does not come back.
LEMMA DisplacedStays ==
  ASSUME LiveTypeOK, CleanInv, CleanFaults, [Next]_vars, NEW g \in Gens, Displaced(g)
  PROVE  Displaced(g)'
<1> DEFINE newer == {h \in Gens : h > g /\ row[h].status # "absent"}
<1>1. PICK listedFirst \in SUBSET newer : Cardinality(listedFirst) = Limit
  BY DEF Displaced
<1>2. \A h \in Gens : row[h].status # "absent" => row'[h].status # "absent"
  <2>1. [Lifecycle!Next]_status
    BY LifecycleStep DEF CleanInv, DeliveryInv
  <2>2. CASE UNCHANGED status
    BY <2>2 DEF status
  <2>3. ASSUME NEW k \in Gens, NEW from, NEW to \in Statuses \ {"absent"},
               Lifecycle!Become(k, from, to), NEW h \in Gens,
               row[h].status # "absent"
        PROVE  row'[h].status # "absent"
    <3>1. /\ status' = [status EXCEPT ![k] = to]
          /\ status = [j \in Gens |-> row[j].status]
      BY <2>3 DEF Lifecycle!Become, status
    <3>2. status'[h] # "absent"
      BY <2>3, <3>1
    <3> QED  BY <3>2 DEF status
  <2> QED  BY <2>1, <2>2, <2>3
           DEF Lifecycle!Next, Lifecycle!Create, Lifecycle!Start, Lifecycle!Settle,
               Lifecycle!Settled, Statuses
<1>3. listedFirst \in SUBSET {h \in Gens : h > g /\ row'[h].status # "absent"}
  BY <1>1, <1>2
<1> QED  BY <1>1, <1>3 DEF Displaced

LEMMA CleanNow ==
  ASSUME CleanInv, [LiveNext]_liveVars
  PROVE  CleanInv' /\ (CleanFaults' <=> CleanFaults)
<1>1. [Next]_vars
  BY BackendStep
<1> QED  BY <1>1, CleanNext, ProfileKept DEF CleanInv, DeliveryInv, CleanFaults

\* The verdicts on their way to the page and the ones it was told are settled.
ToldInv ==
  /\ \A i \in DOMAIN inbox :
       inbox[i].event \in Verdicts => Settles(inbox[i].gen)
  /\ \A g \in heard : Settles(g)

LEMMA ToldNext ==
  ASSUME LiveTypeOK, CleanInv, CleanFaults, ToldInv, [LiveNext]_liveVars
  PROVE  ToldInv'
<1>1. \A g \in Gens : Settles(g) => Settles(g)'
  BY SettledStays, BackendStep DEF Settles
<1>2. inbox \in Seq(Message) /\ heard \subseteq Gens
  BY DEF LiveTypeOK, Message
<1>3. \A j \in DOMAIN inbox : inbox[j] \in Message
  BY <1>2, LenProperties, ElementOfSeq
<1>4. ASSUME NEW i \in DOMAIN inbox', inbox'[i].event \in Verdicts
      PROVE  row'[inbox'[i].gen].status \in Verdicts
  <2>1. CASE \E j \in DOMAIN inbox : inbox'[i] = inbox[j]
    <3>1. PICK j \in DOMAIN inbox : inbox'[i] = inbox[j]
      BY <2>1
    <3>2. inbox[j].gen \in Gens /\ Settles(inbox[j].gen)
      BY <1>3, <1>4, <3>1 DEF ToldInv, Message
    <3>3. inbox'[i].gen = inbox[j].gen
      BY <3>1
    <3> QED  BY <1>1, <3>2, <3>3 DEF Settles
  <2>2. CASE ~\E j \in DOMAIN inbox : inbox'[i] = inbox[j]
    <3>1. PICK g \in Gens : /\ feed'[g] # feed[g]
                            /\ inbox'[i] = [gen |-> g, event |-> Latest(g)]
      BY <1>4, <2>2, InboxStep
    <3>3. Latest(g) \in Verdicts /\ inbox'[i].gen = g
      BY <1>4, <3>1
    <3>4. Story(g)' /\ Len(feed'[g]) \in DOMAIN feed'[g]
      BY <3>1, CleanNow, NewestTyped, BackendStep
      DEF CleanInv, StoryInv, LiveTypeOK
    <3>5. row'[g].status = Latest(g)
      BY <3>3, <3>4 DEF Story, Latest, Final, Verdicts
    <3> QED  BY <3>3, <3>5
  <2> QED  BY <2>1, <2>2
<1>5. \A g \in heard : Settles(g)'
  BY <1>1, <1>2 DEF ToldInv
<1>6. ASSUME NEW g \in heard', g \notin heard PROVE Settles(g)'
  <2>1. HandleWsEvent
    BY <1>6
    DEF LiveNext, liveVars, Backend, Bind, Deafen, Close, Posted, ReadList,
        SetHistory, Generate, ClickHistory, Viewed, told
  <2>2. /\ g = Head(inbox).gen /\ Head(inbox).event \in Verdicts /\ inbox # << >>
    BY <1>6, <2>1 DEF HandleWsEvent, Channel!Handle
  <2>3. Head(inbox) = inbox[1] /\ 1 \in DOMAIN inbox
    BY <1>2, <2>2
  <2>4. g \in Gens /\ Settles(g)
    BY <1>3, <2>2, <2>3 DEF ToldInv, Message
  <2> QED  BY <1>1, <2>4
<1> QED  BY <1>4, <1>5, <1>6 DEF ToldInv, Settles

\* The newest list that is out, once it has been read, and the one that is shown
\* have what the page was told.
Agrees(list) ==
  \A g \in heard : \/ list[g] = row[g].status
                   \/ list[g] = "absent" /\ Displaced(g)

ListInv ==
  /\ listed = "out" => /\ lists # << >>
                       /\ lists[Len(lists)].read => Agrees(lists[Len(lists)].rows)
  /\ listed = "shown" => Agrees(history)

LEMMA ListNext ==
  ASSUME LiveTypeOK, CleanInv, CleanFaults, ToldInv, ListInv, [LiveNext]_liveVars
  PROVE  ListInv'
<1>1. \A g \in heard : /\ row'[g].status = row[g].status
                       /\ Displaced(g) => Displaced(g)'
  BY SettledStays, DisplacedStays, BackendStep DEF ToldInv, LiveTypeOK
<1>2. ASSUME NEW list, heard' = heard, Agrees(list)
      PROVE  \A g \in heard' : \/ list[g] = row'[g].status
                               \/ list[g] = "absent" /\ Displaced(g)'
  BY <1>1, <1>2 DEF Agrees
<1>3. CASE UNCHANGED <<lists, listed, history, heard>>
  BY <1>2, <1>3 DEF ListInv, Agrees
<1>4. CASE HandleWsEvent
  <2> DEFINE event == Head(inbox).event
  <2>1. Reload(event) /\ history' = history
    BY <1>4 DEF HandleWsEvent
  <2>2. CASE event \in Ends \cup Verdicts
    <3>1. listed' = "out" /\ Len(lists') > 0 /\ ~lists'[Len(lists')].read
      BY <2>1, <2>2, ReloadTyped
    <3>2. lists' # << >>
      BY <3>1, EmptySeq
    <3> QED  BY <3>1, <3>2 DEF ListInv
  <2>3. CASE event \notin Ends \cup Verdicts
    <3>1. UNCHANGED <<lists, listed>> /\ event \notin Verdicts
      BY <2>1, <2>3, ReloadTyped
    <3>2. heard' = heard
      BY <1>4, <3>1 DEF HandleWsEvent
    <3> QED  BY <1>3, <2>1, <3>1, <3>2
  <2> QED  BY <2>2, <2>3
<1>5. ASSUME NEW i \in DOMAIN lists, ReadList(i) PROVE ListInv'
  <2> DEFINE answer == [read |-> TRUE, rows |-> Recent]
             n == Len(lists)
  <2>1. /\ ~lists[i].read /\ lists' = [lists EXCEPT ![i] = answer]
        /\ UNCHANGED <<vars, listed, history, heard>>
    BY <1>5 DEF ReadList, told
  <2>2. /\ answer \in Answered /\ answer.rows = Recent
        /\ i \in 1 .. n /\ n \in Nat
    BY ListsFacts DEF Recent, LiveTypeOK, TypeOK, Row, Statuses, Answered, List
  <2> HIDE DEF answer
  <2>3. /\ Len(lists') = n /\ lists'[n] = IF n = i THEN answer ELSE lists[n]
        /\ lists' # << >>
    BY <2>1, <2>2, ListsFacts, ExceptSeq, EmptySeq
  <2>4. Agrees(answer.rows)
    BY <2>2 DEF Agrees, Recent, LiveTypeOK
  <2>5. row' = row /\ heard' = heard
    BY <2>1 DEF vars
  <2>6. listed = "out" => (lists'[n].read => Agrees(lists'[n].rows))
    BY <2>3, <2>4 DEF ListInv
  <2> QED  BY <1>2, <2>1, <2>3, <2>5, <2>6 DEF ListInv, Agrees
<1>6. ASSUME NEW i \in DOMAIN lists, SetHistory(i) PROVE ListInv'
  <2> DEFINE n == Len(lists)
             m == Len(lists')
  <2>1. /\ row' = row /\ heard' = heard /\ lists[i].read /\ i \in 1 .. n /\ n \in Nat
    BY <1>6, ListsFacts DEF SetHistory, vars, told
  <2>2. m = n - 1 /\ lists' \in Seq(Answered)
        /\ \A j \in 1 .. n - 1 : lists'[j] = lists[IF j < i THEN j ELSE j + 1]
    BY <1>6, ShownTyped
  <2>3. listed' = IF listed # "out" THEN "covered"
                  ELSE IF i < n THEN "out"
                  ELSE IF history' = lists[i].rows THEN "shown" ELSE "covered"
    BY <1>6 DEF SetHistory
  <2> HIDE DEF n, m
  <2>4. CASE listed = "out" /\ i < n
    <3>1. m \in 1 .. n - 1 /\ ~(m < i) /\ m + 1 = n
      BY <2>1, <2>2, <2>4
    <3>2. lists'[m] = lists[n]
      BY <2>2, <3>1
    <3>3. lists' # << >>
      BY <2>2, <3>1, EmptySeq DEF m
    <3> QED  BY <1>2, <2>1, <2>3, <2>4, <3>2, <3>3 DEF ListInv, Agrees, n, m
  <2>5. CASE listed = "out" /\ i = n /\ history' = lists[i].rows
    BY <1>2, <2>1, <2>3, <2>5 DEF ListInv, Agrees, n
  <2>6. CASE listed' = "covered"
    BY <2>6 DEF ListInv
  <2> QED  BY <2>1, <2>3, <2>4, <2>5, <2>6
<1> QED  BY <1>3, <1>4, <1>5, <1>6
         DEF LiveNext, liveVars, Backend, Bind, Deafen, Close, Posted, Generate,
             ClickHistory, Viewed, requests, told

\* Once the page was told a final status, its newest list shows what the row says,
\* unless the list is full of newer generations.
THEOREM HistoryFreshAlways == LiveSpec => []HistoryFresh
<1> DEFINE FreshInv == /\ LiveTypeOK /\ CleanInv
                       /\ CleanFaults => ToldInv /\ ListInv
<1>1. LiveInit => FreshInv
  BY LiveInitTyped, QuietClean
  DEF LiveInit, ToldInv, ListInv, Channel!Init, Unread
<1>2. FreshInv /\ [LiveNext]_liveVars => FreshInv'
  BY LiveNextTyped, CleanNow, ToldNext, ListNext
<1>3. FreshInv => HistoryFresh
  BY DEF ListInv, Agrees, HistoryFresh
<1> QED  BY <1>1, <1>2, <1>3, PTL DEF LiveSpec

-----------------------------------------------------------------------------
(***************************************************************************)
(* What was shown when the stream ended: while nothing fails, the executor *)
(* that announced it goes on to store it.                                  *)
(***************************************************************************)
Kept(g) == \/ row[g].html = "page"
           \/ \E w \in Workers : pc[w] = "finished" /\ Gen(w) = g

PageInv == \A g \in Gens : row[g].status = "completed" => row[g].html = "page"

LEMMA NoFault ==
  ASSUME TypeOK, faults'.count = 0, NEW kind
  PROVE  ~Fault(kind)
<1>1. faults \in Exposure
  BY DEF TypeOK
<1>2. Fault(kind) => faults'.count = faults.count + 1 /\ faults.count \in Nat
  BY <1>1, BoundAssumption, SMTT(60) DEF Fault, Exposure
<1> QED  BY <1>2

\* A count of faults that is zero after a step was zero before it.
LEMMA CountBefore ==
  ASSUME TypeOK, [Next]_vars, faults'.count = 0
  PROVE  UNCHANGED faults
BY NoFault
DEF Next, vars, CreateRow, PublishTask, RequestLost, Deliver, Ack, Crash, Requeue,
    Execute, FindById, MarkRunning, PublishRunning, OpenStream, StreamEvent,
    SaveResult, PublishCompleted, MarkError, MarkFailed, PublishFailed, WriteRow,
    Notify

LEMMA PageNext ==
  ASSUME TypeOK, PageInv, [Next]_vars
  PROVE  PageInv'
<1>1. ASSUME NEW g \in Gens, NEW new, row' \in {row, [row EXCEPT ![g] = new]},
             new.status = "completed" => new.html = "page"
      PROVE  PageInv'
  BY <1>1 DEF PageInv, TypeOK
<1>2. ASSUME NEW g \in Gens, CreateRow(g) PROVE PageInv'
  <2>1. row' \in {row, [row EXCEPT ![g] = Pending]}
    BY <1>2 DEF CreateRow, Write
  <2>2. Pending.status # "completed"
    BY DEF Pending
  <2> HIDE DEF Pending
  <2> QED  BY <1>1, <2>1, <2>2
<1>3. ASSUME NEW w \in Workers, Execute(w) PROVE PageInv'
  <2> DEFINE g == Gen(w)
  <2>1. g \in Gens
    BY <1>3, ExecuteFrame, GenOfBusy
  <2>2. CASE MarkRunning(w)
    <3> DEFINE new == [row[g] EXCEPT !.status = "running"]
    <3>1. new.status # "completed"
      BY <2>1, NewStatuses
    <3>2. row' \in {row, [row EXCEPT ![g] = new]}
      BY <2>2 DEF MarkRunning, WriteRow, Write
    <3> HIDE DEF new, g
    <3> QED  BY <1>1, <2>1, <3>1, <3>2
  <2>3. CASE SaveResult(w)
    <3> DEFINE new == [row[g] EXCEPT !.status = "completed", !.html = "page"]
    <3>1. new.html = "page"
      BY <2>1 DEF TypeOK, Row
    <3>2. row' \in {row, [row EXCEPT ![g] = new]}
      BY <2>3 DEF SaveResult, WriteRow, Write
    <3> HIDE DEF new, g
    <3> QED  BY <1>1, <2>1, <3>1, <3>2
  <2>4. CASE MarkError(w) \/ MarkFailed(w)
    <3>1. Failed(g).status # "completed"
      BY <2>1, NewStatuses
    <3>2. row' \in {row, [row EXCEPT ![g] = Failed(g)]}
      BY <2>4 DEF MarkError, MarkFailed, WriteRow, Write
    <3> HIDE DEF g
    <3> QED  BY <1>1, <2>1, <3>1, <3>2
  <2>5. CASE UNCHANGED row
    BY <2>5 DEF PageInv
  <2> QED  BY <1>3, <2>2, <2>3, <2>4, <2>5
           DEF Execute, FindById, PublishRunning, OpenStream, StreamEvent,
               PublishCompleted, PublishFailed
<1>4. CASE UNCHANGED row
  BY <1>4 DEF PageInv
<1> QED  BY <1>2, <1>3, <1>4
         DEF Next, vars, PublishTask, RequestLost, Deliver, Ack, Crash, Requeue

LEMMA KeptStays ==
  ASSUME TypeOK, Begun, [Next]_vars, faults'.count = 0, NEW g \in Gens, Kept(g)
  PROVE  Kept(g)'
<1>1. ASSUME NEW h \in Gens, CreateRow(h) PROVE Kept(g)'
  <2>1. UNCHANGED <<pc, task>> /\ \A k \in Gens \ {h} : row'[k] = row[k]
    BY <1>1 DEF CreateRow, Write, TypeOK
  <2>2. CASE g = h
    <3>1. row[g].html = "none" /\ \A w \in Workers : pc[w] # "idle" => Gen(w) # g
      BY <1>1, <2>2, BusyBegun DEF CreateRow, Begun, Absent
    <3> QED  BY <3>1 DEF Kept
  <2> QED  BY <2>1, <2>2 DEF Kept, Gen
<1>2. ASSUME NEW w \in Workers, Execute(w) PROVE Kept(g)'
  <2>1. /\ pc[w] # "idle" /\ UNCHANGED task /\ Gen(w) \in Gens
        /\ \A v \in Workers \ {w} : pc'[v] = pc[v]
        /\ row[g].html = "page" => row'[g].html = "page"
    BY <1>2, ExecuteFrame, GenOfBusy, WritesAdd
  <2>2. CASE row[g].html = "page"
    BY <2>1, <2>2 DEF Kept
  <2>3. CASE row[g].html # "page"
    <3>1. PICK v \in Workers : pc[v] = "finished" /\ Gen(v) = g
      BY <2>3 DEF Kept
    <3>2. CASE v # w
      BY <2>1, <3>1, <3>2 DEF Kept, Gen
    <3>3. CASE v = w
      <4>1. SaveResult(w)
        BY <1>2, <3>1, <3>3
        DEF Execute, FindById, MarkRunning, PublishRunning, OpenStream,
            StreamEvent, PublishCompleted, MarkError, MarkFailed, PublishFailed
      <4>2. row' = [row EXCEPT ![g] = [row[g] EXCEPT !.status = "completed",
                                                     !.html = "page"]]
        BY <3>1, <3>3, <4>1, NoFault DEF SaveResult, WriteRow, Write
      <4>3. row'[g].html = "page"
        BY <4>2 DEF TypeOK, Row
      <4> QED  BY <4>3 DEF Kept
    <3> QED  BY <3>2, <3>3
  <2> QED  BY <2>2, <2>3
<1>3. ASSUME UNCHANGED row,
             \A w \in Workers : pc[w] = "finished" =>
                                  pc'[w] = "finished" /\ task'[w] = task[w]
      PROVE  Kept(g)'
  BY <1>3 DEF Kept, Gen
<1>4. ASSUME NEW h \in Gens, PublishTask(h) \/ RequestLost(h) PROVE Kept(g)'
  BY <1>3, <1>4 DEF PublishTask, RequestLost
<1>5. ASSUME NEW w \in Workers, NEW c \in Copies, Deliver(w, c) PROVE Kept(g)'
  BY <1>3, <1>5 DEF Deliver, Goto, TypeOK
<1>6. ASSUME NEW w \in Workers, Ack(w) PROVE Kept(g)'
  BY <1>3, <1>6 DEF Ack, Release, Goto, TypeOK
<1>7. ASSUME NEW w \in Workers, Crash(w) \/ Requeue(w) PROVE FALSE
  BY <1>7, NoFault DEF Crash, Requeue
<1>8. CASE UNCHANGED vars
  BY <1>3, <1>8 DEF vars
<1> QED  BY <1>1, <1>2, <1>4, <1>5, <1>6, <1>7, <1>8 DEF Next

\* Whoever announces that the stream is done has the result in its hands.
LEMMA DoneKept ==
  ASSUME TypeOK, [Next]_vars, faults'.count = 0, NEW g \in Gens,
         feed'[g] # feed[g], Latest(g) = "done"
  PROVE  Kept(g)'
<1>1. ASSUME NEW w \in Workers, pc[w] # "idle", NEW event \in Events,
             NEW ok, NEW raised, Notify(w, event, ok, raised)
      PROVE  Gen(w) = g /\ event = "done" /\ pc'[w] = ok
  <2>1. feed' = [feed EXCEPT ![Gen(w)] = Append(@, event)] /\ pc'[w] = ok
    BY <1>1, NoFault DEF Notify, Goto, TypeOK
  <2>2. Gen(w) \in Gens /\ Gen(w) = g /\ feed[g] \in Seq(Events)
    BY <1>1, <2>1, GenOfBusy DEF TypeOK
  <2>3. feed'[g] = Append(feed[g], event)
    BY <2>1, <2>2 DEF TypeOK
  <2>4. Latest(g) = event
    BY <2>2, <2>3 DEF Latest
  <2> QED  BY <2>1, <2>2, <2>4
<1>2. ASSUME NEW w \in Workers, Execute(w) PROVE Kept(g)'
  <2>1. pc[w] # "idle" /\ UNCHANGED task
    BY <1>2, ExecuteFrame
  <2>2. \A event \in Events \ {"done"} :
          \A ok, raised : ~Notify(w, event, ok, raised)
    BY <1>1, <2>1
  <2>3. Notify(w, "done", "finished", "excepted")
    BY <1>2, <2>2
    DEF Execute, FindById, MarkRunning, PublishRunning, OpenStream, StreamEvent,
        SaveResult, PublishCompleted, MarkError, MarkFailed, PublishFailed, Events
  <2>4. Gen(w) = g /\ pc'[w] = "finished"
    BY <1>1, <2>1, <2>3 DEF Events
  <2> QED  BY <2>1, <2>4 DEF Kept, Gen
<1> QED  BY <1>2
         DEF Next, vars, CreateRow, PublishTask, RequestLost, Deliver, Ack, Crash,
             Requeue

ShownInv ==
  faults.count = 0 =>
    /\ \A i \in DOMAIN inbox : inbox[i].event = "done" => Kept(inbox[i].gen)
    /\ result # None => Kept(result)

LEMMA ShownNext ==
  ASSUME LiveTypeOK, Begun, PageInv, ShownInv, [LiveNext]_liveVars
  PROVE  ShownInv'
<1> SUFFICES ASSUME faults'.count = 0
             PROVE  (/\ \A i \in DOMAIN inbox :
                          inbox[i].event = "done" => Kept(inbox[i].gen)
                     /\ result # None => Kept(result))'
  BY DEF ShownInv
<1>1. TypeOK /\ [Next]_vars /\ faults.count = 0
  BY BackendStep, CountBefore DEF LiveTypeOK
<1>2. \A g \in Gens : Kept(g) => Kept(g)'
  BY <1>1, KeptStays
<1>3. \A g \in Gens : feed'[g] # feed[g] /\ Latest(g) = "done" => Kept(g)'
  BY <1>1, DoneKept
<1>4. /\ inbox \in Seq(Message) /\ result \in Page
      /\ \A j \in DOMAIN inbox : inbox[j] \in Message
  <2>1. inbox \in Seq(Message)
    BY DEF LiveTypeOK, Message
  <2>2. \A j \in DOMAIN inbox : inbox[j] \in Message
    BY <2>1, LenProperties, ElementOfSeq
  <2> QED  BY <2>1, <2>2 DEF LiveTypeOK
<1> DEFINE KeptNow == {g \in Gens : Kept(g)'}
<1>5. ASSUME NEW i \in DOMAIN inbox', inbox'[i].event = "done"
      PROVE  inbox'[i].gen \in KeptNow
  <2>1. ASSUME NEW j \in DOMAIN inbox, inbox'[i] = inbox[j]
        PROVE  inbox'[i].gen \in KeptNow
    BY <1>1, <1>2, <1>4, <1>5, <2>1 DEF ShownInv, Message
  <2>2. ASSUME NEW g \in Gens, feed'[g] # feed[g],
               inbox'[i] = [gen |-> g, event |-> Latest(g)]
        PROVE  inbox'[i].gen \in KeptNow
    BY <1>3, <1>5, <2>2
  <2> QED  BY <2>1, <2>2, InboxStep
<1>6. ASSUME result' # None PROVE result' \in KeptNow
  <2>1. CASE result' = result
    BY <1>1, <1>2, <1>4, <1>6, <2>1 DEF ShownInv, Page
  <2>2. CASE HandleWsEvent /\ result' # result
    <3>1. /\ Head(inbox).event = "done" /\ result' = Head(inbox).gen
          /\ inbox # << >>
      BY <2>2 DEF HandleWsEvent, Show, Channel!Handle
    <3>2. Head(inbox) = inbox[1] /\ 1 \in DOMAIN inbox
      BY <1>4, <3>1
    <3> QED  BY <1>1, <1>2, <1>4, <3>1, <3>2 DEF ShownInv, Message
  <2>3. ASSUME NEW g \in Gens, Viewed(g), result' # result
        PROVE  result' \in KeptNow
    <3>1. result' = g /\ row[g].status = "completed"
      BY <2>3 DEF Viewed
    <3> QED  BY <1>2, <3>1 DEF PageInv, Kept
  <2> QED  BY <1>6, <2>1, <2>2, <2>3
           DEF LiveNext, liveVars, Backend, Bind, Deafen, Close, Posted, ReadList,
               SetHistory, Generate, ClickHistory, Turn, form
<1> QED  BY <1>5, <1>6 DEF Kept, Gen

\* What the page shows when nothing has failed is in the row, or its executor is
\* about to put it there.
THEOREM ShownIsStoredAlways == LiveSpec => []ShownIsStored
<1> DEFINE IInv == LiveTypeOK /\ CleanInv /\ PageInv /\ ShownInv
<1>1. LiveInit => IInv
  BY LiveInitTyped, QuietClean
  DEF LiveInit, Quiet, Absent, PageInv, ShownInv, Channel!Init
<1>2. IInv /\ [LiveNext]_liveVars => IInv'
  BY LiveNextTyped, CleanNow, BackendStep, PageNext, ShownNext
  DEF LiveTypeOK, CleanInv, DeliveryInv
<1>3. IInv => ShownIsStored
  BY DEF LiveTypeOK, ShownInv, Kept, ShownIsStored, Page
<1> QED  BY <1>1, <1>2, <1>3, PTL DEF LiveSpec

-----------------------------------------------------------------------------
(***************************************************************************)
(* What the backend guarantees alone it guarantees under the page: every   *)
(* step of the composition is one of the backend or leaves it alone, and   *)
(* the past that the page finds satisfies each inductive invariant.        *)
(***************************************************************************)
Guarantee ==
  /\ OneExecutor /\ AtMostOneCall
  /\ FeedOrdered /\ LastEventAgrees /\ FeedTruthful
  /\ PendingAccountedFor /\ RunningIsExecuted /\ HeldIsRun

BackendInv ==
  /\ CleanInv /\ CallInv /\ TruthInv
  /\ PendingAccountedFor /\ RunningIsExecuted /\ HolderInv

LEMMA QuietInv == Quiet => BackendInv
<1> SUFFICES ASSUME Quiet PROVE BackendInv
  OBVIOUS
<1>1. CleanInv
  BY QuietClean
<1>2. OneCallInv
  BY DEF Quiet, OneCallInv, Fresh, Absent
<1>3. TruthInv
  <2>1. \A g \in Gens : \A i \in DOMAIN feed[g] :
          feed[g][i] \notin {"failed"} /\ row[g].html = "page"
    BY DEF Quiet
  <2> QED  BY <2>1 DEF Quiet, TruthInv, FeedTruthful
<1>4. \A g \in Gens : row[g].status \notin {"pending", "running"}
  BY DEF Quiet, Absent
<1>5. HolderInv
  BY NameAssumption DEF Quiet, HolderInv, Resting
<1> QED  BY <1>1, <1>2, <1>3, <1>4, <1>5
         DEF BackendInv, CleanInv, CallInv, PendingAccountedFor, RunningIsExecuted

LEMMA BackendNext == BackendInv /\ [Next]_vars => BackendInv'
BY CleanNext, CallNext, TruthNext, PendingKept, RunningKept, HolderNext
DEF BackendInv, CleanInv, DeliveryInv

LEMMA BackendGuarantees == BackendInv => Guarantee
<1>1. DeliveryInv => OneExecutor
  BY ExclusiveOne DEF DeliveryInv, OneExecutor
<1>2. BackendInv => HeldIsRun
  BY HolderRuns DEF BackendInv, CleanInv, DeliveryInv
<1> QED  BY <1>1, <1>2, CallOnce, CleanOrdered, CleanAgrees
         DEF BackendInv, CleanInv, TruthInv, Guarantee

\* Whatever the page asks for and however its socket and its requests fail, no two
\* processes run one generation, no stream is opened twice, the feeds are
\* ordered, true and final, no task is lost or stranded and no run is forgotten:
\* each under the profiles its property names.
THEOREM BackendGuaranteed == LiveSpec => []Guarantee
<1>1. LiveInit => BackendInv
  BY QuietInv DEF LiveInit
<1>2. BackendInv /\ [LiveNext]_liveVars => BackendInv'
  BY BackendStep, BackendNext
<1> QED  BY <1>1, <1>2, BackendGuarantees, PTL DEF LiveSpec

\* A row that the page loads, lists or waits for only ever takes the steps of the
\* life cycle of models/status.py, from whatever past the page is opened on.
THEOREM LiveLifecycle ==
  ASSUME \A kinds \in Profiles : kinds \subseteq {"publish", "crash", "db"}
  PROVE  LiveSpec => [][Lifecycle!Next]_status
<1>1. TypeOK => CleanFaults
  BY DEF TypeOK, Exposure, CleanFaults
<1>2. LiveInit => BackendInv
  BY QuietInv DEF LiveInit
<1>3. BackendInv /\ [LiveNext]_liveVars => BackendInv'
  BY BackendStep, BackendNext
<1>4. BackendInv /\ [LiveNext]_liveVars => [Lifecycle!Next]_status
  BY <1>1, BackendStep, LifecycleStep DEF BackendInv, CleanInv, DeliveryInv
<1> QED  BY <1>2, <1>3, <1>4, PTL DEF LiveSpec

-----------------------------------------------------------------------------
(***************************************************************************)
(* What the page waits for.                                                *)
(***************************************************************************)
\* The end of the LLM stream of g was published; it is on its way to the page.
Ended(g)  == \E j \in DOMAIN feed[g] : feed[g][j] \in Ends
Coming(g) == \E i \in DOMAIN inbox : inbox[i].gen = g /\ inbox[i].event \in Ends

Begins == {"received", "checked"}
Talks  == {"marked", "announced", "streaming"}

\* Somebody is on his way to the end of the LLM stream of g: the request that will
\* publish the task, the queue that has it, or the process that executes it.
Underway(g) ==
  \/ /\ row[g].status = "pending"
     /\ \/ req[g] = "created"
        \/ loc[<<g, 1>>] = "ready"
        \/ \E w \in Workers : pc[w] \in Begins /\ Gen(w) = g
  \/ \E w \in Workers : pc[w] \in Talks /\ Gen(w) = g

\* The page never waits in vain: the end that it waits for is on its way to it if
\* it was published, whatever fails, and being worked for if nothing has
\* failed yet; unless it was missed.
WaitsForSomething ==
  \A g \in Awaited \ missed :
    /\ Ended(g) => Coming(g)
    /\ faults.count = 0 => Coming(g) \/ Underway(g)

\* As long as nothing fails, a generation that was asked for is underway or ended.
FlowInv ==
  faults.count = 0 =>
    /\ \A g \in Gens : req[g] # "none" => Underway(g) \/ Ended(g)
    /\ \A w \in Workers :
         /\ pc[w] \in {"finished", "refused"} => Ended(Gen(w))
         /\ pc[w] \notin {"excepted", "recorded"}

LEMMA EndedStays ==
  ASSUME TypeOK, [Next]_vars, NEW g \in Gens, Ended(g)
  PROVE  Ended(g)'
<1>1. PICK j \in DOMAIN feed[g] : feed[g][j] \in Ends
  BY DEF Ended
<1>2. feed[g] \in Seq(Events)
  BY DEF TypeOK
<1>3. ASSUME NEW event \in Events, feed'[g] = Append(feed[g], event)
      PROVE  j \in DOMAIN feed'[g] /\ feed'[g][j] = feed[g][j]
  BY <1>1, <1>2, <1>3, AppendProperties
<1>4. j \in DOMAIN feed'[g] /\ feed'[g][j] = feed[g][j]
  BY <1>1, <1>3, FeedStep
<1> QED  BY <1>1, <1>4 DEF Ended

\* One notification of a step that does not fail.
LEMMA Notified1 ==
  ASSUME TypeOK, NEW w \in Workers, pc[w] # "idle", NEW event \in Events,
         NEW ok, NEW raised, faults'.count = 0, Notify(w, event, ok, raised)
  PROVE  Goto(w, ok) /\ (event \in Ends => \E j \in DOMAIN feed'[Gen(w)] :
                                               feed'[Gen(w)][j] \in Ends)
<1> DEFINE g == Gen(w)
<1>1. /\ feed' = [feed EXCEPT ![g] = Append(@, event)] /\ Goto(w, ok)
      /\ g \in Gens /\ feed[g] \in Seq(Events)
  BY NoFault, GenOfBusy DEF Notify, TypeOK
<1> HIDE DEF g
<1>2. feed'[g] = Append(feed[g], event)
  BY <1>1 DEF TypeOK
<1>3. Len(feed[g]) + 1 \in DOMAIN feed'[g] /\ feed'[g][Len(feed[g]) + 1] = event
  BY <1>1, <1>2
<1> QED  BY <1>1, <1>3 DEF g

\* What becomes of the process that makes a step.
LEMMA FlowExecute ==
  ASSUME TypeOK, FlowInv, NEW w \in Workers, Execute(w), faults'.count = 0,
         [Next]_vars
  PROVE  /\ pc'[w] \in {"finished", "refused"} => Ended(Gen(w))'
         /\ pc'[w] \notin {"excepted", "recorded"}
         /\ row'[Gen(w)].status = row[Gen(w)].status
              \/ pc'[w] \in Talks \/ Ended(Gen(w))
         /\ pc[w] \in Begins \cup Talks =>
              \/ row[Gen(w)].status = "pending" => pc'[w] \in Begins
              \/ pc'[w] \in Talks
              \/ Ended(Gen(w))'
         /\ pc[w] \in Talks => pc'[w] \in Talks \/ Ended(Gen(w))'
<1>0. PICK g \in Gens : g = Gen(w)
  BY ExecuteFrame, GenOfBusy
<1>1. /\ pc[w] \notin {"idle", "closing"} /\ UNCHANGED <<req, loc, task>>
      /\ faults.count = 0 /\ Gen(w) = g /\ Gen(w)' = g
      /\ \A label : Goto(w, label) => pc'[w] = label
  BY <1>0, ExecuteFrame, CountBefore DEF Gen, Goto, TypeOK
<1> SUFFICES /\ pc'[w] \in {"finished", "refused"} => Ended(g)'
             /\ pc'[w] \notin {"excepted", "recorded"}
             /\ row'[g].status = row[g].status \/ pc'[w] \in Talks \/ Ended(g)
             /\ pc[w] \in Begins \cup Talks =>
                  \/ row[g].status = "pending" => pc'[w] \in Begins
                  \/ pc'[w] \in Talks
                  \/ Ended(g)'
             /\ pc[w] \in Talks => pc'[w] \in Talks \/ Ended(g)'
  BY <1>1 DEF Ended
<1>2. /\ pc[w] \in {"finished", "refused"} => Ended(g) /\ Ended(g)'
      /\ pc[w] \notin {"excepted", "recorded"}
  BY <1>1, EndedStays DEF FlowInv
<1>3. \A new, ok, raised : WriteRow(w, new, ok, raised) => pc'[w] = ok
  BY <1>1, NoFault DEF WriteRow
<1>4. ASSUME NEW event \in Events, NEW ok, NEW raised, Notify(w, event, ok, raised)
      PROVE  pc'[w] = ok /\ (event \in Ends => Ended(g)')
  BY <1>1, <1>4, Notified1 DEF Ended
<1>5. CASE FindById(w)
  BY <1>1, <1>5, NoFault DEF FindById, Begins, Talks
<1>6. CASE MarkRunning(w)
  BY <1>3, <1>6 DEF MarkRunning, Begins, Talks
<1>7. CASE PublishRunning(w)
  BY <1>4, <1>7 DEF PublishRunning, Events, Begins, Talks
<1>8. CASE OpenStream(w)
  BY <1>1, <1>8 DEF OpenStream, Begins, Talks
<1>9. CASE StreamEvent(w)
  <2>1. CASE Notify(w, "tool", "streaming", "excepted")
    <3>1. pc'[w] = "streaming" /\ UNCHANGED row
      BY <1>4, <1>9, <2>1 DEF StreamEvent, Events
    <3> QED  BY <3>1 DEF Talks
  <2>2. CASE Notify(w, "done", "finished", "excepted")
    <3>1. pc'[w] = "finished" /\ Ended(g)' /\ UNCHANGED row
      BY <1>4, <1>9, <2>2 DEF StreamEvent, Events, Ends
    <3> QED  BY <3>1
  <2>3. CASE Notify(w, "error", "refused", "excepted")
    <3>1. pc'[w] = "refused" /\ Ended(g)' /\ UNCHANGED row
      BY <1>4, <1>9, <2>3 DEF StreamEvent, Events, Ends
    <3> QED  BY <3>1
  <2> QED  BY <1>9, <2>1, <2>2, <2>3 DEF StreamEvent
<1>10. CASE SaveResult(w)
  BY <1>2, <1>3, <1>10 DEF SaveResult, Begins, Talks
<1>11. CASE PublishCompleted(w)
  BY <1>4, <1>11 DEF PublishCompleted, Events, Begins, Talks
<1>12. CASE MarkError(w)
  BY <1>2, <1>3, <1>12 DEF MarkError, Begins, Talks
<1>13. CASE MarkFailed(w) \/ PublishFailed(w)
  BY <1>2, <1>13 DEF MarkFailed, PublishFailed
<1> QED  BY <1>5, <1>6, <1>7, <1>8, <1>9, <1>10, <1>11, <1>12, <1>13 DEF Execute

\* A step that does not fail keeps the generations underway.
LEMMA FlowNext == TypeOK /\ Begun /\ FlowInv /\ [Next]_vars => FlowInv'
<1> SUFFICES ASSUME TypeOK, Begun, FlowInv, [Next]_vars, faults'.count = 0
             PROVE  /\ \A g \in Gens : req'[g] # "none" => Underway(g)' \/ Ended(g)'
                    /\ \A w \in Workers :
                         /\ pc'[w] \in {"finished", "refused"} => Ended(Gen(w))'
                         /\ pc'[w] \notin {"excepted", "recorded"}
  BY DEF FlowInv
<1> DEFINE Flows == \A g \in Gens : req'[g] # "none" => Underway(g)' \/ Ended(g)'
           Means(w) == /\ pc'[w] \in {"finished", "refused"} => Ended(Gen(w))'
                       /\ pc'[w] \notin {"excepted", "recorded"}
<1>1. /\ \A g \in Gens : req[g] # "none" => Underway(g) \/ Ended(g)
      /\ \A w \in Workers : /\ pc[w] \in {"finished", "refused"} => Ended(Gen(w))
                            /\ pc[w] \notin {"excepted", "recorded"}
  BY CountBefore DEF FlowInv
<1>2. \A g \in Gens : Ended(g) => Ended(g)'
  BY EndedStays
\* A process that makes no step means what it meant.
<1>3. ASSUME NEW w \in Workers, pc'[w] = pc[w], task'[w] = task[w], pc[w] # "idle"
      PROVE  Means(w)
  <2>1. PICK g \in Gens : g = Gen(w) /\ Gen(w)' = g
    BY <1>3, GenOfBusy DEF Gen
  <2>2. pc[w] \in {"finished", "refused"} => Ended(g)'
    BY <1>1, <1>2, <2>1
  <2> QED  BY <1>1, <1>3, <2>1, <2>2 DEF Ended
<1>4. ASSUME NEW w \in Workers, pc'[w] \in {"idle", "received", "closing"}
      PROVE  Means(w)
  BY <1>4
<1>5. ASSUME NEW g \in Gens, CreateRow(g) PROVE Flows /\ \A w \in Workers : Means(w)
  <2>1. /\ req[g] = "none" /\ req' = [req EXCEPT ![g] = "created"]
        /\ row' = [row EXCEPT ![g] = Pending]
        /\ UNCHANGED <<loc, pc, task, feed>>
    BY <1>5, NoFault DEF CreateRow, Write
  <2>2. Underway(g)'
    BY <2>1 DEF Underway, Pending, TypeOK
  <2>3. \A h \in Gens \ {g} : Underway(h) => Underway(h)'
    BY <2>1 DEF Underway, Gen, TypeOK
  <2>4. \A h \in Gens \ {g} : req'[h] = req[h]
    BY <2>1 DEF TypeOK
  <2>5. Flows
    BY <1>1, <1>2, <2>2, <2>3, <2>4
  <2> QED  BY <1>3, <1>4, <2>1, <2>5
<1>6. ASSUME NEW g \in Gens, PublishTask(g) PROVE Flows /\ \A w \in Workers : Means(w)
  <2>1. /\ req[g] = "created" /\ req' = [req EXCEPT ![g] = "accepted"]
        /\ Send(g, {1}) /\ UNCHANGED <<row, pc, task, feed>>
    BY <1>6, NoFault DEF PublishTask, Answer
  <2>2. /\ loc'[<<g, 1>>] = "ready"
        /\ \A h \in Gens \ {g} : loc'[<<h, 1>>] = loc[<<h, 1>>]
    BY <2>1 DEF Send, Copies
  <2>3. \A h \in Gens \ {g} : req'[h] = req[h]
    BY <2>1 DEF TypeOK
  <2>4. \A h \in Gens : Underway(h) => Underway(h)'
    BY <2>1, <2>2, <2>3 DEF Underway, Gen
  <2>5. Flows
    BY <1>1, <1>2, <2>1, <2>3, <2>4
  <2> QED  BY <1>3, <1>4, <2>1, <2>5
<1>7. ASSUME NEW v \in Workers, NEW c \in Copies, Deliver(v, c)
      PROVE  Flows /\ \A w \in Workers : Means(w)
  <2>1. /\ pc[v] = "idle" /\ pc'[v] = "received" /\ task'[v] = c
        /\ UNCHANGED <<row, req, feed>>
        /\ \A d \in Copies \ {c} : loc'[d] = loc[d]
        /\ \A w \in Workers \ {v} : pc'[w] = pc[w] /\ task'[w] = task[w]
    BY <1>7 DEF Deliver, Goto, TypeOK
  <2>2. ASSUME NEW h \in Gens, Underway(h) PROVE Underway(h)'
    <3>1. CASE row[h].status = "pending" /\ loc[<<h, 1>>] = "ready"
      <4>1. <<h, 1>> \in Copies
        BY DEF Copies
      <4>2. CASE c = <<h, 1>>
        <5>1. pc'[v] \in Begins /\ Gen(v)' = h
          BY <2>1, <4>2 DEF Begins, Gen
        <5> QED  BY <2>1, <3>1, <5>1 DEF Underway
      <4>3. CASE c # <<h, 1>>
        BY <2>1, <3>1, <4>1, <4>3 DEF Underway
      <4> QED  BY <4>2, <4>3
    <3>2. ASSUME NEW w \in Workers, pc[w] \in Begins \cup Talks, Gen(w) = h
          PROVE  pc'[w] = pc[w] /\ Gen(w)' = h
      BY <2>1, <3>2 DEF Begins, Talks, Gen
    <3> QED  BY <2>1, <2>2, <3>1, <3>2 DEF Underway
  <2>3. Flows
    BY <1>1, <1>2, <2>1, <2>2
  <2>4. ASSUME NEW w \in Workers PROVE Means(w)
    <3>1. CASE w = v
      BY <1>4, <2>1, <3>1
    <3>2. CASE w # v
      BY <1>3, <1>4, <2>1, <3>2
    <3> QED  BY <3>1, <3>2
  <2> QED  BY <2>3, <2>4
<1>8. ASSUME NEW v \in Workers, Execute(v)
      PROVE  Flows /\ \A w \in Workers : Means(w)
  <2>1. /\ pc[v] # "idle" /\ UNCHANGED <<req, loc, task>>
        /\ \A w \in Workers \ {v} : pc'[w] = pc[w]
        /\ \A h \in Gens : h # Gen(v) => row'[h] = row[h]
        /\ Means(v)
        /\ row'[Gen(v)].status = row[Gen(v)].status
             \/ pc'[v] \in Talks \/ Ended(Gen(v))
        /\ pc[v] \in Begins \cup Talks =>
             \/ row[Gen(v)].status = "pending" => pc'[v] \in Begins
             \/ pc'[v] \in Talks
             \/ Ended(Gen(v))'
        /\ pc[v] \in Talks => pc'[v] \in Talks \/ Ended(Gen(v))'
    BY <1>8, ExecuteFrame, FlowExecute
  <2>2. PICK g \in Gens : g = Gen(v) /\ Gen(v)' = g
    BY <2>1, GenOfBusy DEF Gen
  <2>3. /\ row'[g].status = row[g].status \/ pc'[v] \in Talks \/ Ended(g)'
        /\ pc[v] \in Begins \cup Talks =>
             \/ row[g].status = "pending" => pc'[v] \in Begins
             \/ pc'[v] \in Talks
             \/ Ended(g)'
        /\ pc[v] \in Talks => pc'[v] \in Talks \/ Ended(g)'
    BY <1>2, <2>1, <2>2 DEF Ended
  <2>4. ASSUME NEW h \in Gens, Underway(h) PROVE Underway(h)' \/ Ended(h)'
    <3>1. ASSUME NEW w \in Workers, w # v, Gen(w) = h
          PROVE  pc'[w] = pc[w] /\ Gen(w)' = h
      BY <2>1, <3>1 DEF Gen
    <3>2. CASE h # g
      <4>1. row'[h] = row[h] /\ \A w \in Workers : Gen(w) = h => w # v
        BY <2>1, <2>2, <3>2
      <4> QED  BY <2>1, <2>4, <3>1, <4>1 DEF Underway
    <3>3. CASE h = g /\ ~Ended(g)' /\ pc'[v] \notin Talks
      <4>1. row'[g].status = row[g].status /\ pc[v] \notin Talks
        BY <2>3, <3>3
      <4>2. ASSUME NEW w \in Workers, pc[w] \in Begins, Gen(w) = g,
                   row[g].status = "pending"
            PROVE  pc'[w] \in Begins /\ Gen(w)' = g
        BY <2>2, <2>3, <3>1, <3>3, <4>2
      <4>3. ASSUME NEW w \in Workers, pc[w] \in Talks, Gen(w) = g
            PROVE  pc'[w] \in Talks /\ Gen(w)' = g
        BY <3>1, <3>3, <4>1, <4>3
      <4> QED  BY <2>1, <2>4, <3>3, <4>1, <4>2, <4>3 DEF Underway
    <3>4. CASE h = g /\ pc'[v] \in Talks
      BY <2>2, <3>4 DEF Underway
    <3> QED  BY <3>2, <3>3, <3>4
  <2>5. Flows
    BY <1>1, <1>2, <2>1, <2>4
  <2>6. \A w \in Workers : Means(w)
    BY <1>3, <1>4, <2>1
  <2> QED  BY <2>5, <2>6
<1>9. ASSUME NEW v \in Workers, Ack(v) PROVE Flows /\ \A w \in Workers : Means(w)
  <2>1. /\ pc[v] = "closing" /\ pc'[v] = "idle" /\ UNCHANGED <<row, req, feed>>
        /\ \A w \in Workers \ {v} : pc'[w] = pc[w] /\ task'[w] = task[w]
        /\ \A c \in Copies : loc[c] = "ready" => loc'[c] = "ready"
    <3>1. v # "ready"
      BY NameAssumption DEF Resting
    <3> QED  BY <1>9, <3>1 DEF Ack, Release, Holds, Goto, TypeOK
  <2>2. ASSUME NEW h \in Gens, Underway(h) PROVE Underway(h)'
    <3>1. <<h, 1>> \in Copies
      BY DEF Copies
    <3>2. ASSUME NEW w \in Workers, pc[w] \in Begins \cup Talks, Gen(w) = h
          PROVE  pc'[w] = pc[w] /\ Gen(w)' = h
      BY <2>1, <3>2 DEF Begins, Talks, Gen
    <3> QED  BY <2>1, <2>2, <3>1, <3>2 DEF Underway
  <2>3. Flows
    BY <1>1, <1>2, <2>1, <2>2
  <2>4. ASSUME NEW w \in Workers PROVE Means(w)
    <3>1. CASE w = v
      BY <1>4, <2>1, <3>1
    <3>2. CASE w # v
      BY <1>3, <1>4, <2>1, <3>2
    <3> QED  BY <3>1, <3>2
  <2> QED  BY <2>3, <2>4
<1>10. ASSUME NEW g \in Gens, RequestLost(g) PROVE FALSE
  BY <1>10, NoFault DEF RequestLost
<1>11. ASSUME NEW w \in Workers, Crash(w) \/ Requeue(w) PROVE FALSE
  BY <1>11, NoFault DEF Crash, Requeue
<1>12. CASE UNCHANGED vars
  <2>1. \A h \in Gens : Underway(h) => Underway(h)'
    BY <1>12 DEF vars, Underway, Gen
  <2> QED  BY <1>1, <1>2, <1>3, <1>4, <1>12, <2>1 DEF vars
<1> QED  BY <1>5, <1>6, <1>7, <1>8, <1>9, <1>10, <1>11, <1>12 DEF Next

\* Nothing is asked for yet, and the past is over.
LEMMA QuietFlow == Quiet => FlowInv
<1> SUFFICES ASSUME Quiet PROVE FlowInv
  OBVIOUS
<1>1. ASSUME NEW g \in Gens, req[g] # "none" PROVE Ended(g)
  <2>1. feed[g] = <<"running", "done", "completed">>
    BY <1>1 DEF Quiet
  <2>2. 2 \in DOMAIN feed[g] /\ feed[g][2] = "done"
    BY <2>1
  <2> QED  BY <2>2 DEF Ended, Ends
<1>2. \A w \in Workers : pc[w] = "idle"
  BY DEF Quiet
<1> QED  BY <1>1, <1>2 DEF FlowInv

\* What was published is still on its way to the page that waits for it, whatever
\* fails, or counts as missed; nothing is on its way through a closed socket.
WaitInv ==
  /\ \A g \in Awaited \ missed : Ended(g) => Coming(g)
  /\ state = "off" => inbox = << >>
  /\ posting # None => req[posting] # "none"

\* A row is not taken back.
LEMMA AskedStays ==
  ASSUME TypeOK, [Next]_vars, NEW g \in Gens, req[g] # "none"
  PROVE  req'[g] # "none"
BY ExecuteFrame
DEF TypeOK, Next, vars, CreateRow, PublishTask, RequestLost, Answer, Deliver, Ack,
    Crash, Requeue

LEMMA AwaitedTyped ==
  ASSUME LiveTypeOK
  PROVE  Awaited \subseteq Gens /\ (posting # None => posting \in Gens)
BY DEF LiveTypeOK, Awaited, Page

\* One step publishes about one generation.
LEMMA OneFeed ==
  ASSUME TypeOK, [Next]_vars, NEW g \in Gens, feed'[g] # feed[g]
  PROVE  \A h \in Gens \ {g} : feed'[h] = feed[h]
<1>1. PICK w \in Workers : Execute(w)
  BY DEF Next, vars, CreateRow, PublishTask, RequestLost, Deliver, Ack, Crash,
         Requeue
<1> QED  BY <1>1, ExecuteFrame

\* Publishing: the end goes into the subscription, or is missed.
LEMMA WaitPublish ==
  ASSUME LiveTypeOK, WaitInv, [Next]_vars, Notified, UNCHANGED form
  PROVE  WaitInv'
<1>1. /\ Awaited' = Awaited /\ posting' = posting
      /\ TypeOK /\ inbox \in Seq(Message) /\ Len(inbox) \in Nat
      /\ DOMAIN inbox = 1 .. Len(inbox)
  BY LenProperties DEF form, Awaited, LiveTypeOK, Message
<1>2. posting' # None => req'[posting'] # "none"
  BY <1>1, AwaitedTyped, AskedStays DEF WaitInv
<1>3. CASE feed' = feed
  <2>1. UNCHANGED <<feed, channel, missed>>
    BY <1>3 DEF Notified
  <2>2. \A g : (Ended(g)' <=> Ended(g)) /\ (Coming(g)' <=> Coming(g))
    BY <2>1 DEF Ended, Coming, channel
  <2> QED  BY <1>1, <1>2, <2>1, <2>2 DEF WaitInv, channel
<1>4. CASE feed' # feed
  <2> DEFINE note(g) == [gen |-> g, event |-> Latest(g)]
  <2>1. PICK g \in Gens :
          /\ feed'[g] # feed[g]
          /\ Channel!Publish(note(g))
          /\ missed' = IF state # "on" /\ Latest(g) \in Ends
                       THEN missed \cup ({g} \cap Awaited)
                       ELSE missed
    BY <1>4 DEF Notified
  <2>2. PICK event \in Events :
          /\ Latest(g) = event /\ note(g) = [gen |-> g, event |-> event]
          /\ feed'[g] = Append(feed[g], event) /\ feed[g] \in Seq(Events)
    <3>1. PICK event \in Events : feed'[g] = Append(feed[g], event)
      BY <1>1, <2>1, FeedStep
    <3>2. feed[g] \in Seq(Events)
      BY <1>1 DEF TypeOK
    <3>3. Latest(g) = event
      BY <3>1, <3>2 DEF Latest
    <3> QED  BY <3>1, <3>2, <3>3
  <2>3. PICK m \in Message : m = note(g) /\ m.gen = g /\ m.event = event
    <3>1. [gen |-> g, event |-> event] \in Message
      BY DEF Message
    <3> HIDE DEF note
    <3> QED  BY <2>2, <3>1
  <2>4. /\ state' = state
        /\ inbox' = IF state = "on" THEN Append(inbox, m) ELSE inbox
    BY <2>1, <2>3 DEF Channel!Publish
  <2> HIDE DEF note
  <2>5. \A h : Coming(h) => Coming(h)'
    <3>1. CASE state = "on"
      <4>1. \A i \in DOMAIN inbox : i \in DOMAIN inbox' /\ inbox'[i] = inbox[i]
        BY <1>1, <2>3, <2>4, <3>1, AppendProperties
      <4> QED  BY <4>1 DEF Coming
    <3>2. CASE state # "on"
      BY <2>4, <3>2 DEF Coming
    <3> QED  BY <3>1, <3>2
  <2>6. ASSUME NEW h \in Awaited \ missed', Ended(h)' PROVE Coming(h)'
    <3>1. h \in Gens /\ h \notin missed
      BY <1>1, <2>1, <2>6, AwaitedTyped
    <3>2. CASE Ended(h)
      BY <2>5, <2>6, <3>1, <3>2 DEF WaitInv
    <3>3. CASE ~Ended(h)
      <4>1. PICK j \in DOMAIN feed'[h] : feed'[h][j] \in Ends
        BY <2>6 DEF Ended
      <4>2. h = g
        <5>1. feed'[h] # feed[h]
          BY <3>3, <4>1 DEF Ended
        <5> QED  BY <1>1, <2>1, <3>1, <5>1, OneFeed
      <4>3. event \in Ends
        <5>1. /\ DOMAIN feed'[g] = 1 .. Len(feed[g]) + 1
              /\ DOMAIN feed[g] = 1 .. Len(feed[g]) /\ Len(feed[g]) \in Nat
              /\ feed'[g][Len(feed[g]) + 1] = event
              /\ \A i \in 1 .. Len(feed[g]) : feed'[g][i] = feed[g][i]
          BY <2>2, AppendProperties, LenProperties
        <5>2. j \notin DOMAIN feed[g]
          BY <3>3, <4>1, <4>2, <5>1 DEF Ended
        <5> QED  BY <4>1, <4>2, <5>1, <5>2
      <4>4. state = "on"
        BY <2>1, <2>2, <2>6, <4>2, <4>3
      <4>5. Len(inbox) + 1 \in DOMAIN inbox' /\ inbox'[Len(inbox) + 1] = m
        BY <1>1, <2>3, <2>4, <4>4, AppendProperties
      <4> QED  BY <2>3, <4>2, <4>3, <4>5 DEF Coming
    <3> QED  BY <3>2, <3>3
  <2>7. state' = "off" => inbox' = << >>
    BY <2>4 DEF WaitInv
  <2> QED  BY <1>1, <1>2, <2>6, <2>7 DEF WaitInv
<1> QED  BY <1>3, <1>4

\* Reading: the event that is handled is the one the page waits for, or not.
LEMMA WaitHandle ==
  ASSUME LiveTypeOK, WaitInv, HandleWsEvent
  PROVE  WaitInv'
<1>1. /\ inbox # << >> /\ inbox' = Tail(inbox) /\ UNCHANGED <<state, vars, posting>>
      /\ Show(Head(inbox).gen, Head(inbox).event)
      /\ missed' = IF Head(inbox).event \in Ends /\ Head(inbox).gen = posting
                   THEN missed \cup {Head(inbox).gen} ELSE missed
  BY DEF HandleWsEvent, Channel!Handle
<1>2. /\ inbox \in Seq(Message) /\ Len(inbox) \in Nat \ {0}
      /\ DOMAIN inbox = 1 .. Len(inbox) /\ Head(inbox) = inbox[1]
      /\ DOMAIN inbox' = 1 .. Len(inbox) - 1
      /\ \A i \in 1 .. Len(inbox) - 1 : inbox'[i] = inbox[i + 1]
  BY <1>1, HeadTailProperties, EmptySeq, LenProperties DEF LiveTypeOK, Message
<1>3. \A g : Ended(g)' <=> Ended(g)
  BY <1>1 DEF Ended, vars
<1>4. ASSUME NEW g \in Awaited' \ missed', Ended(g) PROVE Coming(g)'
  <2>1. g \in Awaited \ missed
    BY <1>1, <1>4 DEF Awaited, Show
  <2>2. PICK i \in DOMAIN inbox : inbox[i].gen = g /\ inbox[i].event \in Ends
    BY <1>4, <2>1 DEF WaitInv, Coming
  <2>3. i # 1
    <3> SUFFICES ASSUME i = 1 PROVE FALSE
      OBVIOUS
    <3>1. Head(inbox).gen = g /\ Head(inbox).event \in Ends
      BY <1>2, <2>2
    <3>2. g # posting
      BY <1>1, <1>4, <3>1
    <3>3. active = g => active' = None
      BY <1>1, <3>1 DEF Show
    <3>4. active # g => active' = active \/ active' = None
      BY <1>1, <3>1 DEF Show
    <3> QED  BY <1>1, <1>4, <3>2, <3>3, <3>4 DEF Awaited
  <2>4. i - 1 \in DOMAIN inbox' /\ inbox'[i - 1] = inbox[i]
    BY <1>2, <2>3
  <2> QED  BY <2>2, <2>4 DEF Coming
<1>5. state' = "off" => inbox' = << >>
  BY <1>1 DEF WaitInv
<1> QED  BY <1>1, <1>3, <1>4, <1>5 DEF WaitInv, vars

LEMMA WaitNext ==
  LiveTypeOK /\ Begun /\ FormInv /\ WaitInv /\ [LiveNext]_liveVars => WaitInv'
<1> SUFFICES ASSUME LiveTypeOK, Begun, FormInv, WaitInv, [LiveNext]_liveVars
             PROVE  WaitInv'
  OBVIOUS
<1> DEFINE Arrives == \A g \in Awaited' \ missed' : Ended(g)' => Coming(g)'
<1>1. /\ inbox \in Seq(Message) /\ Len(inbox) \in Nat
      /\ DOMAIN inbox = 1 .. Len(inbox)
  BY LenProperties DEF LiveTypeOK, Message
<1>2. CASE Backend
  BY <1>2, WaitPublish DEF Backend
\* What leaves the backend and the form alone loses what it says it loses.
<1>3. ASSUME UNCHANGED <<vars, form>>, state' = "off" => inbox' = << >>,
             \A g \in Awaited \ missed' : g \notin missed /\ (Coming(g) => Coming(g)')
      PROVE  WaitInv'
  <2>1. /\ Awaited' = Awaited /\ \A g : Ended(g)' <=> Ended(g)
        /\ posting' = posting /\ req' = req
    BY <1>3 DEF vars, form, Awaited, Ended
  <2> QED  BY <1>3, <2>1 DEF WaitInv
<1>4. CASE Bind
  <2>1. /\ inbox = << >> /\ inbox' = inbox /\ state' = "on"
        /\ UNCHANGED <<vars, form, missed>>
    BY <1>4 DEF Bind, Channel!Bind, WaitInv, told
  <2> QED  BY <1>3, <2>1 DEF Coming
<1>5. ASSUME NEW k \in 0 .. Len(inbox), inbox' = SubSeq(inbox, 1, k), Lost(k)
      PROVE  \A g \in Awaited \ missed' :
               g \notin missed /\ (Coming(g) => Coming(g)')
  <2>1. DOMAIN inbox' = 1 .. k /\ \A i \in 1 .. k : inbox'[i] = inbox[i]
    BY <1>1, <1>5, SubSeqProperties
  <2>2. ASSUME NEW g \in Awaited \ missed', Coming(g) PROVE Coming(g)'
    <3>1. PICK i \in DOMAIN inbox : inbox[i].gen = g /\ inbox[i].event \in Ends
      BY <2>2 DEF Coming
    <3>2. i \notin k + 1 .. Len(inbox)
      BY <1>5, <2>2, <3>1 DEF Lost
    <3>3. i \in 1 .. k
      BY <1>1, <3>1, <3>2
    <3> QED  BY <2>1, <3>1, <3>3 DEF Coming
  <2> QED  BY <1>5, <2>2 DEF Lost
<1>6. CASE Deafen
  <2>1. PICK k \in 0 .. Len(inbox) : inbox' = SubSeq(inbox, 1, k)
    BY <1>6 DEF Deafen, Channel!Deafen, Channel!Prefix
  <2>2. Len(inbox') = k
    BY <1>1, <2>1, SubSeqProperties
  <2>3. Lost(k) /\ state' = "deaf" /\ UNCHANGED <<vars, form>>
    BY <1>6, <2>2 DEF Deafen, Channel!Deafen
  <2> QED  BY <1>3, <1>5, <2>1, <2>3
<1>7. CASE Close
  <2>1. inbox' = << >> /\ Lost(0) /\ UNCHANGED <<vars, form>>
    BY <1>7 DEF Close, Channel!Close
  <2>2. \A g \in Awaited \ missed' : g \notin missed /\ ~Coming(g)
    BY <1>1, <2>1 DEF Lost, Coming
  <2> QED  BY <1>3, <2>1, <2>2
<1>8. CASE Posted
  <2>1. /\ UNCHANGED <<vars, channel, missed>> /\ posting' = None
        /\ Awaited' \subseteq Awaited
    BY <1>8 DEF Posted, Awaited, told
  <2>2. \A g : (Ended(g)' <=> Ended(g)) /\ (Coming(g)' <=> Coming(g))
    BY <2>1 DEF Ended, Coming, vars, channel
  <2> QED  BY <2>1, <2>2 DEF WaitInv, channel
<1>9. CASE HandleWsEvent
  BY <1>9, WaitHandle
<1>10. ASSUME NEW g \in Gens, Generate(g) PROVE WaitInv'
  <2>1. /\ req[g] = "none" /\ feed' = feed /\ feed[g] = << >>
        /\ UNCHANGED channel /\ posting' = g /\ active' = None
    BY <1>10 DEF Generate, CreateRow, Begun, FormInv
  <2>2. req'[g] # "none"
    BY <1>10 DEF Generate, CreateRow, LiveTypeOK, TypeOK
  <2>3. Awaited' \subseteq {g} /\ ~Ended(g)'
    BY <2>1 DEF Awaited, Ended
  <2> QED  BY <2>1, <2>2, <2>3 DEF WaitInv, channel
<1>11. CASE UNCHANGED <<vars, channel, posting, active, missed>>
  <2>1. \A g : (Ended(g)' <=> Ended(g)) /\ (Coming(g)' <=> Coming(g))
    BY <1>11 DEF Ended, Coming, vars, channel
  <2> QED  BY <1>11, <2>1 DEF WaitInv, Awaited, vars, channel
<1> QED  BY <1>2, <1>4, <1>6, <1>7, <1>8, <1>9, <1>10, <1>11
         DEF LiveNext, liveVars, ReadList, SetHistory, ClickHistory, Viewed, form,
             told

\* What GeneratingEnds needs besides fairness: the page waits for nothing that is
\* neither on its way to it nor being worked for, unless it was missed or
\* something failed; and an end that was published reaches it even then.
THEOREM WaitsForSomethingAlways == LiveSpec => []WaitsForSomething
<1> DEFINE IInv == LiveTypeOK /\ BackendInv /\ FormInv /\ FlowInv /\ WaitInv
<1>1. LiveInit => IInv
  <2>1. LiveInit => WaitInv
    BY DEF LiveInit, WaitInv, Awaited, Channel!Init
  <2> QED  BY <2>1, LiveInitTyped, QuietInv, FormFacts, QuietFlow DEF LiveInit
<1>2. IInv /\ [LiveNext]_liveVars => IInv'
  <2>1. BackendInv => TypeOK /\ Begun
    BY DEF BackendInv, CleanInv, DeliveryInv
  <2> QED  BY <2>1, LiveNextTyped, BackendStep, BackendNext, FormNext, FlowNext,
              WaitNext
<1>3. IInv => WaitsForSomething
  <2> SUFFICES ASSUME IInv, NEW g \in Awaited \ missed
               PROVE  /\ Ended(g) => Coming(g)
                      /\ faults.count = 0 => Coming(g) \/ Underway(g)
    BY DEF WaitsForSomething
  <2>1. g \in Gens /\ req[g] # "none"
    BY AwaitedTyped DEF Awaited, WaitInv, FormInv
  <2> QED  BY <2>1 DEF WaitInv, FlowInv
<1> QED  BY <1>1, <1>2, <1>3, PTL DEF LiveSpec
=============================================================================
