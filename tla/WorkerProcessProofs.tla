------------------------- MODULE WorkerProcessProofs -------------------------
(***************************************************************************)
(* Theorems about WorkerProcess, for any number of tasks and faults.       *)
(***************************************************************************)
EXTENDS WorkerProcess, TLAPS

\* Beside the two properties: what a task has established on its way to them.
Established ==
  /\ TypeOK
  /\ PaidOnOwnLoop
  /\ CleanAfterClose
  /\ pc # "idle" => loop > 0
  /\ pc \in {"mark", "announce"} => pool \in {0, loop}
  /\ pc = "dispose" => connection = 0
  /\ pc = "ended" /\ connection = 0 => pool = 0

LEMMA EstablishedInit == Init => Established
  BY BoundAssumption
  DEF Init, Established, TypeOK, PaidOnOwnLoop, CleanAfterClose, Labels, Loops

\* What one session does, whoever runs it.
LEMMA SessionEffect ==
  ASSUME Established, NEW ok, NEW raised, Session(ok, raised)
  PROVE  /\ \/ pc' = ok /\ pool' = loop
            \/ pc' = raised /\ (pool \in {0, loop} => pool' \in {0, loop})
         /\ pool' \in Loops /\ faults' \in 0 .. MaxFaults
         /\ UNCHANGED <<loop, connection, link, exchange>>
  BY BoundAssumption
  DEF Session, Goto, Fault, Established, TypeOK, Loops, publisher

\* What one publish does: it goes on only with an exchange of its own loop.
LEMMA PublishEffect ==
  ASSUME Established, pc # "idle", NEW ok, NEW raised, Publish(ok, raised)
  PROVE  /\ \/ pc' = ok /\ connection' = loop /\ exchange' = loop
               /\ link' = "up"
            \/ pc' = raised
         /\ Connected => UNCHANGED publisher
         /\ connection' \in Loops /\ exchange' \in Loops /\ link' \in {"up", "down"}
         /\ exchange' # 0 \/ link' = "up" => connection' # 0
         /\ faults' \in 0 .. MaxFaults
         /\ UNCHANGED <<loop, pool>>
<1>1. UNCHANGED faults \/ \E kind : Fault(kind)
  BY DEF Publish, SendMessage
<1>2. faults' \in 0 .. MaxFaults
  BY <1>1, BoundAssumption DEF Fault, Established, TypeOK
<1>3. loop # 0
  BY DEF Established
<1>4. CASE Connected /\ UNCHANGED publisher /\ SendMessage(ok, raised)
  BY <1>2, <1>4 DEF Publish, SendMessage, Goto, Connected, publisher,
     Established, TypeOK
<1>5. CASE ~Connected /\ UNCHANGED publisher /\ Goto(raised)
  BY <1>2, <1>5 DEF Publish, Goto, publisher, Established, TypeOK
<1>6. CASE /\ ~Connected /\ Goto(raised)
           /\ connection' = loop /\ link' = "up" /\ UNCHANGED exchange
  BY <1>2, <1>3, <1>6 DEF Publish, Goto, Established, TypeOK
<1>7. CASE /\ ~Connected /\ connection' = loop /\ link' = "up"
           /\ exchange' = loop /\ SendMessage(ok, raised)
  BY <1>2, <1>3, <1>7 DEF Publish, SendMessage, Goto, Established, TypeOK
<1> QED BY <1>4, <1>5, <1>6, <1>7 DEF Publish

LEMMA EstablishedNext == Established /\ [Next]_vars => Established'
<1> SUFFICES ASSUME Established, [Next]_vars PROVE Established'
  OBVIOUS
<1> USE DEF Established, TypeOK, PaidOnOwnLoop, CleanAfterClose, Labels,
            Publishing
<1>1. CASE Start
  BY <1>1, BoundAssumption DEF Start, Goto, Loops, publisher, Connected
<1>2. CASE FindById
  BY <1>2, SessionEffect DEF FindById, Connected
<1>3. CASE MarkRunning
  BY <1>3, SessionEffect DEF MarkRunning, Connected
<1>4. CASE PublishRunning
  BY <1>4, PublishEffect DEF PublishRunning, Connected
<1>5. CASE Stream
  BY <1>5, SessionEffect, PublishEffect DEF Stream, Connected, publisher
<1>6. CASE PublishCompleted
  BY <1>6, PublishEffect DEF PublishCompleted, Connected, publisher
<1>7. CASE MarkFailed
  BY <1>7, SessionEffect DEF MarkFailed, Connected
<1>8. CASE PublishFailed
  BY <1>8, PublishEffect DEF PublishFailed, Connected, publisher
<1>9. CASE CloseNotifier
  BY <1>9, BoundAssumption DEF CloseNotifier, Goto, Fault, Connected, Loops
<1>10. CASE DisposeEngine
  BY <1>10, BoundAssumption DEF DisposeEngine, Goto, publisher, Loops
<1>11. CASE EndLoop
  BY <1>11 DEF EndLoop, Goto
<1>12. CASE Crash
  BY <1>12, BoundAssumption DEF Crash, Goto, Fault, Loops
<1>13. CASE UNCHANGED vars
  BY <1>13 DEF vars, Connected
<1> QED BY <1>1, <1>2, <1>3, <1>4, <1>5, <1>6, <1>7, <1>8, <1>9, <1>10, <1>11,
           <1>12, <1>13 DEF Next, Run

LEMMA EstablishedAlways == Spec => []Established
  BY EstablishedInit, EstablishedNext, PTL DEF Spec

\* Every reachable state of a pool process is well typed; a connection that is up
\* or has an exchange exists.
THEOREM TypeCorrect == Spec => []TypeOK
<1>1. Established => TypeOK
  BY DEF Established
<1> QED BY <1>1, EstablishedAlways, PTL

\* A leaked connection fails a task before its LLM stream, never after.
THEOREM PaidOnOwnLoopAlways == Spec => []PaidOnOwnLoop
<1>1. Established => PaidOnOwnLoop
  BY DEF Established
<1> QED BY <1>1, EstablishedAlways, PTL

\* A process whose publisher is closed holds no database connection.
THEOREM CleanAfterCloseAlways == Spec => []CleanAfterClose
<1>1. Established => CleanAfterClose
  BY DEF Established
<1> QED BY <1>1, EstablishedAlways, PTL

=============================================================================
