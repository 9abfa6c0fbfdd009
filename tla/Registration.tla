---------------------------- MODULE Registration ----------------------------
(***************************************************************************)
(* POST /api/auth/register and the welcome mail: RegistrationService looks *)
(* the address up, inserts the user in another session and then hands an   *)
(* e-mail task to the broker; celery_email_worker sends it over SMTP.      *)
(* Requests run concurrently; only the unique index on users.email stands  *)
(* between two of them.                                                    *)
(*                                                                         *)
(* Fault kinds, with the meaning they have in module Generation:           *)
(* "publish", "duplicate", "requeue", "crash", "db", "commit"; and "smtp", *)
(* aiosmtplib.send raises.                                                 *)
(***************************************************************************)
EXTENDS Integers, FiniteSets

CONSTANTS
  Requests,    \* registration requests, each with a password of its own
  Addresses,   \* e-mail addresses
  Nobody,      \* an address without an account, a request without address
  Workers,     \* pool processes of celery_email_worker
  NoTask,      \* what an idle worker runs
  FaultKinds,  \* the faults that may happen
  MaxFaults    \* bound: faults in one behaviour

AllFaults == {"publish", "duplicate", "requeue", "crash", "db", "commit", "smtp"}

Copies == Requests \X {1, 2}

Resting == {"unsent", "ready", "acked"}

ASSUME FaultAssumption == FaultKinds \subseteq AllFaults
ASSUME BoundAssumption == MaxFaults \in Nat
ASSUME NameAssumption ==
  /\ Workers \cap Resting = {}
  /\ NoTask \notin Copies
  /\ Nobody \notin Requests \cup Addresses

VARIABLES
  users,    \* users[a]: the request that inserted the user with address a
  address,  \* address[r]: the address request r registers
  answer,   \* answer[r]: the next statement of r, or the status it was given
  loc,      \* loc[c]: where the broker has e-mail task c
  pc,       \* pc[w]: the next statement of worker w
  task,     \* task[w]: the e-mail task worker w runs
  mails,    \* mails[r]: welcome mails of r that the SMTP server took
  refused,  \* requests of which a task has ended with an exception of send
  faults    \* faults so far

vars == <<users, address, answer, loc, pc, task, mails, refused, faults>>
mail == <<mails, refused>>

Open   == {"find", "create", "schedule"}
Closed == {"201", "409", "500"}

Fault(kind) ==
  /\ kind \in FaultKinds
  /\ faults < MaxFaults
  /\ faults' = faults + 1

Continue(r, next) == answer' = [answer EXCEPT ![r] = next]
Goto(w, label) == pc' = [pc EXCEPT ![w] = label]

Init ==
  /\ users   = [a \in Addresses |-> Nobody]
  /\ address = [r \in Requests |-> Nobody]
  /\ answer  = [r \in Requests |-> "none"]
  /\ loc     = [c \in Copies |-> "unsent"]
  /\ pc      = [w \in Workers |-> "idle"]
  /\ task    = [w \in Workers |-> NoTask]
  /\ mails   = [r \in Requests |-> 0]
  /\ refused = {}
  /\ faults  = 0

(***************************************************************************)
(* The request.  Every exception but EmailAlreadyTakenError is a 500.      *)
(***************************************************************************)
Register(r, a) ==
  /\ answer[r] = "none"
  /\ address' = [address EXCEPT ![r] = a]
  /\ Continue(r, "find")
  /\ UNCHANGED <<users, loc, pc, task, mail, faults>>

FindByEmail(r) ==
  /\ answer[r] = "find"
  /\ \/ /\ Continue(r, IF users[address[r]] = Nobody THEN "create" ELSE "409")
        /\ UNCHANGED faults
     \/ Fault("db") /\ Continue(r, "500")
  /\ UNCHANGED <<users, address, loc, pc, task, mail>>

\* Broken: the insert is an upsert, the last registration wins.
UpsertUser(r) ==
  /\ answer[r] = "create"
  /\ users' = [users EXCEPT ![address[r]] = r]
  /\ Continue(r, "schedule")
  /\ UNCHANGED <<address, loc, pc, task, mail, faults>>

\* Broken: an IntegrityError is swallowed, the request goes on as if it had won.
CreateUserIgnoringConflict(r) ==
  /\ answer[r] = "create"
  /\ users' = IF users[address[r]] = Nobody
              THEN [users EXCEPT ![address[r]] = r] ELSE users
  /\ Continue(r, "schedule")
  /\ UNCHANGED <<address, loc, pc, task, mail, faults>>

\* Broken: register is run again when the session raises.
CreateUserRetried(r) ==
  /\ answer[r] = "create"
  /\ IF users[address[r]] # Nobody
     THEN Continue(r, "find") /\ UNCHANGED <<users, faults>>
     ELSE /\ users' = [users EXCEPT ![address[r]] = r]
          /\ \/ Continue(r, "schedule") /\ UNCHANGED faults
             \/ Fault("commit") /\ Continue(r, "find")
  /\ UNCHANGED <<address, loc, pc, task, mail>>

\* The unique index lets one insert through; the others raise IntegrityError,
\* which nothing between the session and the client turns into a 409.
CreateUser(r) ==
  /\ answer[r] = "create"
  /\ LET a == address[r]
         inserted == [users EXCEPT ![a] = r]
     IN IF users[a] # Nobody
        THEN Continue(r, "500") /\ UNCHANGED <<users, faults>>
        ELSE \/ users' = inserted /\ Continue(r, "schedule") /\ UNCHANGED faults
             \/ Fault("db") /\ Continue(r, "500") /\ UNCHANGED users
             \/ Fault("commit") /\ Continue(r, "500") /\ users' = inserted
  /\ UNCHANGED <<address, loc, pc, task, mail>>

Send(r, copies) ==
  loc' = [c \in Copies |-> IF c \in {<<r, i>> : i \in copies}
                           THEN "ready" ELSE loc[c]]

ScheduleEmail(r) ==
  /\ answer[r] = "schedule"
  /\ \/ Send(r, {1}) /\ Continue(r, "201") /\ UNCHANGED faults
     \/ Fault("publish") /\ Send(r, {1}) /\ Continue(r, "500")
     \/ Fault("publish") /\ Send(r, {})
                         /\ \E status \in {"201", "500"} : Continue(r, status)
     \/ Fault("duplicate") /\ Send(r, {1, 2}) /\ Continue(r, "201")
  /\ UNCHANGED <<users, address, pc, task, mail>>

\* The backend process dies; the client sees its connection reset.
RequestLost(r) ==
  /\ answer[r] \in Open
  /\ Fault("crash")
  /\ Continue(r, "500")
  /\ UNCHANGED <<users, address, loc, pc, task, mail>>

(***************************************************************************)
(* celery_email_worker: late acks and prefetch 1, as for generations.      *)
(***************************************************************************)
\* Broken: task_acks_late = False.
DeliverAcked(w, c) ==
  /\ pc[w] = "idle" /\ loc[c] = "ready"
  /\ loc' = [loc EXCEPT ![c] = "acked"]
  /\ task' = [task EXCEPT ![w] = c]
  /\ Goto(w, "sending")
  /\ UNCHANGED <<users, address, answer, mail, faults>>

Deliver(w, c) ==
  /\ pc[w] = "idle" /\ loc[c] = "ready"
  /\ loc' = [loc EXCEPT ![c] = w]
  /\ task' = [task EXCEPT ![w] = c]
  /\ Goto(w, "sending")
  /\ UNCHANGED <<users, address, answer, mail, faults>>

\* SMTP takes the mail, or aiosmtplib raises, be it that the mail was refused or
\* that its answer got lost.  The exception leaves the task, which is over and
\* will be acknowledged like any other: there is no retry.
SendEmail(w) ==
  /\ pc[w] = "sending"
  /\ LET r     == task[w][1]
         taken == [mails EXCEPT ![r] = @ + 1]
     IN \/ mails' = taken /\ UNCHANGED <<refused, faults>>
        \/ Fault("smtp") /\ mails' \in {mails, taken} /\ refused' = refused \cup {r}
  /\ Goto(w, "closing")
  /\ UNCHANGED <<users, address, answer, loc, task>>

Holds(w) == pc[w] # "idle" /\ loc[task[w]] = w

Release(w, state) ==
  /\ loc' = IF Holds(w) THEN [loc EXCEPT ![task[w]] = state] ELSE loc
  /\ task' = [task EXCEPT ![w] = NoTask]
  /\ Goto(w, "idle")

Ack(w) ==
  /\ pc[w] = "closing"
  /\ Release(w, "acked")
  /\ UNCHANGED <<users, address, answer, mail, faults>>

Crash(w) ==
  /\ pc[w] # "idle"
  /\ Fault("crash")
  /\ Release(w, "ready")
  /\ UNCHANGED <<users, address, answer, mail>>

Requeue(w) ==
  /\ Holds(w)
  /\ Fault("requeue")
  /\ loc' = [loc EXCEPT ![task[w]] = "ready"]
  /\ UNCHANGED <<users, address, answer, pc, task, mail>>

Next ==
  \/ \E r \in Requests : \/ \E a \in Addresses : Register(r, a)
                         \/ FindByEmail(r) \/ CreateUser(r)
                         \/ ScheduleEmail(r) \/ RequestLost(r)
  \/ \E w \in Workers : \/ \E c \in Copies : Deliver(w, c)
                        \/ SendEmail(w) \/ Ack(w) \/ Crash(w) \/ Requeue(w)

Spec == Init /\ [][Next]_vars

\* Requests and workers run on; clients and faults are free.
Fairness ==
  /\ \A r \in Requests :
       WF_vars(FindByEmail(r) \/ CreateUser(r) \/ ScheduleEmail(r))
  /\ \A w \in Workers : WF_vars(SendEmail(w) \/ Ack(w))
  /\ WF_vars(\E w \in Workers, c \in Copies : Deliver(w, c))

FairSpec == Spec /\ Fairness

-----------------------------------------------------------------------------
TypeOK ==
  /\ users \in [Addresses -> Requests \cup {Nobody}]
  /\ address \in [Requests -> Addresses \cup {Nobody}]
  /\ answer \in [Requests -> {"none"} \cup Open \cup Closed]
  /\ \A r \in Requests : answer[r] = "none" <=> address[r] = Nobody
  /\ loc \in [Copies -> Resting \cup Workers]
  /\ pc \in [Workers -> {"idle", "sending", "closing"}]
  /\ task \in [Workers -> Copies \cup {NoTask}]
  /\ \A w \in Workers : pc[w] = "idle" <=> task[w] = NoTask
  /\ mails \in [Requests -> Nat]
  /\ refused \subseteq Requests
  /\ faults \in 0 .. MaxFaults

\* Whoever is answered 201 owns the account of the address, with the password
\* of that very request, however many requests race for it.
CreatedOwnsAddress ==
  \A r \in Requests : answer[r] = "201" => users[address[r]] = r

\* Nobody is told that an address is taken because of his own request, nor of
\* one that left no account: the other account exists and stays.
TakenIsTrue ==
  \A r \in Requests :
    answer[r] = "409" => users[address[r]] \notin {r, Nobody}

\* A welcome mail reaches only the address of an account that exists and is the
\* one the mail was scheduled for.
MailHasAccount ==
  \A r \in Requests : mails[r] > 0 => users[address[r]] = r

\* A welcome mail that has reached the queue gets lost in no crash of a worker and
\* no redelivery: the SMTP server takes it, unless sending it has raised, which
\* is the end of its task.
WelcomeArrives ==
  \A r \in Requests :
    loc[<<r, 1>>] = "ready" ~> mails[r] > 0 \/ r \in refused
=============================================================================
