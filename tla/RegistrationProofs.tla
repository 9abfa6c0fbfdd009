------------------------- MODULE RegistrationProofs -------------------------
(***************************************************************************)
(* Theorems about Registration, for any number of requests, addresses,     *)
(* workers and faults.                                                     *)
(***************************************************************************)
EXTENDS Registration, TLAPS

\* The account of r exists and is the one of its address.
Owns(r) == address[r] \in Addresses /\ users[address[r]] = r

\* The inductive invariant: from the insert on, whatever is done for a request
\* is done for the owner of its address; before it, the request owns nothing.
Ownership ==
  /\ \A r \in Requests :
       /\ answer[r] \in {"schedule", "201"} \/ mails[r] > 0 => Owns(r)
       /\ answer[r] \in {"none", "find", "create", "409"} =>
            \A a \in Addresses : users[a] # r
       /\ answer[r] = "409" => users[address[r]] # Nobody
  /\ \A c \in Copies : loc[c] # "unsent" => Owns(c[1])
  /\ \A w \in Workers : pc[w] # "idle" => Owns(task[w][1])

LEMMA InitInv == Init => TypeOK /\ Ownership
  BY BoundAssumption, NameAssumption
  DEF Init, TypeOK, Ownership, Copies, Resting, Open, Closed

LEMMA FaultTyped ==
  ASSUME faults \in 0 .. MaxFaults, NEW kind, Fault(kind)
  PROVE  faults' \in 0 .. MaxFaults
  BY BoundAssumption DEF Fault

LEMMA BusyTask ==
  ASSUME TypeOK, NEW w \in Workers, pc[w] # "idle"
  PROVE  task[w] \in Copies /\ task[w][1] \in Requests
  BY DEF TypeOK, Copies

-----------------------------------------------------------------------------
(***************************************************************************)
(* Types.                                                                  *)
(***************************************************************************)

LEMMA ReleaseTyped ==
  ASSUME TypeOK, NEW w \in Workers, NEW state \in Resting, Release(w, state)
  PROVE  /\ loc' \in [Copies -> Resting \cup Workers]
         /\ pc' \in [Workers -> {"idle", "sending", "closing"}]
         /\ task' \in [Workers -> Copies \cup {NoTask}]
         /\ \A v \in Workers : pc'[v] = "idle" <=> task'[v] = NoTask
  BY DEF Release, Goto, TypeOK

LEMMA NextTypeOK == TypeOK /\ [Next]_vars => TypeOK'
<1> SUFFICES ASSUME TypeOK, [Next]_vars PROVE TypeOK'
  OBVIOUS
<1> USE DEF Open, Closed, mail
<1>1. ASSUME NEW r \in Requests, NEW a \in Addresses, Register(r, a)
      PROVE  TypeOK'
  BY <1>1, NameAssumption DEF Register, Continue, TypeOK
<1>2. ASSUME NEW r \in Requests, FindByEmail(r) PROVE TypeOK'
  <2>1. faults' \in 0 .. MaxFaults
    BY <1>2, FaultTyped DEF FindByEmail, TypeOK
  <2>2. /\ answer[r] # "none"
        /\ \E next \in {"create", "409", "500"} : Continue(r, next)
    BY <1>2 DEF FindByEmail
  <2> QED BY <1>2, <2>1, <2>2 DEF FindByEmail, Continue, TypeOK
<1>3. ASSUME NEW r \in Requests, CreateUser(r) PROVE TypeOK'
  <2>1. faults' \in 0 .. MaxFaults
    BY <1>3, FaultTyped DEF CreateUser, TypeOK
  <2>2. /\ answer[r] # "none"
        /\ \E next \in {"schedule", "500"} : Continue(r, next)
    BY <1>3 DEF CreateUser
  <2>3. users' \in [Addresses -> Requests \cup {Nobody}]
    BY <1>3 DEF CreateUser, TypeOK
  <2> QED BY <1>3, <2>1, <2>2, <2>3 DEF CreateUser, Continue, TypeOK
<1>4. ASSUME NEW r \in Requests, ScheduleEmail(r) PROVE TypeOK'
  <2>1. faults' \in 0 .. MaxFaults
    BY <1>4, FaultTyped DEF ScheduleEmail, TypeOK
  <2>2. /\ answer[r] # "none"
        /\ \E next \in {"201", "500"} : Continue(r, next)
    BY <1>4 DEF ScheduleEmail
  <2>3. loc' \in [Copies -> Resting \cup Workers]
    BY <1>4 DEF ScheduleEmail, Send, TypeOK, Resting
  <2> QED BY <1>4, <2>1, <2>2, <2>3 DEF ScheduleEmail, Continue, TypeOK
<1>5. ASSUME NEW r \in Requests, RequestLost(r) PROVE TypeOK'
  <2>1. faults' \in 0 .. MaxFaults
    BY <1>5, FaultTyped DEF RequestLost, TypeOK
  <2> QED BY <1>5, <2>1 DEF RequestLost, Continue, TypeOK
<1>6. ASSUME NEW w \in Workers, NEW c \in Copies, Deliver(w, c) PROVE TypeOK'
  BY <1>6, NameAssumption DEF Deliver, Goto, TypeOK
<1>7. ASSUME NEW w \in Workers, SendEmail(w) PROVE TypeOK'
  <2>1. mails' \in [Requests -> Nat] /\ refused' \subseteq Requests
    BY <1>7, BusyTask DEF SendEmail, TypeOK
  <2>2. faults' \in 0 .. MaxFaults
    BY <1>7, FaultTyped DEF SendEmail, TypeOK
  <2> QED BY <1>7, <2>1, <2>2 DEF SendEmail, Goto, TypeOK
<1>8. ASSUME NEW w \in Workers, Ack(w) PROVE TypeOK'
  BY <1>8, ReleaseTyped DEF Ack, TypeOK, Resting
<1>9. ASSUME NEW w \in Workers, Crash(w) PROVE TypeOK'
  <2>1. faults' \in 0 .. MaxFaults
    BY <1>9, FaultTyped DEF Crash, TypeOK
  <2> QED BY <1>9, <2>1, ReleaseTyped DEF Crash, TypeOK, Resting
<1>10. ASSUME NEW w \in Workers, Requeue(w) PROVE TypeOK'
  <2>1. faults' \in 0 .. MaxFaults
    BY <1>10, FaultTyped DEF Requeue, TypeOK
  <2> QED BY <1>10, <2>1 DEF Requeue, TypeOK, Resting
<1>11. CASE UNCHANGED vars
  BY <1>11 DEF vars, TypeOK
<1> QED BY <1>1, <1>2, <1>3, <1>4, <1>5, <1>6, <1>7, <1>8, <1>9, <1>10, <1>11
        DEF Next

-----------------------------------------------------------------------------
(***************************************************************************)
(* Ownership.                                                              *)
(***************************************************************************)

\* An account stays with the request that inserted it.
LEMMA OwnerStays ==
  ASSUME TypeOK, [Next]_vars, NEW r \in Requests, Owns(r)
  PROVE  Owns(r)'
<1>1. \A a \in Addresses : users[a] # Nobody => users'[a] = users[a]
  BY DEF Next, vars, mail, Register, FindByEmail, CreateUser, ScheduleEmail,
         RequestLost, Deliver, SendEmail, Ack, Crash, Requeue, TypeOK
<1>2. answer[r] # "none" => address'[r] = address[r]
  BY DEF Next, vars, mail, Register, FindByEmail, CreateUser, ScheduleEmail,
         RequestLost, Deliver, SendEmail, Ack, Crash, Requeue, TypeOK
<1> QED BY <1>1, <1>2, NameAssumption DEF Owns, TypeOK

LEMMA OwnershipNext == TypeOK /\ Ownership /\ [Next]_vars => Ownership'
<1> SUFFICES ASSUME TypeOK, Ownership, [Next]_vars PROVE Ownership'
  OBVIOUS
<1> USE DEF mail
<1>1. \A r \in Requests : Owns(r) => Owns(r)'
  BY OwnerStays
<1>2. \A c \in Copies : c[1] \in Requests
  BY DEF Copies
<1> DEFINE Asked(r) ==
      /\ answer[r] \in {"schedule", "201"} \/ mails[r] > 0 => Owns(r)
      /\ answer[r] \in {"none", "find", "create", "409"} =>
           \A a \in Addresses : users[a] # r
      /\ answer[r] = "409" => users[address[r]] # Nobody
<1> DEFINE Tasks ==
      /\ \A c \in Copies : loc[c] # "unsent" => Owns(c[1])
      /\ \A w \in Workers : pc[w] # "idle" => Owns(task[w][1])
<1>3. (\A r \in Requests : Asked(r)) /\ Tasks
  BY DEF Ownership
<1>4. SUFFICES (\A r \in Requests : Asked(r)') /\ Tasks'
  BY DEF Ownership
<1>5. UNCHANGED <<loc, pc, task>> => Tasks'
  BY <1>1, <1>2, <1>3, BusyTask
<1>6. UNCHANGED <<users, address, answer, mails>> => \A r \in Requests : Asked(r)'
  BY <1>3 DEF Owns
<1>7. ASSUME NEW r \in Requests, NEW a \in Addresses, Register(r, a)
      PROVE  (\A q \in Requests : Asked(q)') /\ Tasks'
  <2>1. \A q \in Requests : Asked(q)'
    BY <1>1, <1>3, <1>7 DEF Register, Continue, TypeOK
  <2> QED BY <1>5, <1>7, <2>1 DEF Register
<1>8. ASSUME NEW r \in Requests, FindByEmail(r)
      PROVE  (\A q \in Requests : Asked(q)') /\ Tasks'
  <2>1. \A q \in Requests : Asked(q)'
    BY <1>1, <1>3, <1>8 DEF FindByEmail, Continue, TypeOK
  <2> QED BY <1>5, <1>8, <2>1 DEF FindByEmail
<1>9. ASSUME NEW r \in Requests, CreateUser(r)
      PROVE  (\A q \in Requests : Asked(q)') /\ Tasks'
  <2>1. /\ answer[r] = "create" /\ address[r] \in Addresses
        /\ UNCHANGED <<address, loc, pc, task, mails>>
    BY <1>9 DEF CreateUser, TypeOK
  <2>2. /\ \A q \in Requests \ {r} : answer'[q] = answer[q]
        /\ answer'[r] \in {"schedule", "500"}
        /\ answer'[r] = "schedule" => users'[address[r]] = r
    BY <1>9 DEF CreateUser, Continue, TypeOK
  <2>3. \A a \in Addresses : users'[a] \in {users[a], r}
    BY <1>9 DEF CreateUser, TypeOK
  <2>4. \A a \in Addresses : users[a] # Nobody => users'[a] = users[a]
    BY <1>9 DEF CreateUser, TypeOK
  <2>5. ASSUME NEW q \in Requests, q # r PROVE Asked(q)'
    <3>1. answer[q] = "409" => address[q] \in Addresses
      BY DEF TypeOK
    <3> QED BY <1>1, <1>3, <2>1, <2>2, <2>3, <2>4, <2>5, <3>1
  <2>6. Asked(r)'
    BY <1>1, <1>3, <2>1, <2>2 DEF Owns
  <2> QED BY <1>5, <2>1, <2>5, <2>6
<1>10. ASSUME NEW r \in Requests, ScheduleEmail(r)
       PROVE  (\A q \in Requests : Asked(q)') /\ Tasks'
  <2>1. /\ answer[r] = "schedule" /\ Owns(r)
        /\ UNCHANGED <<users, address, pc, task, mails>>
    BY <1>3, <1>10 DEF ScheduleEmail
  <2>2. /\ \A q \in Requests \ {r} : answer'[q] = answer[q]
        /\ answer'[r] \in {"201", "500"}
    BY <1>10 DEF ScheduleEmail, Continue, TypeOK
  <2>3. \A q \in Requests : Asked(q)'
    BY <1>1, <1>3, <2>1, <2>2
  <2>4. \A c \in Copies : loc'[c] = loc[c] \/ c[1] = r
    BY <1>10 DEF ScheduleEmail, Send
  <2> QED BY <1>1, <1>2, <1>3, <2>1, <2>3, <2>4, BusyTask
<1>11. ASSUME NEW r \in Requests, RequestLost(r)
       PROVE  (\A q \in Requests : Asked(q)') /\ Tasks'
  <2>1. \A q \in Requests : Asked(q)'
    BY <1>1, <1>3, <1>11 DEF RequestLost, Continue, TypeOK
  <2> QED BY <1>5, <1>11, <2>1 DEF RequestLost
<1>12. ASSUME NEW w \in Workers, NEW c \in Copies, Deliver(w, c)
       PROVE  (\A q \in Requests : Asked(q)') /\ Tasks'
  <2>1. Owns(c[1]) /\ UNCHANGED <<users, address, answer, mails>>
    BY <1>3, <1>12 DEF Deliver
  <2>2. Tasks'
    BY <1>1, <1>2, <1>3, <1>12, <2>1, BusyTask DEF Deliver, Goto, TypeOK
  <2> QED BY <1>6, <2>1, <2>2
<1>13. ASSUME NEW w \in Workers, SendEmail(w)
       PROVE  (\A q \in Requests : Asked(q)') /\ Tasks'
  <2>1. Owns(task[w][1]) /\ UNCHANGED <<users, address, answer, loc, task>>
    BY <1>3, <1>13 DEF SendEmail
  <2>2. \A q \in Requests : mails'[q] = mails[q] \/ q = task[w][1]
    BY <1>13 DEF SendEmail, TypeOK
  <2>3. \A q \in Requests : Asked(q)'
    BY <1>1, <1>3, <2>1, <2>2 DEF Owns
  <2>4. Tasks'
    BY <1>1, <1>2, <1>3, <1>13, <2>1, BusyTask DEF SendEmail, Goto, TypeOK
  <2> QED BY <2>3, <2>4
<1>14. ASSUME NEW w \in Workers, NEW state, pc[w] # "idle", Release(w, state),
              UNCHANGED <<users, address, answer, mails>>
       PROVE  (\A q \in Requests : Asked(q)') /\ Tasks'
  <2>1. \A c \in Copies : loc'[c] = loc[c] \/ c = task[w]
    BY <1>14 DEF Release, TypeOK
  <2>2. \A v \in Workers : pc'[v] # "idle" => pc[v] # "idle" /\ task'[v] = task[v]
    BY <1>14 DEF Release, Goto, TypeOK
  <2>3. Tasks'
    BY <1>1, <1>2, <1>3, <1>14, <2>1, <2>2, BusyTask
  <2> QED BY <1>6, <1>14, <2>3
<1>15. ASSUME NEW w \in Workers, Ack(w) \/ Crash(w)
       PROVE  (\A q \in Requests : Asked(q)') /\ Tasks'
  BY <1>14, <1>15 DEF Ack, Crash
<1>16. ASSUME NEW w \in Workers, Requeue(w)
       PROVE  (\A q \in Requests : Asked(q)') /\ Tasks'
  <2>1. \A c \in Copies : loc'[c] = loc[c] \/ c = task[w]
    BY <1>16 DEF Requeue, TypeOK
  <2>2. pc[w] # "idle" /\ UNCHANGED <<users, address, answer, pc, task, mails>>
    BY <1>16 DEF Requeue, Holds
  <2>3. Tasks'
    BY <1>1, <1>2, <1>3, <2>1, <2>2, BusyTask
  <2> QED BY <1>6, <2>2, <2>3
<1>17. CASE UNCHANGED vars
  BY <1>5, <1>6, <1>17 DEF vars
<1> QED BY <1>7, <1>8, <1>9, <1>10, <1>11, <1>12, <1>13, <1>15, <1>16, <1>17
        DEF Next

LEMMA OwnershipAlways == Spec => [](TypeOK /\ Ownership)
  BY InitInv, NextTypeOK, OwnershipNext, PTL DEF Spec

\* Every reachable state of registration and mail is well typed.
THEOREM TypeCorrect == Spec => []TypeOK
  BY OwnershipAlways, PTL

\* Of any number of racing registrations of an address, the one that is
\* answered 201 is the one in the table.
THEOREM CreatedOwnsAddressAlways == Spec => []CreatedOwnsAddress
<1>1. Ownership => CreatedOwnsAddress
  BY DEF Ownership, CreatedOwnsAddress, Owns
<1> QED BY <1>1, OwnershipAlways, PTL

\* A 409 always names the account of another request.
THEOREM TakenIsTrueAlways == Spec => []TakenIsTrue
<1>1. TypeOK /\ Ownership => TakenIsTrue
  BY DEF Ownership, TakenIsTrue, TypeOK
<1> QED BY <1>1, OwnershipAlways, PTL

\* No mail goes out for a request that does not own its address.
THEOREM MailHasAccountAlways == Spec => []MailHasAccount
<1>1. Ownership => MailHasAccount
  BY DEF Ownership, MailHasAccount, Owns
<1> QED BY <1>1, OwnershipAlways, PTL

-----------------------------------------------------------------------------
(***************************************************************************)
(* Where a welcome mail is: what WelcomeArrives needs besides fairness.    *)
(***************************************************************************)
\* A mail was taken, or sending it has raised.
Tried(r) == mails[r] > 0 \/ r \in refused

MailAccountedFor ==
  \A r \in Requests :
    (loc[<<r, 1>>] # "unsent" \/ (answer[r] = "201" /\ "publish" \notin FaultKinds))
    => (\/ mails[r] > 0
        \/ loc[<<r, 1>>] = "ready"
        \/ \E w \in Workers : /\ loc[<<r, 1>>] = w /\ task[w] = <<r, 1>>
                              /\ pc[w] = "sending"
        \/ "smtp" \in FaultKinds /\ r \in refused)

\* The broker forgets a task only when its mail was tried, the holder of a task
\* runs it, and a client hears 201 only when the task was sent.
MailInv ==
  /\ \A c \in Copies : loc[c] = "acked" => Tried(c[1])
  /\ \A c \in Copies : loc[c] \in Workers => task[loc[c]] = c
  /\ \A w \in Workers : pc[w] = "closing" => Tried(task[w][1])
  /\ "publish" \notin FaultKinds =>
       \A r \in Requests : answer[r] = "201" => loc[<<r, 1>>] # "unsent"
  /\ "smtp" \notin FaultKinds => refused = {}

LEMMA MailInit == Init => MailInv
BY NameAssumption DEF Init, MailInv, Copies, Resting

LEMMA MailNext == TypeOK /\ MailInv /\ [Next]_vars => MailInv'
<1> SUFFICES ASSUME TypeOK, MailInv, [Next]_vars PROVE MailInv'
  OBVIOUS
<1> USE DEF mail, Tried
<1> DEFINE Held    == \A c \in Copies : loc[c] \in Workers => task[loc[c]] = c
           Mailed  == /\ \A c \in Copies : loc[c] = "acked" => Tried(c[1])
                      /\ \A w \in Workers : pc[w] = "closing" =>
                                              Tried(task[w][1])
           Sent    == "publish" \notin FaultKinds =>
                        \A r \in Requests : answer[r] = "201" =>
                                              loc[<<r, 1>>] # "unsent"
<1>0. ("smtp" \notin FaultKinds => refused = {})'
  <2>1. /\ "smtp" \notin FaultKinds => refused = {}
        /\ refused' = refused \/ "smtp" \in FaultKinds
    BY DEF MailInv, Fault, Next, vars, Register, FindByEmail, CreateUser,
           ScheduleEmail, RequestLost, Deliver, SendEmail, Ack, Crash, Requeue
  <2> QED  BY <2>1
<1>1. Held /\ Mailed /\ Sent
  BY DEF MailInv
<1>2. SUFFICES Held' /\ Mailed' /\ Sent'
  BY <1>0 DEF MailInv
<1>3. /\ \A c \in Copies : c[1] \in Requests
      /\ \A r \in Requests : <<r, 1>> \in Copies
      /\ \A w \in Workers : w \notin Resting
  BY NameAssumption DEF Copies
<1>4. UNCHANGED <<loc, pc, task, mail>> => Held' /\ Mailed'
  BY <1>1
\* A request is answered 201 by ScheduleEmail only.
<1>5. ASSUME UNCHANGED <<loc, pc, task, mail>>,
             \A r \in Requests : answer'[r] = "201" => answer[r] = "201"
      PROVE  Held' /\ Mailed' /\ Sent'
  BY <1>1, <1>4, <1>5
<1>6. ASSUME NEW r \in Requests, NEW a \in Addresses, Register(r, a)
      PROVE  Held' /\ Mailed' /\ Sent'
  BY <1>5, <1>6 DEF Register, Continue, TypeOK
<1>7. ASSUME NEW r \in Requests, FindByEmail(r) \/ CreateUser(r) \/ RequestLost(r)
      PROVE  Held' /\ Mailed' /\ Sent'
  <2>1. /\ UNCHANGED <<loc, pc, task, mail>>
        /\ \E next \in {"create", "schedule", "409", "500"} : Continue(r, next)
    BY <1>7 DEF FindByEmail, CreateUser, RequestLost
  <2> QED  BY <1>5, <2>1 DEF Continue, TypeOK
<1>8. ASSUME NEW r \in Requests, ScheduleEmail(r) PROVE Held' /\ Mailed' /\ Sent'
  <2>1. /\ UNCHANGED <<pc, task, mail>>
        /\ \A c \in Copies : loc'[c] = loc[c] \/ loc'[c] = "ready"
        /\ \A q \in Requests \ {r} : answer'[q] = answer[q]
        /\ "publish" \notin FaultKinds => loc'[<<r, 1>>] = "ready"
    BY <1>3, <1>8 DEF ScheduleEmail, Send, Fault, Continue, TypeOK
  <2>2. Held'
    BY <1>1, <1>3, <2>1 DEF Resting
  <2>3. Mailed' /\ Sent'
    BY <1>1, <1>3, <2>1
  <2> QED  BY <2>2, <2>3
<1>9. ASSUME NEW w \in Workers, NEW c \in Copies, Deliver(w, c)
      PROVE  Held' /\ Mailed' /\ Sent'
  <2>1. /\ pc[w] = "idle" /\ loc[c] = "ready" /\ UNCHANGED <<answer, mail>>
        /\ loc'[c] = w /\ \A d \in Copies \ {c} : loc'[d] = loc[d]
        /\ task'[w] = c /\ \A v \in Workers \ {w} : task'[v] = task[v]
        /\ pc'[w] = "sending" /\ \A v \in Workers \ {w} : pc'[v] = pc[v]
    BY <1>9 DEF Deliver, Goto, TypeOK
  <2>2. task[w] \notin Copies
    BY <2>1, NameAssumption DEF TypeOK
  <2>3. Held'
    BY <1>1, <2>1, <2>2
  <2>4. Mailed' /\ Sent'
    BY <1>1, <1>3, <2>1 DEF Resting
  <2> QED  BY <2>3, <2>4
<1>10. ASSUME NEW w \in Workers, SendEmail(w) PROVE Held' /\ Mailed' /\ Sent'
  <2>1. /\ pc[w] = "sending" /\ UNCHANGED <<answer, loc, task>>
        /\ \A v \in Workers \ {w} : pc'[v] = pc[v]
    BY <1>10 DEF SendEmail, Goto, TypeOK
  <2>2. Tried(task[w][1])' /\ \A q \in Requests : Tried(q) => Tried(q)'
    BY <1>10, <2>1, BusyTask DEF SendEmail, TypeOK
  <2>3. Mailed'
    BY <1>1, <1>3, <2>1, <2>2, BusyTask
  <2> QED  BY <1>1, <2>1, <2>3
\* Leaving a task: what its holder acknowledges was tried.
<1>11. ASSUME NEW w \in Workers, NEW place \in {"acked", "ready"}, Release(w, place),
              pc[w] # "idle", place = "acked" => pc[w] = "closing",
              UNCHANGED <<answer, mail>>
       PROVE  Held' /\ Mailed' /\ Sent'
  <2>1. /\ \A c \in Copies : \/ loc'[c] = loc[c] /\ loc[c] # w
                             \/ loc[c] = w /\ c = task[w] /\ loc'[c] = place
        /\ \A v \in Workers \ {w} : pc'[v] = pc[v] /\ task'[v] = task[v]
        /\ pc'[w] = "idle"
    BY <1>1, <1>11, BusyTask DEF Release, Holds, Goto, TypeOK
  <2>2. Held'
    BY <1>1, <1>3, <2>1 DEF Resting
  <2>3. Mailed'
    BY <1>1, <1>11, <2>1
  <2>4. Sent'
    BY <1>1, <1>3, <1>11, <2>1
  <2> QED  BY <2>2, <2>3, <2>4
<1>12. ASSUME NEW w \in Workers, Ack(w) \/ Crash(w)
       PROVE  Held' /\ Mailed' /\ Sent'
  BY <1>11, <1>12 DEF Ack, Crash
<1>13. ASSUME NEW w \in Workers, Requeue(w) PROVE Held' /\ Mailed' /\ Sent'
  <2>1. /\ \A c \in Copies : loc'[c] = loc[c] \/ loc'[c] = "ready"
        /\ UNCHANGED <<answer, pc, task, mail>>
    BY <1>13 DEF Requeue, TypeOK
  <2>2. Held'
    BY <1>1, <1>3, <2>1 DEF Resting
  <2>3. Mailed' /\ Sent'
    BY <1>1, <1>3, <2>1
  <2> QED  BY <2>2, <2>3
<1>14. CASE UNCHANGED vars
  BY <1>5, <1>14 DEF vars
<1> QED BY <1>6, <1>7, <1>8, <1>9, <1>10, <1>12, <1>13, <1>14 DEF Next

\* No welcome mail gets lost once its task was sent, whatever crashes and is
\* redelivered: SMTP took it, it is in the queue, or in the hands of a process that
\* has it still to send; or sending it has raised, where that can happen. While no
\* publish fails, that is every mail of a 201.
THEOREM MailAccountedForAlways == Spec => []MailAccountedFor
<1>1. ASSUME TypeOK, MailInv, NEW r \in Requests, loc[<<r, 1>>] # "unsent"
      PROVE  \/ Tried(r)
             \/ loc[<<r, 1>>] = "ready"
             \/ \E w \in Workers : /\ loc[<<r, 1>>] = w /\ task[w] = <<r, 1>>
                                   /\ pc[w] = "sending"
  <2>1. <<r, 1>> \in Copies /\ <<r, 1>>[1] = r
    BY DEF Copies
  <2>2. CASE loc[<<r, 1>>] \in Resting
    BY <1>1, <2>1, <2>2 DEF MailInv, Resting
  <2>3. CASE loc[<<r, 1>>] \in Workers
    <3>1. PICK w \in Workers : loc[<<r, 1>>] = w
      BY <2>3
    <3>2. task[w] = <<r, 1>>
      BY <1>1, <2>1, <3>1 DEF MailInv
    <3>3. pc[w] # "idle"
      BY <1>1, <2>1, <3>2, NameAssumption DEF TypeOK
    <3>4. pc[w] = "sending" \/ Tried(r)
      BY <1>1, <2>1, <3>2, <3>3 DEF MailInv, TypeOK
    <3> QED  BY <3>1, <3>2, <3>4
  <2> QED  BY <1>1, <2>1, <2>2, <2>3 DEF TypeOK
<1>2. TypeOK /\ MailInv => MailAccountedFor
  BY <1>1 DEF MailInv, MailAccountedFor, Tried
<1> QED BY <1>2, InitInv, NextTypeOK, MailInit, MailNext, PTL DEF Spec

=============================================================================
