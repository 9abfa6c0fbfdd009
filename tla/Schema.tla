------------------------------- MODULE Schema --------------------------------
(***************************************************************************)
(* The database and the containers of docker-compose.yml: "migrate" runs   *)
(* alembic upgrade head, and what needs the tables starts after it.  The   *)
(* volume of postgres outlives the stack and may come from an earlier      *)
(* release, at any revision and with rows in it.                           *)
(*                                                                         *)
(* env.py runs all revisions in one transaction, of which nobody sees      *)
(* anything before its commit.  No container has a restart policy: what    *)
(* exits stays down until somebody calls docker compose up again.          *)
(***************************************************************************)
EXTENDS Integers, Sequences

CONSTANTS
  MaxCommands,  \* bound: further calls of docker compose and of alembic
  MaxFaults     \* bound: containers that exit or stay unhealthy

ASSUME BoundAssumption == MaxCommands \in Nat /\ MaxFaults \in Nat

VARIABLES
  state,     \* of each container
  db,        \* what is committed: the revision and the objects of the schema
  rows,      \* table generations has rows
  work,      \* the schema as the open transaction sees it
  todo,      \* what the alembic process has still to do
  command,   \* "none", or what the alembic process does
  commands,  \* further commands so far
  faults     \* faults so far

vars == <<state, db, rows, work, todo, command, commands, faults>>
alembic == <<db, rows, work, todo, command>>

\* Broken: a one-shot container is never healthy.
AfterMigrateHealthy ==
  {<<"postgres", "healthy">>, <<"rabbitmq", "healthy">>, <<"migrate", "healthy">>}

\* What needs the tables waits for this.
AfterMigrate ==
  {<<"postgres", "healthy">>, <<"rabbitmq", "healthy">>, <<"migrate", "completed">>}

\* depends_on, with the condition that the container has to meet.
DependsOn ==
  [postgres |-> {}, rabbitmq |-> {}, mailhog |-> {},
   migrate |-> {<<"postgres", "healthy">>},
   backend |-> AfterMigrate, celery_worker |-> AfterMigrate, ws |-> AfterMigrate,
   celery_email_worker |-> {<<"rabbitmq", "healthy">>, <<"mailhog", "started">>},
   frontend |-> {<<"backend", "started">>}]

Containers == DOMAIN DependsOn
Checked    == {"postgres", "rabbitmq"}   \* those with a healthcheck

(***************************************************************************)
(* The three revisions.  The foreign key of the third has no name, which   *)
(* its downgrade would need to drop it.                                    *)
(***************************************************************************)
HeadRevision == 3

Creates == << <<"generations">>,
              <<"users", "ix_users_email">>,
              <<"user_id", "ix_generations_user_id", "user_fk">> >>

Drops == << <<"generations">>,
            <<"ix_users_email", "users">>,
            <<"nameless", "ix_generations_user_id", "user_id">> >>

Each(verb, objects) == [k \in DOMAIN objects |-> <<verb, objects[k]>>]

Upgrade(r) == Each("create", Creates[r]) \o << <<"stamp", r>> >>
Downgrade(r) == Each("drop", Drops[r]) \o << <<"stamp", r - 1>> >>

UpgradeToHead(from) ==
  LET From(r) == IF r > from THEN Upgrade(r) ELSE << >>
  IN From(1) \o From(2) \o From(3)

ObjectsAt(r) ==
  UNION {{Creates[n][k] : k \in DOMAIN Creates[n]} : n \in 1 .. r}

\* user_id is NOT NULL and has no default: no row that exists can have it.
Raises(step) ==
  \/ step[1] = "create" /\ step[2] \in work.objects
  \/ step[1] = "create" /\ step[2] = "user_id" /\ rows
  \/ step[1] = "drop" /\ step[2] \notin work.objects

Done(step) ==
  CASE step[1] = "create" -> [work EXCEPT !.objects = @ \cup {step[2]}]
    [] step[1] = "drop"   -> [work EXCEPT !.objects = @ \ {step[2]}]
    [] step[1] = "stamp"  -> [work EXCEPT !.revision = step[2]]

Init ==
  /\ state = [c \in Containers |-> "created"]
  /\ \E r \in 0 .. HeadRevision :
       /\ db = [revision |-> r, objects |-> ObjectsAt(r)]
       /\ rows \in IF r = 0 THEN {FALSE} ELSE BOOLEAN
  /\ work = db
  /\ todo = << >>
  /\ command = "none"
  /\ commands = 0 /\ faults = 0

(***************************************************************************)
(* The containers.                                                         *)
(***************************************************************************)
Running(c) == state[c] \in {"started", "healthy"}

Meets(c, condition) ==
  state[c] = condition \/ (condition = "started" /\ Running(c))

Become(c, s) == state' = [state EXCEPT ![c] = s]

Start(c) ==
  /\ state[c] = "created"
  /\ \A need \in DependsOn[c] : Meets(need[1], need[2])
  /\ Become(c, "started")
  /\ UNCHANGED <<alembic, commands, faults>>

Healthcheck(c) ==
  /\ c \in Checked /\ state[c] = "started"
  /\ Become(c, "healthy")
  /\ UNCHANGED <<alembic, commands, faults>>

\* A container exits or its healthcheck runs out of retries; without postgres
\* or its own container an alembic process ends.
Fail(c) ==
  /\ Running(c)
  /\ faults < MaxFaults
  /\ faults' = faults + 1
  /\ IF c = "postgres" \/ (c = "migrate" /\ command = "upgrade")
     THEN /\ command' = "none" /\ todo' = << >> /\ work' = db
          /\ state' = [state EXCEPT ![c] = "failed",
                         !["migrate"] = IF Running("migrate") THEN "failed" ELSE @]
     ELSE Become(c, "failed") /\ UNCHANGED <<work, todo, command>>
  /\ UNCHANGED <<db, rows, commands>>

\* docker compose up: what does not run is started again, migrate included.
Up ==
  /\ commands < MaxCommands
  /\ commands' = commands + 1
  /\ state' = [c \in Containers |-> IF Running(c) THEN state[c] ELSE "created"]
  /\ UNCHANGED <<alembic, faults>>

\* The backend stores a generation.
Insert ==
  /\ Running("backend") /\ Running("postgres")
  /\ rows' = TRUE
  /\ UNCHANGED <<state, db, work, todo, command, commands, faults>>

(***************************************************************************)
(* The alembic process: that of migrate, or one that somebody runs by hand *)
(* while no other runs.                                                    *)
(***************************************************************************)
Begin(what, plan) ==
  /\ command = "none"
  /\ command' = what
  /\ work' = db
  /\ todo' = plan
  /\ UNCHANGED <<db, rows, faults>>

Migrate ==
  /\ state["migrate"] = "started"
  /\ Begin("upgrade", UpgradeToHead(db.revision))
  /\ UNCHANGED <<state, commands>>

RunDowngrade ==
  /\ state["postgres"] = "healthy" /\ db.revision > 0
  /\ commands < MaxCommands
  /\ commands' = commands + 1
  /\ Begin("downgrade", Downgrade(db.revision))
  /\ UNCHANGED state

\* Broken: every statement commits.
ApplyCommitted ==
  /\ todo # << >> /\ ~Raises(Head(todo))
  /\ work' = Done(Head(todo)) /\ db' = work'
  /\ todo' = Tail(todo)
  /\ UNCHANGED <<state, rows, command, commands, faults>>

Apply ==
  /\ todo # << >> /\ ~Raises(Head(todo))
  /\ work' = Done(Head(todo))
  /\ todo' = Tail(todo)
  /\ UNCHANGED <<state, db, rows, command, commands, faults>>

\* The process ends; the outcome is that of migrate only if it is its process.
Exit(outcome) ==
  /\ command' = "none"
  /\ todo' = << >>
  /\ IF command = "upgrade" THEN Become("migrate", outcome) ELSE UNCHANGED state
  /\ UNCHANGED <<commands, faults>>

Rollback ==
  /\ todo # << >> /\ Raises(Head(todo))
  /\ work' = db
  /\ Exit("failed")
  /\ UNCHANGED <<db, rows>>

Commit ==
  /\ command # "none" /\ todo = << >>
  /\ db' = work
  /\ rows' = (rows /\ "generations" \in work.objects)
  /\ Exit("completed")
  /\ UNCHANGED work

Alembic == Migrate \/ Apply \/ Rollback \/ Commit

Next ==
  \/ \E c \in Containers : Start(c) \/ Healthcheck(c) \/ Fail(c)
  \/ Up \/ Insert \/ RunDowngrade \/ Alembic

Fairness ==
  /\ \A c \in Containers : WF_vars(Start(c)) /\ WF_vars(Healthcheck(c))
  /\ WF_vars(Alembic)

Spec == Init /\ [][Next]_vars /\ Fairness

-----------------------------------------------------------------------------
(***************************************************************************)
(* Properties.                                                             *)
(***************************************************************************)
\* Whatever fails and whenever, nobody meets a schema between two revisions, and
\* what is built on the ORM entities meets the one they describe: it never
\* serves from an old volume that could not be migrated.
SchemaFits ==
  /\ db.objects = ObjectsAt(db.revision)
  /\ \A c \in {"backend", "celery_worker", "ws"} :
       Running(c) => db.revision = HeadRevision

\* A volume with rows of a release that did not know their owner.
Ownerless == rows /\ db.revision < HeadRevision

\* Every stack comes up on every volume, unless something fails or the volume has
\* rows without an owner, which no upgrade gets past.
StackComesUp ==
  (\A c \in Containers : state[c] = "created") ~>
    \/ \A c \in Containers : Running(c) \/ state[c] = "completed"
    \/ faults > 0 \/ Ownerless
=============================================================================
