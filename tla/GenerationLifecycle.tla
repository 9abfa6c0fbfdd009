------------------------ MODULE GenerationLifecycle ------------------------
(***************************************************************************)
(* What a generation row promises to its readers: the life cycle drawn in  *)
(* the docstring of backend/app/generation/domain/models/status.py,        *)
(*                                                                         *)
(*     pending  ->  running  ->  completed                                 *)
(*                           ->  failed                                    *)
(*                                                                         *)
(* "absent" stands for an id the database has not handed out yet.          *)
(***************************************************************************)
CONSTANT Gens            \* generation ids

VARIABLE status          \* [Gens -> Status]

Status == {"absent", "pending", "running", "completed", "failed"}

\* The statuses after which nothing may happen to a row any more.
Settled == {"completed", "failed"}

Init == status = [g \in Gens |-> "absent"]

Become(g, from, to) ==
  /\ status[g] = from
  /\ status' = [status EXCEPT ![g] = to]

Create(g) == Become(g, "absent", "pending")
Start(g)  == Become(g, "pending", "running")
Settle(g) == \E s \in Settled : Become(g, "running", s)

Next == \E g \in Gens : Create(g) \/ Start(g) \/ Settle(g)

Spec == Init /\ [][Next]_status
=============================================================================
