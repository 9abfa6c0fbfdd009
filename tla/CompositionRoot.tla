--------------------------- MODULE CompositionRoot ---------------------------
(***************************************************************************)
(* shared/dependency_provider.py in one process: six facades, each behind  *)
(* a getter under @lru_cache, built on the first call from the facades it  *)
(* needs.                                                                  *)
(*                                                                         *)
(* lru_cache holds no lock while it runs the function: threads that miss   *)
(* together all build, the first result stays in the cache and each thread *)
(* keeps its own; what raises is not cached.  Only the backend has several *)
(* threads there, those in which FastAPI runs its sync dependencies.       *)
(*                                                                         *)
(* A facade is numbered in the order of construction; 0 is no facade.      *)
(* In celery_worker the facades are used too: the executor publishes       *)
(* through the notifier of its generation facade, and generation_task      *)
(* closes the notifier that get_notifier_facade returns afterwards.        *)
(***************************************************************************)
EXTENDS Integers, Sequences, FiniteSets

CONSTANT Threads

ASSUME ThreadAssumption == IsFiniteSet(Threads)

VARIABLES
  process,   \* which service of the compose file this process belongs to
  pool,      \* the threads that call getters
  keys,      \* the API keys in the environment
  cache,     \* the results lru_cache holds, 0 where it holds none
  made,      \* the facades constructed, with the parts given to each
  stack,     \* the getters a thread is in, with the parts they have so far
  want,      \* the facade a thread has asked for, or "none"
  got,       \* the facade a thread was given
  connected, \* notifiers whose publisher holds a connection
  unclosed   \* history: those of them whose last use was a close that raised

links == <<connected, unclosed>>
vars == <<process, pool, keys, cache, made, stack, want, got, links>>
setting == <<process, pool, keys>>

Keys == {"OPENAI_API_KEY", "ANTHROPIC_API_KEY"}

Facades == {"llm", "rabbitmq", "notifier", "email", "user", "generation"}

\* The facades a getter asks for, in the order of its arguments.
Parts == [llm |-> << >>, rabbitmq |-> << >>, notifier |-> << >>,
          email |-> <<"rabbitmq">>, user |-> <<"email">>,
          generation |-> <<"llm", "rabbitmq", "notifier">>]

\* What the code of a service asks for: a route, the socket endpoint, a task.
Entries == [backend |-> {"user", "generation"}, ws |-> {"user"},
            celery_worker |-> {"generation"}, celery_email_worker |-> {"email"}]

Top(t) == stack[t][Len(stack[t])]
Below(t) == SubSeq(stack[t], 1, Len(stack[t]) - 1)

Init ==
  /\ process \in DOMAIN Entries
  /\ IF process = "backend" THEN pool \in (SUBSET Threads) \ {{}}
                            ELSE \E t \in Threads : pool = {t}
  /\ keys \in SUBSET Keys
  /\ cache = [f \in Facades |-> 0]
  /\ made = << >>
  /\ stack = [t \in Threads |-> << >>]
  /\ want = [t \in Threads |-> "none"]
  /\ got = [t \in Threads |-> 0]
  /\ connected = {} /\ unclosed = {}

(***************************************************************************)
(* The getters.                                                            *)
(***************************************************************************)
\* Facade n goes to the getter that asked for it, or to the thread itself.
Return(t, callers, n) ==
  IF callers = << >>
  THEN /\ stack' = [stack EXCEPT ![t] = << >>]
       /\ got' = [got EXCEPT ![t] = n]
  ELSE /\ stack' = [stack EXCEPT ![t] =
                      [callers EXCEPT ![Len(callers)].parts = Append(@, n)]]
       /\ UNCHANGED got

Call(t, callers, f) ==
  \/ cache[f] # 0 /\ Return(t, callers, cache[f])
  \/ /\ cache[f] = 0
     /\ stack' = [stack EXCEPT ![t] =
                    Append(callers, [facade |-> f, parts |-> << >>])]
     /\ got' = [got EXCEPT ![t] = IF callers = << >> THEN 0 ELSE @]

Ask(t, f) ==
  /\ want[t] = "none"
  /\ want' = [want EXCEPT ![t] = f]
  /\ Call(t, << >>, f)
  /\ UNCHANGED <<setting, cache, made, links>>

Missing(t) == Len(Top(t).parts) < Len(Parts[Top(t).facade])

AskPart(t) ==
  /\ stack[t] # << >> /\ Missing(t)
  /\ Call(t, stack[t], Parts[Top(t).facade][Len(Top(t).parts) + 1])
  /\ UNCHANGED <<setting, cache, made, want, links>>

\* Broken: the settings of the mail have no defaults either.
BuildableStrictly(f) == f \in {"llm", "email"} => keys = Keys

\* The registry of get_llm_facade has both plugins, whichever is the default.
Buildable(f) == f = "llm" => keys = Keys

Construct(t, store) ==
  /\ stack[t] # << >> /\ ~Missing(t)
  /\ Buildable(Top(t).facade)
  /\ made' = Append(made, Top(t))
  /\ cache' = IF store THEN [cache EXCEPT ![Top(t).facade] = Len(made) + 1]
                       ELSE cache
  /\ Return(t, Below(t), Len(made) + 1)
  /\ UNCHANGED <<setting, want, links>>

\* Broken: get_notifier_facade has no @lru_cache.
BuildUncached(t) ==
  Construct(t, Top(t).facade # "notifier" /\ cache[Top(t).facade] = 0)

\* Broken: get_email_facade has no @lru_cache.
BuildAnew(t) == Construct(t, Top(t).facade # "email" /\ cache[Top(t).facade] = 0)

Build(t) == Construct(t, cache[Top(t).facade] = 0)

\* os.environ raises a KeyError, which leaves every getter on the stack.
Raise(t) ==
  /\ stack[t] # << >> /\ ~Missing(t)
  /\ ~Buildable(Top(t).facade)
  /\ stack' = [stack EXCEPT ![t] = << >>]
  /\ UNCHANGED <<setting, cache, made, want, got, links>>

(***************************************************************************)
(* The use of a facade.                                                    *)
(***************************************************************************)
Raised(t) == want[t] # "none" /\ stack[t] = << >> /\ got[t] = 0

Done(t) ==
  /\ want' = [want EXCEPT ![t] = "none"]
  /\ got' = [got EXCEPT ![t] = 0]

\* The request or the task is over.  The getter of generation_task stands before
\* its try: when it raises, nothing is closed.
Leave(t) ==
  /\ Raised(t) \/ (got[t] # 0 /\ process # "celery_worker")
  /\ Done(t)
  /\ UNCHANGED <<setting, cache, made, stack, links>>

\* GenerationFactory.create_executor hands its own notifier to the executor.
Publish(t) ==
  /\ process = "celery_worker" /\ want[t] = "generation" /\ got[t] # 0
  /\ connected' = connected \cup {made[got[t]].parts[3]}
  /\ unclosed' = unclosed \ {made[got[t]].parts[3]}
  /\ UNCHANGED <<setting, cache, made, stack, want, got>>

Finally(t) ==
  /\ process = "celery_worker" /\ want[t] = "generation" /\ got[t] # 0
  /\ want' = [want EXCEPT ![t] = "notifier"]
  /\ Call(t, << >>, "notifier")
  /\ UNCHANGED <<setting, cache, made, links>>

\* connection.close may raise, which leaves _connection as it is.
Close(t) ==
  /\ want[t] = "notifier" /\ got[t] # 0
  /\ \/ connected' = connected \ {got[t]} /\ unclosed' = unclosed \ {got[t]}
     \/ /\ got[t] \in connected
        /\ UNCHANGED connected /\ unclosed' = unclosed \cup {got[t]}
  /\ Done(t)
  /\ UNCHANGED <<setting, cache, made, stack>>

Inside(t) == AskPart(t) \/ Build(t) \/ Raise(t)

Next ==
  \E t \in pool :
    \/ \E f \in Entries[process] : Ask(t, f)
    \/ Inside(t) \/ Leave(t) \/ Publish(t) \/ Finally(t) \/ Close(t)

Fairness == \A t \in Threads : WF_vars(t \in pool /\ Inside(t))

Spec == Init /\ [][Next]_vars /\ Fairness

-----------------------------------------------------------------------------
(***************************************************************************)
(* Properties.                                                             *)
(***************************************************************************)
Instances(f) == {n \in DOMAIN made : made[n].facade = f}

\* However the first requests race, a getter builds no more facades than there are
\* threads that call it: where one thread does, that is everywhere but in the
\* backend, there is one instance, as dependency_provider.py:6 promises.
BuiltOncePerThread ==
  \A f \in Facades : Cardinality(Instances(f)) <= Cardinality(pool)

\* A worker loses no connection: the one that is open belongs to the notifier that
\* get_notifier_facade returns, so that the next close reaches it, and between two
\* tasks one is open only if generation_task closed it last and that raised.
NothingLeftOpen ==
  process = "celery_worker" =>
    /\ connected \subseteq {cache["notifier"]}
    /\ (\A t \in pool : want[t] = "none") => connected \subseteq unclosed

\* Every call of a getter ends, with a facade of that kind and all its parts;
\* without the keys of both providers, whichever is the default, generations
\* cannot be asked for, but register, login, mail and sockets work on, and a
\* failed call spoils nothing for later ones.
EachAnswered ==
  \A t \in Threads, f \in Facades :
    want[t] = f ~> \/ /\ want[t] = f /\ got[t] # 0
                      /\ made[got[t]].facade = f
                      /\ Len(made[got[t]].parts) = Len(Parts[f])
                   \/ Raised(t) /\ f = "generation" /\ keys # Keys
=============================================================================
