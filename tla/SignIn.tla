------------------------------- MODULE SignIn -------------------------------
(***************************************************************************)
(* Accounts as a browser meets them: App and AuthScreen of the frontend in *)
(* several tabs that share one localStorage, and behind them register,     *)
(* login and me.                                                           *)
(*                                                                         *)
(* A token says whose it is and whether it is still good; the server keeps *)
(* none.  Registration is taken as module Registration has it: 201 for the *)
(* account the request has made, 409 for one that exists, and a 500 leaves *)
(* either.                                                                 *)
(*                                                                         *)
(* A tab handles one answer at a time; answers come any time.  Under       *)
(* StrictMode the effect of App runs twice.  Glitches (a request that      *)
(* fails) are bounded by MaxGlitches; a tab submits one form at a time.    *)
(***************************************************************************)
EXTENDS Integers, FiniteSets

CONSTANTS
  Addresses,   \* e-mail addresses
  Known,       \* those that were registered before, in another browser
  Passwords,   \* passwords
  Typed,       \* those that are typed in this browser
  Tabs,        \* tabs of the browser
  None,        \* null
  MaxGlitches  \* bound: glitches in one behaviour

Credentials == [address : Addresses, password : Typed]
Tokens      == [owner : Addresses, good : BOOLEAN]

ASSUME NoneAssumption ==
  None \notin Addresses \cup Passwords \cup Credentials \cup Tokens
ASSUME TypedAssumption == Typed \subseteq Passwords /\ Known \subseteq Addresses
ASSUME BoundAssumption == MaxGlitches \in Nat

VARIABLES
  strict,    \* the build runs under StrictMode
  accounts,  \* accounts[a]: the password of the account with address a
  token,     \* the token in localStorage
  screen,    \* screen[t]: "closed", "loading", "ready"
  user,      \* user[t]: the user that App has in its state
  startups,  \* startups[t]: requests of the effect of App that are out
  sent,      \* sent[t]: the token they carry
  step,      \* step[t]: what handleSubmit waits for, or "idle"
  form,      \* form[t]: the credentials it was called with
  entered,   \* credentials entered in this browser
  disturbed, \* tabs in whose life another tab has changed the token
  overtaken, \* tabs whose second startup answer came for a token of the past
  glitches   \* glitches so far

tabs    == <<screen, user, startups, sent, step, form>>
history == <<entered, disturbed, overtaken>>
vars    == <<strict, accounts, token, tabs, history, glitches>>

Glitch == glitches < MaxGlitches /\ glitches' = glitches + 1

Set(f, t, value) == [f EXCEPT ![t] = value]

\* setToken in tab t.
SetToken(t, value) ==
  /\ token' = value
  /\ disturbed' = IF value = token THEN disturbed
                  ELSE disturbed \cup {u \in Tabs \ {t} : screen[u] # "closed"}

Init ==
  /\ strict \in BOOLEAN
  /\ accounts \in [Addresses -> Passwords \cup {None}]
  /\ \A a \in Addresses : accounts[a] # None <=> a \in Known
  /\ token = None
  /\ screen   = [t \in Tabs |-> "closed"]
  /\ user     = [t \in Tabs |-> None]
  /\ startups = [t \in Tabs |-> 0]
  /\ sent     = [t \in Tabs |-> None]
  /\ step     = [t \in Tabs |-> "idle"]
  /\ form     = [t \in Tabs |-> None]
  /\ entered = {} /\ disturbed = {} /\ overtaken = {}
  /\ glitches = 0

(***************************************************************************)
(* App.                                                                    *)
(***************************************************************************)
\* The effect asks who the token belongs to, if there is one.
Open(t) ==
  /\ screen[t] = "closed"
  /\ screen' = Set(screen, t, IF token = None THEN "ready" ELSE "loading")
  /\ startups' = Set(startups, t, IF token = None THEN 0
                                  ELSE IF strict THEN 2 ELSE 1)
  /\ sent' = Set(sent, t, token)
  /\ disturbed' = disturbed \ {t} /\ overtaken' = overtaken \ {t}
  /\ UNCHANGED <<strict, accounts, token, user, step, form, entered, glitches>>

\* What register of tab t does to the accounts when it gets to the insert.
Insert(t) ==
  /\ step[t] = "register"
  /\ accounts[form[t].address] = None
  /\ accounts' = Set(accounts, form[t].address, form[t].password)

\* A tab is closed, or left to be opened again by a reload; a registration that
\* is out may still be served.
Close(t) ==
  /\ screen[t] # "closed"
  /\ screen' = Set(screen, t, "closed")
  /\ user' = Set(user, t, None)
  /\ startups' = Set(startups, t, 0) /\ sent' = Set(sent, t, None)
  /\ step' = Set(step, t, "idle") /\ form' = Set(form, t, None)
  /\ Insert(t) \/ UNCHANGED accounts
  /\ UNCHANGED <<strict, token, history, glitches>>

\* The answer of apiMe: a user, null for a token the server refuses, or an
\* exception.
Answered(t) ==
  \/ /\ sent[t].good
     /\ user' = Set(user, t, sent[t].owner)
     /\ UNCHANGED <<token, disturbed, glitches>>
  \/ /\ IF sent[t].good THEN Glitch ELSE UNCHANGED glitches
     /\ user' = Set(user, t, None)
     /\ SetToken(t, None)
  \/ Glitch /\ UNCHANGED <<token, user, disturbed>>

\* The second answer comes when the page has gone on: the token is another user's or
\* gone, or somebody is signing in.
Late(t) ==
  /\ screen[t] = "ready"
  /\ token = None \/ token.owner # sent[t].owner \/ step[t] # "idle"

NoteLate(t) == overtaken' = IF Late(t) THEN overtaken \cup {t} ELSE overtaken

\* Broken: loading ends with an answer only, not with an exception.
StartupUnfinished(t) ==
  /\ startups[t] > 0
  /\ startups' = Set(startups, t, startups[t] - 1)
  /\ sent' = IF startups[t] = 1 THEN Set(sent, t, None) ELSE sent
  /\ Answered(t)
  /\ screen' = IF user' = user /\ token' = token THEN screen
                                                 ELSE Set(screen, t, "ready")
  /\ NoteLate(t)
  /\ UNCHANGED <<strict, accounts, step, form, entered>>

Startup(t) ==
  /\ startups[t] > 0
  /\ startups' = Set(startups, t, startups[t] - 1)
  /\ sent' = IF startups[t] = 1 THEN Set(sent, t, None) ELSE sent
  /\ Answered(t)
  /\ screen' = Set(screen, t, "ready")
  /\ NoteLate(t)
  /\ UNCHANGED <<strict, accounts, step, form, entered>>

\* Broken: App keeps its user.
LogoutOfStorage(t) ==
  /\ screen[t] = "ready" /\ user[t] # None
  /\ SetToken(t, None)
  /\ UNCHANGED <<strict, accounts, tabs, entered, overtaken, glitches>>

Logout(t) ==
  /\ screen[t] = "ready" /\ user[t] # None
  /\ SetToken(t, None)
  /\ user' = Set(user, t, None)
  /\ UNCHANGED <<strict, accounts, screen, startups, sent, step, form, entered,
                 overtaken, glitches>>

(***************************************************************************)
(* AuthScreen: handleSubmit registers, if asked to, logs in, and asks who  *)
(* it is.  The first exception ends it.                                    *)
(***************************************************************************)
Goto(t, next) ==
  /\ step' = Set(step, t, next)
  /\ form' = IF next = "idle" THEN Set(form, t, None) ELSE form

Submit(t, mode, credentials) ==
  /\ screen[t] = "ready" /\ user[t] = None
  /\ step[t] = "idle"
  /\ step' = Set(step, t, mode) /\ form' = Set(form, t, credentials)
  /\ entered' = entered \cup {credentials}
  /\ UNCHANGED <<strict, accounts, token, screen, user, startups, sent,
                 disturbed, overtaken, glitches>>

\* 201, 409 or 500.
Register(t) ==
  /\ step[t] = "register"
  /\ \/ Insert(t) /\ Goto(t, "login") /\ UNCHANGED glitches
     \/ /\ accounts[form[t].address] # None
        /\ Goto(t, "idle")
        /\ UNCHANGED <<accounts, glitches>>
     \/ Glitch /\ Goto(t, "idle") /\ (Insert(t) \/ UNCHANGED accounts)
  /\ UNCHANGED <<strict, token, screen, user, startups, sent, history>>

\* Broken: the password is not compared with the hash.
LoginUnverified(t) ==
  /\ step[t] = "login"
  /\ IF accounts[form[t].address] # None
     THEN /\ SetToken(t, [owner |-> form[t].address, good |-> TRUE])
          /\ Goto(t, "me")
     ELSE Goto(t, "idle") /\ UNCHANGED <<token, disturbed>>
  /\ UNCHANGED <<strict, accounts, screen, user, startups, sent, entered,
                 overtaken, glitches>>

\* authenticate and issue; then setToken, and apiMe with that token.
Login(t) ==
  /\ step[t] = "login"
  /\ \/ /\ accounts[form[t].address] = form[t].password
        /\ SetToken(t, [owner |-> form[t].address, good |-> TRUE])
        /\ Goto(t, "me")
        /\ UNCHANGED glitches
     \/ /\ IF accounts[form[t].address] = form[t].password
           THEN Glitch ELSE UNCHANGED glitches
        /\ Goto(t, "idle")
        /\ UNCHANGED <<token, disturbed>>
  /\ UNCHANGED <<strict, accounts, screen, user, startups, sent, entered,
                 overtaken>>

\* onAuth, or nothing: if apiMe has no answer, the form comes back in silence,
\* and the token stays.
Me(t) ==
  /\ step[t] = "me"
  /\ \/ user' = Set(user, t, form[t].address) /\ UNCHANGED glitches
     \/ Glitch /\ UNCHANGED user
  /\ Goto(t, "idle")
  /\ UNCHANGED <<strict, accounts, token, screen, startups, sent, history>>

\* jwt_expires_minutes have passed.
Expire ==
  /\ token # None /\ token.good
  /\ token' = [token EXCEPT !.good = FALSE]
  /\ UNCHANGED <<strict, accounts, tabs, history, glitches>>

Tab(t) ==
  \/ Open(t) \/ Close(t) \/ Startup(t) \/ Logout(t)
  \/ \E mode \in {"register", "login"}, c \in Credentials : Submit(t, mode, c)
  \/ Register(t) \/ Login(t) \/ Me(t)

Next == Expire \/ \E t \in Tabs : Tab(t)

Spec == Init /\ [][Next]_vars

\* Requests are answered, or fail.
Fairness ==
  \A t \in Tabs : WF_vars(Startup(t) \/ Register(t) \/ Login(t) \/ Me(t))

FairSpec == Spec /\ Fairness

-----------------------------------------------------------------------------
(***************************************************************************)
(* Properties.                                                             *)
(***************************************************************************)
TypeOK ==
  /\ strict \in BOOLEAN
  /\ accounts \in [Addresses -> Passwords \cup {None}]
  /\ token \in Tokens \cup {None}
  /\ screen \in [Tabs -> {"closed", "loading", "ready"}]
  /\ user \in [Tabs -> Addresses \cup {None}]
  /\ startups \in [Tabs -> 0 .. 2]
  /\ sent \in [Tabs -> Tokens \cup {None}]
  /\ step \in [Tabs -> {"idle", "register", "login", "me"}]
  /\ form \in [Tabs -> Credentials \cup {None}]
  /\ entered \subseteq Credentials
  /\ disturbed \subseteq Tabs /\ overtaken \subseteq Tabs
  /\ glitches \in 0 .. MaxGlitches

\* Whoever a tab shows as signed in, his password was entered in this browser,
\* through retries, reloads, late answers and tokens of other tabs.
IdentityEarned ==
  \A t \in Tabs :
    user[t] # None =>
      [address |-> user[t], password |-> accounts[user[t]]] \in entered

\* A tab acts as the user it shows, as long as no other tab changes the token they
\* share and, under StrictMode, the second answer of the effect does not come after
\* the user or the first answer has changed it; without StrictMode no answer that
\* is out can change who is shown.
ActsAsShown ==
  \A t \in Tabs \ (disturbed \cup overtaken) :
    user[t] # None =>
      token # None /\ token.owner = user[t] /\ (strict \/ startups[t] = 0)

\* A tab never hangs: loading ends, and the form can be submitted again.
NeverHangs ==
  \A t \in Tabs :
    screen[t] = "loading" \/ step[t] # "idle" ~>
      screen[t] = "closed" \/ (screen[t] = "ready" /\ step[t] = "idle")
=============================================================================
