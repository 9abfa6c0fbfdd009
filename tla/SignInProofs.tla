---------------------------- MODULE SignInProofs ----------------------------
(***************************************************************************)
(* Theorems about SignIn, for any accounts, passwords, tabs and failures.  *)
(***************************************************************************)
EXTENDS SignIn, TLAPS

\* What is out is well formed, and a closed tab has nothing out.
Asked ==
  \A t \in Tabs :
    /\ startups[t] > 0 => sent[t] \in Tokens
    /\ step[t] # "idle" => form[t] \in Credentials
    /\ screen[t] = "closed" =>
         startups[t] = 0 /\ step[t] = "idle" /\ user[t] = None

\* The password of a was entered here.
Entered(a) == [address |-> a, password |-> accounts[a]] \in entered

\* Whatever can become the user of a tab was entered here.
Earned ==
  /\ token # None => Entered(token.owner)
  /\ \A t \in Tabs :
       /\ user[t] # None => Entered(user[t])
       /\ startups[t] > 0 => Entered(sent[t].owner)
       /\ step[t] # "idle" => form[t] \in entered
       /\ step[t] = "me" => Entered(form[t].address)

Holds(a) == token # None /\ token.owner = a

\* How the token follows what a tab is waiting for.
Calm(t) ==
  /\ startups[t] > 0 /\ ~strict => startups[t] = 1 /\ screen[t] = "loading"
  /\ startups[t] > 0 /\ screen[t] = "loading" =>
       user[t] = None /\ step[t] = "idle" /\ Holds(sent[t].owner)
  /\ user[t] # None => step[t] = "idle" /\ Holds(user[t])
  /\ step[t] = "me" => Holds(form[t].address)

Spared == Tabs \ (disturbed \cup overtaken)

Followed == \A t \in Spared : Calm(t)

Inv == TypeOK /\ Asked /\ Earned /\ Followed

Steps == {"idle", "register", "login", "me"}

LEMMA InitInv == Init => Inv
BY BoundAssumption
   DEF Init, Inv, TypeOK, Asked, Earned, Entered, Followed, Spared, Calm, Holds

LEMMA GlitchTyped ==
  ASSUME TypeOK, Glitch \/ UNCHANGED glitches
  PROVE  glitches' \in 0 .. MaxGlitches
BY BoundAssumption DEF Glitch, TypeOK

LEMMA SetTokenTyped ==
  ASSUME TypeOK, NEW t \in Tabs, NEW value \in Tokens \cup {None},
         SetToken(t, value)
  PROVE  token' \in Tokens \cup {None} /\ disturbed' \subseteq Tabs
BY DEF SetToken, TypeOK

\* A tab that stays undisturbed keeps its token when another one sets it.
LEMMA SetTokenCalm ==
  ASSUME NEW t \in Tabs, NEW u \in Tabs \ {t}, NEW value,
         SetToken(t, value), u \notin disturbed'
  PROVE  u \notin disturbed /\ (token' = token \/ screen[u] = "closed")
BY DEF SetToken

Same(u) ==
  /\ screen'[u] = screen[u] /\ user'[u] = user[u]
  /\ startups'[u] = startups[u] /\ sent'[u] = sent[u]
  /\ step'[u] = step[u] /\ form'[u] = form[u]

\* What tab t does leaves the tabs calm that stay undisturbed.
LEMMA OthersCalm ==
  ASSUME Inv, NEW t \in Tabs, NEW u \in Tabs \ {t}, u \in Spared',
         Same(u), UNCHANGED strict,
         (UNCHANGED token /\ disturbed \ {t} \subseteq disturbed')
           \/ \E value : SetToken(t, value),
         overtaken \ {t} \subseteq overtaken'
  PROVE  Calm(u)'
<1>1. u \notin disturbed /\ (token' = token \/ screen[u] = "closed")
  BY SetTokenCalm DEF Spared
<1>2. Calm(u)
  BY <1>1 DEF Inv, Followed, Spared
<1>3. CASE token' = token
  BY <1>2, <1>3 DEF Same, Calm, Holds
<1>4. CASE screen[u] = "closed"
  BY <1>4 DEF Same, Calm, Inv, Asked
<1> QED  BY <1>1, <1>3, <1>4

LEMMA OpenInv ==
  ASSUME Inv, NEW t \in Tabs, Open(t)
  PROVE  Inv'
<1> USE DEF Open, Set, Inv
<1>1. TypeOK'
  BY DEF TypeOK
<1>2. Asked'
  BY NoneAssumption DEF Asked, TypeOK
<1>3. Earned'
  BY DEF Earned, Entered, Asked, TypeOK
<1>4. Followed'
  BY DEF Followed, Spared, Calm, Holds, Asked, TypeOK
<1> QED  BY <1>1, <1>2, <1>3, <1>4

\* An insert is into an address that had no account, so of which no password
\* can have been entered.
LEMMA InsertEarned ==
  ASSUME TypeOK, NEW t \in Tabs, form[t] \in Credentials,
         Insert(t) \/ UNCHANGED accounts
  PROVE  /\ accounts' \in [Addresses -> Passwords \cup {None}]
         /\ \A a \in Addresses : Entered(a) => accounts'[a] = accounts[a]
<1>1. ASSUME NEW a \in Addresses, Entered(a) PROVE accounts[a] # None
  <2>1. [address |-> a, password |-> accounts[a]] \in Credentials
    BY <1>1 DEF Entered, TypeOK
  <2>2. [address |-> a, password |-> accounts[a]].password \in Typed
    BY <2>1 DEF Credentials
  <2> QED  BY <2>2, NoneAssumption, TypedAssumption
<1>2. CASE Insert(t)
  BY <1>1, <1>2, TypedAssumption DEF Insert, Set, Credentials, TypeOK
<1> QED  BY <1>2 DEF TypeOK

LEMMA CloseInv ==
  ASSUME Inv, NEW t \in Tabs, Close(t)
  PROVE  Inv'
<1> USE DEF Inv
<1>1. /\ accounts' \in [Addresses -> Passwords \cup {None}]
      /\ \A a \in Addresses : Entered(a) => accounts'[a] = accounts[a]
  <2>1. CASE Insert(t)
    BY <2>1, InsertEarned DEF Insert, Asked
  <2> QED  BY <2>1 DEF Close, TypeOK
<1>2. TypeOK'
  BY <1>1 DEF Close, Set, history, TypeOK
<1>3. Asked'
  BY DEF Close, Set, Asked, TypeOK
<1>4. Earned'
  <2>1. ASSUME NEW a \in Addresses, Entered(a) PROVE Entered(a)'
    BY <1>1, <2>1 DEF Close, history, Entered
  <2>2. token # None => token.owner \in Addresses
    BY DEF TypeOK, Tokens
  <2>3. \A u \in Tabs : /\ user[u] # None => user[u] \in Addresses
                        /\ startups[u] > 0 => sent[u].owner \in Addresses
                        /\ step[u] # "idle" => form[u].address \in Addresses
    BY DEF TypeOK, Asked, Tokens, Credentials
  <2> QED  BY <2>1, <2>2, <2>3 DEF Close, Set, history, Earned, TypeOK
<1>5. Followed'
  BY DEF Close, Set, history, Followed, Spared, Calm, Holds, TypeOK
<1> QED  BY <1>2, <1>3, <1>4, <1>5
LEMMA StartupInv ==
  ASSUME Inv, NEW t \in Tabs, Startup(t)
  PROVE  Inv'
<1> USE DEF Inv
<1>0. /\ sent[t] \in Tokens /\ Entered(sent[t].owner)
      /\ startups' = Set(startups, t, startups[t] - 1)
      /\ startups[t] \in {1, 2} /\ Answered(t)
      /\ overtaken \subseteq overtaken' /\ overtaken' \subseteq Tabs
  BY DEF Startup, NoteLate, Asked, Earned, TypeOK
\* An answer that is not late finds the token it was asked with.
<1>4. ASSUME t \in Spared', t \notin disturbed
      PROVE  /\ Calm(t) /\ step[t] = "idle" /\ Holds(sent[t].owner)
             /\ ~strict => startups[t] = 1
  <2>1. Calm(t) /\ ~Late(t)
    BY <1>4 DEF Followed, Spared, Startup, NoteLate
  <2>2. screen[t] \in {"loading", "ready"}
    BY <1>0 DEF Asked, TypeOK
  <2> QED  BY <1>0, <2>1, <2>2 DEF Calm, Late, Holds
<1>5. ASSUME NEW u \in Spared' \ {t}, disturbed \subseteq disturbed',
             token' = token \/ SetToken(t, None)
      PROVE  Calm(u)'
  <2>1. u \in Tabs \ {t}
    BY <1>5 DEF Spared
  <2>2. Same(u) /\ UNCHANGED strict
    <3>1. user'[u] = user[u]
      BY <1>0, <2>1 DEF Answered, Set, TypeOK
    <3> QED  BY <2>1, <3>1 DEF Startup, Set, Same, TypeOK
  <2> QED  BY <1>0, <1>5, <2>1, <2>2, OthersCalm
<1>1. CASE /\ user' = Set(user, t, sent[t].owner)
           /\ UNCHANGED <<token, disturbed, glitches>>
  <2> USE <1>0, <1>1 DEF Startup, Set
  <2>1. TypeOK'
    BY DEF TypeOK, Tokens
  <2>2. Asked'
    BY DEF Asked, TypeOK
  <2>3. Earned'
    <3>1. \A a \in Addresses : Entered(a)' <=> Entered(a)
      BY DEF Entered
    <3>2. sent[t].owner \in Addresses
      BY DEF Tokens
    <3> HIDE <1>0
    <3>3. \A u \in Tabs : startups'[u] > 0 =>
             startups[u] > 0 /\ sent'[u] = sent[u]
      BY <1>0 DEF TypeOK
    <3> QED  BY <1>0, <3>1, <3>2, <3>3 DEF Earned, TypeOK, Asked, Tokens, Credentials
  <2>4. Followed'
    <3>1. ASSUME t \in Spared' PROVE Calm(t)'
      <4>1. /\ Calm(t) /\ step[t] = "idle" /\ Holds(sent[t].owner)
            /\ ~strict => startups[t] = 1
        BY <1>4, <3>1 DEF Spared
      <4> QED  BY <4>1 DEF Calm, Holds, TypeOK
    <3> QED  BY <1>5, <3>1 DEF Followed
  <2> QED  BY <2>1, <2>2, <2>3, <2>4
<1>2. CASE /\ user' = Set(user, t, None) /\ SetToken(t, None)
           /\ Glitch \/ UNCHANGED glitches
  <2> USE <1>0, <1>2 DEF Startup, Set
  <2>1. TypeOK'
    BY GlitchTyped, SetTokenTyped DEF TypeOK
  <2>2. Asked'
    BY DEF Asked, TypeOK
  <2>3. Earned'
    BY DEF Earned, Entered, TypeOK, SetToken
  <2>4. Followed'
    <3>1. ASSUME t \in Spared' PROVE Calm(t)'
      <4>1. /\ Calm(t) /\ step[t] = "idle" /\ (~strict => startups[t] = 1)
        BY <1>4, <3>1 DEF Spared, SetToken
      <4> QED  BY <4>1 DEF Calm, TypeOK
    <3>2. disturbed \subseteq disturbed'
      BY DEF SetToken
    <3> QED  BY <1>5, <3>1, <3>2 DEF Followed
  <2> QED  BY <2>1, <2>2, <2>3, <2>4
<1>3. CASE Glitch /\ UNCHANGED <<token, user, disturbed>>
  <2> USE <1>0, <1>3 DEF Startup, Set
  <2>1. TypeOK'
    BY GlitchTyped DEF TypeOK
  <2>2. Asked'
    BY DEF Asked, TypeOK
  <2>3. Earned'
    BY DEF Earned, Entered, TypeOK
  <2>4. Followed'
    <3>1. ASSUME t \in Spared' PROVE Calm(t)'
      <4>1. /\ Calm(t) /\ step[t] = "idle" /\ (~strict => startups[t] = 1)
        BY <1>4, <3>1 DEF Spared
      <4> QED  BY <4>1 DEF Calm, Holds, TypeOK
    <3> QED  BY <1>5, <3>1 DEF Followed
  <2> QED  BY <2>1, <2>2, <2>3, <2>4
<1> QED  BY <1>0, <1>1, <1>2, <1>3 DEF Answered

LEMMA LogoutInv ==
  ASSUME Inv, NEW t \in Tabs, Logout(t)
  PROVE  Inv'
<1> USE DEF Inv, Logout, Set
<1>1. TypeOK'
  BY SetTokenTyped DEF TypeOK
<1>2. Asked'
  BY DEF Asked, TypeOK
<1>3. Earned'
  BY DEF Earned, Entered, TypeOK, SetToken
<1>4. Followed'
  BY SetTokenCalm DEF Followed, Spared, Calm, Holds, TypeOK, Asked, SetToken
<1> QED  BY <1>1, <1>2, <1>3, <1>4

LEMMA SubmitInv ==
  ASSUME Inv, NEW t \in Tabs, NEW mode \in {"register", "login"},
         NEW c \in Credentials, Submit(t, mode, c)
  PROVE  Inv'
<1> USE DEF Inv, Submit, Set
<1>1. TypeOK'
  BY DEF TypeOK
<1>2. Asked'
  BY DEF Asked, TypeOK
<1>3. Earned'
  BY DEF Earned, Entered, TypeOK
<1>4. Followed'
  BY DEF Followed, Spared, Calm, Holds, TypeOK
<1> QED  BY <1>1, <1>2, <1>3, <1>4

LEMMA RegisterInv ==
  ASSUME Inv, NEW t \in Tabs, Register(t)
  PROVE  Inv'
<1> USE DEF Inv
<1>1. /\ accounts' \in [Addresses -> Passwords \cup {None}]
      /\ \A a \in Addresses : Entered(a) => accounts'[a] = accounts[a]
  BY InsertEarned DEF Register, Asked
<1>2. PICK next \in {"login", "idle"} : Goto(t, next)
  BY DEF Register
<1>3. TypeOK'
  BY <1>1, <1>2, GlitchTyped DEF Register, Goto, Set, history, TypeOK
<1>4. Asked'
  BY <1>2 DEF Register, Goto, Set, Asked, TypeOK
<1>5. Earned'
  <2>1. ASSUME NEW a \in Addresses, Entered(a) PROVE Entered(a)'
    BY <1>1, <2>1 DEF Register, history, Entered
  <2>2. token # None => token.owner \in Addresses
    BY DEF TypeOK, Tokens
  <2>3. \A u \in Tabs : /\ user[u] # None => user[u] \in Addresses
                        /\ startups[u] > 0 => sent[u].owner \in Addresses
                        /\ step[u] # "idle" => form[u].address \in Addresses
    BY DEF TypeOK, Asked, Tokens, Credentials
  <2> QED  BY <1>2, <2>1, <2>2, <2>3
           DEF Register, Goto, Set, history, Earned, TypeOK
<1>6. Followed'
  BY <1>2 DEF Register, Goto, Set, history, Followed, Spared, Calm, Holds, TypeOK
<1> QED  BY <1>3, <1>4, <1>5, <1>6

LEMMA LoginInv ==
  ASSUME Inv, NEW t \in Tabs, Login(t)
  PROVE  Inv'
<1> USE DEF Inv
<1>0. form[t] \in Credentials /\ form[t] \in entered
  BY DEF Login, Asked, Earned
<1>1. CASE /\ accounts[form[t].address] = form[t].password
           /\ SetToken(t, [owner |-> form[t].address, good |-> TRUE])
           /\ Goto(t, "me") /\ UNCHANGED glitches
  <2>1. /\ [owner |-> form[t].address, good |-> TRUE] \in Tokens
        /\ Entered(form[t].address)
    BY <1>0, <1>1 DEF Tokens, Credentials, Entered
  <2>2. TypeOK'
    BY <1>1, <2>1, SetTokenTyped DEF Login, Goto, Set, TypeOK
  <2>3. Asked'
    BY <1>0, <1>1 DEF Login, Goto, Set, Asked, TypeOK
  <2>4. Earned'
    BY <1>1, <2>1 DEF Login, Goto, Set, Earned, Entered, SetToken, TypeOK
  <2>5. Followed'
    <3> SUFFICES ASSUME NEW u \in Spared' PROVE Calm(u)'
      BY DEF Followed
    <3>1. token' # None /\ token'.owner = form[t].address
      BY <1>1, <2>1, NoneAssumption DEF SetToken
    <3>2. u \in Spared /\ u \in Tabs /\ u \notin disturbed'
      BY <1>1 DEF Login, SetToken, Spared
    <3>3. CASE u = t
      BY <1>1, <3>1, <3>2, <3>3
         DEF Login, Goto, Set, Followed, Spared, Calm, Holds, TypeOK
    <3>4. CASE u # t
      <4>1. token' = token \/ screen[u] = "closed"
        BY <1>1, <3>2, <3>4, SetTokenCalm
      <4> QED  BY <1>1, <3>2, <3>4, <4>1
               DEF Login, Goto, Set, Followed, Spared, Calm, Holds, Asked, TypeOK
    <3> QED  BY <3>3, <3>4
  <2> QED  BY <2>2, <2>3, <2>4, <2>5
<1>2. CASE /\ Glitch \/ UNCHANGED glitches
           /\ Goto(t, "idle") /\ UNCHANGED <<token, disturbed>>
  <2>1. TypeOK'
    BY <1>2, GlitchTyped DEF Login, Goto, Set, TypeOK
  <2>2. Asked'
    BY <1>2 DEF Login, Goto, Set, Asked, TypeOK
  <2>3. Earned'
    BY <1>2 DEF Login, Goto, Set, Earned, Entered, TypeOK
  <2>4. Followed'
    BY <1>2 DEF Login, Goto, Set, Followed, Spared, Calm, Holds, TypeOK
  <2> QED  BY <2>1, <2>2, <2>3, <2>4
<1> QED  BY <1>1, <1>2 DEF Login

LEMMA MeInv ==
  ASSUME Inv, NEW t \in Tabs, Me(t)
  PROVE  Inv'
<1> USE DEF Inv
<1>0. form[t] \in Credentials /\ Entered(form[t].address)
  BY DEF Me, Asked, Earned
<1>1. user' \in {user, Set(user, t, form[t].address)} /\ Goto(t, "idle")
      /\ (Glitch \/ UNCHANGED glitches)
  BY DEF Me
<1>2. TypeOK'
  BY <1>0, <1>1, GlitchTyped DEF Me, Goto, Set, history, Credentials, TypeOK
<1>3. Asked'
  BY <1>1 DEF Me, Goto, Set, Asked, TypeOK
<1>4. Earned'
  <2>1. UNCHANGED <<accounts, entered, token, startups, sent>>
    BY DEF Me, history
  <2>2. \A u \in Tabs : user'[u] \in {None, user[u], form[t].address}
    BY <1>1 DEF Set, TypeOK
  <2>3. \A u \in Tabs : step'[u] # "idle" => step'[u] = step[u] /\ form'[u] = form[u]
    BY <1>1 DEF Goto, Set, TypeOK
  <2> QED  BY <1>0, <2>1, <2>2, <2>3 DEF Earned, Entered
<1>5. Followed'
  BY <1>1 DEF Me, Goto, Set, history, Followed, Spared, Calm, Holds, TypeOK
<1> QED  BY <1>2, <1>3, <1>4, <1>5

LEMMA ExpireInv ==
  ASSUME Inv, Expire
  PROVE  Inv'
<1> USE DEF Inv
<1>1. token' \in Tokens /\ token'.owner = token.owner
  BY DEF Expire, TypeOK, Tokens
<1>2. TypeOK'
  BY <1>1 DEF Expire, tabs, history, TypeOK
<1>3. Asked'
  BY DEF Expire, tabs, Asked
<1>4. Earned'
  BY <1>1 DEF Expire, tabs, history, Earned, Entered
<1>5. Followed'
  <2>1. token' # None
    BY NoneAssumption, <1>1
  <2> QED  BY <1>1, <2>1 DEF Expire, tabs, history, Followed, Spared, Calm, Holds
<1> QED  BY <1>2, <1>3, <1>4, <1>5

LEMMA StepInv == Inv /\ [Next]_vars => Inv'
<1> SUFFICES ASSUME Inv, [Next]_vars PROVE Inv'
  OBVIOUS
<1>1. CASE UNCHANGED vars
  BY <1>1 DEF vars, tabs, history, Inv, TypeOK, Asked, Earned, Entered, Followed,
              Spared, Calm, Holds
<1>2. CASE Next
  BY <1>2, OpenInv, CloseInv, StartupInv, LogoutInv, SubmitInv, RegisterInv,
     LoginInv, MeInv, ExpireInv DEF Next, Tab
<1> QED  BY <1>1, <1>2

LEMMA Invariance == Spec => []Inv
BY InitInv, StepInv, PTL DEF Spec

\* Every reachable state of the browser and the accounts is well typed.
THEOREM TypeCorrect == Spec => []TypeOK
<1>1. Inv => TypeOK
  BY DEF Inv
<1> QED  BY <1>1, Invariance, PTL

\* Whoever is shown as signed in had his password entered in this browser.
THEOREM IdentityEarnedAlways == Spec => []IdentityEarned
<1>1. Inv => IdentityEarned
  BY DEF Inv, Earned, Entered, IdentityEarned
<1> QED  BY <1>1, Invariance, PTL

\* A tab acts as the user it shows, under StrictMode and without, unless another tab
\* changes the token or the second answer of the effect comes too late for it.
THEOREM ActsAsShownAlways == Spec => []ActsAsShown
<1>1. Inv => ActsAsShown
  BY DEF Inv, TypeOK, Followed, Spared, Calm, Holds, ActsAsShown
<1> QED  BY <1>1, Invariance, PTL

-----------------------------------------------------------------------------
(***************************************************************************)
(* Who waits for what: what NeverHangs needs besides fairness.             *)
(***************************************************************************)
\* A tab that shows its spinner has a request of its effect out, and a form that
\* is busy is on the screen with the credentials it works for.
NeverStranded ==
  \A t \in Tabs :
    /\ screen[t] = "loading" => startups[t] > 0 /\ sent[t] \in Tokens
    /\ step[t] # "idle" => screen[t] = "ready" /\ form[t] \in Credentials

Waits(t) ==
  /\ screen[t] = "loading" => startups[t] > 0
  /\ step[t] # "idle" => screen[t] = "ready"

LEMMA WaitsNext ==
  ASSUME Inv, [Next]_vars, \A t \in Tabs : Waits(t)
  PROVE  \A t \in Tabs : Waits(t)'
<1> USE DEF Inv, Waits
<1>1. ASSUME UNCHANGED <<screen, startups, step>> PROVE \A t \in Tabs : Waits(t)'
  BY <1>1
<1>2. ASSUME NEW t \in Tabs,
             \A u \in Tabs \ {t} : /\ screen'[u] = screen[u]
                                   /\ startups'[u] = startups[u]
                                   /\ step'[u] = step[u],
             Waits(t)'
      PROVE  \A u \in Tabs : Waits(u)'
  BY <1>2
<1>3. ASSUME NEW t \in Tabs, Open(t) PROVE \A u \in Tabs : Waits(u)'
  <2>1. step[t] = "idle"
    BY <1>3 DEF Open, Asked
  <2> QED  BY <1>2, <1>3, <2>1 DEF Open, Set, TypeOK
<1>4. ASSUME NEW t \in Tabs, Close(t) PROVE \A u \in Tabs : Waits(u)'
  BY <1>2, <1>4 DEF Close, Set, TypeOK
<1>5. ASSUME NEW t \in Tabs, Startup(t) PROVE \A u \in Tabs : Waits(u)'
  BY <1>2, <1>5 DEF Startup, Set, TypeOK
<1>6. ASSUME NEW t \in Tabs, Logout(t) PROVE \A u \in Tabs : Waits(u)'
  BY <1>1, <1>6 DEF Logout
<1>7. ASSUME NEW t \in Tabs, NEW mode, NEW c, Submit(t, mode, c)
      PROVE  \A u \in Tabs : Waits(u)'
  BY <1>2, <1>7 DEF Submit, Set, TypeOK
<1>8. ASSUME NEW t \in Tabs, Register(t) \/ Login(t) \/ Me(t)
      PROVE  \A u \in Tabs : Waits(u)'
  <2>1. /\ step[t] # "idle" /\ UNCHANGED <<screen, startups>>
        /\ \E next : step' = Set(step, t, next)
    BY <1>8 DEF Register, Login, Me, Goto
  <2> QED  BY <1>2, <2>1 DEF Set, TypeOK
<1>9. CASE Expire \/ UNCHANGED vars
  BY <1>1, <1>9 DEF Expire, vars, tabs
<1> QED  BY <1>3, <1>4, <1>5, <1>6, <1>7, <1>8, <1>9 DEF Next, Tab

\* No tab waits for nothing: what it waits for is a request that is out, whatever
\* was reloaded, signed out or expired meanwhile; so an answer ends the wait.
THEOREM NeverStrandedAlways == Spec => []NeverStranded
<1> DEFINE IInv == Inv /\ \A t \in Tabs : Waits(t)
<1>1. Init => IInv
  BY InitInv DEF Init, Waits
<1>2. IInv /\ [Next]_vars => IInv'
  BY StepInv, WaitsNext
<1>3. IInv => NeverStranded
  BY DEF Inv, Asked, Waits, NeverStranded
<1> QED  BY <1>1, <1>2, <1>3, PTL DEF Spec
=============================================================================
