--------------------------- MODULE LiveGeneration ---------------------------
(***************************************************************************)
(* A generation as its user lives it: the backend of module Generation,    *)
(* one page of the frontend (GeneratorApp), and between them the list and  *)
(* item endpoints and a WebSocket.                                         *)
(*                                                                         *)
(* The WebSocket is the abstract Subscription that module WsGateway        *)
(* implements; it carries the notifications of one user.  All generations  *)
(* are his; the page asks for some of them, other pages for the rest.      *)
(*                                                                         *)
(* The page runs one handler at a time, but an answer to a request comes   *)
(* any time later and in any order.  Glitches (a socket that closes or     *)
(* goes deaf, a request that fails) are bounded by MaxGlitches.            *)
(***************************************************************************)
EXTENDS Generation

CONSTANTS
  None,         \* null
  Past,         \* generations completed before the page is opened
  Limit,        \* how many generations the list has at most: 50 in the code
  MaxLists,     \* bound: requests for the list out at the same time
  MaxGlitches   \* bound: glitches in one behaviour

ASSUME NoneAssumption == None \notin Gens
ASSUME PastAssumption == Gens \subseteq Nat /\ Past \subseteq Gens
ASSUME LimitAssumption == Limit \in Nat \ {0}
ASSUME LiveBoundAssumption == MaxLists \in Nat \ {0} /\ MaxGlitches \in Nat

VARIABLES
  state, inbox,  \* the subscription of the page
  posting,       \* the generation whose POST is out
  generating,    \* the flag that disables the form
  active,        \* activeGenIdRef
  result,        \* the generation whose page is shown
  error,         \* an error is shown
  subject,       \* the generation asked for or clicked last
  history,       \* history[g]: the status of g in the list
  lists,         \* requests for the list that are out, in the order sent
  listed,        \* where the newest of them is: "out", "shown" or "covered"
  viewing,       \* the generations whose pages are being loaded
  missed,        \* generations asked for whose end came too early, or never
  heard,         \* generations whose final status the page was told
  glitches       \* glitches so far

channel  == <<state, inbox>>
form     == <<posting, generating, active, result, error, subject>>
requests == <<history, lists, listed, viewing>>
told     == <<missed, heard>>
liveVars == <<vars, channel, form, requests, told, glitches>>

Channel == INSTANCE Subscription

Glitch == glitches < MaxGlitches /\ glitches' = glitches + 1

Empty == [g \in Gens |-> "absent"]

\* A request for the list: sent, or answered with the rows that were read.
Unread == [read |-> FALSE, rows |-> Empty]

\* A state that Generation reaches: the past is through, nothing is going on.
Quiet ==
  /\ row    = [g \in Gens |-> IF g \in Past
                THEN [status |-> "completed", html |-> "page", error |-> "none"]
                ELSE Absent]
  /\ req    = [g \in Gens |-> IF g \in Past THEN "accepted" ELSE "none"]
  /\ loc    = [c \in Copies |-> IF c \in Past \X {1} THEN "acked" ELSE "unsent"]
  /\ pc     = [w \in Workers |-> "idle"]
  /\ task   = [w \in Workers |-> NoTask]
  /\ feed   = [g \in Gens |-> IF g \in Past
                THEN <<"running", "done", "completed">> ELSE << >>]
  /\ calls  = [g \in Gens |-> IF g \in Past THEN 1 ELSE 0]
  /\ faults \in [kinds : Profiles, count : {0}]

LiveInit ==
  /\ Quiet /\ Channel!Init
  /\ posting = None /\ generating = FALSE /\ active = None
  /\ result = None /\ error = FALSE /\ subject = None
  /\ history = Empty /\ lists = <<Unread>> /\ listed = "out"
  /\ viewing = {}
  /\ missed = {} /\ heard = {}
  /\ glitches = 0

Ends     == {"done", "error"}
Verdicts == {"completed", "failed"}

(***************************************************************************)
(* The backend.  What a step publishes goes into the subscription; the     *)
(* page will not hear of an end that finds no queue bound.                 *)
(***************************************************************************)
Awaited == {posting, active} \ {None}

Latest(g) == feed'[g][Len(feed'[g])]

Notified ==
  IF feed' = feed
  THEN UNCHANGED <<channel, missed>>
  ELSE \E g \in Gens :
         /\ feed'[g] # feed[g]
         /\ Channel!Publish([gen |-> g, event |-> Latest(g)])
         /\ missed' = IF state # "on" /\ Latest(g) \in Ends
                      THEN missed \cup ({g} \cap Awaited)
                      ELSE missed

\* The ids of a table are given out in order.
Serial ==
  \A g, h \in Gens : h < g /\ req'[g] # "none" => req'[h] # "none"

Backend ==
  /\ Next /\ Serial
  /\ Notified
  /\ UNCHANGED <<form, requests, heard, glitches>>

(***************************************************************************)
(* The socket.                                                             *)
(***************************************************************************)
\* The ends that were on their way and are lost.
Lost(kept) ==
  missed' = missed \cup {g \in Awaited : \E i \in kept + 1 .. Len(inbox) :
                              inbox[i].gen = g /\ inbox[i].event \in Ends}

Bind == Channel!Bind /\ UNCHANGED <<vars, form, requests, told, glitches>>

Deafen ==
  /\ Glitch
  /\ Channel!Deafen
  /\ Lost(Len(inbox'))
  /\ UNCHANGED <<vars, form, requests, heard>>

Close ==
  /\ state # "off"
  /\ Glitch
  /\ Channel!Close
  /\ Lost(0)
  /\ UNCHANGED <<vars, form, requests, heard>>

(***************************************************************************)
(* The form.                                                               *)
(***************************************************************************)
\* resetState for a new subject.
Turn(g) ==
  /\ subject' = g
  /\ result' = None /\ error' = FALSE

\* handleGenerate: the POST is on its way, and makes a row.
Generate(g) ==
  /\ ~generating
  /\ req[g] = "none"
  /\ CreateRow(g) /\ Serial
  /\ Turn(g)
  /\ posting' = g /\ generating' = TRUE
  /\ UNCHANGED <<channel, active, history, lists, listed, viewing, told, glitches>>

\* The answer of the POST: an id, or an exception.
Posted ==
  /\ posting # None
  /\ \/ /\ req[posting] = "accepted"
        /\ active' = posting
        /\ UNCHANGED <<generating, error, glitches>>
     \/ /\ req[posting] \in {"accepted", "failed"}
        /\ IF req[posting] = "accepted" THEN Glitch ELSE UNCHANGED glitches
        /\ generating' = FALSE /\ error' = TRUE
        /\ UNCHANGED active
  /\ posting' = None
  /\ UNCHANGED <<vars, channel, result, subject, requests, told>>

\* Broken: an error event leaves the form as it is.
ShowDone(g, event) ==
  IF active = g /\ event = "done"
  THEN result' = g /\ generating' = FALSE /\ active' = None /\ UNCHANGED error
  ELSE UNCHANGED <<generating, active, result, error>>

\* Broken: the end of every generation is shown.
ShowAll(g, event) ==
  IF event \in Ends
  THEN /\ result' = IF event = "done" THEN g ELSE result
       /\ error' = (event = "error" \/ error)
       /\ generating' = FALSE /\ active' = None
  ELSE UNCHANGED <<generating, active, result, error>>

\* Only the end of the stream of the active generation changes the form: a
\* status, even "failed", does not.
Show(g, event) ==
  IF active = g /\ event \in Ends
  THEN /\ result' = IF event = "done" THEN g ELSE result
       /\ error' = (event = "error" \/ error)
       /\ generating' = FALSE /\ active' = None
  ELSE UNCHANGED <<generating, active, result, error>>

(***************************************************************************)
(* The list.                                                               *)
(***************************************************************************)
Request(needed) ==
  /\ needed => Len(lists) < MaxLists
  /\ lists' = IF needed THEN Append(lists, Unread) ELSE lists
  /\ listed' = IF needed THEN "out" ELSE listed

\* Broken: the list is loaded again at the end of the LLM stream only.
ReloadAtEnd(event) == Request(event \in Ends)

\* "Any final event -> refresh the history", whoever asked for the generation.
Reload(event) == Request(event \in Ends \cup Verdicts)

\* handleWsEvent.
HandleWsEvent ==
  /\ Channel!Handle
  /\ LET g == Head(inbox).gen
         event == Head(inbox).event
     IN /\ Reload(event)
        /\ Show(g, event)
        /\ missed' = IF event \in Ends /\ g = posting THEN missed \cup {g}
                                                      ELSE missed
        /\ heard' = IF event \in Verdicts THEN heard \cup {g} ELSE heard
  /\ UNCHANGED <<vars, posting, subject, history, viewing, glitches>>

\* Rows are created in the order of their ids; the list has the newest ones only.
Displaced(g) ==
  LET newer == {h \in Gens : h > g /\ row[h].status # "absent"}
  IN \E listedFirst \in SUBSET newer : Cardinality(listedFirst) = Limit

Recent == [g \in Gens |-> IF Displaced(g) THEN "absent" ELSE row[g].status]

\* list_recent_by_user reads the rows.
ReadList(i) ==
  /\ ~lists[i].read
  /\ lists' = [lists EXCEPT ![i] = [read |-> TRUE, rows |-> Recent]]
  /\ UNCHANGED <<vars, channel, form, history, listed, viewing, told,
                 glitches>>

\* setHistory with an answer, whichever comes; with an empty list if the server
\* answered with an error, not at all if it did not answer.
SetHistory(i) ==
  /\ lists[i].read
  /\ \/ history' = lists[i].rows /\ UNCHANGED glitches
     \/ history' \in {Empty, history} /\ Glitch
  /\ listed' = IF listed # "out" THEN "covered"
               ELSE IF i < Len(lists) THEN "out"
               ELSE IF history' = lists[i].rows THEN "shown" ELSE "covered"
  /\ lists' = [j \in 1 .. Len(lists) - 1 |-> lists[IF j < i THEN j ELSE j + 1]]
  /\ UNCHANGED <<vars, channel, form, viewing, told>>

\* Broken: the history can be clicked while a generation runs.
ClickAnytime(g) ==
  /\ history[g] # "absent"
  /\ Turn(g)
  /\ viewing' = IF history[g] = "completed" THEN viewing \cup {g} ELSE viewing
  /\ UNCHANGED <<vars, channel, posting, generating, active, history, lists,
                 listed, told, glitches>>

\* handleHistoryClick: a completed page is loaded.
ClickHistory(g) ==
  /\ ~generating
  /\ history[g] # "absent"
  /\ Turn(g)
  /\ viewing' = IF history[g] = "completed" THEN viewing \cup {g} ELSE viewing
  /\ UNCHANGED <<vars, channel, posting, generating, active, history, lists,
                 listed, told, glitches>>

\* Its answer, or nothing if the row is no longer completed or the request
\* failed.
Viewed(g) ==
  /\ g \in viewing
  /\ \/ row[g].status = "completed" /\ result' = g
     \/ UNCHANGED result
  /\ viewing' = viewing \ {g}
  /\ UNCHANGED <<vars, channel, posting, generating, active, error, subject,
                 history, lists, listed, told, glitches>>

LiveNext ==
  \/ Backend \/ Bind \/ Deafen \/ Close
  \/ Posted \/ HandleWsEvent
  \/ \E i \in DOMAIN lists : ReadList(i) \/ SetHistory(i)
  \/ \E g \in Gens : Generate(g) \/ ClickHistory(g) \/ Viewed(g)

LiveSpec == LiveInit /\ [][LiveNext]_liveVars

\* The backend is as fair as in Generation, the page handles what reaches it,
\* and requests are answered.
LiveFairness ==
  /\ Fairness
  /\ WF_liveVars(Posted) /\ WF_liveVars(HandleWsEvent)
  /\ WF_liveVars(lists # << >> /\ (ReadList(1) \/ SetHistory(1)))

LiveFairSpec == LiveSpec /\ LiveFairness

-----------------------------------------------------------------------------
(***************************************************************************)
(* Properties.                                                             *)
(***************************************************************************)
Page == Gens \cup {None}
List == [Gens -> Statuses]

\* The page holds generations, lists of statuses and flags, and no more lists are
\* out than the bound of the model admits.
LiveTypeOK ==
  /\ TypeOK
  /\ state \in {"off", "on", "deaf"}
  /\ inbox \in Seq([gen : Gens, event : Events])
  /\ {posting, active, result, subject} \subseteq Page
  /\ generating \in BOOLEAN /\ error \in BOOLEAN
  /\ history \in List
  /\ lists \in Seq([read : BOOLEAN, rows : List])
  /\ Len(lists) <= MaxLists
  /\ listed \in {"out", "shown", "covered"}
  /\ {viewing, missed, heard} \subseteq SUBSET Gens
  /\ glitches \in 0 .. MaxGlitches

\* The page waits for one generation at a time: the one in activeGenIdRef, whose
\* POST was accepted, or the one it has posted; it is the one the form is about.
OneAtATime ==
  /\ active # None => /\ posting = None /\ active = subject
                      /\ req[active] = "accepted"
  /\ generating <=> active # None \/ posting # None
  /\ generating => ~error

\* The page shown is that of the generation the form is about, whatever the
\* user's other pages are told at the same time. Only the answer to a click in
\* the history, which nothing cancels, may come too late and show another one.
ResultIsSubject ==
  [][/\ subject' # subject => result' = None
     /\ result' # result => result' \in {None, subject'} \cup viewing]_liveVars

\* Once the page was told the final status of a generation, its newest list
\* shows what the row says, unless there is a list's length of newer ones; and
\* unless answers overtook each other or failed.
HistoryFresh ==
  CleanFaults /\ listed = "shown" =>
    \A g \in heard : \/ history[g] = row[g].status
                     \/ history[g] = "absent" /\ Displaced(g)

\* A page that was shown when the stream ended, before it was saved, can be
\* loaded again when the executor is through.
ShownIsStored ==
  result # None /\ faults.count = 0 =>
    \/ row[result].html = "page"
    \/ \E w \in Workers : pc[w] # "idle" /\ Gen(w) = result

\* The page does not wait for ever: the form comes back, unless the page was
\* told the end before it knew the id, or not at all.
GeneratingEnds ==
  generating ~> ~generating \/ active \in missed \/ faults.count > 0
=============================================================================
