----------------------------- MODULE WsGateway ------------------------------
(***************************************************************************)
(* The live channel of one browser page: useGenerationSocket of the        *)
(* frontend, ws_endpoint of the gateway, and the queue that                *)
(* NotificationSubscriber binds for it.                                    *)
(*                                                                         *)
(* The hook opens a socket, and after a delay another one whenever one     *)
(* closes, until the page is left.  The endpoint accepts first; then a     *)
(* task of its own binds a queue and forwards, while the read loop waits   *)
(* for pings and gives up after a minute of silence.                       *)
(*                                                                         *)
(* React's StrictMode, under which main.tsx runs the development build,    *)
(* mounts every component twice: the hook connects, cleans up and connects *)
(* again in one go, with the same refs.                                    *)
(*                                                                         *)
(* Pings are their intervals: while that of its socket runs, a page that   *)
(* is awake is never silent for a minute.  Glitches (a connection lost, a  *)
(* token rejected, a subscription or a forwarder that fails, a page that   *)
(* sleeps) are bounded by MaxGlitches.                                     *)
(***************************************************************************)
EXTENDS Integers, Sequences, FiniteSets

CONSTANTS
  MaxSockets,    \* bound: sockets opened by one page
  MaxPublished,  \* bound: notifications of the user
  MaxGlitches    \* bound: glitches in one behaviour

\* StrictMode opens two sockets at once.
ASSUME BoundAssumption ==
  MaxSockets \in Nat \ {0, 1} /\ MaxPublished \in Nat /\ MaxGlitches \in Nat

Sockets == 1 .. MaxSockets

VARIABLES
  strict,     \* the page runs under StrictMode
  page,       \* "new", "mounted", "left"
  opened,     \* sockets opened so far: the newest is the one in wsRef
  timer,      \* a reconnect is due that reconnectTimerRef can clear
  strays,     \* reconnects due whose timer the ref no longer holds
  pinging,    \* sockets that are not closed and whose ping interval runs
  pingRef,    \* the one whose interval pingTimerRef holds, or 0
  client,     \* client[s]: the browser's end of socket s
  server,     \* server[s]: ws_endpoint for socket s
  forwarder,  \* forwarder[s]: its task _forward_amqp_to_socket
  queue,      \* queue[s]: notifications in the queue bound for s
  wire,       \* wire[s]: notifications sent that the page has yet to handle
  published,  \* notifications published so far; they are numbered
  start,      \* start[s]: how many of them came before the queue was bound
  got,        \* got[s]: notifications the page has handled
  glitches    \* glitches so far

pings   == <<pinging, pingRef>>
hook    == <<strict, page, opened, timer, strays, pings>>
flow    == <<queue, wire, published, start, got>>
vars    == <<hook, client, server, forwarder, flow, glitches>>

Glitch == glitches < MaxGlitches /\ glitches' = glitches + 1

\* A step that the other side's state explains, or a glitch.
Caused(condition) == IF condition THEN UNCHANGED glitches ELSE Glitch

Set(f, s, value) == [f EXCEPT ![s] = value]

Init ==
  /\ strict \in BOOLEAN
  /\ page = "new" /\ opened = 0
  /\ timer = FALSE /\ strays = 0
  /\ pinging = {} /\ pingRef = 0
  /\ client    = [s \in Sockets |-> "none"]
  /\ server    = [s \in Sockets |-> "none"]
  /\ forwarder = [s \in Sockets |-> "none"]
  /\ queue = [s \in Sockets |-> << >>]
  /\ wire  = [s \in Sockets |-> << >>]
  /\ got   = [s \in Sockets |-> << >>]
  /\ start = [s \in Sockets |-> 0]
  /\ published = 0
  /\ glitches = 0

Alive(s) == client[s] \in {"connecting", "open"}

(***************************************************************************)
(* The hook in the page.                                                   *)
(***************************************************************************)
\* Under StrictMode the first socket is closed before it is open; the second
\* mount has cleared closedManuallyRef when its onclose comes.
Mount ==
  /\ page = "new" /\ page' = "mounted"
  /\ opened' = IF strict THEN 2 ELSE 1
  /\ client' = [s \in Sockets |-> IF s = opened' THEN "connecting"
                                  ELSE IF s < opened' THEN "closing"
                                                      ELSE client[s]]
  /\ UNCHANGED <<strict, timer, strays, pings, server, forwarder, flow,
                 glitches>>

\* connect, called by a timer; the timer of a ref that was overwritten fires
\* even after the page was left.
Reconnect ==
  /\ opened < MaxSockets
  /\ opened' = opened + 1
  /\ client' = Set(client, opened', "connecting")
  /\ \/ timer /\ timer' = FALSE /\ UNCHANGED strays
     \/ strays > 0 /\ strays' = strays - 1 /\ UNCHANGED timer
  /\ UNCHANGED <<strict, page, pings, server, forwarder, flow, glitches>>

OnOpen(s) ==
  /\ client[s] = "connecting" /\ server[s] = "accepted"
  /\ client' = Set(client, s, "open")
  /\ pinging' = pinging \cup {s} /\ pingRef' = s
  /\ UNCHANGED <<strict, page, opened, timer, strays, server, forwarder, flow,
                 glitches>>

OnMessage(s) ==
  /\ client[s] = "open" /\ wire[s] # << >>
  /\ got' = Set(got, s, Append(got[s], Head(wire[s])))
  /\ wire' = Set(wire, s, Tail(wire[s]))
  /\ UNCHANGED <<hook, client, server, forwarder, queue, published, start,
                 glitches>>

\* The browser learns that the connection is over: the gateway has closed it
\* after its last frame, or it is lost.
Hangup(s) ==
  /\ Alive(s)
  /\ Caused(server[s] = "gone" /\ wire[s] = << >>)
  /\ client' = Set(client, s, "closing")
  /\ wire' = Set(wire, s, << >>)
  /\ UNCHANGED <<hook, server, forwarder, queue, published, start, got>>

\* Broken: no reconnect.
OnCloseForGood(s) ==
  /\ client[s] = "closing"
  /\ client' = Set(client, s, "closed")
  /\ UNCHANGED <<hook, server, forwarder, flow, glitches>>

ClearPing(closed) == pinging' = pinging \ ({pingRef} \cup closed) /\ pingRef' = 0

\* closedManuallyRef is page = "left". The interval that pingTimerRef holds is
\* cleared, whichever socket it is for.
OnClose(s) ==
  /\ client[s] = "closing"
  /\ client' = Set(client, s, "closed")
  /\ ClearPing({s})
  /\ IF page = "left"
     THEN UNCHANGED <<timer, strays>>
     ELSE timer' = TRUE /\ strays' = IF timer THEN strays + 1 ELSE strays
  /\ UNCHANGED <<strict, page, opened, server, forwarder, flow, glitches>>

\* ws.close(): the page handles nothing more.
CloseNewest ==
  /\ client' = [client EXCEPT ![opened] =
                  IF @ \in {"connecting", "open"} THEN "closing" ELSE @]
  /\ wire' = Set(wire, opened, << >>)

\* Broken: the cleanup forgets the reconnect timer.
UnmountKeepingTimer ==
  /\ page = "mounted" /\ page' = "left"
  /\ CloseNewest
  /\ ClearPing({})
  /\ UNCHANGED <<strict, opened, timer, strays, server, forwarder, queue,
                 published, start, got, glitches>>

\* Logout: the cleanup clears the timer it knows and closes the newest socket.
Unmount ==
  /\ page = "mounted" /\ page' = "left"
  /\ timer' = FALSE
  /\ ClearPing({})
  /\ CloseNewest
  /\ UNCHANGED <<strict, opened, strays, server, forwarder, queue, published,
                 start, got, glitches>>

(***************************************************************************)
(* The gateway.                                                            *)
(***************************************************************************)
\* accept, and the forwarder is a task that has yet to run. A socket opened
\* after the page was left has a token if the user has logged in again.
Accept(s) ==
  /\ client[s] \in {"connecting", "closing"} /\ server[s] = "none"
  /\ server' = Set(server, s, "accepted")
  /\ forwarder' = Set(forwarder, s, "starting")
  /\ UNCHANGED <<hook, client, flow, glitches>>

\* The token is invalid, has expired or, once the page was left, is missing: the
\* socket is closed before it is accepted.
Reject(s) ==
  /\ client[s] = "connecting" /\ server[s] = "none"
  /\ Caused(page = "left")
  /\ server' = Set(server, s, "gone")
  /\ UNCHANGED <<hook, client, forwarder, flow>>

\* subscribe: channel, exchange, queue, bind.
Subscribe(s) ==
  /\ forwarder[s] = "starting"
  /\ forwarder' = Set(forwarder, s, "bound")
  /\ start' = Set(start, s, published)
  /\ UNCHANGED <<hook, client, server, queue, wire, published, got, glitches>>

Publish ==
  /\ published < MaxPublished
  /\ published' = published + 1
  /\ queue' = [s \in Sockets |-> IF forwarder[s] = "bound"
                                 THEN Append(queue[s], published')
                                 ELSE queue[s]]
  /\ UNCHANGED <<hook, client, server, forwarder, wire, start, got, glitches>>

\* What is sent to a browser that is gone reaches nobody.
Sent(s, message) ==
  wire' = IF Alive(s) THEN Set(wire, s, Append(wire[s], message)) ELSE wire

\* Broken: the newest notification of the queue is sent first.
ForwardNewest(s) ==
  /\ forwarder[s] = "bound" /\ queue[s] # << >>
  /\ Sent(s, queue[s][Len(queue[s])])
  /\ queue' = Set(queue, s, SubSeq(queue[s], 1, Len(queue[s]) - 1))
  /\ UNCHANGED <<hook, client, server, forwarder, published, start, got,
                 glitches>>

\* Broken: a notification that was sent stays in the queue.
ForwardKeeping(s) ==
  /\ forwarder[s] = "bound" /\ queue[s] # << >>
  /\ Len(wire[s]) < MaxPublished
  /\ Sent(s, Head(queue[s]))
  /\ UNCHANGED <<hook, client, server, forwarder, queue, published, start, got,
                 glitches>>

Forward(s) ==
  /\ forwarder[s] = "bound" /\ queue[s] # << >>
  /\ Sent(s, Head(queue[s]))
  /\ queue' = Set(queue, s, Tail(queue[s]))
  /\ UNCHANGED <<hook, client, server, forwarder, published, start, got,
                 glitches>>

\* An exception ends the forwarder alone; the read loop answers pings on.
ForwarderFails(s) ==
  /\ forwarder[s] \in {"starting", "bound"}
  /\ Caused(forwarder[s] = "bound" /\ queue[s] # << >>
              /\ client[s] \in {"closing", "closed"})
  /\ forwarder' = Set(forwarder, s, "ended")
  /\ queue' = Set(queue, s, << >>)
  /\ UNCHANGED <<hook, client, server, wire, published, start, got>>

\* Broken: the endpoint returns and leaves its forwarder running.
LeaveForwarding(s) ==
  /\ server' = Set(server, s, "gone")
  /\ UNCHANGED <<hook, client, forwarder, flow>>

\* The finally clause: cancel the forwarder and wait for it.
Leave(s) ==
  /\ server' = Set(server, s, "gone")
  /\ forwarder' = IF forwarder[s] = "released" THEN forwarder
                                               ELSE Set(forwarder, s, "ended")
  /\ queue' = Set(queue, s, << >>)
  /\ UNCHANGED <<hook, client, wire, published, start, got>>

\* WebSocketDisconnect: it may never come when the connection was just lost.
Disconnect(s) ==
  /\ server[s] = "accepted" /\ client[s] \in {"closing", "closed"}
  /\ Leave(s)
  /\ UNCHANGED glitches

\* A minute without a ping.
IdleTimeout(s) ==
  /\ server[s] = "accepted"
  /\ client[s] # "connecting"
  /\ Caused(client[s] \in {"closing", "closed"} \/ s \notin pinging)
  /\ Leave(s)

\* The generator subscribe is finalised: it closes its channel, and with it
\* goes the queue.
Release(s) ==
  /\ forwarder[s] = "ended"
  /\ forwarder' = Set(forwarder, s, "released")
  /\ UNCHANGED <<hook, client, server, flow, glitches>>

Socket(s) ==
  \/ OnOpen(s) \/ OnMessage(s) \/ Hangup(s) \/ OnClose(s)
  \/ Accept(s) \/ Reject(s) \/ Subscribe(s) \/ Forward(s) \/ ForwarderFails(s)
  \/ Disconnect(s) \/ IdleTimeout(s) \/ Release(s)

Next == Mount \/ Reconnect \/ Unmount \/ Publish \/ \E s \in Sockets : Socket(s)

Spec == Init /\ [][Next]_vars

\* The browser runs its handlers and timers, the gateway its tasks, and a
\* silent minute ends. Neither the user nor a lost connection need do anything.
Browser(s) ==
  OnOpen(s) \/ OnMessage(s) \/ OnClose(s) \/ (server[s] = "gone" /\ Hangup(s))

Gateway(s) ==
  \/ Accept(s) \/ Subscribe(s) \/ Forward(s) \/ Release(s)
  \/ client[s] = "closed" /\ IdleTimeout(s)

Fairness ==
  /\ WF_vars(Mount \/ Reconnect)
  /\ \A s \in Sockets : WF_vars(Browser(s)) /\ WF_vars(Gateway(s))

FairSpec == Spec /\ Fairness

-----------------------------------------------------------------------------
(***************************************************************************)
(* Properties.                                                             *)
(***************************************************************************)
Notes == Seq(1 .. MaxPublished)

TypeOK ==
  /\ strict \in BOOLEAN /\ timer \in BOOLEAN
  /\ page \in {"new", "mounted", "left"}
  /\ opened \in 0 .. MaxSockets
  /\ strays \in Nat
  /\ pinging \subseteq Sockets /\ pingRef \in Sockets \cup {0}
  /\ client \in [Sockets -> {"none", "connecting", "open", "closing", "closed"}]
  /\ server \in [Sockets -> {"none", "accepted", "gone"}]
  /\ forwarder \in [Sockets -> {"none", "starting", "bound", "ended",
                                "released"}]
  /\ queue \in [Sockets -> Notes]
  /\ wire \in [Sockets -> Notes]
  /\ got \in [Sockets -> Notes]
  /\ start \in [Sockets -> 0 .. MaxPublished]
  /\ published \in 0 .. MaxPublished
  /\ glitches \in 0 .. MaxGlitches

Journey(s) == got[s] \o wire[s] \o queue[s]

\* Every socket brings its page one gap-free piece of what is published, in
\* order and without repetition, from the binding of its queue on; and while
\* socket and forwarder live, nothing of it is missing.
GapFree ==
  \A s \in Sockets :
    /\ \A k \in DOMAIN got[s] : got[s][k] = start[s] + k
    /\ forwarder[s] = "bound" /\ Alive(s) =>
         start[s] + Len(Journey(s)) = published

Live == {s \in Sockets : client[s] \in {"connecting", "open", "closing"}}

\* Reconnects that are due, and how much a page may have of sockets and these.
Due == strays + (IF timer THEN 1 ELSE 0)
Allowed == IF strict THEN 2 ELSE 1

\* Two sockets of a page would handle every event twice: it holds one, or waits
\* for the timer that will open the next.  Under StrictMode the reconnect of the
\* first mount makes it two for good.
OneChannel == Cardinality(Live) + Due <= Allowed

\* Besides, after the page was left no timer brings a socket back, except one that
\* the ref has lost.  Two sockets share one pingTimerRef: when one closes, it can
\* silence the other; a single one pings while it is open.
OneSocket ==
  /\ OneChannel
  /\ page = "left" => ~timer
  /\ page = "mounted" /\ ~strict =>
       {s \in Sockets : client[s] = "open"} \subseteq pinging

\* main.py, "when it closes, everything is released": no queue is kept for a
\* browser that is gone, even one that vanished in silence. (Sockets are finitely
\* many, so this releases each of them.)
QueueReleased ==
  []<>(\A s \in Sockets :
         client[s] = "closed" => forwarder[s] \in {"none", "released"})

\* A page that stays is connected again after every loss, and after every minute
\* in which it was silent, within the bound on sockets.
StaysConnected ==
  page = "mounted" ~>
    page = "left" \/ opened = MaxSockets \/ \E s \in Sockets : client[s] = "open"

(***************************************************************************)
(* Each socket is a subscription.                                          *)
(***************************************************************************)
State(s) == CASE forwarder[s] = "bound" /\ Alive(s) -> "on"
              [] forwarder[s] \in {"ended", "released"} /\ Alive(s) -> "deaf"
              [] OTHER -> "off"

Inbox(s) == IF Alive(s) THEN wire[s] \o queue[s] ELSE << >>

Channel(s) == INSTANCE Subscription WITH state <- State(s), inbox <- Inbox(s)

SubscriptionStep(s) == Channel(s)!Next \/ UNCHANGED <<State(s), Inbox(s)>>

\* The gateway implements the abstract subscription, socket by socket.
SubscriptionSpec ==
  /\ \A s \in Sockets : Channel(s)!Init
  /\ [][\A s \in Sockets : SubscriptionStep(s)]_vars
=============================================================================
