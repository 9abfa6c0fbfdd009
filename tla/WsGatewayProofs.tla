-------------------------- MODULE WsGatewayProofs ---------------------------
(***************************************************************************)
(* The safety of the live channel, for any number of sockets,              *)
(* notifications and glitches, with and without StrictMode: each socket is *)
(* a gap-free subscription, and a page has one.                            *)
(***************************************************************************)
EXTENDS WsGateway, SequenceTheorems, FiniteSetTheorems, TLAPS

-----------------------------------------------------------------------------
(***************************************************************************)
(* Types.                                                                  *)
(***************************************************************************)
LEMMA SocketBounds ==
  /\ 1 \in Sockets /\ 2 \in Sockets
  /\ \A s \in Sockets : s \in 0 .. MaxSockets /\ s \in Nat
BY BoundAssumption DEF Sockets

LEMMA GlitchType ==
  ASSUME TypeOK, NEW condition, Caused(condition)
  PROVE  glitches' \in 0 .. MaxGlitches
BY BoundAssumption DEF TypeOK, Caused, Glitch

LEMMA SentType ==
  ASSUME TypeOK, NEW s \in Sockets, NEW message \in 1 .. MaxPublished,
         Sent(s, message)
  PROVE  wire' \in [Sockets -> Notes]
BY DEF TypeOK, Sent, Set, Notes

LEMMA InitType == Init => TypeOK
<1> SUFFICES ASSUME Init PROVE TypeOK
  OBVIOUS
<1>1. << >> \in Notes
  BY EmptySeq DEF Notes
<1>2. \A n \in Notes : [s \in Sockets |-> n] \in [Sockets -> Notes]
  OBVIOUS
<1>3. /\ queue \in [Sockets -> Notes] /\ wire \in [Sockets -> Notes]
      /\ got \in [Sockets -> Notes]
  BY <1>1, <1>2, Zenon DEF Init
<1>4. start \in [Sockets -> 0 .. MaxPublished] /\ published \in 0 .. MaxPublished
  BY BoundAssumption DEF Init
<1>5. strict \in BOOLEAN /\ timer \in BOOLEAN
  BY DEF Init
<1>6. /\ page \in {"new", "mounted", "left"} /\ opened \in 0 .. MaxSockets
      /\ strays \in Nat /\ glitches \in 0 .. MaxGlitches
      /\ pinging \subseteq Sockets /\ pingRef \in Sockets \cup {0}
  BY BoundAssumption DEF Init
<1>7. /\ client \in [Sockets -> {"none", "connecting", "open", "closing",
                                 "closed"}]
      /\ server \in [Sockets -> {"none", "accepted", "gone"}]
      /\ forwarder \in [Sockets -> {"none", "starting", "bound", "ended",
                                    "released"}]
  BY DEF Init
<1> QED  BY <1>3, <1>4, <1>5, <1>6, <1>7 DEF TypeOK

LEMMA StepType == TypeOK /\ [Next]_vars => TypeOK'
<1> SUFFICES ASSUME TypeOK, [Next]_vars PROVE TypeOK'
  OBVIOUS
<1> USE BoundAssumption, SocketBounds
<1>1. CASE Mount
  BY <1>1 DEF Mount, TypeOK, pings, flow
<1>2. CASE Reconnect
  <2>1. opened' \in 0 .. MaxSockets
    BY <1>2 DEF Reconnect, TypeOK
  <2>4. strays' \in Nat
    BY <1>2 DEF Reconnect, TypeOK
  <2>5. timer' \in BOOLEAN
    BY <1>2 DEF Reconnect, TypeOK
  <2>2. client' \in [Sockets -> {"none", "connecting", "open", "closing",
                                 "closed"}]
    BY <1>2 DEF Reconnect, TypeOK, Set
  <2>3. UNCHANGED <<strict, page, pings, server, forwarder, flow, glitches>>
    BY <1>2 DEF Reconnect
  <2> QED  BY <2>1, <2>2, <2>3, <2>4, <2>5 DEF TypeOK, pings, flow
<1>3. CASE Unmount
  <2>1. opened \in Sockets => wire' \in [Sockets -> Notes]
    BY <1>3, EmptySeq DEF Unmount, CloseNewest, Set, TypeOK, Notes
  <2>2. opened \notin Sockets => wire' = wire
    BY <1>3 DEF Unmount, CloseNewest, Set, TypeOK
  <2>3. client' \in [Sockets -> {"none", "connecting", "open", "closing",
                                 "closed"}]
    BY <1>3 DEF Unmount, CloseNewest, TypeOK
  <2> QED  BY <1>3, <2>1, <2>2, <2>3
          DEF Unmount, ClearPing, TypeOK, Notes
<1>4. CASE Publish
  <2>1. published' \in 1 .. MaxPublished
    BY <1>4 DEF Publish, TypeOK
  <2>2. \A s \in Sockets : Append(queue[s], published') \in Notes
    BY <2>1 DEF TypeOK, Notes
  <2>3. queue' \in [Sockets -> Notes]
    BY <1>4, <2>2 DEF Publish, TypeOK
  <2> QED  BY <1>4, <2>1, <2>3 DEF Publish, TypeOK, hook, pings
<1>5. ASSUME NEW s \in Sockets, Socket(s) PROVE TypeOK'
  <2>1. CASE OnOpen(s)
    BY <2>1 DEF OnOpen, TypeOK, flow, Set
  <2>2. CASE OnMessage(s)
    <3>1. Head(wire[s]) \in 1 .. MaxPublished /\ Tail(wire[s]) \in Notes
      BY <2>2, HeadTailProperties DEF OnMessage, TypeOK, Notes
    <3>2. Append(got[s], Head(wire[s])) \in Notes
      BY <3>1 DEF TypeOK, Notes
    <3> QED  BY <2>2, <3>1, <3>2 DEF OnMessage, TypeOK, hook, pings, Set
  <2>3. CASE Hangup(s)
    BY <2>3, GlitchType, EmptySeq DEF Hangup, TypeOK, hook, pings, Set, Notes
  <2>4. CASE OnClose(s)
    <3>1. timer' \in BOOLEAN
      BY <2>4 DEF OnClose, TypeOK
    <3>4. strays' \in Nat
      BY <2>4 DEF OnClose, TypeOK
    <3>2. pinging' \subseteq Sockets /\ pingRef' \in Sockets \cup {0}
      BY <2>4 DEF OnClose, ClearPing, TypeOK
    <3>3. /\ client' = Set(client, s, "closed")
          /\ UNCHANGED <<strict, page, opened, server, forwarder, flow, glitches>>
      BY <2>4 DEF OnClose
    <3> QED  BY <3>1, <3>2, <3>3, <3>4 DEF TypeOK, flow, Set
  <2>5. CASE Accept(s)
    BY <2>5 DEF Accept, TypeOK, hook, pings, flow, Set
  <2>6. CASE Reject(s)
    BY <2>6, GlitchType DEF Reject, TypeOK, hook, pings, flow, Set
  <2>7. CASE Subscribe(s)
    BY <2>7 DEF Subscribe, TypeOK, hook, pings, Set
  <2>8. CASE Forward(s)
    <3>1. Head(queue[s]) \in 1 .. MaxPublished /\ Tail(queue[s]) \in Notes
      BY <2>8, HeadTailProperties DEF Forward, TypeOK, Notes
    <3>2. wire' \in [Sockets -> Notes]
      BY <2>8, <3>1, SentType DEF Forward
    <3> QED  BY <2>8, <3>1, <3>2 DEF Forward, TypeOK, hook, pings, Set
  <2>9. CASE ForwarderFails(s)
    BY <2>9, GlitchType, EmptySeq DEF ForwarderFails, TypeOK, hook, pings, Set, Notes
  <2>10. CASE Disconnect(s)
    BY <2>10, EmptySeq DEF Disconnect, Leave, TypeOK, hook, pings, Set, Notes
  <2>11. CASE IdleTimeout(s)
    BY <2>11, GlitchType, EmptySeq
    DEF IdleTimeout, Leave, TypeOK, hook, pings, Set, Notes
  <2>12. CASE Release(s)
    BY <2>12 DEF Release, TypeOK, hook, pings, flow, Set
  <2> QED  BY <1>5, <2>1, <2>2, <2>3, <2>4, <2>5, <2>6, <2>7, <2>8, <2>9,
              <2>10, <2>11, <2>12 DEF Socket
<1>6. CASE UNCHANGED vars
  BY <1>6 DEF vars, hook, pings, flow, TypeOK
<1> QED  BY <1>1, <1>2, <1>3, <1>4, <1>5, <1>6 DEF Next

\* All variables keep to their types, however long page and gateway run.
THEOREM TypeCorrect == Spec => []TypeOK
BY InitType, StepType, PTL DEF Spec

-----------------------------------------------------------------------------
(***************************************************************************)
(* One socket, or the timer that opens the next.                           *)
(***************************************************************************)
\* Sockets are opened in order, the first ones by the mount.
Ordered ==
  /\ \A s \in Sockets : s > opened => client[s] = "none"
  /\ page = "new" => opened = 0 /\ timer = FALSE /\ strays = 0
  /\ page # "new" => opened \in Sockets

HookInv == TypeOK /\ Ordered /\ OneSocket

DueKnown ==
  /\ Due \in Nat
  /\ timer = TRUE => Due = strays + 1
  /\ timer = FALSE => Due = strays
  /\ timer = TRUE \/ timer = FALSE
  /\ strays \in Nat

LEMMA DueCases == TypeOK => DueKnown
<1> SUFFICES ASSUME TypeOK PROVE DueKnown
  OBVIOUS
<1>1. timer = TRUE \/ timer = FALSE
  BY DEF TypeOK
<1>2. strays \in Nat
  BY DEF TypeOK
<1>3. CASE timer = TRUE
  BY <1>2, <1>3 DEF Due, DueKnown
<1>4. CASE timer = FALSE
  BY <1>2, <1>4 DEF Due, DueKnown
<1> QED  BY <1>1, <1>3, <1>4

LEMMA DueNext == TypeOK' => DueKnown'
BY DueCases, PTL

LEMMA AllowedSame ==
  /\ Allowed \in {1, 2}
  /\ strict' = strict => Allowed' = Allowed
BY DEF Allowed

LEMMA LiveFinite ==
  /\ IsFiniteSet(Live) /\ Cardinality(Live) \in Nat
  /\ IsFiniteSet(Live') /\ Cardinality(Live') \in Nat
<1>1. IsFiniteSet(Sockets)
  BY FS_Interval, BoundAssumption DEF Sockets
<1>2. Live \in SUBSET Sockets /\ Live' \in SUBSET Sockets
  BY DEF Live
<1> QED  BY <1>1, <1>2, FS_Subset, FS_CardinalityType

LEMMA HookInit == Init => HookInv
<1> SUFFICES ASSUME Init PROVE HookInv
  OBVIOUS
<1>1. Live = {}
  BY DEF Init, Live
<1>2. Cardinality(Live) = 0
  BY <1>1, FS_EmptySet
<1>3. Ordered
  BY DEF Init, Ordered
<1>4. timer = FALSE /\ strays = 0 /\ page = "new"
  BY DEF Init
<1>5. TypeOK /\ DueKnown
  BY InitType, DueCases
<1>6. OneChannel
  BY <1>2, <1>4, <1>5 DEF OneChannel, Allowed, DueKnown
<1> QED  BY <1>3, <1>4, <1>5, <1>6 DEF HookInv, OneSocket

\* What a step other than Mount, Reconnect and OnClose may do to the hook.
LEMMA HookFrame ==
  ASSUME HookInv, TypeOK', Live' = Live, UNCHANGED <<strict, opened, strays>>,
         \A s \in Sockets : client[s] = "none" => client'[s] = "none",
         \A s \in Sockets : client'[s] = "open" =>
                            client[s] = "open" \/ s \in pinging',
         \/ UNCHANGED <<page, timer>> /\ pinging \subseteq pinging'
         \/ page = "mounted" /\ page' = "left" /\ timer' = FALSE
  PROVE  HookInv'
<1>1. Ordered'
  BY DEF HookInv, Ordered
<1>2. Cardinality(Live') = Cardinality(Live)
  OBVIOUS
<1>3. Due \in Nat /\ Due' \in Nat /\ Due' <= Due
  BY DueCases, DueNext DEF DueKnown, HookInv
<1>4. OneChannel'
  BY <1>2, <1>3, LiveFinite, AllowedSame DEF HookInv, OneSocket, OneChannel
<1> QED  BY <1>1, <1>4 DEF HookInv, OneSocket

LEMMA HookStep == HookInv /\ [Next]_vars => HookInv'
<1> SUFFICES ASSUME HookInv, [Next]_vars PROVE HookInv'
  OBVIOUS
<1>0. TypeOK /\ TypeOK'
  BY StepType DEF HookInv
<1>1. CASE Mount
  <2>1. /\ page = "new" /\ page' = "mounted" /\ timer' = FALSE /\ strays' = 0
        /\ opened' = (IF strict THEN 2 ELSE 1) /\ strict' = strict
    BY <1>1 DEF Mount, HookInv, Ordered
  <2>9. \A s \in Sockets : client[s] = "none"
    BY <2>1 DEF HookInv, Ordered, Sockets
  <2>2. \A s \in Sockets : client'[s] = IF s = opened' THEN "connecting"
                          ELSE IF s < opened' THEN "closing" ELSE "none"
    BY <1>1, <2>9 DEF Mount
  <2>3. opened' \in Sockets
    BY <2>1, SocketBounds
  <2>4. Live' = 1 .. opened'
    BY <2>2, <2>3, BoundAssumption DEF Live, Sockets
  <2>5. Cardinality(Live') = opened'
    BY <2>1, <2>4, FS_Interval
  <2>6. Ordered'
    BY <2>1, <2>2, <2>3, SocketBounds DEF Ordered
  <2>7. \A s \in Sockets : client'[s] # "open"
    BY <2>2
  <2>8. OneChannel'
    BY <1>0, <2>1, <2>5, DueNext DEF DueKnown, OneChannel, Allowed
  <2> QED  BY <1>0, <2>1, <2>6, <2>7, <2>8 DEF HookInv, OneSocket
<1>2. CASE Reconnect
  <2>1. /\ opened' = opened + 1 /\ opened' \in Sockets /\ page # "new"
        /\ client[opened'] = "none"
        /\ client' = [client EXCEPT ![opened'] = "connecting"]
        /\ UNCHANGED <<strict, page, pinging>>
    BY <1>0, <1>2, BoundAssumption
    DEF Reconnect, Set, HookInv, Ordered, TypeOK, Sockets, pings
  <2>2. Due' = Due - 1
    BY <1>0, <1>2, DueCases, DueNext DEF DueKnown, Reconnect
  <2>3. Live' = Live \cup {opened'} /\ opened' \notin Live
    BY <1>0, <2>1 DEF Live, TypeOK
  <2>4. Cardinality(Live') = Cardinality(Live) + 1
    BY <2>3, LiveFinite, FS_AddElement
  <2>5. Ordered'
    BY <1>0, <2>1, SocketBounds DEF HookInv, Ordered, TypeOK
  <2>6. page = "left" => timer' = FALSE
    BY <1>0, <1>2 DEF Reconnect, HookInv, OneSocket, TypeOK
  <2>7. \A s \in Sockets : client'[s] = "open" => client[s] = "open"
    BY <1>0, <2>1 DEF TypeOK
  <2>8. Due \in Nat /\ Due' \in Nat
    BY <1>0, DueCases, DueNext DEF DueKnown
  <2>9. OneChannel'
    BY <2>1, <2>2, <2>4, <2>8, LiveFinite, AllowedSame
    DEF HookInv, OneSocket, OneChannel
  <2>10. page' = "mounted" /\ ~strict' =>
           {s \in Sockets : client'[s] = "open"} \subseteq pinging'
    BY <2>1, <2>7 DEF HookInv, OneSocket
  <2> QED  BY <1>0, <2>1, <2>5, <2>6, <2>9, <2>10 DEF HookInv, OneSocket
<1>3. CASE Unmount
  <2>1. /\ page = "mounted" /\ page' = "left" /\ timer' = FALSE
        /\ UNCHANGED <<strict, opened, strays>>
    BY <1>3 DEF Unmount
  <2>2. \A s \in Sockets : \/ client'[s] = client[s]
                           \/ Alive(s) /\ client'[s] = "closing"
    BY <1>0, <1>3 DEF Unmount, CloseNewest, TypeOK, Alive
  <2>3. Live' = Live
    BY <2>2 DEF Live, Alive
  <2> QED  BY <1>0, <2>1, <2>2, <2>3, HookFrame DEF Alive
<1>4. CASE Publish
  BY <1>0, <1>4, HookFrame DEF Publish, hook, pings, Live
<1>5. ASSUME NEW s \in Sockets, Socket(s) PROVE HookInv'
  <2>1. CASE OnOpen(s)
    <3>1. /\ client[s] = "connecting"
          /\ client' = [client EXCEPT ![s] = "open"]
          /\ pinging' = pinging \cup {s}
          /\ UNCHANGED <<strict, page, opened, timer, strays>>
      BY <2>1 DEF OnOpen, Set
    <3>2. Live' = Live
      BY <1>0, <3>1 DEF Live, TypeOK
    <3> QED  BY <1>0, <3>1, <3>2, HookFrame DEF TypeOK
  <2>2. CASE Hangup(s)
    <3>1. /\ client[s] \in {"connecting", "open"}
          /\ client' = [client EXCEPT ![s] = "closing"]
          /\ UNCHANGED <<strict, page, opened, timer, strays, pinging>>
      BY <2>2 DEF Hangup, Alive, Set, hook, pings
    <3>2. Live' = Live
      BY <1>0, <3>1 DEF Live, TypeOK
    <3> QED  BY <1>0, <3>1, <3>2, HookFrame DEF TypeOK
  <2>3. CASE OnClose(s)
    <3>1. /\ client[s] = "closing"
          /\ client' = [client EXCEPT ![s] = "closed"]
          /\ UNCHANGED <<strict, page, opened>>
      BY <2>3 DEF OnClose, Set
    <3>2. Live' = Live \ {s} /\ s \in Live
      BY <1>0, <3>1 DEF Live, TypeOK
    <3>3. Cardinality(Live') = Cardinality(Live) - 1
      BY <3>2, LiveFinite, FS_RemoveElement
    <3>4. page # "left" => Due' = Due + 1
      BY <1>0, <2>3, DueCases, DueNext DEF DueKnown, OnClose
    <3>5. page = "left" => timer' = FALSE /\ strays' = strays /\ timer = FALSE
      BY <1>0, <2>3 DEF OnClose, HookInv, OneSocket, TypeOK
    <3>6. Due \in Nat /\ Due' \in Nat /\ Due' <= Due + 1
      BY <1>0, <3>4, <3>5, DueCases, DueNext DEF DueKnown
    <3>7. Cardinality(Live) + Due <= Allowed
      BY DEF HookInv, OneSocket, OneChannel
    <3>8. OneChannel'
      BY <3>1, <3>3, <3>6, <3>7, LiveFinite, AllowedSame DEF OneChannel
    <3>9. ~strict => Live = {s}
      <4> SUFFICES ASSUME ~strict PROVE Live = {s}
        OBVIOUS
      <4>1. Allowed = 1
        BY DEF Allowed
      <4>2. Cardinality(Live) = 1
        <5>1. Cardinality(Live) <= 1
          BY <4>1, <3>6, <3>7, LiveFinite
        <5>2. Cardinality(Live) # 0
          BY <3>2, LiveFinite, FS_EmptySet
        <5> QED  BY <5>1, <5>2, LiveFinite
      <4>3. PICK x : Live = {x}
        BY <4>2, LiveFinite, FS_Singleton
      <4> QED  BY <4>3, <3>2
    <3>10. ~strict => \A r \in Sockets : client'[r] # "open"
      BY <1>0, <3>1, <3>9 DEF Live, TypeOK
    <3>11. Ordered'
      <4>1. page # "new"
        BY <3>1, SocketBounds DEF HookInv, Ordered, Sockets
      <4>2. \A r \in Sockets : r > opened => client'[r] = "none"
        BY <1>0, <3>1 DEF HookInv, Ordered, TypeOK
      <4> QED  BY <3>1, <4>1, <4>2 DEF HookInv, Ordered
    <3> QED  BY <1>0, <3>1, <3>5, <3>8, <3>10, <3>11 DEF HookInv, OneSocket
  <2>4. CASE UNCHANGED <<hook, client>>
    BY <1>0, <2>4, HookFrame DEF hook, pings, Live
  <2> QED  BY <1>5, <2>1, <2>2, <2>3, <2>4
          DEF Socket, OnMessage, Accept, Reject, Subscribe, Forward,
              ForwarderFails, Disconnect, IdleTimeout, Leave, Release
<1>6. CASE UNCHANGED vars
  BY <1>0, <1>6, HookFrame DEF vars, hook, pings, Live
<1> QED  BY <1>1, <1>2, <1>3, <1>4, <1>5, <1>6 DEF Next

\* A page has one socket or waits for the next, under StrictMode two, and what
\* holds of timers and pings in module WsGateway.
THEOREM OneSocketAlways == Spec => []OneSocket
<1>1. HookInv => OneSocket
  BY DEF HookInv
<1> QED  BY <1>1, HookInit, HookStep, PTL DEF Spec

-----------------------------------------------------------------------------
(***************************************************************************)
(* What a socket brings its page.                                          *)
(***************************************************************************)
\* The numbers of the notes continue at n.
From(notes, n) == \A k \in 1 .. Len(notes) : notes[k] = n + k

\* What the page has handled, what is on the wire and what is queued continue
\* each other, from the binding of the queue up to what was published last.
Fed(s) ==
  /\ From(got[s], start[s])
  /\ Alive(s) => From(wire[s], start[s] + Len(got[s]))
  /\ Alive(s) /\ forwarder[s] = "bound" =>
       /\ From(queue[s], start[s] + Len(got[s]) + Len(wire[s]))
       /\ start[s] + Len(got[s]) + Len(wire[s]) + Len(queue[s]) = published

\* Nothing comes before the queue is bound, and the queue goes with its binding.
Begun(s) ==
  /\ client[s] = "none" => server[s] = "none"
  /\ server[s] = "none" => forwarder[s] = "none"
  /\ forwarder[s] \in {"none", "starting"} => got[s] = << >> /\ wire[s] = << >>
  /\ forwarder[s] # "bound" => queue[s] = << >>

FlowInv == HookInv /\ \A s \in Sockets : Fed(s) /\ Begun(s)

LEMMA TailFacts ==
  ASSUME NEW notes \in Notes, notes # << >>
  PROVE  /\ Head(notes) = notes[1] /\ Head(notes) \in 1 .. MaxPublished
         /\ Tail(notes) \in Notes
         /\ Len(notes) \in Nat \ {0} /\ Len(Tail(notes)) = Len(notes) - 1
         /\ \A k \in 1 .. Len(notes) - 1 : Tail(notes)[k] = notes[k + 1]
<1>1. Head(notes) = notes[1]
  BY DEF Notes
<1>2. Len(notes) \in Nat \ {0}
  BY EmptySeq DEF Notes
<1>3. /\ Head(notes) \in 1 .. MaxPublished /\ Tail(notes) \in Notes
      /\ Len(Tail(notes)) = Len(notes) - 1
      /\ \A k \in 1 .. Len(Tail(notes)) : Tail(notes)[k] = notes[k + 1]
  BY HeadTailProperties DEF Notes
<1> QED  BY <1>1, <1>2, <1>3

LEMMA AppendFacts ==
  ASSUME NEW notes \in Notes, NEW note \in 1 .. MaxPublished
  PROVE  /\ Append(notes, note) \in Notes
         /\ Len(notes) \in Nat /\ Len(Append(notes, note)) = Len(notes) + 1
         /\ \A k \in 1 .. Len(notes) : Append(notes, note)[k] = notes[k]
         /\ Append(notes, note)[Len(notes) + 1] = note
BY AppendProperties DEF Notes

LEMMA EmptyFacts == << >> \in Notes /\ Len(<< >>) = 0
BY EmptySeq DEF Notes

\* The first of the later notes joins the earlier ones.
LEMMA HeadMoves ==
  ASSUME NEW a \in Notes, NEW b \in Notes, b # << >>, NEW n \in Nat,
         From(a, n), From(b, n + Len(a))
  PROVE  /\ Len(Append(a, Head(b))) = Len(a) + 1 /\ Len(a) \in Nat
         /\ Len(Tail(b)) = Len(b) - 1 /\ Len(b) \in Nat \ {0}
         /\ From(Append(a, Head(b)), n)
         /\ From(Tail(b), n + Len(Append(a, Head(b))))
<1>1. /\ Head(b) = b[1] /\ Head(b) \in 1 .. MaxPublished
      /\ Len(b) \in Nat \ {0} /\ Len(Tail(b)) = Len(b) - 1
      /\ \A k \in 1 .. Len(b) - 1 : Tail(b)[k] = b[k + 1]
  BY TailFacts
<1> DEFINE c == Append(a, Head(b))
           d == Tail(b)
<1>2. /\ Len(c) = Len(a) + 1 /\ Len(a) \in Nat
      /\ \A k \in 1 .. Len(a) : c[k] = a[k]
      /\ c[Len(a) + 1] = b[1]
  BY <1>1, AppendFacts
<1>3. b[1] = n + Len(a) + 1
  BY <1>1 DEF From
<1>4. \A k \in 1 .. Len(a) : a[k] = n + k
  BY DEF From
<1>5. \A k \in 1 .. Len(b) : b[k] = n + Len(a) + k
  BY DEF From
<1> HIDE DEF c, d
<1>6. From(c, n)
  <2>1. ASSUME NEW k \in 1 .. Len(c) PROVE c[k] = n + k
    <3>1. CASE k \in 1 .. Len(a)
      BY <1>2, <1>4, <3>1
    <3>2. CASE k = Len(a) + 1
      BY <1>2, <1>3, <3>2
    <3> QED  BY <1>2, <3>1, <3>2
  <2> QED  BY <2>1 DEF From
<1>7. Len(d) = Len(b) - 1 /\ \A k \in 1 .. Len(b) - 1 : d[k] = b[k + 1]
  BY <1>1 DEF d
<1>8. From(d, n + Len(c))
  BY <1>1, <1>2, <1>5, <1>7 DEF From
<1> QED  BY <1>1, <1>2, <1>6, <1>7, <1>8 DEF c, d

LEMMA NextComes ==
  ASSUME NEW a \in Notes, NEW n \in Nat, From(a, n),
         NEW note \in 1 .. MaxPublished, note = n + Len(a) + 1
  PROVE  From(Append(a, note), n) /\ Len(Append(a, note)) = Len(a) + 1
<1> DEFINE c == Append(a, note)
<1>1. /\ Len(c) = Len(a) + 1 /\ Len(a) \in Nat
      /\ \A k \in 1 .. Len(a) : c[k] = a[k]
      /\ c[Len(a) + 1] = note
  BY AppendFacts
<1> HIDE DEF c
<1>2. From(c, n)
  BY <1>1 DEF From
<1> QED  BY <1>1, <1>2 DEF c

\* A step that leaves a socket and its notifications alone.
LEMMA FlowFrame ==
  ASSUME NEW s \in Sockets, Fed(s), Begun(s), published' = published,
         client'[s] = client[s], server'[s] = server[s],
         forwarder'[s] = forwarder[s], queue'[s] = queue[s], wire'[s] = wire[s],
         start'[s] = start[s], got'[s] = got[s]
  PROVE  Fed(s)' /\ Begun(s)'
BY DEF Fed, Begun, Alive

\* A socket that is opened, or that is over for the page.
LEMMA FlowClient ==
  ASSUME NEW s \in Sockets, Fed(s), Begun(s), published' = published,
         server'[s] = server[s], forwarder'[s] = forwarder[s],
         queue'[s] = queue[s], wire'[s] \in {wire[s], << >>},
         start'[s] = start[s], got'[s] = got[s],
         client'[s] \in {"connecting", "open", "closing", "closed"},
         \/ client[s] = "none"
         \/ client'[s] \in {"closing", "closed"}
         \/ Alive(s) /\ wire'[s] = wire[s]
  PROVE  Fed(s)' /\ Begun(s)'
<1>1. Begun(s)'
  BY DEF Begun
<1>2. From(got'[s], start'[s])
  BY DEF Fed
<1>3. CASE client'[s] \in {"closing", "closed"}
  BY <1>1, <1>2, <1>3 DEF Fed, Alive
<1>4. CASE Alive(s) /\ wire'[s] = wire[s]
  BY <1>1, <1>2, <1>4 DEF Fed, Alive
<1>5. CASE client[s] = "none"
  <2>1. forwarder[s] = "none" /\ wire[s] = << >>
    BY <1>5 DEF Begun
  <2>2. From(wire'[s], start'[s] + Len(got'[s]))
    BY <2>1, EmptyFacts DEF From
  <2> QED  BY <1>1, <1>2, <2>1, <2>2 DEF Fed
<1> QED  BY <1>3, <1>4, <1>5

LEMMA FlowInit == Init => FlowInv
<1> SUFFICES ASSUME Init PROVE FlowInv
  OBVIOUS
<1>1. ASSUME NEW s \in Sockets PROVE Fed(s) /\ Begun(s)
  <2>1. /\ client[s] = "none" /\ server[s] = "none" /\ forwarder[s] = "none"
        /\ got[s] = << >> /\ wire[s] = << >> /\ queue[s] = << >>
    BY DEF Init
  <2>2. From(got[s], start[s])
    BY <2>1, EmptyFacts DEF From
  <2> QED  BY <2>1, <2>2 DEF Fed, Begun, Alive
<1> QED  BY <1>1, HookInit DEF FlowInv

LEMMA FlowStep == FlowInv /\ [Next]_vars => FlowInv'
<1> SUFFICES ASSUME FlowInv, [Next]_vars PROVE FlowInv'
  OBVIOUS
<1>0. /\ HookInv /\ HookInv' /\ TypeOK /\ TypeOK' /\ Ordered
      /\ \A s \in Sockets : Fed(s) /\ Begun(s)
  BY HookStep DEF FlowInv, HookInv
<1> SUFFICES ASSUME NEW r \in Sockets PROVE Fed(r)' /\ Begun(r)'
  BY <1>0 DEF FlowInv
<1>t. /\ queue[r] \in Notes /\ wire[r] \in Notes /\ got[r] \in Notes
      /\ start[r] \in Nat /\ published \in Nat
      /\ Len(queue[r]) \in Nat /\ Len(wire[r]) \in Nat /\ Len(got[r]) \in Nat
  <2>1. \A notes \in Notes : Len(notes) \in Nat
    BY LenProperties DEF Notes
  <2> QED  BY <1>0, <2>1, BoundAssumption DEF TypeOK
<1>n. /\ start[r] \in Nat /\ published \in Nat
      /\ Len(queue[r]) \in Nat /\ Len(wire[r]) \in Nat /\ Len(got[r]) \in Nat
  BY <1>t
<1>1. CASE Mount
  <2>1. client[r] = "none"
    BY <1>0, <1>1 DEF Mount, Ordered, Sockets
  <2>2. client'[r] = client[r] \/ client'[r] \in {"connecting", "closing"}
    BY <1>1 DEF Mount
  <2> QED  BY <1>0, <1>1, <2>1, <2>2, FlowFrame, FlowClient DEF Mount, flow
<1>2. CASE Reconnect
  <2>1. opened' \in Sockets /\ client[opened'] = "none"
        /\ client' = [client EXCEPT ![opened'] = "connecting"]
    BY <1>0, <1>2, BoundAssumption
    DEF Reconnect, Ordered, TypeOK, Sockets, Set
  <2>2. \/ client'[r] = client[r]
        \/ client[r] = "none" /\ client'[r] = "connecting"
    BY <1>0, <2>1 DEF TypeOK
  <2> QED  BY <1>0, <1>2, <2>2, FlowFrame, FlowClient DEF Reconnect, flow
<1>3. CASE Unmount
  <2>1. CASE r # opened
    <3>1. client'[r] = client[r] /\ wire'[r] = wire[r]
      BY <1>0, <1>3, <2>1 DEF Unmount, CloseNewest, Set, TypeOK
    <3> QED  BY <1>0, <1>3, <3>1, FlowFrame DEF Unmount
  <2>2. CASE r = opened
    <3>1. wire'[r] = << >>
      BY <1>0, <1>3, <2>2 DEF Unmount, CloseNewest, Set, TypeOK
    <3>2. \/ client'[r] \in {"closing", "closed"}
          \/ client'[r] = client[r] /\ client[r] = "none"
      BY <1>0, <1>3, <2>2 DEF Unmount, CloseNewest, TypeOK
    <3>3. client[r] = "none" => wire'[r] = wire[r]
      BY <1>0, <3>1 DEF Begun
    <3> QED  BY <1>0, <1>3, <3>1, <3>2, <3>3, FlowFrame, FlowClient DEF Unmount
  <2> QED  BY <2>1, <2>2
<1>4. CASE Publish
  <2>1. /\ published' = published + 1 /\ published' \in 1 .. MaxPublished
        /\ UNCHANGED <<client, server, forwarder, wire, start, got>>
    BY <1>0, <1>4, BoundAssumption DEF Publish, TypeOK
  <2>2. CASE forwarder[r] = "bound"
    <3>1. queue'[r] = Append(queue[r], published')
      BY <1>4, <2>2 DEF Publish
    <3>2. ASSUME Alive(r)
          PROVE  /\ From(queue'[r], start[r] + Len(got[r]) + Len(wire[r]))
                 /\ Len(queue'[r]) = Len(queue[r]) + 1
      <4>1. /\ From(queue[r], start[r] + Len(got[r]) + Len(wire[r]))
            /\ start[r] + Len(got[r]) + Len(wire[r]) + Len(queue[r]) = published
        BY <1>0, <2>2, <3>2 DEF Fed
      <4> DEFINE n == start[r] + Len(got[r]) + Len(wire[r])
      <4>2. n \in Nat /\ From(queue[r], n) /\ published' = n + Len(queue[r]) + 1
        BY <1>n, <2>1, <4>1, SMTT(30)
      <4> HIDE DEF n
      <4>3. /\ From(Append(queue[r], published'), n)
            /\ Len(Append(queue[r], published')) = Len(queue[r]) + 1
        BY <1>t, <2>1, <4>2, NextComes
      <4> QED  BY <3>1, <4>3 DEF n
    <3>3. Fed(r)'
      <4>1. Alive(r)' <=> Alive(r)
        BY <2>1 DEF Alive
      <4>2. /\ From(got[r], start[r])
            /\ Alive(r) => From(wire[r], start[r] + Len(got[r]))
            /\ Alive(r) => start[r] + Len(got[r]) + Len(wire[r]) + Len(queue[r])
                             = published
        BY <1>0, <2>2 DEF Fed
      <4>3. Alive(r) => start[r] + Len(got[r]) + Len(wire[r]) + Len(queue'[r])
                         = published'
        <5> SUFFICES ASSUME Alive(r)
                     PROVE  start[r] + Len(got[r]) + Len(wire[r]) + Len(queue'[r])
                              = published'
          OBVIOUS
        <5>1. Len(queue'[r]) = Len(queue[r]) + 1
          BY <3>2
        <5>2. start[r] + Len(got[r]) + Len(wire[r]) + Len(queue[r]) = published
          BY <4>2
        <5>3. published' = published + 1
          BY <2>1
        <5> DEFINE a == start[r]
                   b == Len(got[r])
                   c == Len(wire[r])
                   d == Len(queue[r])
                   e == Len(queue'[r])
        <5>4. /\ a \in Nat /\ b \in Nat /\ c \in Nat /\ d \in Nat
              /\ e = d + 1 /\ a + b + c + d = published
          BY <1>n, <5>1, <5>2
        <5> HIDE DEF a, b, c, d, e
        <5>5. a + b + c + e = published'
          BY <1>n, <5>3, <5>4
        <5> QED  BY <5>5 DEF a, b, c, e
      <4> QED  BY <2>1, <3>2, <4>1, <4>2, <4>3 DEF Fed
    <3> QED  BY <1>0, <2>1, <2>2, <3>3 DEF Begun
  <2>3. CASE forwarder[r] # "bound"
    <3>1. queue'[r] = queue[r]
      BY <1>4, <2>3 DEF Publish
    <3> QED  BY <1>0, <2>1, <2>3, <3>1 DEF Fed, Begun, Alive
  <2> QED  BY <2>2, <2>3
<1>5. ASSUME NEW s \in Sockets, Socket(s) PROVE Fed(r)' /\ Begun(r)'
  <2>0. CASE s # r
    <3>1. /\ published' = published
          /\ client'[r] = client[r] /\ server'[r] = server[r]
          /\ forwarder'[r] = forwarder[r] /\ queue'[r] = queue[r]
          /\ wire'[r] = wire[r] /\ start'[r] = start[r] /\ got'[r] = got[r]
      BY <1>0, <1>5, <2>0
      DEF Socket, OnOpen, OnMessage, Hangup, OnClose, Accept, Reject, Subscribe,
          Forward, ForwarderFails, Disconnect, IdleTimeout, Leave, Release,
          Sent, Set, flow, TypeOK
    <3> QED  BY <1>0, <3>1, FlowFrame
  <2> SUFFICES ASSUME s = r PROVE Fed(r)' /\ Begun(r)'
    BY <2>0
  <2>1. CASE OnOpen(r)
    <3>1. client[r] = "connecting" /\ client'[r] = "open"
      BY <1>0, <2>1 DEF OnOpen, Set, TypeOK
    <3> QED  BY <1>0, <2>1, <3>1, FlowClient DEF OnOpen, flow, Alive
  <2>2. CASE OnMessage(r)
    <3>1. /\ client[r] = "open" /\ wire[r] # << >>
          /\ got'[r] = Append(got[r], Head(wire[r]))
          /\ wire'[r] = Tail(wire[r])
          /\ UNCHANGED <<client, server, forwarder, queue, published, start>>
      BY <1>0, <2>2 DEF OnMessage, Set, TypeOK
    <3>4. Alive(r) /\ Alive(r)'
      BY <3>1 DEF Alive
    <3>5. forwarder[r] \notin {"none", "starting"}
      BY <1>0, <3>1 DEF Begun
    <3>6. From(got[r], start[r]) /\ From(wire[r], start[r] + Len(got[r]))
      BY <1>0, <3>4 DEF Fed
    <3>7. /\ Len(got'[r]) = Len(got[r]) + 1 /\ Len(wire'[r]) = Len(wire[r]) - 1
          /\ From(got'[r], start[r]) /\ From(wire'[r], start[r] + Len(got'[r]))
      BY <1>t, <3>1, <3>6, HeadMoves, ZenonT(60)
    <3>8. start[r] + Len(got'[r]) + Len(wire'[r])
            = start[r] + Len(got[r]) + Len(wire[r])
      <4> DEFINE a == start[r]
                 b == Len(got[r])
                 c == Len(wire[r])
                 d == Len(got'[r])
                 e == Len(wire'[r])
      <4>1. a \in Nat /\ b \in Nat /\ c \in Nat /\ d = b + 1 /\ e = c - 1
        BY <1>n, <3>7
      <4> HIDE DEF a, b, c, d, e
      <4>2. a + d + e = a + b + c
        BY <4>1
      <4> QED  BY <4>2 DEF a, b, c, d, e
    <3>9. Fed(r)'
      BY <1>0, <3>1, <3>4, <3>7, <3>8 DEF Fed
    <3> QED  BY <1>0, <3>1, <3>5, <3>9 DEF Begun
  <2>3. CASE Hangup(r)
    <3>1. /\ client'[r] = "closing" /\ wire'[r] = << >>
          /\ UNCHANGED <<server, forwarder, queue, published, start, got>>
      BY <1>0, <2>3 DEF Hangup, Set, TypeOK
    <3> QED  BY <1>0, <3>1, FlowClient
  <2>4. CASE OnClose(r)
    <3>1. /\ client'[r] = "closed"
          /\ UNCHANGED <<server, forwarder, queue, wire, published, start, got>>
      BY <1>0, <2>4 DEF OnClose, Set, TypeOK, flow
    <3> QED  BY <1>0, <3>1, FlowClient
  <2>5. CASE Accept(r)
    <3>1. /\ client[r] # "none" /\ server[r] = "none" /\ server'[r] = "accepted"
          /\ forwarder'[r] = "starting"
          /\ UNCHANGED <<client, queue, wire, published, start, got>>
      BY <1>0, <2>5 DEF Accept, Set, TypeOK, flow
    <3>2. forwarder[r] = "none"
      BY <1>0, <3>1 DEF Begun
    <3> QED  BY <1>0, <3>1, <3>2 DEF Fed, Begun, Alive
  <2>6. CASE Reject(r)
    <3>1. /\ client[r] # "none" /\ server'[r] = "gone"
          /\ UNCHANGED <<client, forwarder, queue, wire, published, start, got>>
      BY <1>0, <2>6 DEF Reject, Set, TypeOK, flow
    <3> QED  BY <1>0, <3>1 DEF Fed, Begun, Alive
  <2>7. CASE Subscribe(r)
    <3>1. /\ forwarder[r] = "starting" /\ forwarder'[r] = "bound"
          /\ start'[r] = published
          /\ UNCHANGED <<client, server, queue, wire, published, got>>
      BY <1>0, <2>7 DEF Subscribe, Set, TypeOK
    <3>2. Len(got[r]) = 0 /\ Len(wire[r]) = 0 /\ Len(queue[r]) = 0
      BY <1>0, <3>1, EmptyFacts DEF Begun
    <3>3. Fed(r)'
      BY <1>t, <3>1, <3>2 DEF Fed, From
    <3> QED  BY <1>0, <3>1, <3>3 DEF Begun
  <2>8. CASE Forward(r)
    <3>1. /\ forwarder[r] = "bound" /\ queue[r] # << >>
          /\ queue'[r] = Tail(queue[r])
          /\ wire'[r] = IF Alive(r) THEN Append(wire[r], Head(queue[r]))
                                    ELSE wire[r]
          /\ UNCHANGED <<client, server, forwarder, published, start, got>>
      BY <1>0, <2>8 DEF Forward, Sent, Set, TypeOK
    <3>4. Alive(r)' <=> Alive(r)
      BY <3>1 DEF Alive
    <3>5. CASE Alive(r)
      <4>1. /\ From(got[r], start[r]) /\ From(wire[r], start[r] + Len(got[r]))
            /\ From(queue[r], start[r] + Len(got[r]) + Len(wire[r]))
            /\ start[r] + Len(got[r]) + Len(wire[r]) + Len(queue[r]) = published
        BY <1>0, <3>1, <3>5 DEF Fed
      <4>2. /\ Len(wire'[r]) = Len(wire[r]) + 1 /\ Len(queue'[r]) = Len(queue[r]) - 1
            /\ From(wire'[r], start[r] + Len(got[r]))
            /\ From(queue'[r], start[r] + Len(got[r]) + Len(wire'[r]))
        <5> DEFINE n == start[r] + Len(got[r])
        <5>1. n \in Nat
          BY <1>n
        <5>2. From(wire[r], n) /\ From(queue[r], n + Len(wire[r]))
          BY <4>1
        <5>3. /\ wire'[r] = Append(wire[r], Head(queue[r]))
              /\ queue'[r] = Tail(queue[r]) /\ queue[r] # << >>
          BY <3>1, <3>5
        <5> DEFINE moved == Append(wire[r], Head(queue[r]))
        <5> HIDE DEF n
        <5>4. /\ Len(moved) = Len(wire[r]) + 1
              /\ Len(Tail(queue[r])) = Len(queue[r]) - 1
              /\ From(moved, n) /\ From(Tail(queue[r]), n + Len(moved))
          BY <1>t, <5>1, <5>2, <5>3, HeadMoves, Zenon
        <5> QED  BY <5>3, <5>4 DEF n
      <4>3. start[r] + Len(got[r]) + Len(wire'[r]) + Len(queue'[r]) = published
        <5> DEFINE a == start[r]
                   b == Len(got[r])
                   c == Len(wire[r])
                   d == Len(queue[r])
                   e == Len(wire'[r])
                   f == Len(queue'[r])
        <5>1. /\ a \in Nat /\ b \in Nat /\ c \in Nat /\ d \in Nat
              /\ e = c + 1 /\ f = d - 1 /\ a + b + c + d = published
          BY <1>n, <4>1, <4>2
        <5> HIDE DEF a, b, c, d, e, f
        <5>2. a + b + e + f = published
          BY <5>1
        <5> QED  BY <5>2 DEF a, b, e, f
      <4>4. Fed(r)'
        BY <3>1, <4>1, <4>2, <4>3 DEF Fed
      <4> QED  BY <1>0, <3>1, <4>4 DEF Begun
    <3>6. CASE ~Alive(r)
      BY <1>0, <3>1, <3>4, <3>6 DEF Fed, Begun
    <3> QED  BY <3>5, <3>6
  <2>9. CASE ForwarderFails(r) \/ Disconnect(r) \/ IdleTimeout(r)
    <3>1. /\ client[r] = "none" => server[r] = "none"
          /\ server[r] = "none" => forwarder[r] = "none"
      BY <1>0 DEF Begun
    <3>2. /\ forwarder'[r] \in {"ended", "released"} /\ queue'[r] = << >>
          /\ client'[r] # "none" /\ server'[r] # "none"
          /\ UNCHANGED <<client, wire, published, start, got>>
      BY <1>0, <2>9, <3>1
      DEF ForwarderFails, Disconnect, IdleTimeout, Leave, Set, TypeOK
    <3> QED  BY <1>0, <3>2 DEF Fed, Begun, Alive
  <2>10. CASE Release(r)
    <3>1. /\ forwarder[r] = "ended" /\ forwarder'[r] = "released"
          /\ UNCHANGED <<client, server, queue, wire, published, start, got>>
      BY <1>0, <2>10 DEF Release, Set, TypeOK, flow
    <3> QED  BY <1>0, <3>1 DEF Fed, Begun, Alive
  <2> QED  BY <1>5, <2>1, <2>2, <2>3, <2>4, <2>5, <2>6, <2>7, <2>8, <2>9, <2>10
          DEF Socket
<1>6. CASE UNCHANGED vars
  BY <1>0, <1>6, FlowFrame DEF vars, flow
<1> QED  BY <1>1, <1>2, <1>3, <1>4, <1>5, <1>6 DEF Next

\* No gap, no repetition, no reordering; and while socket and forwarder live,
\* nothing of what was published since the binding is missing.
THEOREM GapFreeAlways == Spec => []GapFree
<1>1. FlowInv => GapFree
  <2> SUFFICES ASSUME FlowInv, NEW s \in Sockets
               PROVE  /\ \A k \in DOMAIN got[s] : got[s][k] = start[s] + k
                      /\ forwarder[s] = "bound" /\ Alive(s) =>
                           start[s] + Len(Journey(s)) = published
    BY DEF GapFree
  <2>1. got[s] \in Notes /\ wire[s] \in Notes /\ queue[s] \in Notes
    BY DEF FlowInv, HookInv, TypeOK
  <2>2. DOMAIN got[s] = 1 .. Len(got[s])
    BY <2>1, LenProperties DEF Notes
  <2>3. \A k \in DOMAIN got[s] : got[s][k] = start[s] + k
    BY <2>2 DEF FlowInv, Fed, From
  <2>4. Len(Journey(s)) = Len(got[s]) + Len(wire[s]) + Len(queue[s])
    BY <2>1, ConcatProperties DEF Notes, Journey
  <2>5. forwarder[s] = "bound" /\ Alive(s) =>
          start[s] + Len(got[s]) + Len(wire[s]) + Len(queue[s]) = published
    BY DEF FlowInv, Fed
  <2>6. start[s] \in Nat /\ Len(got[s]) \in Nat /\ Len(wire[s]) \in Nat
        /\ Len(queue[s]) \in Nat
    BY <2>1, LenProperties, BoundAssumption DEF Notes, FlowInv, HookInv, TypeOK
  <2> DEFINE a == start[s]
             b == Len(got[s])
             c == Len(wire[s])
             d == Len(queue[s])
  <2>7. a + (b + c + d) = a + b + c + d
    <3>1. a \in Nat /\ b \in Nat /\ c \in Nat /\ d \in Nat
      BY <2>6
    <3> HIDE DEF a, b, c, d
    <3> QED  BY <3>1
  <2> QED  BY <2>3, <2>4, <2>5, <2>7
<1> QED  BY <1>1, FlowInit, FlowStep, PTL DEF Spec

-----------------------------------------------------------------------------
(***************************************************************************)
(* Each socket is a subscription.                                          *)
(***************************************************************************)
LEMMA ChannelInit == Init => \A s \in Sockets : Channel(s)!Init
BY DEF Init, Channel!Init, State, Inbox, Alive

LEMMA ChannelSame ==
  ASSUME NEW s \in Sockets, State(s)' = State(s), Inbox(s)' = Inbox(s)
  PROVE  SubscriptionStep(s)
BY DEF SubscriptionStep

\* A step that leaves the channel of a socket alone.
LEMMA ChannelFrame ==
  ASSUME NEW s \in Sockets, client'[s] = client[s], forwarder'[s] = forwarder[s],
         queue'[s] = queue[s], wire'[s] = wire[s]
  PROVE  SubscriptionStep(s)
<1>1. Alive(s)' <=> Alive(s)
  BY DEF Alive
<1>2. State(s)' = State(s) /\ Inbox(s)' = Inbox(s)
  BY <1>1, Zenon DEF State, Inbox
<1> QED  BY <1>2, ChannelSame

StateKnown(s) ==
  /\ ~Alive(s) => State(s) = "off" /\ Inbox(s) = << >>
  /\ Alive(s) => Inbox(s) = wire[s] \o queue[s]
  /\ Alive(s) /\ forwarder[s] \in {"none", "starting"} => State(s) = "off"
  /\ Alive(s) /\ forwarder[s] = "bound" => State(s) = "on"
  /\ Alive(s) /\ forwarder[s] \in {"ended", "released"} => State(s) = "deaf"

LEMMA StateCases ==
  ASSUME NEW s \in Sockets
  PROVE  StateKnown(s) /\ StateKnown(s)'
<1>1. /\ ~Alive(s) => State(s) = "off" /\ Inbox(s) = << >>
      /\ Alive(s) => Inbox(s) = wire[s] \o queue[s]
      /\ Alive(s) /\ forwarder[s] \in {"none", "starting"} => State(s) = "off"
      /\ Alive(s) /\ forwarder[s] = "bound" => State(s) = "on"
      /\ Alive(s) /\ forwarder[s] \in {"ended", "released"} => State(s) = "deaf"
  BY DEF State, Inbox
<1>2. StateKnown(s)
  BY <1>1 DEF StateKnown
<1> QED  BY <1>2, PTL

LEMMA ChannelClosed ==
  ASSUME NEW s \in Sockets, State(s)' = "off", Inbox(s)' = << >>
  PROVE  SubscriptionStep(s)
BY DEF SubscriptionStep, Channel!Next, Channel!Close

LEMMA AppendOfConcat ==
  ASSUME NEW w \in Notes, NEW q \in Notes, NEW note \in 1 .. MaxPublished
  PROVE  /\ w \o Append(q, note) = Append(w \o q, note)
         /\ w \o q \in Notes
<1>1. <<note>> \in Notes /\ w \o q \in Notes
  BY ConcatProperties DEF Notes
<1>2. Append(q, note) = q \o <<note>>
  BY AppendIsConcat DEF Notes
<1>3. Append(w \o q, note) = (w \o q) \o <<note>>
  BY <1>1, AppendIsConcat DEF Notes
<1> QED  BY <1>1, <1>2, <1>3, ConcatAssociative DEF Notes

LEMMA HeadAndTail ==
  ASSUME NEW q \in Notes, q # << >>
  PROVE  q = <<Head(q)>> \o Tail(q) /\ <<Head(q)>> \in Notes /\ Tail(q) \in Notes
<1>1. 1 \in 1 .. Len(q) /\ Len(q) \in 1 .. Len(q)
  BY EmptySeq DEF Notes
<1>2. SubSeq(q, 1, Len(q)) = <<q[1]>> \o SubSeq(q, 2, Len(q))
  BY <1>1, SubSeqRecursiveFirst DEF Notes
<1>3. SubSeq(q, 1, Len(q)) = q /\ SubSeq(q, 2, Len(q)) = Tail(q)
  BY SubSeqFull, TailIsSubSeq DEF Notes
<1>4. Head(q) = q[1] /\ Head(q) \in 1 .. MaxPublished /\ Tail(q) \in Notes
  BY TailFacts
<1>5. <<Head(q)>> \in Notes
  BY <1>4 DEF Notes
<1> QED  BY <1>2, <1>3, <1>4, <1>5

LEMMA TailOfConcat ==
  ASSUME NEW w \in Notes, NEW q \in Notes, w # << >>
  PROVE  w \o q # << >> /\ Tail(w \o q) = Tail(w) \o q
<1>1. w = <<Head(w)>> \o Tail(w) /\ <<Head(w)>> \in Notes /\ Tail(w) \in Notes
  BY HeadAndTail
<1>2. w \o q \in Notes /\ Tail(w) \o q \in Notes
  BY <1>1, ConcatProperties DEF Notes
<1>3. w \o q # << >>
  BY ConcatEqualIffEmpty DEF Notes
<1>4. w \o q = <<Head(w)>> \o (Tail(w) \o q)
  BY <1>1, ConcatAssociative DEF Notes
<1>5. w \o q = <<Head(w \o q)>> \o Tail(w \o q)
      /\ <<Head(w \o q)>> \in Notes /\ Tail(w \o q) \in Notes
  BY <1>2, <1>3, HeadAndTail
<1>6. Head(w \o q) = Head(w)
  <2>1. Head(w \o q) = (w \o q)[1] /\ Head(w) = w[1] /\ Len(w) \in Nat \ {0}
    BY <1>2, <1>3, TailFacts
  <2>2. Len(q) \in Nat /\ 1 \in 1 .. Len(w) + Len(q) /\ 1 <= Len(w)
    BY <2>1, LenProperties DEF Notes
  <2>3. (w \o q)[1] = w[1]
    BY <2>2, ConcatProperties DEF Notes
  <2> QED  BY <2>1, <2>3
<1> DEFINE h == <<Head(w)>>
           t == Tail(w) \o q
           u == Tail(w \o q)
<1>7. h \in Notes /\ t \in Notes /\ u \in Notes /\ h \o t = h \o u
  BY <1>1, <1>2, <1>4, <1>5, <1>6
<1> HIDE DEF h, t, u
<1>8. \A S : \A a, b, c \in Seq(S) : a \o b = a \o c => b = c
  BY ConcatSimplifications
<1>9. t = u
  BY <1>7, <1>8, Zenon DEF Notes
<1> QED  BY <1>3, <1>9 DEF t, u

LEMMA HeadAppended ==
  ASSUME NEW w \in Notes, NEW q \in Notes, q # << >>
  PROVE  Append(w, Head(q)) \o Tail(q) = w \o q
<1>1. q = <<Head(q)>> \o Tail(q) /\ <<Head(q)>> \in Notes /\ Tail(q) \in Notes
  BY HeadAndTail
<1>2. Head(q) \in 1 .. MaxPublished
  BY TailFacts
<1>3. Append(w, Head(q)) = w \o <<Head(q)>>
  BY <1>2, AppendIsConcat DEF Notes
<1> QED  BY <1>1, <1>3, ConcatAssociative DEF Notes

LEMMA PrefixOfConcat ==
  ASSUME NEW w \in Notes, NEW q \in Notes
  PROVE  /\ Len(w) \in 0 .. Len(w \o q)
         /\ SubSeq(w \o q, 1, Len(w)) = w
<1>1. /\ Len(w) \in Nat /\ Len(q) \in Nat
      /\ Len(w \o q) = Len(w) + Len(q)
  BY ConcatProperties, LenProperties DEF Notes
<1>2. Len(w) \in 0 .. Len(w \o q)
  <2> DEFINE a == Len(w)
             b == Len(q)
             c == Len(w \o q)
  <2>1. a \in Nat /\ b \in Nat /\ c = a + b
    BY <1>1
  <2> HIDE DEF a, b, c
  <2>2. a \in 0 .. c
    BY <2>1
  <2> QED  BY <2>2 DEF a, c
<1>3. SubSeq(w \o q, 1, Len(w)) = w
  <2>1. CASE Len(w) = 0
    <3>1. w = << >>
      BY <2>1, EmptySeq DEF Notes
    <3>2. SubSeq(w \o q, 1, 0) = << >>
      BY SubSeqEmpty
    <3> QED  BY <2>1, <3>1, <3>2
  <2>2. CASE Len(w) # 0
    <3>1. 1 \in 1 .. Len(w) /\ Len(w) \in 1 .. Len(w)
      BY <1>1, <2>2
    <3>2. SubSeq(w \o q, 1, Len(w)) = SubSeq(w, 1, Len(w))
      BY <3>1, SubSeqOfConcat1 DEF Notes
    <3>3. SubSeq(w, 1, Len(w)) = w
      BY SubSeqFull DEF Notes
    <3> QED  BY <3>2, <3>3
  <2> QED  BY <2>1, <2>2
<1> QED  BY <1>2, <1>3

LEMMA ChannelDeafened ==
  ASSUME NEW s \in Sockets, TypeOK, Alive(s),
         forwarder[s] \in {"none", "starting", "bound"},
         State(s)' = "deaf", Inbox(s)' = wire[s]
  PROVE  SubscriptionStep(s)
<1>1. wire[s] \in Notes /\ queue[s] \in Notes
  BY DEF TypeOK
<1>2. Inbox(s) = wire[s] \o queue[s] /\ State(s) \in {"off", "on"}
  BY StateCases DEF StateKnown
<1>3. Len(wire[s]) \in 0 .. Len(Inbox(s))
      /\ SubSeq(Inbox(s), 1, Len(wire[s])) = wire[s]
  BY <1>1, <1>2, PrefixOfConcat
<1>4. Channel(s)!Deafen
  BY <1>2, <1>3 DEF Channel!Deafen, Channel!Prefix
<1> QED  BY <1>4 DEF SubscriptionStep, Channel!Next

LEMMA ChannelStep ==
  ASSUME FlowInv, FlowInv', [Next]_vars, NEW r \in Sockets
  PROVE  SubscriptionStep(r)
<1>0. /\ TypeOK /\ Fed(r) /\ Begun(r) /\ Begun(r)' /\ Ordered
      /\ queue[r] \in Notes /\ wire[r] \in Notes
      /\ queue'[r] \in Notes /\ wire'[r] \in Notes
      /\ forwarder[r] \in {"none", "starting", "bound", "ended", "released"}
  BY DEF FlowInv, HookInv, TypeOK
<1>s. StateKnown(r) /\ StateKnown(r)'
  BY StateCases
<1>e. \A notes \in Notes : notes \o << >> = notes /\ << >> \o notes = notes
  BY ConcatEmptySeq DEF Notes
<1>c. CASE ~Alive(r)'
  BY <1>c, <1>s, ChannelClosed DEF StateKnown
<1> SUFFICES ASSUME Alive(r)' PROVE SubscriptionStep(r)
  BY <1>c
<1>o. ASSUME client[r] = "none",
             UNCHANGED <<forwarder, queue, wire>>
      PROVE  SubscriptionStep(r)
  <2>1. forwarder'[r] = "none" /\ wire'[r] = << >> /\ queue'[r] = << >>
    BY <1>0, <1>o DEF Begun
  <2>2. State(r)' = "off" /\ Inbox(r)' = << >>
    BY <1>0, <1>s, <1>e, <2>1 DEF StateKnown
  <2> QED  BY <2>2, ChannelClosed
<1>1. CASE Mount
  <2>1. client[r] = "none"
    BY <1>0, <1>1 DEF Mount, Ordered, Sockets
  <2> QED  BY <1>1, <1>o, <2>1 DEF Mount, flow
<1>2. CASE Reconnect
  <2>1. opened' \in Sockets /\ client[opened'] = "none"
        /\ client' = [client EXCEPT ![opened'] = "connecting"]
    BY <1>0, <1>2, BoundAssumption
    DEF Reconnect, Ordered, TypeOK, Sockets, Set
  <2>2. client'[r] = client[r] \/ client[r] = "none"
    BY <1>0, <2>1 DEF TypeOK
  <2> QED  BY <1>2, <1>o, <2>2, ChannelFrame DEF Reconnect, flow
<1>3. CASE Unmount
  <2>1. client'[r] = client[r] /\ wire'[r] = wire[r]
    <3>1. r # opened
      BY <1>0, <1>3 DEF Unmount, CloseNewest, Alive, TypeOK
    <3> QED  BY <1>0, <1>3, <3>1 DEF Unmount, CloseNewest, Set, TypeOK
  <2> QED  BY <1>3, <2>1, ChannelFrame DEF Unmount
<1>4. CASE Publish
  <2>1. /\ UNCHANGED <<client, forwarder, wire>> /\ Alive(r)
        /\ queue'[r] = IF forwarder[r] = "bound" THEN Append(queue[r], published')
                                                ELSE queue[r]
    BY <1>4 DEF Publish, Alive
  <2>2. CASE forwarder[r] # "bound"
    BY <2>1, <2>2, ChannelFrame
  <2>3. CASE forwarder[r] = "bound"
    <3>1. State(r) = "on" /\ State(r)' = "on"
      BY <1>s, <2>1, <2>3 DEF StateKnown
    <3>2. /\ Inbox(r) = wire[r] \o queue[r]
          /\ Inbox(r)' = wire[r] \o Append(queue[r], published')
      BY <1>s, <2>1, <2>3 DEF StateKnown
    <3>3. published' \in 1 .. MaxPublished
      BY <1>0, <1>4, BoundAssumption DEF Publish, TypeOK
    <3>4. Inbox(r)' = Append(Inbox(r), published') /\ Inbox(r) \in Notes
      <4>1. /\ wire[r] \o Append(queue[r], published')
                = Append(wire[r] \o queue[r], published')
            /\ wire[r] \o queue[r] \in Notes
        BY <1>0, <3>3, AppendOfConcat
      <4> QED  BY <3>2, <4>1, Zenon
    <3>5. /\ Len(Inbox(r)') > Len(Inbox(r))
          /\ Inbox(r)'[Len(Inbox(r)')] = published'
      BY <3>3, <3>4, AppendFacts
    <3>6. Channel(r)!Published
      BY <3>1, <3>4, <3>5 DEF Channel!Published, Channel!Publish
    <3> QED  BY <3>6 DEF SubscriptionStep, Channel!Next
  <2> QED  BY <2>2, <2>3
<1>5. ASSUME NEW s \in Sockets, Socket(s) PROVE SubscriptionStep(r)
  <2>0. CASE s # r
    <3>1. /\ client'[r] = client[r] /\ forwarder'[r] = forwarder[r]
          /\ queue'[r] = queue[r] /\ wire'[r] = wire[r]
      BY <1>0, <1>5, <2>0
      DEF Socket, OnOpen, OnMessage, Hangup, OnClose, Accept, Reject, Subscribe,
          Forward, ForwarderFails, Disconnect, IdleTimeout, Leave, Release,
          Sent, Set, flow, TypeOK
    <3> QED  BY <3>1, ChannelFrame
  <2> SUFFICES ASSUME s = r PROVE SubscriptionStep(r)
    BY <2>0
  <2>1. CASE OnOpen(r)
    <3>1. /\ Alive(r) /\ UNCHANGED <<forwarder, queue, wire>>
      BY <2>1 DEF OnOpen, flow, Alive
    <3>2. State(r)' = State(r) /\ Inbox(r)' = Inbox(r)
      BY <1>0, <1>s, <3>1 DEF StateKnown
    <3> QED  BY <3>2, ChannelSame
  <2>2. CASE OnMessage(r)
    <3>1. /\ Alive(r) /\ wire[r] # << >> /\ wire'[r] = Tail(wire[r])
          /\ UNCHANGED <<client, forwarder, queue>>
      BY <1>0, <2>2 DEF OnMessage, Set, TypeOK, Alive
    <3>2. /\ State(r)' = State(r) /\ Inbox(r) = wire[r] \o queue[r]
          /\ Inbox(r)' = Tail(wire[r]) \o queue[r]
      BY <1>0, <1>s, <3>1 DEF StateKnown
    <3>3. Inbox(r) # << >> /\ Inbox(r)' = Tail(Inbox(r))
      <4>1. /\ wire[r] \o queue[r] # << >>
            /\ Tail(wire[r] \o queue[r]) = Tail(wire[r]) \o queue[r]
        BY <1>0, <3>1, TailOfConcat
      <4> QED  BY <3>2, <4>1, Zenon
    <3>4. Channel(r)!Handle
      BY <3>2, <3>3 DEF Channel!Handle
    <3> QED  BY <3>4 DEF SubscriptionStep, Channel!Next
  <2>3. CASE Accept(r)
    <3>1. /\ forwarder'[r] = "starting" /\ forwarder[r] = "none"
          /\ UNCHANGED <<client, queue, wire>>
      BY <1>0, <2>3 DEF Accept, Set, TypeOK, flow, Begun
    <3>2. Alive(r)
      BY <3>1 DEF Alive
    <3>3. State(r)' = State(r) /\ Inbox(r)' = Inbox(r)
      BY <1>s, <3>1, <3>2 DEF StateKnown
    <3> QED  BY <3>3, ChannelSame
  <2>4. CASE Reject(r)
    BY <2>4, ChannelFrame DEF Reject, flow
  <2>5. CASE Subscribe(r)
    <3>1. /\ forwarder[r] = "starting" /\ forwarder'[r] = "bound"
          /\ UNCHANGED <<client, queue, wire>>
      BY <1>0, <2>5 DEF Subscribe, Set, TypeOK
    <3>2. Alive(r) /\ wire[r] = << >> /\ queue[r] = << >>
      BY <1>0, <3>1 DEF Alive, Begun
    <3>3. State(r) = "off" /\ State(r)' = "on" /\ Inbox(r)' = << >>
      BY <1>0, <1>s, <1>e, <3>1, <3>2 DEF StateKnown
    <3>4. Channel(r)!Bind
      BY <3>3 DEF Channel!Bind
    <3> QED  BY <3>4 DEF SubscriptionStep, Channel!Next
  <2>6. CASE Forward(r)
    <3>1. UNCHANGED <<client, forwarder>>
      BY <2>6 DEF Forward
    <3>2. Alive(r)
      BY <3>1 DEF Alive
    <3>3. /\ queue[r] # << >> /\ queue'[r] = Tail(queue[r])
          /\ wire'[r] = Append(wire[r], Head(queue[r]))
      BY <1>0, <2>6, <3>2 DEF Forward, Sent, Set, TypeOK
    <3>4. wire'[r] \o queue'[r] = wire[r] \o queue[r]
      BY <1>0, <3>3, HeadAppended
    <3>5. State(r)' = State(r) /\ Inbox(r)' = Inbox(r)
      BY <1>0, <1>s, <3>1, <3>2, <3>4 DEF StateKnown
    <3> QED  BY <3>5, ChannelSame
  <2>7. CASE ForwarderFails(r) \/ Disconnect(r) \/ IdleTimeout(r)
    <3>1. /\ UNCHANGED <<client, wire>> /\ queue'[r] = << >>
          /\ forwarder'[r] \in {"ended", "released"}
      BY <1>0, <2>7
      DEF ForwarderFails, Disconnect, IdleTimeout, Leave, Set, TypeOK
    <3>2. Alive(r)
      BY <3>1 DEF Alive
    <3>3. State(r)' = "deaf" /\ Inbox(r)' = wire[r]
      BY <1>0, <1>s, <1>e, <3>1 DEF StateKnown
    <3>4. CASE forwarder[r] \in {"none", "starting", "bound"}
      BY <1>0, <3>2, <3>3, <3>4, ChannelDeafened
    <3>5. CASE forwarder[r] \in {"ended", "released"}
      <4>1. queue[r] = << >>
        BY <1>0, <3>5 DEF Begun
      <4>2. State(r) = "deaf" /\ Inbox(r) = wire[r]
        BY <1>0, <1>s, <1>e, <3>2, <3>5, <4>1 DEF StateKnown
      <4> QED  BY <3>3, <4>2, ChannelSame
    <3> QED  BY <1>0, <3>4, <3>5
  <2>8. CASE Release(r)
    <3>1. /\ forwarder[r] = "ended" /\ forwarder'[r] = "released"
          /\ UNCHANGED <<client, queue, wire>>
      BY <1>0, <2>8 DEF Release, Set, TypeOK, flow
    <3>2. Alive(r)
      BY <3>1 DEF Alive
    <3>3. State(r)' = State(r) /\ Inbox(r)' = Inbox(r)
      BY <1>s, <3>1, <3>2 DEF StateKnown
    <3> QED  BY <3>3, ChannelSame
  <2>9. ~Hangup(r) /\ ~OnClose(r)
    BY <1>0 DEF Hangup, OnClose, Set, TypeOK, Alive
  <2> QED  BY <1>5, <2>1, <2>2, <2>3, <2>4, <2>5, <2>6, <2>7, <2>8, <2>9
          DEF Socket
<1>6. CASE UNCHANGED vars
  BY <1>6, ChannelFrame DEF vars, flow
<1> QED  BY <1>1, <1>2, <1>3, <1>4, <1>5, <1>6 DEF Next

\* Socket by socket, the gateway is what module Subscription promises: the page
\* hears everything in order from the binding on, until it is closed or deaf.
THEOREM ImplementsSubscription == Spec => SubscriptionSpec
<1>1. FlowInv /\ FlowInv' /\ [Next]_vars
        => [\A s \in Sockets : SubscriptionStep(s)]_vars
  BY ChannelStep
<1> QED  BY <1>1, ChannelInit, FlowInit, FlowStep, PTL
         DEF Spec, SubscriptionSpec

-----------------------------------------------------------------------------
(***************************************************************************)
(* What QueueReleased and StaysConnected need besides fairness.            *)
(***************************************************************************)
\* A page that stays has a socket, or a reconnect is due; a queue that holds
\* anything is bound, and as long as a forwarder has its queue to bind or to
\* let go by itself, the endpoint that will cancel it is at work.
Attended ==
  /\ page = "mounted" => Live # {} \/ Due > 0
  /\ \A s \in Sockets :
       /\ queue[s] # << >> => forwarder[s] = "bound"
       /\ forwarder[s] \in {"starting", "bound"} => server[s] = "accepted"
       /\ server[s] = "accepted" => client[s] # "none"

Watched == \A s \in Sockets :
             forwarder[s] \in {"starting", "bound"} => server[s] = "accepted"

Awake == page = "mounted" => timer \/ strays > 0 \/ \E s \in Sockets : s \in Live

LEMMA WatchedNext ==
  ASSUME TypeOK, Watched, [Next]_vars
  PROVE  Watched'
<1>1. ASSUME NEW s \in Sockets, Socket(s) PROVE Watched'
  BY <1>1
  DEF Socket, OnOpen, OnMessage, Hangup, OnClose, Accept, Reject, Subscribe,
      Forward, ForwarderFails, Disconnect, IdleTimeout, Leave, Release, Set,
      Watched, TypeOK
<1> QED  BY <1>1 DEF Next, vars, Mount, Reconnect, Unmount, Publish, Watched

LEMMA AwakeNext ==
  ASSUME TypeOK, Ordered, Awake, [Next]_vars
  PROVE  Awake'
<1> USE DEF Awake, Live
<1>1. CASE Mount
  <2>1. opened' \in Sockets /\ client'[opened'] = "connecting"
    BY <1>1, SocketBounds DEF Mount
  <2> QED  BY <2>1
<1>2. CASE Reconnect
  <2>1. opened' \in Sockets /\ client'[opened'] = "connecting"
    BY <1>2, BoundAssumption DEF Reconnect, Set, TypeOK, Sockets
  <2> QED  BY <2>1
<1>3. CASE Unmount
  BY <1>3 DEF Unmount
<1>4. ASSUME NEW s \in Sockets, OnClose(s) PROVE Awake'
  <2>1. page = "mounted" => timer' = TRUE
    BY <1>4 DEF OnClose
  <2> QED  BY <1>4, <2>1 DEF OnClose
<1>5. ASSUME UNCHANGED <<page, timer, strays>>,
             \A s \in Sockets : s \in Live => s \in Live'
      PROVE  Awake'
  BY <1>5
<1>6. ASSUME NEW s \in Sockets, OnOpen(s) \/ Hangup(s) PROVE Awake'
  BY <1>5, <1>6 DEF OnOpen, Hangup, hook, Set, TypeOK
<1>7. CASE UNCHANGED <<page, timer, strays, client>>
  BY <1>5, <1>7
<1> QED  BY <1>1, <1>2, <1>3, <1>4, <1>6, <1>7
         DEF Next, vars, hook, Publish, Socket, OnMessage, Accept, Reject, Subscribe,
             Forward, ForwarderFails, Disconnect, IdleTimeout, Leave, Release

\* Nothing is abandoned: no page that stays without a socket to come, and no queue
\* behind the back of the endpoint that releases it.
THEOREM AttendedAlways == Spec => []Attended
<1> DEFINE IInv == FlowInv /\ Watched /\ Awake
<1>1. Init => IInv
  BY FlowInit DEF Init, Watched, Awake
<1>2. IInv /\ [Next]_vars => IInv'
  BY FlowStep, WatchedNext, AwakeNext DEF FlowInv, HookInv
<1>3. IInv => Attended
  BY DueCases DEF FlowInv, HookInv, DueKnown, Begun, Watched, Awake, Attended
<1> QED  BY <1>1, <1>2, <1>3, PTL DEF Spec
=============================================================================
