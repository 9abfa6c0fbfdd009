---------------------------- MODULE Subscription ----------------------------
(***************************************************************************)
(* What a WebSocket to the gateway promises its browser: from the moment   *)
(* the queue behind it is bound, every notification of the user, in order, *)
(* once each; until it goes deaf or is closed.                             *)
(*                                                                         *)
(* A deaf socket looks like a live one to the browser: nothing is said     *)
(* when the forwarder behind it dies, and what it had not sent is lost.    *)
(***************************************************************************)
EXTENDS Integers, Sequences

VARIABLES
  state,  \* "off", "on", "deaf"
  inbox   \* notifications on their way to the browser

Prefix(k) == SubSeq(inbox, 1, k)

Init == state = "off" /\ inbox = << >>

Bind == state = "off" /\ state' = "on" /\ inbox' = << >>

Publish(message) ==
  /\ inbox' = IF state = "on" THEN Append(inbox, message) ELSE inbox
  /\ UNCHANGED state

Handle == inbox # << >> /\ inbox' = Tail(inbox) /\ UNCHANGED state

Deafen ==
  /\ state \in {"off", "on"} /\ state' = "deaf"
  /\ \E k \in 0 .. Len(inbox) : inbox' = Prefix(k)

Close == state' = "off" /\ inbox' = << >>

Published == Len(inbox') > Len(inbox) /\ Publish(inbox'[Len(inbox')])

Next == Bind \/ Published \/ Handle \/ Deafen \/ Close

Spec == Init /\ [][Next]_<<state, inbox>>
=============================================================================
