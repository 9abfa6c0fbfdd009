----------------------------- MODULE LlmStream -----------------------------
(***************************************************************************)
(* The contract of an LLM provider, LlmProviderPluginInterface in          *)
(* llm/domain/plugin/interface.py: a stream of tool events whose last      *)
(* event is "done" or "error", and nothing after it.                       *)
(*                                                                         *)
(* The executor relies on it: its loop looks for one of the two and would  *)
(* leave a row running after a stream that ends with neither.              *)
(***************************************************************************)
EXTENDS Integers, Sequences

VARIABLES
  out,   \* the events yielded so far
  open   \* the stream has not ended

ToolTypes  == {"tool_start", "tool_delta", "tool_complete"}
FinalTypes == {"done", "error"}

Extended == Len(out) <= Len(out') /\ SubSeq(out', 1, Len(out)) = out

Init == out = << >> /\ open = TRUE

Emit ==
  /\ open /\ open'
  /\ Extended
  /\ \A i \in Len(out) + 1 .. Len(out') : out'[i].type \in ToolTypes

End ==
  /\ open /\ open' = FALSE
  /\ Extended
  /\ Len(out') = Len(out) + 1
  /\ out'[Len(out')].type \in FinalTypes

Next == Emit \/ End

Spec == Init /\ [][Next]_<<out, open>>

-----------------------------------------------------------------------------
(***************************************************************************)
(* What a client needs to show progress: tool by tool, a start, the pieces *)
(* of its arguments, a completion.                                         *)
(***************************************************************************)
Follows(event, previous) ==
  IF event.type = "tool_start"
  THEN previous.type = "tool_complete"
  ELSE /\ previous.type \in {"tool_start", "tool_delta"}
       /\ previous.tool = event.tool

Paired(events) ==
  \A i \in DOMAIN events :
    events[i].type \in ToolTypes =>
      IF i = 1 THEN events[i].type = "tool_start"
               ELSE Follows(events[i], events[i - 1])
=============================================================================
