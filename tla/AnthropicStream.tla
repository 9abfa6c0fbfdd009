-------------------------- MODULE AnthropicStream ---------------------------
(***************************************************************************)
(* AnthropicStreamLandingService.stream: content blocks become events, and *)
(* the final message of the SDK becomes the landing.                       *)
(*                                                                         *)
(* The protocol sends one block after the other, each with a start, deltas *)
(* and a stop; the SDK accumulates them in message.  A block is a tool_use *)
(* block or a text block; its pieces are as in module ToolCalls, but       *)
(* the SDK completes arguments that were cut off, so that their content is *)
(* missing and the field becomes empty.                                    *)
(***************************************************************************)
EXTENDS ToolCalls

CONSTANT MaxChunks   \* bound: chunks in one stream

VARIABLES
  pc,       \* "open", "streaming", or how the stream ended
  block,    \* "none", or what kind of block is open
  current,  \* current_tool of _translate_chunks
  message,  \* the blocks accumulated by the SDK
  out,      \* the events yielded
  result,   \* the LandingResultTransfer of the "done" event
  chunks    \* chunks received

vars == <<pc, block, current, message, out, result, chunks>>

Init ==
  /\ pc = "open"
  /\ block = "none"
  /\ current = NoTool
  /\ message = << >>
  /\ out = << >>
  /\ result = Empty
  /\ chunks = 0

OpenStream ==
  /\ pc = "open"
  /\ pc' = "streaming"
  /\ UNCHANGED <<block, current, message, out, result, chunks>>

Chunk ==
  /\ pc = "streaming"
  /\ chunks < MaxChunks
  /\ chunks' = chunks + 1
  /\ UNCHANGED <<pc, result>>

BlockStart(name) ==
  /\ Chunk
  /\ block = "none"
  /\ message' = Append(message, [name |-> name, input |-> << >>])
  /\ block' = IF name = NoTool THEN "text" ELSE "tool_use"
  /\ current' = name
  /\ out' = IF name = NoTool THEN out
                             ELSE Append(out, Event("tool_start", name))

\* A delta of a text block has no tool to report about.
TextDelta ==
  /\ Chunk
  /\ block = "text"
  /\ UNCHANGED <<block, current, message, out>>

InputDelta(piece) ==
  /\ Chunk
  /\ block = "tool_use"
  /\ message' = [message EXCEPT ![Len(message)].input = Append(@, piece)]
  /\ out' = Append(out, Event("tool_delta", current))
  /\ UNCHANGED <<block, current>>

\* Broken: a stop reports no completion.
BlockStopSilent ==
  /\ Chunk
  /\ block # "none"
  /\ block' = "none"
  /\ current' = NoTool
  /\ UNCHANGED <<message, out>>

BlockStop ==
  /\ Chunk
  /\ block # "none"
  /\ block' = "none"
  /\ current' = NoTool
  /\ out' = IF current = NoTool THEN out
                                ELSE Append(out, Event("tool_complete", current))
  /\ UNCHANGED message

\* The blocks that use a tool; input that was cut off has no "content".
Contents == [k \in {k \in DOMAIN message : message[k].name # NoTool} |->
               [tool |-> message[k].name,
                content |-> IF IsObject(message[k].input) THEN message[k].input
                                                          ELSE << >>]]

\* Broken: the exception is swallowed.
FailSilently ==
  /\ pc \in {"open", "streaming"}
  /\ pc' = "error"
  /\ UNCHANGED <<block, current, message, out, result, chunks>>

\* APIError or any other exception of the request, the stream or its end.
Fail ==
  /\ pc \in {"open", "streaming"}
  /\ pc' = "error"
  /\ out' = Append(out, Event("error", NoTool))
  /\ UNCHANGED <<block, current, message, result, chunks>>

End ==
  /\ pc = "streaming" /\ block = "none"
  /\ pc' = "done"
  /\ result' = Apply(Contents)
  /\ out' = Append(out, Event("done", NoTool))
  /\ UNCHANGED <<block, current, message, chunks>>

Next ==
  \/ OpenStream \/ TextDelta \/ BlockStop \/ Fail \/ End
  \/ \E name \in Names \cup {NoTool} : BlockStart(name)
  \/ \E piece \in Spelling : InputDelta(piece)

Spec == Init /\ [][Next]_vars

-----------------------------------------------------------------------------
Contract == INSTANCE LlmStream WITH open <- pc \in {"open", "streaming"}

\* The service keeps the contract of the plugin interface: whatever chunks and
\* exceptions come, the stream ends with one "done" or one "error".
ContractSpec == Contract!Spec

\* A client can show its progress: starts, pieces and completions are paired
\* tool by tool, text blocks in between or not, until an exception ends it.
EventsPaired == Contract!Paired(out)
=============================================================================
