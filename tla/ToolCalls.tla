----------------------------- MODULE ToolCalls -----------------------------
(***************************************************************************)
(* What the two LLM services share: the tools of models/tool_name.py, the  *)
(* events of dto/llm_event.py and the landing that the tools fill.         *)
(*                                                                         *)
(* A tool is called with a JSON object {"content": ...}, spelled in pieces *)
(* of which the last one closes it.  The content is identified with the    *)
(* pieces that spell it.                                                   *)
(***************************************************************************)
EXTENDS Integers, Sequences

CONSTANT Names   \* names the model gives to tools

ASSUME NameAssumption == "" \notin Names

\* The tool of an event about no tool, and the name of a nameless call.
NoTool == ""

Fields   == {"set_html", "set_css", "set_js"}
Spelling == {"part", "last"}

Event(type, tool) == [type |-> type, tool |-> tool]

\* LandingResultTransfer, field by field.
Empty == [f \in Fields |-> << >>]

IsObject(pieces) ==
  pieces # << >> /\ \A k \in DOMAIN pieces :
                      pieces[k] = IF k = Len(pieces) THEN "last" ELSE "part"

\* apply_tool_content, call by call in the order of their places: a name that is
\* no field is ignored, and the last call of a tool overwrites the ones before.
Apply(contents) ==
  [f \in Fields |->
     LET hits == {k \in DOMAIN contents : contents[k].tool = f}
     IN IF hits = {} THEN << >>
        ELSE contents[CHOOSE k \in hits : \A j \in hits : j <= k].content]
=============================================================================
