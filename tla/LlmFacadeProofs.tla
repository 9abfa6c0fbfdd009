-------------------------- MODULE LlmFacadeProofs ---------------------------
(***************************************************************************)
(* For every registry, every set of indices and tool names and any number  *)
(* of fragments and chunks: the OpenAI service never looks up a tool call  *)
(* it does not have and fills the landing with what the fragments spell,   *)
(* both services pair their tool events, and they and the facade over them *)
(* keep the contract of the plugin interface.                              *)
(***************************************************************************)
EXTENDS LlmFacade, SequenceTheorems, FiniteSetTheorems, WellFoundedInduction,
        TLAPS

-----------------------------------------------------------------------------
(***************************************************************************)
(* The OpenAI service.                                                     *)
(***************************************************************************)
Tools == Names \cup {""}
ToolEvents == [type : Contract!ToolTypes, tool : Tools]
FinalEvents == [type : Contract!FinalTypes, tool : Tools]
Events == ToolEvents \cup FinalEvents

\* The types that the properties rest on.
Typed ==
  /\ calls \in Seq(Call)
  /\ {current, local} \subseteq Indices \cup {NoIndex}
  /\ out \in Seq(Events)

Inv == Typed /\ NoKeyError

LEMMA KnownCall ==
  ASSUME Typed, NEW i, Known(i)
  PROVE  /\ Position(i) \in DOMAIN calls
         /\ calls[Position(i)].index = i
         /\ calls[Position(i)] \in Call
         /\ NameOf(i) \in Tools
<1>1. Position(i) \in DOMAIN calls /\ calls[Position(i)].index = i
  BY DEF Known, Position
<1>2. calls[Position(i)] \in Call
  BY <1>1 DEF Typed
<1> QED  BY <1>1, <1>2 DEF NameOf, Call, Tools

LEMMA WhenType ==
  ASSUME NEW S, NEW condition, NEW e, condition => e \in S
  PROVE  When(condition, e) \in Seq(S)
BY DEF When

LEMMA UpdatedType ==
  ASSUME Typed, NEW i \in Indices, NEW name \in Tools,
         NEW piece \in Pieces \cup {""}
  PROVE  Updated(i, name, piece) \in Call /\ Updated(i, name, piece).index = i
<1>1. CallAt(i) \in Call /\ CallAt(i).index = i
  <2>1. CASE Known(i)
    BY <2>1, KnownCall DEF CallAt
  <2>2. CASE ~Known(i)
    <3>1. CallAt(i) = [index |-> i, name |-> "", args |-> << >>]
      BY <2>2 DEF CallAt
    <3>2. << >> \in Seq(Pieces)
      BY EmptySeq
    <3>3. i \in Indices /\ "" \in Names \cup {""}
      OBVIOUS
    <3>4. [index |-> i, name |-> "", args |-> << >>] \in Call
      BY <3>2, <3>3 DEF Call
    <3>5. CallAt(i) \in Call
      BY <3>1, <3>4, Zenon
    <3>6. \A args : [index |-> i, name |-> "", args |-> args].index = i
      OBVIOUS
    <3>7. CallAt(i).index = i
      BY <3>1, <3>6, Zenon
    <3> QED  BY <3>5, <3>7
  <2> QED  BY <2>1, <2>2
<1>2. When(piece # "", piece) \in Seq(Pieces)
  BY WhenType
<1>3. CallAt(i).args \o When(piece # "", piece) \in Seq(Pieces)
  BY <1>1, <1>2, ConcatProperties DEF Call
<1> QED  BY <1>1, <1>3 DEF Updated, Call, Tools

\* Storing a call keeps the calls there are and makes its index known.
LEMMA PutKnows ==
  ASSUME Typed, NEW i \in Indices, NEW call \in Call, call.index = i,
         calls' = Put(i, call)
  PROVE  /\ calls' \in Seq(Call)
         /\ Known(i)'
         /\ \A j : Known(j) => Known(j)'
<1>0. calls \in Seq(Call)
  BY DEF Typed
<1>1. CASE Known(i)
  <2>1. calls' = [calls EXCEPT ![Position(i)] = call]
    BY <1>1 DEF Put
  <2>2. Position(i) \in DOMAIN calls /\ calls[Position(i)].index = i
    BY <1>1, KnownCall
  <2>3. calls' \in Seq(Call) /\ DOMAIN calls' = DOMAIN calls
    BY <1>0, <2>1, <2>2, ExceptSeq
  <2>4. \A k \in DOMAIN calls : calls'[k].index = calls[k].index
    BY <2>1, <2>2
  <2> QED  BY <1>1, <2>3, <2>4 DEF Known
<1>2. CASE ~Known(i)
  <2>1. calls' = Append(calls, call)
    BY <1>2 DEF Put
  <2>2. /\ calls' \in Seq(Call)
        /\ DOMAIN calls \subseteq DOMAIN calls'
        /\ \A k \in DOMAIN calls : calls'[k] = calls[k]
        /\ Len(calls) + 1 \in DOMAIN calls' /\ calls'[Len(calls) + 1] = call
    BY <1>0, <2>1
  <2> QED  BY <2>2 DEF Known
<1> QED  BY <1>1, <1>2

LEMMA ProgressType ==
  ASSUME Typed, NEW i \in Indices, NEW name \in Tools,
         NEW piece \in Pieces \cup {""}
  PROVE  Progress(i, name, piece) \in Seq(ToolEvents)
<1> DEFINE started == Event("tool_start", name)
           progress == Event("tool_delta", Updated(i, name, piece).name)
<1>1. started \in ToolEvents
  BY DEF Event, ToolEvents, Contract!ToolTypes
<1>2. progress \in ToolEvents
  BY UpdatedType DEF Event, ToolEvents, Contract!ToolTypes, Call, Tools
<1>3. /\ When(Named(i, name), started) \in Seq(ToolEvents)
      /\ When(piece # "", progress) \in Seq(ToolEvents)
  BY <1>1, <1>2, WhenType
<1> QED  BY <1>3, ConcatProperties DEF Progress

LEMMA DeltaType ==
  ASSUME Inv, NEW i \in Indices, NEW name \in Tools,
         NEW piece \in Pieces \cup {""}, NEW newChunk \in BOOLEAN
  PROVE  Delta(i, name, piece, newChunk) \in Seq(ToolEvents)
<1> DEFINE active == Active(newChunk)
           closed == ~Known(i) /\ active # NoIndex
           complete == Event("tool_complete", NameOf(active))
<1>1. closed => complete \in ToolEvents
  <2>1. closed => Known(active)
    BY DEF Active, Inv, NoKeyError
  <2>2. closed => NameOf(active) \in Tools
    BY <2>1, KnownCall DEF Inv
  <2> QED  BY <2>2 DEF Event, ToolEvents, Contract!ToolTypes
<1>2. When(closed, complete) \in Seq(ToolEvents)
  BY <1>1, WhenType
<1>3. Progress(i, name, piece) \in Seq(ToolEvents)
  BY ProgressType DEF Inv
<1> QED  BY <1>2, <1>3, ConcatProperties DEF Delta

LEMMA FinishType ==
  ASSUME Inv
  PROVE  When(current # NoIndex, Event("tool_complete", NameOf(current)))
           \in Seq(ToolEvents)
<1>1. current # NoIndex => Known(current)
  BY DEF Inv, NoKeyError
<1>2. current # NoIndex => NameOf(current) \in Tools
  BY <1>1, KnownCall DEF Inv
<1>3. current # NoIndex => Event("tool_complete", NameOf(current)) \in ToolEvents
  BY <1>2 DEF Event, ToolEvents, Contract!ToolTypes
<1> QED  BY <1>3, WhenType

LEMMA InitInv == Init => Inv
BY DEF Init, Inv, Typed, NoKeyError

LEMMA StepInv == Inv /\ [Next]_vars => Inv'
<1> SUFFICES ASSUME Inv, [Next]_vars PROVE Inv'
  OBVIOUS
<1>0. Typed /\ NoKeyError
  BY DEF Inv
<1>1. CASE OpenStream
  BY <1>0, <1>1 DEF OpenStream, Inv, Typed, NoKeyError, Known
<1>2. CASE Finish
  <2>1. out' \in Seq(Events)
    BY <1>0, <1>2, FinishType DEF Finish, Typed, Events
  <2> QED  BY <1>0, <1>2, <2>1 DEF Finish, Inv, Typed, NoKeyError, Known
<1>3. CASE Fail
  <2>1. Event("error", "") \in Events
    BY DEF Event, Events, FinalEvents, Contract!FinalTypes, Tools
  <2>2. out' \in Seq(Events)
    BY <1>0, <1>3, <2>1, AppendProperties DEF Fail, Typed
  <2> QED  BY <1>0, <1>3, <2>2 DEF Fail, Inv, Typed, NoKeyError, Known
<1>4. CASE End
  <2>1. Event("done", "") \in Events
    BY DEF Event, Events, FinalEvents, Contract!FinalTypes, Tools
  <2>2. out' \in Seq(Events)
    BY <1>0, <1>4, <2>1, AppendProperties DEF End, Typed
  <2> QED  BY <1>0, <1>4, <2>2 DEF End, Inv, Typed, NoKeyError, Known
<1>5. ASSUME NEW i \in Indices, NEW name \in Names \cup {""},
             NEW piece \in Pieces \cup {""}, NEW newChunk \in BOOLEAN,
             Fragment(i, name, piece, newChunk)
      PROVE  Inv'
  <2>1. name \in Tools
    BY DEF Tools
  <2>2. calls' = Put(i, Updated(i, name, piece))
    BY <1>5 DEF Fragment, Store
  <2>3. calls' \in Seq(Call) /\ Known(i)' /\ \A j : Known(j) => Known(j)'
    BY <1>0, <2>1, <2>2, UpdatedType, PutKnows
  <2>4. out' \in Seq(Events)
    <3>1. Delta(i, name, piece, newChunk) \in Seq(Events)
      BY <2>1, DeltaType, SeqMonotonic DEF Events
    <3> QED  BY <1>0, <1>5, <3>1, ConcatProperties DEF Fragment, Typed
  <2>5. current' \in {current, i} /\ local' \in {current, local, i}
    BY <1>5 DEF Fragment, Active
  <2>6. Typed'
    BY <1>0, <2>3, <2>4, <2>5 DEF Typed
  <2>7. NoKeyError'
    BY <1>0, <2>3, <2>5 DEF NoKeyError
  <2> QED  BY <2>6, <2>7 DEF Inv
<1>6. CASE UNCHANGED vars
  BY <1>0, <1>6 DEF vars, Inv, Typed, NoKeyError, Known
<1> QED  BY <1>1, <1>2, <1>3, <1>4, <1>5, <1>6 DEF Next

LEMMA Invariance == Spec => []Inv
BY InitInv, StepInv, PTL DEF Spec

\* tool_calls[current_index] never raises a KeyError.
THEOREM NoKeyErrorAlways == Spec => []NoKeyError
<1>1. Inv => NoKeyError
  BY DEF Inv
<1> QED  BY <1>1, Invariance, PTL

LEMMA EmitStep ==
  ASSUME out \in Seq(Events), NEW events \in Seq(ToolEvents),
         out' = out \o events,
         pc = "streaming", pc' = "streaming"
  PROVE  Contract!Emit
<1>1. /\ Len(out') = Len(out) + Len(events)
      /\ Len(out) \in Nat /\ Len(events) \in Nat
      /\ \A k \in 1 .. Len(out) : out'[k] = out[k]
      /\ \A k \in Len(out) + 1 .. Len(out') : out'[k] = events[k - Len(out)]
  OBVIOUS
<1>2. out' \in Seq(Events)
  BY DEF Events
<1>3. SubSeq(out', 1, Len(out)) = out
  BY <1>1, <1>2
<1>4. \A k \in 1 .. Len(events) : events[k].type \in Contract!ToolTypes
  <2>1. \A k \in 1 .. Len(events) : events[k] \in ToolEvents
    OBVIOUS
  <2> QED  BY <2>1 DEF ToolEvents
<1>5. \A k \in Len(out) + 1 .. Len(out') : out'[k].type \in Contract!ToolTypes
  BY <1>1, <1>4
<1> QED  BY <1>1, <1>3, <1>5 DEF Contract!Emit, Contract!Extended

LEMMA EndStep ==
  ASSUME out \in Seq(Events), NEW event \in FinalEvents,
         out' = Append(out, event),
         pc \in {"open", "streaming"}, pc' \in {"done", "error"}
  PROVE  Contract!End
<1>1. /\ Len(out') = Len(out) + 1 /\ Len(out) \in Nat
      /\ SubSeq(out', 1, Len(out)) = out /\ out'[Len(out) + 1] = event
  OBVIOUS
<1> QED  BY <1>1 DEF Contract!End, Contract!Extended, FinalEvents

LEMMA ContractInit == Init => Contract!Init
BY DEF Init, Contract!Init

LEMMA ContractStep ==
  ASSUME Inv, [Next]_vars
  PROVE  [Contract!Next]_<<out, pc \in {"open", "streaming"}>>
<1>0. out \in Seq(Events)
  BY DEF Inv, Typed
<1>1. CASE OpenStream
  BY <1>1 DEF OpenStream
<1>2. CASE Finish
  BY <1>0, <1>2, FinishType, EmitStep DEF Finish, Contract!Next
<1>3. CASE Fail
  <2>1. Event("error", "") \in FinalEvents
    BY DEF Event, FinalEvents, Contract!FinalTypes, Tools
  <2> QED  BY <1>0, <1>3, <2>1, EndStep DEF Fail, Contract!Next
<1>4. CASE End
  <2>1. Event("done", "") \in FinalEvents
    BY DEF Event, FinalEvents, Contract!FinalTypes, Tools
  <2> QED  BY <1>0, <1>4, <2>1, EndStep DEF End, Contract!Next
<1>5. ASSUME NEW i \in Indices, NEW name \in Names \cup {""},
             NEW piece \in Pieces \cup {""}, NEW newChunk \in BOOLEAN,
             Fragment(i, name, piece, newChunk)
      PROVE  Contract!Next
  <2>1. Delta(i, name, piece, newChunk) \in Seq(ToolEvents)
    BY DeltaType DEF Tools
  <2> QED  BY <1>0, <1>5, <2>1, EmitStep DEF Fragment, Contract!Next
<1>6. CASE UNCHANGED vars
  BY <1>6 DEF vars
<1> QED  BY <1>1, <1>2, <1>3, <1>4, <1>5, <1>6 DEF Next

\* Every stream of the service ends at most once, with "done" or "error", and
\* yields nothing but tool events before.
THEOREM ImplementsContract == Spec => ContractSpec
<1>1. Inv /\ [Next]_vars
        => [Contract!Next]_<<out, pc \in {"open", "streaming"}>>
  BY ContractStep
<1> QED  BY <1>1, ContractInit, Invariance, PTL
         DEF Spec, ContractSpec, Contract!Spec

-----------------------------------------------------------------------------
(***************************************************************************)
(* The Anthropic service.                                                  *)
(***************************************************************************)
\* The events of both services are those of module LlmStream.
LEMMA SameContract ==
  \A events : Anthropic!Contract!Paired(events) <=> Contract!Paired(events)
BY DEF Anthropic!Contract!Paired, Anthropic!Contract!Follows,
       Anthropic!Contract!ToolTypes, Contract!Paired, Contract!Follows,
       Contract!ToolTypes

Use(type, name) == [type |-> type, tool |-> name]

\* The types, and the tool is that of the open block and of no other.
BlocksTyped ==
  /\ pc \in {"open", "streaming", "done", "error"}
  /\ block \in {"none", "text", "tool_use"}
  /\ out \in Seq(Events)
  /\ IF block = "tool_use" THEN tool \in Names ELSE tool = ""
  /\ pc = "open" => block = "none"

\* Where the feed stands: inside a tool its last event names the open block,
\* outside it completes the block before.
BlocksAt ==
  pc \in {"open", "streaming"} =>
    IF block = "tool_use"
    THEN /\ out # << >>
         /\ out[Len(out)].type \in {"tool_start", "tool_delta"}
         /\ out[Len(out)].tool = tool
    ELSE out # << >> => out[Len(out)].type = "tool_complete"

BlocksInv == BlocksTyped /\ BlocksAt /\ Contract!Paired(out)

\* What a step of the service does to the feed: nothing, a tool event that may
\* follow the last one, or the final event.
Silent ==
  /\ pc \in {"open", "streaming"} /\ pc' = "streaming" /\ out' = out
  /\ block # "tool_use" /\ tool' = ""
  /\ block' \in {"none", "text"}

Yields(event) ==
  /\ pc = "streaming" /\ pc' = "streaming"
  /\ out' = Append(out, event) /\ event \in ToolEvents
  /\ IF out = << >> THEN event.type = "tool_start"
                    ELSE Contract!Follows(event, out[Len(out)])
  /\ \/ /\ block' = "tool_use" /\ tool' \in Names
        /\ event.type \in {"tool_start", "tool_delta"} /\ event.tool = tool'
     \/ /\ block' = "none" /\ tool' = ""
        /\ event.type = "tool_complete"

Closes(event) ==
  /\ pc \in {"open", "streaming"} /\ pc' \in {"done", "error"}
  /\ out' = Append(out, event) /\ event \in FinalEvents
  /\ UNCHANGED <<block, tool>>

LEMMA UseTypes ==
  ASSUME NEW name \in Tools
  PROVE  /\ \A type \in Contract!ToolTypes : Use(type, name) \in ToolEvents
         /\ \A type \in Contract!FinalTypes : Use(type, name) \in FinalEvents
BY DEF Use, ToolEvents, FinalEvents

LEMMA BlockStep ==
  ASSUME BlocksInv, Anthropic!Next
  PROVE  \/ Silent
         \/ \E event : Yields(event)
         \/ \E event : Closes(event)
<1> USE DEF Anthropic!NoTool, Anthropic!Event
<1>0. /\ block \in {"none", "text", "tool_use"}
      /\ IF block = "tool_use" THEN tool \in Names ELSE tool = ""
      /\ tool \in Tools /\ "" \in Tools /\ "" \notin Names
      /\ pc = "open" => block = "none"
  BY NameAssumption DEF BlocksInv, BlocksTyped, Tools
<1>1. CASE Anthropic!OpenStream
  BY <1>0, <1>1 DEF Anthropic!OpenStream, Silent
<1>2. CASE Anthropic!TextDelta
  BY <1>0, <1>2 DEF Anthropic!TextDelta, Anthropic!Chunk, Silent
<1>3. CASE Anthropic!BlockStop
  <2>1. CASE block = "tool_use"
    <3> DEFINE event == Use("tool_complete", tool)
    <3>1. /\ out' = Append(out, event) /\ pc = "streaming" /\ pc' = "streaming"
          /\ block' = "none" /\ tool' = ""
      BY <1>0, <1>3, <2>1 DEF Anthropic!BlockStop, Anthropic!Chunk, Use
    <3>2. event \in ToolEvents /\ event.type = "tool_complete"
      BY <1>0, UseTypes DEF Contract!ToolTypes, Use
    <3>3. out # << >> /\ Contract!Follows(event, out[Len(out)])
      BY <2>1, <3>1 DEF BlocksInv, BlocksAt, Contract!Follows, Use
    <3> QED  BY <3>1, <3>2, <3>3 DEF Yields
  <2>2. CASE block # "tool_use"
    BY <1>0, <1>3, <2>2 DEF Anthropic!BlockStop, Anthropic!Chunk, Silent
  <2> QED  BY <2>1, <2>2
<1>4. CASE Anthropic!Fail
  <2>1. out' = Append(out, Use("error", "")) /\ Use("error", "") \in FinalEvents
    BY <1>0, <1>4, UseTypes DEF Anthropic!Fail, Use, Contract!FinalTypes
  <2> QED  BY <1>4, <2>1 DEF Anthropic!Fail, Closes
<1>5. CASE Anthropic!End
  <2>1. out' = Append(out, Use("done", "")) /\ Use("done", "") \in FinalEvents
    BY <1>0, <1>5, UseTypes DEF Anthropic!End, Use, Contract!FinalTypes
  <2> QED  BY <1>5, <2>1 DEF Anthropic!End, Closes
<1>6. ASSUME NEW name \in Names \cup {""}, Anthropic!BlockStart(name)
      PROVE  Silent \/ \E event : Yields(event)
  <2>1. CASE name = ""
    BY <1>0, <1>6, <2>1 DEF Anthropic!BlockStart, Anthropic!Chunk, Silent
  <2>2. CASE name # ""
    <3> DEFINE event == Use("tool_start", name)
    <3>1. /\ out' = Append(out, event) /\ pc = "streaming" /\ pc' = "streaming"
          /\ block = "none" /\ block' = "tool_use" /\ tool' = name
      BY <1>6, <2>2 DEF Anthropic!BlockStart, Anthropic!Chunk, Use
    <3>2. /\ event \in ToolEvents
          /\ event.type = "tool_start" /\ event.tool = name
      BY UseTypes DEF Contract!ToolTypes, Use, Tools
    <3>3. out # << >> => Contract!Follows(event, out[Len(out)])
      BY <3>1 DEF BlocksInv, BlocksAt, Contract!Follows, Use
    <3> QED  BY <2>2, <3>1, <3>2, <3>3 DEF Yields
  <2> QED  BY <2>1, <2>2
<1>7. ASSUME NEW piece \in Anthropic!Spelling, Anthropic!InputDelta(piece)
      PROVE  \E event : Yields(event)
  <2> DEFINE event == Use("tool_delta", tool)
  <2>1. /\ out' = Append(out, event) /\ pc = "streaming" /\ pc' = "streaming"
        /\ block = "tool_use" /\ block' = "tool_use" /\ tool' = tool
    BY <1>7 DEF Anthropic!InputDelta, Anthropic!Chunk, Use
  <2>2. /\ event \in ToolEvents
        /\ event.type = "tool_delta" /\ event.tool = tool
    BY <1>0, UseTypes DEF Contract!ToolTypes, Use
  <2>3. out # << >> /\ Contract!Follows(event, out[Len(out)])
    BY <2>1 DEF BlocksInv, BlocksAt, Contract!Follows, Use
  <2> QED  BY <1>0, <2>1, <2>2, <2>3 DEF Yields
<1> QED  BY <1>1, <1>2, <1>3, <1>4, <1>5, <1>6, <1>7 DEF Anthropic!Next

\* Appending one event to a paired feed: it has to follow the last one.
LEMMA PairedAppend ==
  ASSUME NEW events \in Seq(Events), NEW event \in Events,
         Contract!Paired(events),
         event.type \in Contract!ToolTypes =>
           IF events = << >> THEN event.type = "tool_start"
           ELSE Contract!Follows(event, events[Len(events)])
  PROVE  Contract!Paired(Append(events, event))
<1> DEFINE longer == Append(events, event)
<1>1. /\ Len(longer) = Len(events) + 1 /\ DOMAIN longer = 1 .. Len(events) + 1
      /\ \A i \in 1 .. Len(events) : longer[i] = events[i]
      /\ longer[Len(events) + 1] = event
      /\ DOMAIN events = 1 .. Len(events) /\ Len(events) \in Nat
      /\ events = << >> <=> Len(events) = 0
  OBVIOUS
<1>2. ASSUME NEW i \in DOMAIN longer, longer[i].type \in Contract!ToolTypes
      PROVE  IF i = 1 THEN longer[i].type = "tool_start"
                      ELSE Contract!Follows(longer[i], longer[i - 1])
  <2>1. CASE i \in 1 .. Len(events)
    <3>1. longer[i] = events[i] /\ i \in DOMAIN events
      BY <1>1, <2>1
    <3>2. i # 1 => longer[i - 1] = events[i - 1]
      BY <1>1, <2>1
    <3> QED  BY <1>2, <3>1, <3>2 DEF Contract!Paired
  <2>2. CASE i = Len(events) + 1
    <3>1. longer[i] = event
      BY <1>1, <2>2
    <3>2. i # 1 => events # << >> /\ longer[i - 1] = events[Len(events)]
      <4> SUFFICES ASSUME i # 1
                   PROVE  events # << >> /\ longer[i - 1] = events[Len(events)]
        OBVIOUS
      <4>1. i - 1 = Len(events) /\ Len(events) \in 1 .. Len(events)
        BY <1>1, <2>2
      <4> QED  BY <1>1, <4>1
    <3>3. i = 1 => events = << >>
      BY <1>1, <2>2
    <3> QED  BY <1>2, <3>1, <3>2, <3>3
  <2> QED  BY <1>1, <2>1, <2>2
<1> QED  BY <1>2 DEF Contract!Paired

LEMMA BlocksNext == BlocksInv /\ Anthropic!Next => BlocksInv'
<1> SUFFICES ASSUME BlocksInv, Anthropic!Next PROVE BlocksInv'
  OBVIOUS
<1>0. out \in Seq(Events) /\ Contract!Paired(out)
  BY DEF BlocksInv, BlocksTyped
<1>1. CASE Silent
  BY <1>1 DEF Silent, BlocksInv, BlocksTyped, BlocksAt, Contract!Paired,
              Contract!Follows
<1>2. ASSUME NEW event, Yields(event) PROVE BlocksInv'
  <2>1. event \in Events /\ event.type \in Contract!ToolTypes
    BY <1>2 DEF Yields, Events, ToolEvents
  <2>2. IF out = << >> THEN event.type = "tool_start"
                       ELSE Contract!Follows(event, out[Len(out)])
    BY <1>2, Zenon DEF Yields
  <2>3. out' = Append(out, event)
    BY <1>2 DEF Yields
  <2>4. Contract!Paired(Append(out, event))
    BY <1>0, <2>1, <2>2, PairedAppend
  <2>5. /\ out' \in Seq(Events) /\ out' # << >> /\ out'[Len(out')] = event
    BY <1>0, <2>1, <2>3
  <2>6. Contract!Paired(out)'
    BY <2>3, <2>4 DEF Contract!Paired, Contract!Follows
  <2>7. BlocksTyped' /\ BlocksAt'
    BY <1>2, <2>5 DEF Yields, BlocksTyped, BlocksAt
  <2> QED  BY <2>6, <2>7 DEF BlocksInv
<1>3. ASSUME NEW event, Closes(event) PROVE BlocksInv'
  <2>1. event \in Events /\ event.type \notin Contract!ToolTypes
    BY <1>3 DEF Closes, Events, FinalEvents, Contract!FinalTypes,
                Contract!ToolTypes
  <2>2. Contract!Paired(Append(out, event))
    BY <1>0, <1>3, <2>1, PairedAppend DEF Closes
  <2>3. out' \in Seq(Events)
    BY <1>0, <1>3, <2>1 DEF Closes
  <2> QED  BY <1>3, <2>2, <2>3
          DEF Closes, BlocksInv, BlocksTyped, BlocksAt, Contract!Paired,
              Contract!Follows
<1> QED  BY <1>1, <1>2, <1>3, BlockStep

LEMMA BlocksContract ==
  ASSUME BlocksInv, Anthropic!Next
  PROVE  [Contract!Next]_<<out, pc \in {"open", "streaming"}>>
<1>0. out \in Seq(Events)
  BY DEF BlocksInv, BlocksTyped
<1>1. CASE Silent
  BY <1>1 DEF Silent
<1>2. ASSUME NEW event, Yields(event) PROVE Contract!Next
  <2>1. /\ pc = "streaming" /\ pc' = "streaming"
        /\ out' = Append(out, event) /\ event \in ToolEvents
    BY <1>2 DEF Yields
  <2>2. event \in Events
    BY <2>1 DEF Events
  <2>3. <<event>> \in Seq(ToolEvents) /\ out' = out \o <<event>>
    BY <1>0, <2>1, <2>2
  <2>4. Contract!Emit
    BY <1>0, <2>1, <2>3, EmitStep
  <2> QED  BY <2>4 DEF Contract!Next
<1>3. ASSUME NEW event, Closes(event) PROVE Contract!Next
  BY <1>0, <1>3, EndStep DEF Closes, Contract!Next
<1> QED  BY <1>1, <1>2, <1>3, BlockStep

-----------------------------------------------------------------------------
(***************************************************************************)
(* The progress of the OpenAI service.                                     *)
(***************************************************************************)
\* The dict has a call for each index that came, named if a fragment named it.
Came(i) == \E k \in DOMAIN log : log[k].index = i
NameCame(i) == \E k \in DOMAIN log : log[k].index = i /\ log[k].name # ""

Booked ==
  /\ log \in Seq(Fragments)
  /\ \A j, k \in DOMAIN calls : calls[j].index = calls[k].index => j = k
  /\ \A i : Known(i) <=> Came(i)
  /\ \A i : Known(i) => (NameOf(i) # "" <=> NameCame(i))

\* Storing a call touches one place of the dict, the last if it is a new call.
LEMMA PutPlace ==
  ASSUME Typed, NEW i \in Indices, NEW call \in Call, call.index = i,
         calls' = Put(i, call)
  PROVE  \E p \in DOMAIN calls' :
           /\ calls'[p] = call
           /\ DOMAIN calls' = DOMAIN calls \cup {p}
           /\ \A k \in DOMAIN calls' \ {p} :
                k \in DOMAIN calls /\ calls'[k] = calls[k]
           /\ IF Known(i) THEN p \in DOMAIN calls /\ calls[p].index = i
                          ELSE p = Len(calls) + 1
<1>0. /\ calls \in Seq(Call) /\ DOMAIN calls = 1 .. Len(calls) /\ Len(calls) \in Nat
  BY LenProperties DEF Typed
<1>1. CASE Known(i)
  <2> DEFINE q == Position(i)
  <2>1. q \in DOMAIN calls /\ calls[q].index = i
    BY <1>1, KnownCall
  <2>2. calls' = [calls EXCEPT ![q] = call]
    BY <1>1 DEF Put
  <2> HIDE DEF q
  <2>3. /\ q \in DOMAIN calls' /\ calls'[q] = call
        /\ DOMAIN calls' = DOMAIN calls
        /\ \A k \in DOMAIN calls' \ {q} : calls'[k] = calls[k]
    BY <1>0, <2>1, <2>2
  <2> QED  BY <1>0, <1>1, <2>1, <2>3
<1>2. CASE ~Known(i)
  <2>1. calls' = Append(calls, call)
    BY <1>2 DEF Put
  <2>2. /\ DOMAIN calls' = 1 .. Len(calls) + 1
        /\ \A k \in 1 .. Len(calls) : calls'[k] = calls[k]
        /\ calls'[Len(calls) + 1] = call
    BY <1>0, <2>1, AppendProperties, LenProperties
  <2>3. Len(calls) + 1 \in DOMAIN calls' /\ Len(calls) + 1 \notin DOMAIN calls
    BY <1>0, <2>2
  <2>4. DOMAIN calls' = DOMAIN calls \cup {Len(calls) + 1}
    BY <1>0, <2>2
  <2> QED  BY <1>0, <1>2, <2>2, <2>3, <2>4
<1> QED  BY <1>1, <1>2

\* What storing a call does to the others.
LEMMA PutNames ==
  ASSUME Typed, Booked, NEW i \in Indices, NEW call \in Call, call.index = i,
         calls' = Put(i, call)
  PROVE  /\ \A j, k \in DOMAIN calls' : calls'[j].index = calls'[k].index => j = k
         /\ \A j : Known(j)' <=> Known(j) \/ j = i
         /\ \A j : Known(j) /\ j # i => NameOf(j)' = NameOf(j)
         /\ NameOf(i)' = call.name
<1>0. /\ calls \in Seq(Call) /\ DOMAIN calls = 1 .. Len(calls) /\ Len(calls) \in Nat
      /\ \A j, k \in DOMAIN calls : calls[j].index = calls[k].index => j = k
  <2>1. calls \in Seq(Call)
    BY DEF Typed
  <2>2. \A j, k \in DOMAIN calls : calls[j].index = calls[k].index => j = k
    BY Zenon DEF Booked
  <2> QED  BY <2>1, <2>2, LenProperties
<1>1. PICK p \in DOMAIN calls' :
        /\ calls'[p] = call
        /\ DOMAIN calls' = DOMAIN calls \cup {p}
        /\ \A k \in DOMAIN calls' \ {p} :
             k \in DOMAIN calls /\ calls'[k] = calls[k] /\ calls[k].index # i
        /\ p \in DOMAIN calls => calls[p].index = i
  <2>1. PICK p \in DOMAIN calls' :
          /\ calls'[p] = call
          /\ DOMAIN calls' = DOMAIN calls \cup {p}
          /\ \A k \in DOMAIN calls' \ {p} :
               k \in DOMAIN calls /\ calls'[k] = calls[k]
          /\ IF Known(i) THEN p \in DOMAIN calls /\ calls[p].index = i
                         ELSE p = Len(calls) + 1
    BY PutPlace, ZenonT(60)
  <2>2. ~Known(i) => p \notin DOMAIN calls
    BY <1>0, <2>1
  <2>3. ASSUME NEW k \in DOMAIN calls' \ {p} PROVE calls[k].index # i
    <3>1. CASE Known(i)
      BY <1>0, <2>1, <2>3, <3>1
    <3>2. CASE ~Known(i)
      BY <2>1, <2>3, <3>2 DEF Known
    <3> QED  BY <3>1, <3>2
  <2> QED  BY <2>1, <2>2, <2>3
<1>2. \A j, k \in DOMAIN calls' : calls'[j].index = calls'[k].index => j = k
  BY <1>0, <1>1
<1>3. ASSUME NEW j PROVE Known(j)' <=> Known(j) \/ j = i
  <2>1. CASE j = i
    BY <1>1, <2>1 DEF Known
  <2>2. CASE j # i
    <3>1. \A k \in DOMAIN calls : calls[k].index = j => k # p
      BY <1>1, <2>2
    <3>2. Known(j) => Known(j)'
      BY <1>1, <3>1 DEF Known
    <3>3. \A k \in DOMAIN calls' : calls'[k].index = j => k # p
      BY <1>1, <2>2
    <3>4. Known(j)' => Known(j)
      BY <1>1, <3>3 DEF Known
    <3> QED  BY <2>2, <3>2, <3>4
  <2> QED  BY <2>1, <2>2
<1>4. ASSUME NEW j, Known(j), j # i PROVE NameOf(j)' = NameOf(j)
  <2> DEFINE q == Position(j)
  <2>1. q \in DOMAIN calls /\ calls[q].index = j
    BY <1>4, KnownCall
  <2> HIDE DEF q
  <2>2. q \in DOMAIN calls' /\ calls'[q] = calls[q]
    BY <1>1, <1>4, <2>1
  <2>3. \A k \in DOMAIN calls' : calls'[k].index = j <=> k = q
    BY <1>2, <2>1, <2>2
  <2>4. Position(j)' = q
    BY <2>2, <2>3 DEF Position
  <2> QED  BY <2>2, <2>4 DEF NameOf, q
<1>5. NameOf(i)' = call.name
  <2>1. \A k \in DOMAIN calls' : calls'[k].index = i <=> k = p
    BY <1>1, <1>2
  <2>2. Position(i)' = p
    BY <1>1, <2>1 DEF Position
  <2> QED  BY <1>1, <2>2 DEF NameOf
<1> QED  BY <1>2, <1>3, <1>4, <1>5

\* The fragment that comes, with what is known of it.
Receives(i, name, piece, newChunk) ==
  /\ i \in Indices /\ name \in Tools /\ piece \in Pieces \cup {""}
  /\ newChunk \in BOOLEAN
  /\ Fragment(i, name, piece, newChunk)

\* The name of the call before and after.
NameBefore(i) == IF Known(i) THEN NameOf(i) ELSE ""

LEMMA UpdatedName ==
  ASSUME Typed, NEW i \in Indices, NEW name \in Tools,
         NEW piece \in Pieces \cup {""}
  PROVE  /\ CallAt(i).name = NameBefore(i)
         /\ Updated(i, name, piece).name =
              IF NameBefore(i) = "" THEN name ELSE NameBefore(i)
<1>1. CallAt(i).name = NameBefore(i)
  <2>1. CASE Known(i)
    BY <2>1 DEF CallAt, NameBefore, NameOf
  <2>2. CASE ~Known(i)
    <3>1. \A args : [index |-> i, name |-> "", args |-> args].name = ""
      OBVIOUS
    <3> QED  BY <2>2, <3>1 DEF CallAt, NameBefore
  <2> QED  BY <2>1, <2>2
<1>2. "name" \in DOMAIN CallAt(i)
  <2>1. CASE Known(i)
    BY <2>1, KnownCall DEF CallAt, Call
  <2>2. CASE ~Known(i)
    BY <2>2 DEF CallAt
  <2> QED  BY <2>1, <2>2
<1>3. Updated(i, name, piece).name =
        IF Named(i, name) THEN name ELSE CallAt(i).name
  BY <1>2 DEF Updated
<1> QED  BY <1>1, <1>3 DEF Named

LEMMA LogGrows ==
  ASSUME Booked, NEW i, NEW name, NEW piece, NEW newChunk,
         Receives(i, name, piece, newChunk)
  PROVE  /\ log' \in Seq(Fragments) /\ Len(log) \in Nat
         /\ DOMAIN log = 1 .. Len(log) /\ DOMAIN log' = 1 .. Len(log) + 1
         /\ Len(log') = Len(log) + 1
         /\ \A k \in 1 .. Len(log) : log'[k] = log[k]
         /\ log'[Len(log) + 1] = [index |-> i, name |-> name, piece |-> piece,
                                  newChunk |-> newChunk]
         /\ log = << >> <=> Len(log) = 0
<1> DEFINE new == [index |-> i, name |-> name, piece |-> piece,
                   newChunk |-> newChunk]
<1>1. log \in Seq(Fragments) /\ new \in Fragments /\ log' = Append(log, new)
  BY DEF Booked, Receives, Fragment, Fragments, Tools
<1> HIDE DEF new
<1>2. /\ log' \in Seq(Fragments) /\ Len(log) \in Nat
      /\ DOMAIN log = 1 .. Len(log) /\ Len(log') = Len(log) + 1
      /\ \A k \in 1 .. Len(log) : log'[k] = log[k]
      /\ log'[Len(log) + 1] = new
      /\ log = << >> <=> Len(log) = 0
  BY <1>1, AppendProperties, LenProperties, EmptySeq
<1>3. DOMAIN log' = 1 .. Len(log) + 1
  BY <1>2, LenProperties
<1> QED  BY <1>2, <1>3 DEF new

LEMMA BookedStep ==
  ASSUME Inv, Booked, NEW i, NEW name, NEW piece, NEW newChunk,
         Receives(i, name, piece, newChunk)
  PROVE  /\ Booked'
         /\ Known(i)' /\ NameOf(i)' = IF NameBefore(i) = "" THEN name
                                                            ELSE NameBefore(i)
<1>1. /\ i \in Indices /\ name \in Tools /\ piece \in Pieces \cup {""}
      /\ calls' = Put(i, Updated(i, name, piece)) /\ Typed
  BY DEF Receives, Fragment, Store, Inv
<1>2. /\ Updated(i, name, piece) \in Call /\ Updated(i, name, piece).index = i
      /\ Updated(i, name, piece).name =
              IF NameBefore(i) = "" THEN name ELSE NameBefore(i)
  BY <1>1, UpdatedType, UpdatedName
<1>3. /\ \A j, k \in DOMAIN calls' : calls'[j].index = calls'[k].index => j = k
      /\ \A j : Known(j)' <=> Known(j) \/ j = i
      /\ \A j : Known(j) /\ j # i => NameOf(j)' = NameOf(j)
      /\ NameOf(i)' = IF NameBefore(i) = "" THEN name ELSE NameBefore(i)
  BY <1>1, <1>2, PutNames
<1> DEFINE n == Len(log) + 1
<1>4. /\ log' \in Seq(Fragments)
      /\ DOMAIN log' = DOMAIN log \cup {n} /\ n \notin DOMAIN log
      /\ \A k \in DOMAIN log : log'[k] = log[k]
      /\ log'[n].index = i /\ log'[n].name = name
  <2> DEFINE new == [index |-> i, name |-> name, piece |-> piece,
                     newChunk |-> newChunk]
  <2>1. /\ log' \in Seq(Fragments) /\ Len(log) \in Nat
        /\ DOMAIN log = 1 .. Len(log) /\ DOMAIN log' = 1 .. Len(log) + 1
        /\ \A k \in 1 .. Len(log) : log'[k] = log[k]
        /\ log'[Len(log) + 1] = new
    BY LogGrows
  <2>2. new.index = i /\ new.name = name
    OBVIOUS
  <2> HIDE DEF new
  <2> QED  BY <2>1, <2>2
<1>5. /\ \A j : Known(j) <=> Came(j)
      /\ \A j : Known(j) => (NameOf(j) # "" <=> NameCame(j))
  BY DEF Booked
<1> HIDE DEF n
<1>6. ASSUME NEW j PROVE Came(j)' <=> Came(j) \/ j = i
  BY <1>4 DEF Came
<1>7. ASSUME NEW j PROVE NameCame(j)' <=> NameCame(j) \/ (j = i /\ name # "")
  BY <1>4 DEF NameCame
<1>8. NameCame(i) => Came(i)
  BY DEF NameCame, Came
<1>9. ASSUME NEW j, Known(j)' PROVE NameOf(j)' # "" <=> NameCame(j)'
  <2>1. CASE j = i
    BY <1>3, <1>5, <1>7, <1>8, <2>1 DEF NameBefore
  <2>2. CASE j # i
    BY <1>3, <1>5, <1>7, <1>9, <2>2
  <2> QED  BY <2>1, <2>2
<1>10. \A j : Known(j)' <=> Came(j)'
  BY <1>3, <1>5, <1>6
<1> QED  BY <1>3, <1>4, <1>9, <1>10 DEF Booked

\* Where the feed stands: at a tool it has started, or between two tools.
Between(events) == events # << >> => events[Len(events)].type = "tool_complete"

Inside(events, name) ==
  /\ events # << >>
  /\ events[Len(events)].type \in {"tool_start", "tool_delta"}
  /\ events[Len(events)].tool = name

At(events, name) == IF name = "" THEN Between(events) ELSE Inside(events, name)

\* One event more, if a condition holds.
LEMMA WhenAppends ==
  ASSUME NEW events \in Seq(Events), NEW condition \in BOOLEAN,
         NEW event, condition => event \in Events
  PROVE  /\ When(condition, event) \in Seq(Events)
         /\ events \o When(condition, event) =
              IF condition THEN Append(events, event) ELSE events
<1>1. CASE condition
  <2>1. When(condition, event) = <<event>> /\ event \in Events
    BY <1>1 DEF When
  <2>2. <<event>> \in Seq(Events) /\ Append(events, event) = events \o <<event>>
    BY <2>1, AppendIsConcat
  <2> QED  BY <1>1, <2>1, <2>2
<1>2. CASE ~condition
  <2>1. When(condition, event) = << >>
    BY <1>2 DEF When
  <2> QED  BY <1>2, <2>1, EmptySeq, ConcatEmptySeq
<1> QED  BY <1>1, <1>2

\* A tool event that may follow is appended.
LEMMA ToolAppended ==
  ASSUME NEW events \in Seq(Events), Contract!Paired(events),
         NEW type \in Contract!ToolTypes, NEW tag \in Tools,
         \/ type = "tool_start" /\ Between(events)
         \/ type # "tool_start" /\ Inside(events, tag)
  PROVE  LET longer == Append(events, Event(type, tag))
         IN  /\ Event(type, tag) \in Events
             /\ longer \in Seq(Events) /\ Contract!Paired(longer)
             /\ longer # events /\ longer # << >>
             /\ longer[Len(longer)].type = type /\ longer[Len(longer)].tool = tag
<1> DEFINE event == Event(type, tag)
           longer == Append(events, event)
<1>1. event \in Events /\ event.type = type /\ event.tool = tag
  BY DEF Event, Events, ToolEvents
<1> HIDE DEF event
<1>2. IF events = << >> THEN event.type = "tool_start"
                        ELSE Contract!Follows(event, events[Len(events)])
  BY <1>1 DEF Between, Inside, Contract!Follows, Contract!ToolTypes
<1>3. Contract!Paired(longer)
  BY <1>1, <1>2, PairedAppend
<1>4. /\ longer \in Seq(Events) /\ Len(longer) = Len(events) + 1
      /\ longer[Len(events) + 1] = event /\ Len(events) \in Nat
  BY <1>1, AppendProperties, LenProperties
<1>5. longer # events /\ longer # << >>
  BY <1>4, EmptySeq
<1> QED  BY <1>1, <1>3, <1>4, <1>5 DEF event

LEMMA LongerDiffers ==
  ASSUME NEW S, NEW s \in Seq(S), NEW t \in Seq(S), NEW e \in S,
         t = s \/ Len(t) = Len(s) + 1
  PROVE  Append(t, e) # s /\ Len(Append(t, e)) = Len(t) + 1
<1>1. /\ Len(Append(t, e)) = Len(t) + 1
      /\ Len(t) \in Nat /\ Len(s) \in Nat
  BY AppendProperties, LenProperties
<1>2. Len(Append(t, e)) # Len(s)
  BY <1>1
<1> QED  BY <1>1, <1>2

LEMMA Regrouped ==
  \A s, t, u \in Seq(Events) : (s \o t) \o u = s \o (t \o u)
<1> SUFFICES ASSUME NEW s \in Seq(Events), NEW t \in Seq(Events),
                    NEW u \in Seq(Events)
             PROVE  (s \o t) \o u = s \o (t \o u)
  OBVIOUS
<1> QED  BY ConcatAssociative

\* A start, a piece, or one after the other.
LEMMA StartAndPiece ==
  ASSUME NEW before \in Seq(Events), Contract!Paired(before),
         NEW tag \in Tools, NEW starts \in BOOLEAN, NEW spells \in BOOLEAN,
         starts => Between(before), ~starts => Inside(before, tag)
  PROVE  LET after == before \o (When(starts, Event("tool_start", tag))
                                 \o When(spells, Event("tool_delta", tag)))
         IN  /\ after \in Seq(Events) /\ Contract!Paired(after)
             /\ Inside(after, tag)
             /\ starts \/ spells => after # before
<1> DEFINE start == Event("tool_start", tag)
           piece == Event("tool_delta", tag)
           first == When(starts, start)
           second == When(spells, piece)
           middle == before \o first
           after == before \o (first \o second)
<1>1. start \in Events /\ piece \in Events
  BY DEF Event, Events, ToolEvents, Contract!ToolTypes
<1>2. "tool_start" \in Contract!ToolTypes /\ "tool_delta" \in Contract!ToolTypes
  BY DEF Contract!ToolTypes
<1>3. /\ starts => /\ Append(before, start) \in Seq(Events)
                   /\ Contract!Paired(Append(before, start))
                   /\ Inside(Append(before, start), tag)
  <2> SUFFICES ASSUME starts
               PROVE  /\ Append(before, start) \in Seq(Events)
                      /\ Contract!Paired(Append(before, start))
                      /\ Inside(Append(before, start), tag)
    OBVIOUS
  <2> QED  BY <1>2, ToolAppended DEF Inside
<1> HIDE DEF start
<1>4. first \in Seq(Events) /\ middle = IF starts THEN Append(before, start)
                                                  ELSE before
  BY <1>1, WhenAppends
<1>5. second \in Seq(Events)
  <2> HIDE DEF piece
  <2> QED  BY <1>1, WhenAppends
<1> HIDE DEF first
<1>6. /\ middle \in Seq(Events) /\ Contract!Paired(middle) /\ Inside(middle, tag)
      /\ middle = before \/ Len(middle) = Len(before) + 1
      /\ starts => middle # before
  <2>1. CASE starts
    BY <1>1, <1>3, <1>4, <2>1, LongerDiffers
  <2>2. CASE ~starts
    BY <1>4, <2>2
  <2> QED  BY <2>1, <2>2
<1>7. after = middle \o second
  <2> HIDE DEF second
  <2>1. /\ before \in Seq(Events) /\ first \in Seq(Events)
        /\ second \in Seq(Events)
    BY <1>4, <1>5
  <2>2. (before \o first) \o second = before \o (first \o second)
    BY <2>1, Regrouped
  <2> QED  BY <2>2
<1> HIDE DEF middle, after
<1>8. after = IF spells THEN Append(middle, piece) ELSE middle
  BY <1>1, <1>6, <1>7, WhenAppends
<1>9. CASE spells
  <2>1. /\ Append(middle, piece) \in Seq(Events)
        /\ Contract!Paired(Append(middle, piece))
        /\ Inside(Append(middle, piece), tag)
    BY <1>2, <1>6, ToolAppended DEF Inside
  <2> HIDE DEF piece
  <2>2. Append(middle, piece) # before
    BY <1>1, <1>6, LongerDiffers
  <2> QED  BY <1>8, <1>9, <2>1, <2>2 DEF after, first, second, start, piece
<1>10. CASE ~spells
  BY <1>6, <1>8, <1>10 DEF after, first, second, start
<1> QED  BY <1>9, <1>10

\* The events of a fragment but the completion of the call before.
LEMMA ProgressPaired ==
  ASSUME Typed, NEW i \in Indices, NEW name \in Tools,
         NEW piece \in Pieces \cup {""},
         NEW before \in Seq(Events), Contract!Paired(before),
         At(before, NameBefore(i)),
         piece # "" => Updated(i, name, piece).name # ""
  PROVE  LET after == before \o Progress(i, name, piece)
             now == Updated(i, name, piece).name
         IN  /\ after \in Seq(Events) /\ Contract!Paired(after) /\ At(after, now)
             /\ now = "" => after = before
             /\ NameBefore(i) = "" /\ now # "" => after # before
<1> DEFINE now == Updated(i, name, piece).name
           after == before \o Progress(i, name, piece)
           starts == Named(i, name)
           spells == piece # ""
<1>1. /\ starts <=> name # "" /\ NameBefore(i) = ""
      /\ now = IF NameBefore(i) = "" THEN name ELSE NameBefore(i)
      /\ now \in Tools
  <2>1. /\ CallAt(i).name = NameBefore(i)
        /\ now = IF NameBefore(i) = "" THEN name ELSE NameBefore(i)
    BY UpdatedName
  <2>2. now \in Tools
    <3>1. Updated(i, name, piece) \in Call
      BY UpdatedType
    <3> QED  BY <3>1 DEF Call, Tools
  <2>3. Named(i, name) <=> name # "" /\ CallAt(i).name = ""
    BY DEF Named
  <2> QED  BY <2>1, <2>2, <2>3
<1>2. starts \in BOOLEAN /\ spells \in BOOLEAN /\ (spells => now # "")
  BY DEF Named
<1>3. Progress(i, name, piece) = When(starts, Event("tool_start", name))
                                   \o When(spells, Event("tool_delta", now))
  BY DEF Progress
<1>4. starts => name = now
  BY <1>1
<1> HIDE DEF now, starts, spells
<1>5. Progress(i, name, piece) = When(starts, Event("tool_start", now))
                                   \o When(spells, Event("tool_delta", now))
  BY <1>3, <1>4 DEF When
<1>6. CASE now = ""
  <2>1. ~starts /\ ~spells
    BY <1>1, <1>2, <1>6
  <2>2. Progress(i, name, piece) = << >> \o << >>
    BY <1>5, <2>1 DEF When
  <2>3. << >> \o << >> = << >> /\ before \o << >> = before
    BY EmptySeq, ConcatEmptySeq
  <2>4. after = before
    BY <2>2, <2>3
  <2>5. NameBefore(i) = ""
    BY <1>1, <1>6
  <2> HIDE DEF after
  <2>6. At(after, now)
    BY <1>6, <2>4, <2>5
  <2> QED  BY <1>6, <2>4, <2>6 DEF after, now
<1>7. CASE now # ""
  <2>1. (starts => Between(before)) /\ (~starts => Inside(before, now))
    BY <1>1, <1>7 DEF At
  <2> DEFINE events == When(starts, Event("tool_start", now))
                        \o When(spells, Event("tool_delta", now))
  <2>2. now \in Tools /\ starts \in BOOLEAN /\ spells \in BOOLEAN
    BY <1>1, <1>2
  <2>3. /\ before \o events \in Seq(Events)
        /\ Contract!Paired(before \o events) /\ Inside(before \o events, now)
        /\ starts \/ spells => before \o events # before
    BY <2>1, <2>2, StartAndPiece
  <2> HIDE DEF events
  <2>4. /\ after \in Seq(Events) /\ Contract!Paired(after) /\ Inside(after, now)
        /\ starts \/ spells => after # before
    BY <1>5, <2>3 DEF events
  <2>5. NameBefore(i) = "" => starts
    BY <1>1, <1>7
  <2>6. At(after, now)
    BY <1>7, <2>4 DEF At
  <2> HIDE DEF after
  <2> QED  BY <1>7, <2>4, <2>5, <2>6 DEF now, after
<1> QED  BY <1>6, <1>7

\* The call of the last fragment, and whether a call was named by its first one.
Latest == log[Len(log)].index

StartedNamed(i) ==
  \E k \in DOMAIN log : log[k].index = i /\ IsFirst(k) /\ log[k].name # ""

\* A name or a piece that is there.
Filled(text) == text # ""

\* The logs of an orderly provider are closed under prefixes; and a call that
\* begins finds the one before named, by its first fragment if they share a chunk.
LEMMA OrderlyBefore ==
  ASSUME Booked, NEW i, NEW name, NEW piece, NEW newChunk,
         Receives(i, name, piece, newChunk), WellFormed'
  PROVE  /\ WellFormed
         /\ Filled(piece) => Filled(name) \/ NameCame(i)
         /\ log # << >> /\ i # Latest =>
              /\ ~Came(i) /\ NameCame(Latest)
              /\ ~newChunk => StartedNamed(Latest)
<1>0. PICK n \in Nat : n = Len(log)
  BY LogGrows
<1>1. /\ DOMAIN log = 1 .. n /\ DOMAIN log' = 1 .. n + 1
      /\ Len(log') = n + 1
      /\ \A k \in 1 .. n : log'[k] = log[k]
      /\ log = << >> <=> n = 0
  BY <1>0, LogGrows
<1>2. /\ n + 1 \in 1 .. n + 1
      /\ log'[n + 1].index = i /\ log'[n + 1].name = name
      /\ log'[n + 1].piece = piece /\ log'[n + 1].newChunk = newChunk
  <2> DEFINE new == [index |-> i, name |-> name, piece |-> piece,
                     newChunk |-> newChunk]
  <2>1. /\ new.index = i /\ new.name = name
        /\ new.piece = piece /\ new.newChunk = newChunk
    OBVIOUS
  <2>2. log'[n + 1] = new
    BY <1>0, LogGrows
  <2> HIDE DEF new
  <2> QED  BY <2>1, <2>2
<1>3. ~finished /\ ~finished'
  BY DEF Receives, Fragment
<1>4. ASSUME NEW k \in 1 .. n, NEW x \in 1 .. n
      PROVE  NamedBy(k, x)' <=> NamedBy(k, x)
  <2>1. \A j \in 1 .. x : j \in 1 .. n
    BY <1>1
  <2> QED  BY <1>1, <2>1 DEF NamedBy
<1>5. ASSUME NEW k \in 1 .. n
      PROVE  IsFirst(k)' <=> IsFirst(k)
  <2>1. \A j \in 1 .. k - 1 : j \in 1 .. n
    BY <1>1
  <2> QED  BY <1>1, <2>1 DEF IsFirst
<1>6. /\ \A j, k \in 1 .. n + 1 :
           log'[j].index = log'[k].index =>
             \A m \in j .. k : log'[m].index = log'[k].index
      /\ \A k \in 1 .. n + 1 :
           /\ Filled(log'[k].piece) => NamedBy(k, k)'
           /\ log'[k].index # i => NamedBy(k, n + 1)'
           /\ k > 1 /\ IsFirst(k)' /\ ~log'[k].newChunk =>
                \E j \in 1 .. k - 1 : /\ log'[j].index = log'[k - 1].index
                                      /\ IsFirst(j)' /\ Filled(log'[j].name)
  <2>1. \A k : NamedBy(k, Len(log))' <=> NamedBy(k, n + 1)'
    BY <1>1 DEF NamedBy
  <2>2. log'[Len(log')].index = i
    BY <1>1, <1>2
  <2> QED  BY <1>1, <1>3, <2>1, <2>2 DEF WellFormed, Filled
<1>7. ASSUME NEW k \in 1 .. n, log[k].index # i, NamedBy(k, n + 1)'
      PROVE  NamedBy(k, n)
  <2>1. PICK j \in 1 .. n + 1 : /\ log'[j].index = log'[k].index
                                /\ Filled(log'[j].name)
    BY <1>7 DEF NamedBy, Filled
  <2>2. j \in 1 .. n
    BY <1>1, <1>2, <1>7, <2>1
  <2>3. log[j].index = log[k].index /\ Filled(log[j].name)
    BY <1>1, <2>1, <2>2
  <2> QED  BY <2>2, <2>3 DEF NamedBy, Filled
<1>8. n > 0 => Latest = log[n].index /\ n \in 1 .. n /\ n + 1 \in 1 .. n + 1
  BY <1>0, <1>1 DEF Latest
<1>9. ASSUME n > 0, i # Latest, NEW k \in 1 .. n
      PROVE  log[k].index # i
  <2> SUFFICES ASSUME log[k].index = i PROVE FALSE
    OBVIOUS
  <2>1. n \in k .. n + 1 /\ k \in 1 .. n + 1 /\ log'[k].index = log'[n + 1].index
    BY <1>1, <1>2, <1>9
  <2>2. log'[n].index = i
    BY <1>1, <1>2, <1>6, <2>1
  <2> QED  BY <1>1, <1>8, <1>9, <2>2
<1>10. WellFormed
  <2>1. ASSUME NEW j \in 1 .. n, NEW k \in 1 .. n, log[j].index = log[k].index,
               NEW m \in j .. k
        PROVE  log[m].index = log[k].index
    <3>1. m \in 1 .. n /\ j \in 1 .. n + 1 /\ k \in 1 .. n + 1
      BY <1>1
    <3>2. log'[j].index = log'[k].index
      BY <1>1, <2>1
    <3>3. log'[m].index = log'[k].index
      BY <1>6, <3>1, <3>2
    <3> QED  BY <1>1, <3>1, <3>3
  <2>2. ASSUME NEW k \in 1 .. n
        PROVE  /\ Filled(log[k].piece) => NamedBy(k, k)
               /\ finished \/ log[k].index # log[n].index => NamedBy(k, n)
               /\ k > 1 /\ IsFirst(k) /\ ~log[k].newChunk =>
                    \E j \in 1 .. k - 1 : /\ log[j].index = log[k - 1].index
                                          /\ IsFirst(j) /\ Filled(log[j].name)
    <3>1. k \in 1 .. n + 1 /\ k \in Nat /\ \A j \in 1 .. k - 1 : j \in 1 .. n
      BY <1>1
    <3>2. Filled(log[k].piece) => NamedBy(k, k)
      BY <1>1, <1>4, <1>6, <3>1
    <3>3. log[k].index # log[n].index => NamedBy(k, n)
      <4> SUFFICES ASSUME log[k].index # log[n].index PROVE NamedBy(k, n)
        OBVIOUS
      <4>1. n > 0
        BY <1>1, <3>1
      <4>2. log[k].index # i
        BY <1>8, <1>9, <4>1
      <4> QED  BY <1>1, <1>6, <1>7, <3>1, <4>2
    <3>4. ASSUME k > 1, IsFirst(k), ~log[k].newChunk
          PROVE  \E j \in 1 .. k - 1 : /\ log[j].index = log[k - 1].index
                                       /\ IsFirst(j) /\ Filled(log[j].name)
      <4>1. IsFirst(k)' /\ ~log'[k].newChunk
        BY <1>1, <1>5, <3>4
      <4>2. PICK j \in 1 .. k - 1 : /\ log'[j].index = log'[k - 1].index
                                    /\ IsFirst(j)' /\ Filled(log'[j].name)
        BY <1>6, <3>1, <3>4, <4>1
      <4>3. j \in 1 .. n /\ k - 1 \in 1 .. n
        BY <3>1, <3>4
      <4> QED  BY <1>1, <1>5, <4>2, <4>3
    <3> QED  BY <1>3, <3>2, <3>3, <3>4
  <2>3. \A j, k \in DOMAIN log :
          log[j].index = log[k].index =>
            \A m \in j .. k : log[m].index = log[k].index
    BY <1>1, <2>1
  <2>4. \A k \in DOMAIN log :
          /\ Filled(log[k].piece) => NamedBy(k, k)
          /\ finished \/ log[k].index # log[Len(log)].index =>
               NamedBy(k, Len(log))
          /\ k > 1 /\ IsFirst(k) /\ ~log[k].newChunk =>
               \E j \in 1 .. k - 1 : /\ log[j].index = log[k - 1].index
                                     /\ IsFirst(j) /\ Filled(log[j].name)
    BY <1>0, <1>1, <2>2
  <2> QED  BY <2>3, <2>4 DEF WellFormed, Filled
<1>11. Filled(piece) => Filled(name) \/ NameCame(i)
  <2> SUFFICES ASSUME Filled(piece), ~Filled(name) PROVE NameCame(i)
    OBVIOUS
  <2>1. n + 1 \in 1 .. n + 1 /\ Filled(log'[n + 1].piece)
    BY <1>1, <1>2
  <2>2. NamedBy(n + 1, n + 1)'
    BY <1>6, <2>1
  <2>3. PICK j \in 1 .. n + 1 : /\ log'[j].index = log'[n + 1].index
                                /\ Filled(log'[j].name)
    BY <2>2 DEF NamedBy, Filled
  <2>4. j # n + 1
    BY <1>2, <2>3
  <2>5. j \in 1 .. n
    BY <2>4
  <2>6. log[j].index = i /\ Filled(log[j].name) /\ j \in DOMAIN log
    BY <1>1, <1>2, <2>3, <2>5
  <2> QED  BY <2>6 DEF NameCame, Filled
<1>12. ASSUME log # << >>, i # Latest
       PROVE  /\ ~Came(i) /\ NameCame(Latest)
              /\ ~newChunk => StartedNamed(Latest)
  <2>1. n > 0
    BY <1>1, <1>12
  <2>2. ~Came(i)
    BY <1>1, <1>9, <1>12, <2>1 DEF Came
  <2>3. NameCame(Latest)
    <3>1. n \in 1 .. n + 1 /\ n \in 1 .. n /\ log'[n] = log[n]
      BY <1>1, <2>1
    <3>2. log'[n].index # i
      BY <1>8, <1>12, <2>1, <3>1
    <3>3. NamedBy(n, n)
      BY <1>6, <1>7, <3>1, <3>2
    <3> QED  BY <1>1, <1>8, <2>1, <3>3 DEF NamedBy, NameCame
  <2>4. ~newChunk => StartedNamed(Latest)
    <3> SUFFICES ASSUME ~newChunk PROVE StartedNamed(Latest)
      OBVIOUS
    <3>1. IsFirst(n + 1)'
      <4>1. \A j \in 1 .. n + 1 - 1 : j \in 1 .. n
        BY <1>1
      <4>2. \A j \in 1 .. n : log'[j].index # log'[n + 1].index
        BY <1>1, <1>2, <1>9, <1>12, <2>1
      <4> QED  BY <4>1, <4>2 DEF IsFirst
    <3>2. PICK j \in 1 .. n + 1 - 1 : /\ log'[j].index = log'[n + 1 - 1].index
                                      /\ IsFirst(j)' /\ Filled(log'[j].name)
      <4>1. n + 1 \in 1 .. n + 1 /\ n + 1 > 1 /\ ~log'[n + 1].newChunk
        BY <1>1, <1>2, <2>1
      <4> QED  BY <1>6, <3>1, <4>1
    <3>3. j \in 1 .. n /\ n + 1 - 1 = n /\ n \in 1 .. n
      BY <1>1, <2>1
    <3>4. /\ log[j].index = Latest /\ IsFirst(j) /\ Filled(log[j].name)
          /\ j \in DOMAIN log
      BY <1>1, <1>5, <1>8, <2>1, <3>2, <3>3
    <3> QED  BY <3>4 DEF StartedNamed, Filled
  <2> QED  BY <2>2, <2>3, <2>4
<1> QED  BY <1>10, <1>11, <1>12

\* The events of a fragment, said of the state after it.
LEMMA ProgressTold ==
  ASSUME Inv, Booked, NEW i, NEW name, NEW piece, NEW newChunk,
         Receives(i, name, piece, newChunk),
         Filled(piece) => Filled(name) \/ NameCame(i),
         NEW before \in Seq(Events), Contract!Paired(before),
         At(before, NameBefore(i))
  PROVE  LET after == before \o Progress(i, name, piece)
         IN  /\ after \in Seq(Events) /\ Contract!Paired(after)
             /\ At(after, NameOf(i)')
             /\ ~Filled(NameBefore(i)) /\ Filled(NameOf(i)') => after # before
<1> DEFINE now == Updated(i, name, piece).name
           after == before \o Progress(i, name, piece)
<1>1. /\ i \in Indices /\ name \in Tools /\ piece \in Pieces \cup {""} /\ Typed
  BY DEF Receives, Inv
<1>2. now = IF NameBefore(i) = "" THEN name ELSE NameBefore(i)
  BY <1>1, UpdatedName
<1>3. NameOf(i)' = now
  BY <1>2, BookedStep
<1>4. NameCame(i) => NameBefore(i) # ""
  <2>1. NameCame(i) => Known(i)
    BY DEF NameCame, Came, Booked
  <2> QED  BY <2>1 DEF NameBefore, Booked
<1>5. piece # "" => now # ""
  BY <1>2, <1>4 DEF Filled
<1>6. /\ after \in Seq(Events) /\ Contract!Paired(after) /\ At(after, now)
      /\ NameBefore(i) = "" /\ now # "" => after # before
  BY <1>1, <1>5, ProgressPaired
<1> HIDE DEF now, after
<1> QED  BY <1>3, <1>6 DEF Filled, after

\* Where the service stands between two fragments of an orderly provider.
Flowing ==
  IF log = << >> THEN current = NoIndex /\ out = << >>
  ELSE /\ At(out, NameOf(Latest))
       /\ Filled(NameOf(Latest)) => current = Latest
       /\ StartedNamed(Latest) => local = Latest

\* The first fragment of a stream.
LEMMA FirstFragment ==
  ASSUME Inv, Booked, NEW i, NEW name, NEW piece, NEW newChunk,
         Receives(i, name, piece, newChunk), WellFormed', Flowing, log = << >>
  PROVE  /\ Contract!Paired(out') /\ At(out', NameOf(i)')
         /\ Filled(NameOf(i)') => current' = i
         /\ local' = i
<1>1. /\ i \in Indices /\ newChunk = TRUE
      /\ out' = out \o Delta(i, name, piece, newChunk)
      /\ current' = IF out' = out THEN current ELSE i
      /\ local' = IF Known(i) THEN Active(newChunk) ELSE i
  BY DEF Receives, Fragment
<1>2. current = NoIndex /\ out = << >>
  BY DEF Flowing
<1>3. ~Known(i) /\ NameBefore(i) = ""
  <2>1. DOMAIN log = {}
    BY LogGrows
  <2> QED  BY <2>1 DEF Booked, Came, NameBefore
<1>4. /\ out \in Seq(Events) /\ Contract!Paired(out) /\ At(out, NameBefore(i))
  <2>1. out \in Seq(Events)
    BY DEF Inv, Typed
  <2>2. DOMAIN out = {}
    BY <1>2
  <2> QED  BY <1>2, <1>3, <2>1, <2>2 DEF At, Between, Contract!Paired
<1>5. Filled(piece) => Filled(name) \/ NameCame(i)
  BY OrderlyBefore
<1>6. out' = out \o Progress(i, name, piece)
  <2>1. Active(newChunk) = NoIndex
    BY <1>1, <1>2 DEF Active
  <2>2. Delta(i, name, piece, newChunk) = << >> \o Progress(i, name, piece)
    BY <2>1 DEF Delta, When
  <2>3. << >> \o Progress(i, name, piece) = Progress(i, name, piece)
    <3>1. Progress(i, name, piece) \in Seq(Events)
      BY ProgressType, SeqMonotonic DEF Receives, Inv, Events
    <3> QED  BY <3>1, ConcatEmptySeq
  <2> QED  BY <1>1, <2>2, <2>3
<1>7. /\ Contract!Paired(out') /\ At(out', NameOf(i)')
      /\ ~Filled(NameBefore(i)) /\ Filled(NameOf(i)') => out' # out
  BY <1>4, <1>5, <1>6, ProgressTold
<1>8. ~Filled(NameBefore(i))
  BY <1>3 DEF Filled
<1> QED  BY <1>1, <1>3, <1>7, <1>8

\* A further fragment of the call in progress.
LEMMA SameCall ==
  ASSUME Inv, Booked, NEW i, NEW name, NEW piece, NEW newChunk,
         Receives(i, name, piece, newChunk), WellFormed', Flowing,
         Contract!Paired(out), log # << >>, i = Latest
  PROVE  /\ Contract!Paired(out') /\ At(out', NameOf(i)')
         /\ Filled(NameOf(i)') => current' = i
         /\ StartedNamed(i)' => local' = i
<1>1. /\ i \in Indices
      /\ out' = out \o Delta(i, name, piece, newChunk)
      /\ current' = IF out' = out THEN current ELSE i
      /\ local' = IF Known(i) THEN Active(newChunk) ELSE i
  BY DEF Receives, Fragment
<1>2. /\ At(out, NameOf(i)) /\ (Filled(NameOf(i)) => current = i)
      /\ (StartedNamed(i) => local = i)
  BY DEF Flowing
<1>3. PICK n \in Nat : n = Len(log)
  BY LogGrows
<1>4. /\ n > 0 /\ DOMAIN log = 1 .. n /\ DOMAIN log' = 1 .. n + 1
      /\ \A k \in 1 .. n : log'[k] = log[k]
  <2>1. /\ DOMAIN log = 1 .. n /\ DOMAIN log' = 1 .. n + 1
        /\ \A k \in 1 .. n : log'[k] = log[k]
        /\ log = << >> <=> n = 0
    BY <1>3, LogGrows
  <2> QED  BY <2>1
<1>5. n \in DOMAIN log /\ log[n].index = i
  BY <1>3, <1>4 DEF Latest
<1>6. Came(i) /\ Known(i)
  BY <1>5 DEF Came, Booked
<1>7. NameBefore(i) = NameOf(i)
  BY <1>6 DEF NameBefore
<1>8. Filled(piece) => Filled(name) \/ NameCame(i)
  BY OrderlyBefore
<1>9. out \in Seq(Events) /\ out' = out \o Progress(i, name, piece)
  <2>1. Delta(i, name, piece, newChunk) = << >> \o Progress(i, name, piece)
    BY <1>6 DEF Delta, When
  <2>2. Progress(i, name, piece) \in Seq(Events)
    BY ProgressType, SeqMonotonic DEF Receives, Inv, Events
  <2>3. << >> \o Progress(i, name, piece) = Progress(i, name, piece)
    BY <2>2, ConcatEmptySeq
  <2> QED  BY <1>1, <2>1, <2>3 DEF Inv, Typed
<1>10. /\ Contract!Paired(out') /\ At(out', NameOf(i)')
       /\ ~Filled(NameOf(i)) /\ Filled(NameOf(i)') => out' # out
  BY <1>2, <1>7, <1>8, <1>9, ProgressTold
<1>11. StartedNamed(i)' => StartedNamed(i)
  <2> SUFFICES ASSUME StartedNamed(i)' PROVE StartedNamed(i)
    OBVIOUS
  <2>1. PICK k \in 1 .. n + 1 : /\ log'[k].index = i /\ IsFirst(k)'
                                /\ Filled(log'[k].name)
    BY <1>4 DEF StartedNamed, Filled
  <2>2. \A j \in 1 .. k - 1 : log'[j].index # i
    BY <2>1 DEF IsFirst
  <2>3. k \in 1 .. n
    BY <1>4, <1>5, <2>1, <2>2
  <2>4. \A j \in 1 .. k - 1 : log[j].index # i
    BY <1>4, <2>2, <2>3
  <2>5. /\ k \in DOMAIN log /\ log[k].index = i /\ IsFirst(k)
        /\ Filled(log[k].name)
    BY <1>4, <2>1, <2>3, <2>4 DEF IsFirst
  <2> QED  BY <2>5 DEF StartedNamed, Filled
<1>12. StartedNamed(i) => Filled(NameOf(i))
  <2>1. StartedNamed(i) => NameCame(i)
    BY DEF StartedNamed, NameCame
  <2> QED  BY <1>6, <2>1 DEF Booked, Filled
<1>13. StartedNamed(i)' => local' = i
  BY <1>1, <1>2, <1>11, <1>12 DEF Active
<1> QED  BY <1>1, <1>2, <1>10, <1>13

\* The first fragment of a call after another one, which it completes.
LEMMA NextCall ==
  ASSUME Inv, Booked, NEW i, NEW name, NEW piece, NEW newChunk,
         Receives(i, name, piece, newChunk), WellFormed', Flowing,
         Contract!Paired(out), log # << >>, i # Latest
  PROVE  /\ Contract!Paired(out') /\ At(out', NameOf(i)')
         /\ current' = i /\ local' = i
<1>1. /\ i \in Indices
      /\ out' = out \o Delta(i, name, piece, newChunk)
      /\ current' = IF out' = out THEN current ELSE i
      /\ local' = IF Known(i) THEN Active(newChunk) ELSE i
  BY DEF Receives, Fragment
<1>2. /\ At(out, NameOf(Latest)) /\ (Filled(NameOf(Latest)) => current = Latest)
      /\ (StartedNamed(Latest) => local = Latest)
  BY DEF Flowing
<1>3. /\ ~Came(i) /\ NameCame(Latest) /\ (~newChunk => StartedNamed(Latest))
      /\ Filled(piece) => Filled(name) \/ NameCame(i)
  BY OrderlyBefore
<1>4. ~Known(i) /\ NameBefore(i) = ""
  BY <1>3 DEF Booked, NameBefore
<1>5. Known(Latest) /\ Filled(NameOf(Latest))
  <2>1. Came(Latest)
    BY <1>3 DEF NameCame, Came
  <2> QED  BY <1>3, <2>1 DEF Booked, Filled
<1>6. Active(newChunk) = Latest /\ Latest # NoIndex
  <2>1. Latest \in Indices
    <3>1. PICK k \in DOMAIN calls : calls[k].index = Latest
      BY <1>5 DEF Known
    <3>2. calls[k] \in Call
      BY DEF Inv, Typed
    <3> QED  BY <3>1, <3>2 DEF Call
  <2> QED  BY <1>2, <1>3, <1>5, <2>1, IndexAssumption DEF Active
<1> DEFINE tag == NameOf(Latest)
           complete == Event("tool_complete", tag)
           middle == Append(out, complete)
<1>7. /\ complete \in Events /\ out \in Seq(Events)
      /\ middle \in Seq(Events) /\ Contract!Paired(middle) /\ Between(middle)
  <2>1. out \in Seq(Events) /\ tag \in Tools
    BY <1>5, KnownCall DEF Inv, Typed
  <2>2. Inside(out, tag)
    BY <1>2, <1>5 DEF At, Filled
  <2>3. "tool_complete" \in Contract!ToolTypes /\ "tool_complete" # "tool_start"
    BY DEF Contract!ToolTypes
  <2> HIDE DEF tag
  <2> QED  BY <2>1, <2>2, <2>3, ToolAppended DEF Between
<1>8. At(middle, NameBefore(i))
  BY <1>4, <1>7 DEF At
<1>9. Progress(i, name, piece) \in Seq(Events)
  BY ProgressType, SeqMonotonic DEF Receives, Inv, Events
<1>10. Delta(i, name, piece, newChunk) = <<complete>> \o Progress(i, name, piece)
  BY <1>4, <1>6 DEF Delta, When
<1> HIDE DEF complete
<1>11. <<complete>> \in Seq(Events) /\ middle = out \o <<complete>>
  BY <1>7, AppendIsConcat
<1>12. out' = middle \o Progress(i, name, piece)
  <2> HIDE DEF middle
  <2>1. (out \o <<complete>>) \o Progress(i, name, piece)
          = out \o (<<complete>> \o Progress(i, name, piece))
    BY <1>7, <1>9, <1>11, Regrouped
  <2> QED  BY <1>1, <1>10, <1>11, <2>1
<1>13. out' # out
  <2>1. <<complete>> \o Progress(i, name, piece) # << >>
    BY <1>9, <1>11, ConcatEqualIffEmpty
  <2>2. <<complete>> \o Progress(i, name, piece) \in Seq(Events)
    BY <1>9, <1>11, ConcatProperties
  <2> QED  BY <1>1, <1>7, <1>10, <2>1, <2>2, ConcatEqualIffEmpty
<1> HIDE DEF middle
<1>14. Contract!Paired(out') /\ At(out', NameOf(i)')
  BY <1>3, <1>7, <1>8, <1>12, ProgressTold
<1> QED  BY <1>1, <1>4, <1>13, <1>14

\* What an orderly provider is owed, at each point of the stream.
Completed ==
  log # << >> =>
    \E k \in DOMAIN out : /\ out[k].type = "tool_complete"
                          /\ \A m \in k + 1 .. Len(out) :
                               out[m].type \in Contract!FinalTypes

ProgressInv ==
  /\ Booked
  /\ pc = "open" => log = << >> /\ ~finished
  /\ WellFormed =>
       /\ Contract!Paired(out)
       /\ finished => Completed
       /\ pc \in {"open", "streaming"} /\ ~finished => Flowing

LEMMA ProgressInit == Init => ProgressInv
<1> SUFFICES ASSUME Init PROVE ProgressInv
  OBVIOUS
<1>1. /\ calls = << >> /\ log = << >> /\ out = << >> /\ ~finished
      /\ current = NoIndex /\ pc = "open"
  BY DEF Init
<1>2. DOMAIN calls = {} /\ DOMAIN log = {} /\ DOMAIN out = {}
  BY <1>1
<1>3. log \in Seq(Fragments)
  BY <1>1, EmptySeq
<1>4. Booked
  BY <1>2, <1>3 DEF Booked, Known, Came
<1>5. Contract!Paired(out)
  BY <1>2 DEF Contract!Paired
<1>6. Flowing
  BY <1>1 DEF Flowing
<1> QED  BY <1>1, <1>4, <1>5, <1>6 DEF ProgressInv

\* The two halves of WellFormed: one call after the other, named in time.
InTurn ==
  \A j, k \in DOMAIN log :
    log[j].index = log[k].index =>
      \A m \in j .. k : log[m].index = log[k].index

NamedInTime ==
  \A k \in DOMAIN log :
    /\ Filled(log[k].piece) => NamedBy(k, k)
    /\ finished \/ log[k].index # log[Len(log)].index => NamedBy(k, Len(log))
    /\ k > 1 /\ IsFirst(k) /\ ~log[k].newChunk =>
         \E j \in 1 .. k - 1 : /\ log[j].index = log[k - 1].index
                               /\ IsFirst(j) /\ Filled(log[j].name)

\* Nothing came.
LEMMA SameBooks ==
  ASSUME UNCHANGED <<calls, log>>
  PROVE  /\ Booked' <=> Booked
         /\ finished' = finished => (WellFormed' <=> WellFormed)
<1>1. Booked' <=> Booked
  BY DEF Booked, Known, Came, NameCame, NameOf, Position
<1>2. ASSUME finished' = finished PROVE WellFormed' <=> WellFormed
  <2>1. \A j, k : NamedBy(j, k)' <=> NamedBy(j, k)
    BY DEF NamedBy
  <2>2. \A k : IsFirst(k)' <=> IsFirst(k)
    BY DEF IsFirst
  <2>3. InTurn' <=> InTurn
    BY DEF InTurn
  <2>4. NamedInTime' <=> NamedInTime
    BY <1>2, <2>1, <2>2 DEF NamedInTime
  <2>5. /\ WellFormed <=> InTurn /\ NamedInTime
        /\ WellFormed' <=> InTurn' /\ NamedInTime'
    BY DEF WellFormed, InTurn, NamedInTime, Filled
  <2> QED  BY <2>3, <2>4, <2>5
<1> QED  BY <1>1, <1>2

\* A fragment keeps the books, and the pairing if the provider is orderly.
LEMMA ProgressFragment ==
  ASSUME Inv, ProgressInv, NEW i, NEW name, NEW piece, NEW newChunk,
         Receives(i, name, piece, newChunk)
  PROVE  ProgressInv'
<1>1. Booked /\ Booked'
  BY BookedStep DEF ProgressInv
<1>2. pc' = "streaming" /\ pc = "streaming" /\ ~finished /\ ~finished'
  BY DEF Receives, Fragment
<1>3. log' # << >> /\ Latest' = i
  <2>1. PICK n \in Nat : n = Len(log)
    BY <1>1, LogGrows
  <2>2. /\ Len(log') = n + 1
        /\ log'[n + 1] = [index |-> i, name |-> name, piece |-> piece,
                          newChunk |-> newChunk]
    BY <1>1, <2>1, LogGrows
  <2>3. log'[n + 1].index = i
    BY <2>2
  <2>4. Latest' = i
    BY <2>2, <2>3 DEF Latest
  <2>5. Len(log') # 0
    BY <2>1, <2>2
  <2>6. log' # << >>
    BY <2>5
  <2> QED  BY <2>4, <2>6
<1>4. ASSUME WellFormed' PROVE Contract!Paired(out') /\ Flowing'
  <2>1. WellFormed
    BY <1>1, <1>4, OrderlyBefore
  <2>2. Contract!Paired(out) /\ Flowing
    BY <1>2, <2>1 DEF ProgressInv
  <2>3. /\ Contract!Paired(out') /\ At(out', NameOf(i)')
        /\ Filled(NameOf(i)') => current' = i
        /\ StartedNamed(i)' => local' = i
    <3>1. CASE log = << >>
      BY <1>1, <1>4, <2>2, <3>1, FirstFragment
    <3>2. CASE log # << >> /\ i = Latest
      BY <1>1, <1>4, <2>2, <3>2, SameCall
    <3>3. CASE log # << >> /\ i # Latest
      BY <1>1, <1>4, <2>2, <3>3, NextCall
    <3> QED  BY <3>1, <3>2, <3>3
  <2>4. /\ NameOf(Latest)' = NameOf(i)'
        /\ StartedNamed(Latest)' <=> StartedNamed(i)'
    BY <1>3 DEF NameOf, Position, StartedNamed
  <2>5. At(out, NameOf(Latest))' <=> At(out', NameOf(i)')
    BY <2>4 DEF At, Between, Inside
  <2> QED  BY <1>3, <2>3, <2>4, <2>5 DEF Flowing
<1>5. Contract!Paired(out)' <=> Contract!Paired(out')
  BY DEF Contract!Paired, Contract!Follows, Contract!ToolTypes
<1> QED  BY <1>1, <1>2, <1>4, <1>5 DEF ProgressInv

\* The finish completes the tool in progress.
LEMMA ProgressFinish ==
  ASSUME Inv, ProgressInv, Finish
  PROVE  ProgressInv'
<1>1. /\ pc = "streaming" /\ pc' = "streaming" /\ ~finished /\ finished' = TRUE
      /\ UNCHANGED <<calls, log, current>>
      /\ out' = out \o When(current # NoIndex,
                            Event("tool_complete", NameOf(current)))
  BY DEF Finish
<1>2. Booked /\ Booked'
  BY <1>1, SameBooks DEF ProgressInv
<1>3. ASSUME WellFormed' PROVE Contract!Paired(out') /\ Completed'
  <2>1. WellFormed
    <3>1. \A j, k : NamedBy(j, k)' <=> NamedBy(j, k)
      BY <1>1 DEF NamedBy
    <3>2. \A k : IsFirst(k)' <=> IsFirst(k)
      BY <1>1 DEF IsFirst
    <3> QED  BY <1>1, <1>3, <3>1, <3>2 DEF WellFormed
  <2>2. Contract!Paired(out) /\ Flowing
    BY <1>1, <2>1 DEF ProgressInv
  <2>3. out \in Seq(Events)
    BY DEF Inv, Typed
  <2>4. CASE log = << >>
    <3>1. out' = out
      BY <1>1, <2>2, <2>3, <2>4, ConcatEmptySeq DEF Flowing, When
    <3> QED  BY <1>1, <2>2, <2>4, <3>1 DEF Completed
  <2>5. CASE log # << >>
    <3>1. /\ log \in Seq(Fragments) /\ Len(log) \in DOMAIN log
      <4>1. log \in Seq(Fragments)
        BY <1>2 DEF Booked
      <4>2. /\ DOMAIN log = 1 .. Len(log) /\ Len(log) \in Nat
            /\ Len(log) = 0 => log = << >>
        BY <4>1, LenProperties, EmptySeq
      <4> QED  BY <2>5, <4>1, <4>2
    <3>2. NamedBy(Len(log), Len(log))
      <4>1. NamedBy(Len(log), Len(log))'
        BY <1>1, <1>3, <3>1 DEF WellFormed
      <4> QED  BY <1>1, <4>1 DEF NamedBy
    <3>3. NameCame(Latest)
      <4>1. DOMAIN log = 1 .. Len(log)
        BY <3>1, LenProperties
      <4> QED  BY <3>2, <4>1 DEF NamedBy, NameCame, Latest
    <3>4. Known(Latest) /\ Filled(NameOf(Latest))
      <4>1. Came(Latest)
        BY <3>3 DEF NameCame, Came
      <4> QED  BY <1>2, <3>3, <4>1 DEF Booked, Filled
    <3> DEFINE tag == NameOf(Latest)
               complete == Event("tool_complete", tag)
    <3>5. current = Latest /\ Inside(out, tag)
      BY <2>2, <2>5, <3>4 DEF Flowing, At, Filled
    <3>6. Latest # NoIndex
      <4>1. log[Len(log)] \in Fragments
        BY <3>1
      <4> QED  BY <4>1, IndexAssumption DEF Latest, Fragments
    <3>7. tag \in Tools
      BY <3>4, KnownCall DEF Inv
    <3>8. /\ complete \in Events
          /\ Append(out, complete) \in Seq(Events)
          /\ Contract!Paired(Append(out, complete))
          /\ Append(out, complete) # << >>
          /\ Append(out, complete)[Len(Append(out, complete))].type
               = "tool_complete"
      <4> HIDE DEF tag
      <4> QED  BY <2>2, <2>3, <3>5, <3>7, ToolAppended DEF Contract!ToolTypes
    <3>9. out' = Append(out, complete)
      <4>1. out' = out \o <<complete>>
        BY <1>1, <3>5, <3>6 DEF When
      <4> HIDE DEF complete
      <4> QED  BY <2>3, <3>8, <4>1, AppendIsConcat
    <3> HIDE DEF complete
    <3>10. /\ Len(out') \in DOMAIN out' /\ Len(out') \in Nat
           /\ out'[Len(out')].type = "tool_complete"
      BY <3>8, <3>9, LenProperties, EmptySeq
    <3>11. Len(out') + 1 .. Len(out') = {}
      BY <3>10
    <3> QED  BY <3>8, <3>9, <3>10, <3>11 DEF Completed
  <2> QED  BY <2>4, <2>5
<1>4. Contract!Paired(out)' <=> Contract!Paired(out')
  BY DEF Contract!Paired, Contract!Follows, Contract!ToolTypes
<1> QED  BY <1>1, <1>2, <1>3, <1>4 DEF ProgressInv

\* The last event of a stream is about no tool.
LEMMA ProgressEnd ==
  ASSUME Inv, ProgressInv, NEW event \in FinalEvents,
         out' = Append(out, event), UNCHANGED <<calls, log, finished>>,
         pc' \notin {"open", "streaming"}
  PROVE  ProgressInv'
<1>1. Booked' /\ (WellFormed' <=> WellFormed)
  BY SameBooks DEF ProgressInv
<1>2. /\ event \in Events /\ event.type \in Contract!FinalTypes
      /\ event.type \notin Contract!ToolTypes /\ out \in Seq(Events)
  BY DEF FinalEvents, Events, Inv, Typed, Contract!ToolTypes,
         Contract!FinalTypes
<1>3. ASSUME Contract!Paired(out) PROVE Contract!Paired(out')
  BY <1>2, <1>3, PairedAppend
<1>4. ASSUME Completed PROVE Completed'
  <2> SUFFICES ASSUME log # << >> PROVE Completed'
    BY DEF Completed
  <2>1. PICK k \in DOMAIN out : /\ out[k].type = "tool_complete"
                                /\ \A m \in k + 1 .. Len(out) :
                                     out[m].type \in Contract!FinalTypes
    BY <1>4 DEF Completed
  <2>2. /\ DOMAIN out = 1 .. Len(out) /\ DOMAIN out' = 1 .. Len(out')
        /\ Len(out') = Len(out) + 1 /\ Len(out) \in Nat
        /\ \A m \in 1 .. Len(out) : out'[m] = out[m]
        /\ out'[Len(out) + 1] = event
    BY <1>2, AppendProperties, LenProperties
  <2>3. k \in DOMAIN out' /\ out'[k].type = "tool_complete"
    BY <2>1, <2>2
  <2>4. ASSUME NEW m \in k + 1 .. Len(out')
        PROVE  out'[m].type \in Contract!FinalTypes
    <3>1. CASE m = Len(out) + 1
      BY <1>2, <2>2, <3>1
    <3>2. CASE m # Len(out) + 1
      <4>1. m \in k + 1 .. Len(out) /\ m \in 1 .. Len(out)
        BY <2>1, <2>2, <3>2
      <4> QED  BY <2>1, <2>2, <4>1
    <3> QED  BY <3>1, <3>2
  <2> QED  BY <2>3, <2>4 DEF Completed, Contract!FinalTypes
<1>5. Contract!Paired(out)' <=> Contract!Paired(out')
  BY DEF Contract!Paired, Contract!Follows, Contract!ToolTypes
<1> QED  BY <1>1, <1>3, <1>4, <1>5 DEF ProgressInv

LEMMA ProgressStep ==
  ASSUME Inv, ProgressInv, [Next]_vars
  PROVE  ProgressInv'
<1>1. CASE OpenStream
  <2>1. /\ UNCHANGED <<calls, current, local, finished, out, log>>
        /\ pc = "open" /\ pc' = "streaming"
    BY <1>1 DEF OpenStream
  <2>2. Booked' /\ (WellFormed' <=> WellFormed)
    BY <2>1, SameBooks DEF ProgressInv
  <2>3. /\ Flowing' <=> Flowing
        /\ Completed' <=> Completed
        /\ Contract!Paired(out)' <=> Contract!Paired(out)
    BY <2>1 DEF Flowing, Latest, At, Between, Inside, NameOf, Position,
                StartedNamed, IsFirst, Completed, Contract!FinalTypes,
                Contract!Paired, Contract!Follows, Contract!ToolTypes
  <2> QED  BY <2>1, <2>2, <2>3 DEF ProgressInv
<1>2. CASE Finish
  BY <1>2, ProgressFinish
<1>3. CASE Fail
  <2>1. Event("error", "") \in FinalEvents
    BY DEF Event, FinalEvents, Tools, Contract!FinalTypes
  <2> QED  BY <1>3, <2>1, ProgressEnd DEF Fail
<1>4. CASE End
  <2>1. Event("done", "") \in FinalEvents
    BY DEF Event, FinalEvents, Tools, Contract!FinalTypes
  <2> QED  BY <1>4, <2>1, ProgressEnd DEF End
<1>5. ASSUME NEW i \in Indices, NEW name \in Names \cup {""},
             NEW piece \in Pieces \cup {""}, NEW newChunk \in BOOLEAN,
             Fragment(i, name, piece, newChunk)
      PROVE  ProgressInv'
  <2>1. Receives(i, name, piece, newChunk)
    BY <1>5 DEF Receives, Tools
  <2> QED  BY <2>1, ProgressFragment
<1>6. CASE UNCHANGED vars
  <2>1. UNCHANGED <<pc, calls, current, local, finished, out, log>>
    BY <1>6 DEF vars
  <2>2. Booked' /\ (WellFormed' <=> WellFormed)
    BY <2>1, SameBooks DEF ProgressInv
  <2>3. /\ Flowing' <=> Flowing
        /\ Completed' <=> Completed
        /\ Contract!Paired(out)' <=> Contract!Paired(out)
    BY <2>1 DEF Flowing, Latest, At, Between, Inside, NameOf, Position,
                StartedNamed, IsFirst, Completed, Contract!FinalTypes,
                Contract!Paired, Contract!Follows, Contract!ToolTypes
  <2> QED  BY <2>1, <2>2, <2>3 DEF ProgressInv
<1> QED  BY <1>1, <1>2, <1>3, <1>4, <1>5, <1>6 DEF Next

-----------------------------------------------------------------------------
(***************************************************************************)
(* The landing of the OpenAI service.                                      *)
(***************************************************************************)
\* A set of natural numbers has a least element.
LEMMA LeastNumber ==
  ASSUME NEW S, S \subseteq Nat, S # {}
  PROVE  \E m \in S : \A k \in S : m <= k
<1>1. PICK less : /\ IsWellFoundedOn(less, Nat)
                  /\ \A m, n \in Nat : m < n => <<m, n>> \in less
  <2>1. \A m, n \in Nat : m < n => <<m, n>> \in OpToRel(<, Nat)
    BY DEF OpToRel
  <2>2. IsWellFoundedOn(OpToRel(<, Nat), Nat)
    BY NatLessThanWellFounded
  <2> QED  BY <2>1, <2>2, Zenon
<1>2. PICK m \in S : \A k \in S : <<k, m>> \notin less
  BY <1>1, WFMin, ZenonT(60)
<1>3. ASSUME NEW k \in S PROVE m <= k
  <2>1. m \in Nat /\ k \in Nat /\ ~(k < m)
    BY <1>1, <1>2
  <2> QED  BY <2>1
<1> QED  BY <1>3

\* The last of some places of a sequence.
LEMMA LastPlace ==
  ASSUME NEW l \in Nat, NEW S, S \subseteq 1 .. l, S # {}
  PROVE  \E m \in S : \A k \in S : k <= m
<1> DEFINE T == {l - k : k \in S}
<1>1. T \subseteq Nat /\ T # {}
  <2>1. \A k \in S : k \in 1 .. l
    OBVIOUS
  <2>2. \A k \in S : l - k \in Nat
    BY <2>1
  <2> QED  BY <2>2
<1>2. PICK t \in T : \A k \in T : t <= k
  BY <1>1, LeastNumber, Zenon
<1>3. PICK m \in S : t = l - m
  OBVIOUS
<1>4. ASSUME NEW k \in S PROVE k <= m
  <2>1. l - m <= l - k
    BY <1>2, <1>3
  <2> QED  BY <2>1
<1> QED  BY <1>4

LEMMA Places ==
  ASSUME NEW l \in Nat, NEW S, S \subseteq 1 .. l
  PROVE  /\ IsFiniteSet(S) /\ Cardinality(S) \in Nat
         /\ Cardinality(S) = 0 <=> S = {}
<1>1. IsFiniteSet(S)
  <2>1. IsFiniteSet(1 .. l) /\ S \in SUBSET (1 .. l)
    BY FS_Interval
  <2> QED  BY <2>1, FS_Subset
<1> QED  BY <1>1, FS_CardinalityType, FS_EmptySet

\* The places up to one of them are numbered from 1 on.
LEMMA Ranks ==
  ASSUME NEW l \in Nat, NEW S, S \subseteq 1 .. l
  PROVE  \A n \in 1 .. Cardinality(S) :
           \E k \in S : Cardinality(S \cap (1 .. k)) = n
<1> DEFINE Numbered(T) == \A n \in 1 .. Cardinality(T) :
                            \E k \in T : Cardinality(T \cap (1 .. k)) = n
           Good == {m \in Nat : \A T \in SUBSET (1 .. m) : Numbered(T)}
<1> SUFFICES ASSUME Nat \ Good # {} PROVE FALSE
  OBVIOUS
<1>1. PICK m \in Nat \ Good : \A k \in Nat \ Good : m <= k
  <2>1. Nat \ Good \subseteq Nat
    OBVIOUS
  <2> QED  BY <2>1, LeastNumber, Zenon
<1>0. m # 0 => m - 1 \in Nat /\ m - 1 \in Good
  <2> HIDE DEF Good
  <2> QED  BY <1>1
<1>2. PICK T \in SUBSET (1 .. m) : ~Numbered(T)
  BY <1>1
<1>3. /\ IsFiniteSet(T) /\ Cardinality(T) \in Nat
      /\ Cardinality(T) = 0 <=> T = {}
  BY <1>1, Places
<1>4. m \in T
  <2> SUFFICES ASSUME m \notin T PROVE FALSE
    OBVIOUS
  <2>1. m # 0
    <3>1. m = 0 => T = {}
      OBVIOUS
    <3> HIDE DEF Numbered
    <3>2. Cardinality(T) = 0 => Numbered(T)
      BY DEF Numbered
    <3> QED  BY <1>2, <1>3, <3>1, <3>2
  <2>2. m - 1 \in Nat /\ T \in SUBSET (1 .. m - 1)
    BY <2>1
  <2>3. m - 1 \in Good
    BY <1>0, <2>1, Zenon
  <2> QED  BY <1>2, <2>2, <2>3
<1> DEFINE U == T \ {m}
<1>5. m - 1 \in Nat /\ U \in SUBSET (1 .. m - 1)
  BY <1>1, <1>4
<1>6. m - 1 \in Good
  <2>1. m # 0
    BY <1>4
  <2> QED  BY <1>0, <2>1, Zenon
<1>7. Numbered(U)
  BY <1>5, <1>6
<1>8. Cardinality(U) = Cardinality(T) - 1
  BY <1>3, <1>4, FS_RemoveElement
<1>9. T \cap (1 .. m) = T
  OBVIOUS
<1>10. ASSUME NEW k \in U PROVE k \in T /\ T \cap (1 .. k) = U \cap (1 .. k)
  BY <1>5, <1>10
<1> HIDE DEF U, Good
<1>11. ASSUME NEW n \in 1 .. Cardinality(T)
       PROVE  \E k \in T : Cardinality(T \cap (1 .. k)) = n
  <2>1. CASE n = Cardinality(T)
    BY <1>4, <1>9, <2>1
  <2>2. CASE n # Cardinality(T)
    <3>1. n \in 1 .. Cardinality(U)
      BY <1>3, <1>8, <2>2
    <3> QED  BY <1>7, <1>10, <3>1
  <2> QED  BY <2>1, <2>2
<1> QED  BY <1>2, <1>11

\* Different places have different numbers.
LEMMA RanksDiffer ==
  ASSUME NEW l \in Nat, NEW S, S \subseteq 1 .. l, NEW j \in S, NEW k \in S,
         Cardinality(S \cap (1 .. j)) = Cardinality(S \cap (1 .. k))
  PROVE  j = k
<1>1. SUFFICES ASSUME NEW a \in S, NEW b \in S, a < b
               PROVE  Cardinality(S \cap (1 .. a)) # Cardinality(S \cap (1 .. b))
  OBVIOUS
<1> DEFINE A == S \cap (1 .. a)
           B == S \cap (1 .. b)
<1>2. A \in SUBSET B /\ B \subseteq 1 .. l /\ b \in B /\ b \notin A
  BY <1>1
<1>3. IsFiniteSet(B)
  BY <1>2, Places
<1> QED  BY <1>2, <1>3, FS_Subset

\* Nth is what its name says.
LEMMA NthPlace ==
  ASSUME NEW l \in Nat, NEW S, S \subseteq 1 .. l, NEW n \in 1 .. Cardinality(S)
  PROVE  /\ Nth(n, S) \in S
         /\ \A k \in S : Cardinality(S \cap (1 .. k)) = n <=> k = Nth(n, S)
<1>1. \E k \in S : Cardinality(S \cap (1 .. k)) = n
  BY Ranks
<1>2. Nth(n, S) \in S /\ Cardinality(S \cap (1 .. Nth(n, S))) = n
  BY <1>1 DEF Nth
<1> QED  BY <1>2, RanksDiffer

\* One more place, behind the others, is the last and leaves them their numbers.
LEMMA NthKept ==
  ASSUME NEW l \in Nat, NEW S, S \subseteq 1 .. l
  PROVE  LET T == S \cup {l + 1}
         IN  /\ Cardinality(T) = Cardinality(S) + 1
             /\ Nth(Cardinality(S) + 1, T) = l + 1
             /\ \A n \in 1 .. Cardinality(S) : Nth(n, T) = Nth(n, S)
<1> DEFINE T == S \cup {l + 1}
<1>0. \A k \in S : k \in Nat /\ 1 <= k /\ k <= l
  OBVIOUS
<1>1. /\ Cardinality(S) \in Nat /\ T \subseteq 1 .. l + 1
      /\ Cardinality(T) = Cardinality(S) + 1
  <2>1. IsFiniteSet(S) /\ Cardinality(S) \in Nat
    BY Places
  <2>2. l + 1 \notin S /\ T \subseteq 1 .. l + 1
    BY <1>0
  <2> QED  BY <2>1, <2>2, FS_AddElement
<1>2. T \cap (1 .. l + 1) = T
  BY <1>1
<1>3. ASSUME NEW k \in S PROVE T \cap (1 .. k) = S \cap (1 .. k)
  BY <1>3
<1>4. Nth(Cardinality(S) + 1, T) = l + 1
  <2>1. Cardinality(S) + 1 \in 1 .. Cardinality(T)
    BY <1>1
  <2>2. l + 1 \in T /\ l + 1 \in Nat
    OBVIOUS
  <2> HIDE DEF T
  <2> QED  BY <1>1, <1>2, <2>1, <2>2, NthPlace
<1>5. ASSUME NEW n \in 1 .. Cardinality(S) PROVE Nth(n, T) = Nth(n, S)
  <2>1. Nth(n, S) \in S /\ Cardinality(S \cap (1 .. Nth(n, S))) = n
    BY NthPlace
  <2>2. Nth(n, S) \in T /\ Cardinality(T \cap (1 .. Nth(n, S))) = n
    BY <1>3, <2>1
  <2>3. n \in 1 .. Cardinality(T) /\ l + 1 \in Nat
    BY <1>1
  <2> HIDE DEF T
  <2> QED  BY <1>1, <2>2, <2>3, NthPlace
<1> QED  BY <1>1, <1>4, <1>5

\* The dict has of each call what its fragments spell, in the order in which the
\* calls appeared.
Spelled ==
  /\ \A i : CallAt(i).name = ToolOf(i) /\ CallAt(i).args = TextOf(i)
  /\ \A j, k \in DOMAIN calls : j < k => Before(calls[j].index, calls[k].index)

LEMMA FragmentPlaces ==
  ASSUME log \in Seq(Fragments), NEW i
  PROVE  /\ Len(log) \in Nat /\ DOMAIN log = 1 .. Len(log)
         /\ NamesFor(i) \subseteq 1 .. Len(log)
         /\ PiecesFor(i) \subseteq 1 .. Len(log)
BY LenProperties DEF NamesFor, PiecesFor

LEMMA TextType ==
  ASSUME log \in Seq(Fragments), NEW i
  PROVE  /\ TextOf(i) \in Seq(Pieces)
         /\ Len(TextOf(i)) = Cardinality(PiecesFor(i))
         /\ Cardinality(PiecesFor(i)) \in Nat
<1> DEFINE c == Cardinality(PiecesFor(i))
<1>1. c \in Nat
  BY FragmentPlaces, Places
<1>2. ASSUME NEW n \in 1 .. c PROVE log[Nth(n, PiecesFor(i))].piece \in Pieces
  <2>1. Nth(n, PiecesFor(i)) \in PiecesFor(i)
    BY FragmentPlaces, NthPlace
  <2> DEFINE k == Nth(n, PiecesFor(i))
  <2>2. k \in DOMAIN log /\ Filled(log[k].piece)
    BY <2>1, Zenon DEF PiecesFor, Filled
  <2> HIDE DEF k
  <2>3. log[k] \in Fragments
    BY <2>2
  <2>4. log[k].piece \in Pieces \cup {""}
    BY <2>3 DEF Fragments
  <2>5. log[k].piece \in Pieces
    BY <2>2, <2>4, Zenon DEF Filled
  <2> QED  BY <2>5 DEF k
<1>3. TextOf(i) = [n \in 1 .. c |-> log[Nth(n, PiecesFor(i))].piece]
  BY DEF TextOf
<1> HIDE DEF c
<1>4. TextOf(i) \in [1 .. c -> Pieces]
  BY <1>2, <1>3
<1> QED  BY <1>1, <1>4, LenProperties DEF c

\* One more fragment lengthens the text of its call by its piece and names the
\* call if nothing did before.
LEMMA FragmentSpells ==
  ASSUME Booked, NEW i, NEW name, NEW piece, NEW newChunk,
         Receives(i, name, piece, newChunk), NEW j
  PROVE  /\ TextOf(j)' = IF j = i THEN TextOf(j) \o When(piece # "", piece)
                                  ELSE TextOf(j)
         /\ ToolOf(j)' = IF j = i /\ ToolOf(j) = "" THEN name ELSE ToolOf(j)
<1> DEFINE l == Len(log)
           P == PiecesFor(j)
           N == NamesFor(j)
           c == Cardinality(P)
<1>1. /\ l \in Nat /\ DOMAIN log = 1 .. l /\ DOMAIN log' = 1 .. l + 1
      /\ \A k \in 1 .. l : log'[k] = log[k]
      /\ log'[l + 1].index = i
      /\ log'[l + 1].name = name /\ log'[l + 1].piece = piece
  <2> DEFINE new == [index |-> i, name |-> name, piece |-> piece,
                     newChunk |-> newChunk]
  <2>1. new.index = i /\ new.name = name /\ new.piece = piece
    OBVIOUS
  <2>2. /\ Len(log) \in Nat
        /\ DOMAIN log = 1 .. Len(log) /\ DOMAIN log' = 1 .. Len(log) + 1
        /\ \A k \in 1 .. Len(log) : log'[k] = log[k]
        /\ log'[Len(log) + 1] = new
    BY LogGrows
  <2> HIDE DEF new
  <2> QED  BY <2>1, <2>2
<1>2. /\ P \subseteq 1 .. l /\ N \subseteq 1 .. l /\ c \in Nat
      /\ \A k \in P \cup N : k \in 1 .. l
  <2>1. log \in Seq(Fragments)
    BY DEF Booked
  <2> QED  BY <2>1, FragmentPlaces, TextType
<1>3. /\ PiecesFor(j)' = IF j = i /\ piece # "" THEN P \cup {l + 1} ELSE P
      /\ NamesFor(j)' = IF j = i /\ name # "" THEN N \cup {l + 1} ELSE N
  <2>1. \A k \in 1 .. l : k # l + 1
    BY <1>1
  <2>2. 1 .. l + 1 = (1 .. l) \cup {l + 1}
    BY <1>1
  <2> HIDE DEF l
  <2> QED  BY <1>1, <2>1, <2>2, Zenon DEF PiecesFor, NamesFor
<1>4. TextOf(j)' = [n \in 1 .. Cardinality(PiecesFor(j)') |->
                      log'[Nth(n, PiecesFor(j)')].piece]
  BY DEF TextOf
<1>5. TextOf(j) = [n \in 1 .. c |-> log[Nth(n, P)].piece]
  BY DEF TextOf
<1>6. ToolOf(j)' = IF NamesFor(j)' = {} THEN "" ELSE log'[Nth(1, NamesFor(j)')].name
  BY DEF ToolOf
<1>7. ToolOf(j) = IF N = {} THEN "" ELSE log[Nth(1, N)].name
  BY DEF ToolOf
<1>8. \A n \in 1 .. c : Nth(n, P) \in 1 .. l
  BY <1>1, <1>2, NthPlace
<1>9. N # {} => /\ Nth(1, N) \in 1 .. l /\ Filled(log[Nth(1, N)].name)
                /\ 1 \in 1 .. Cardinality(N)
  <2> SUFFICES ASSUME N # {} PROVE /\ Nth(1, N) \in 1 .. l
                                   /\ Filled(log[Nth(1, N)].name)
                                   /\ 1 \in 1 .. Cardinality(N)
    OBVIOUS
  <2>1. 1 \in 1 .. Cardinality(N)
    <3>1. Cardinality(N) \in Nat /\ Cardinality(N) # 0
      BY <1>1, <1>2, Places
    <3> QED  BY <3>1
  <2>2. Nth(1, N) \in N
    BY <1>1, <1>2, <2>1, NthPlace
  <2>3. \A k \in N : Filled(log[k].name)
    BY Zenon DEF NamesFor, Filled
  <2> QED  BY <1>2, <2>1, <2>2, <2>3
<1> HIDE DEF l, P, N
<1>10. /\ Cardinality(P \cup {l + 1}) = c + 1
       /\ Nth(c + 1, P \cup {l + 1}) = l + 1
       /\ \A n \in 1 .. c : Nth(n, P \cup {l + 1}) = Nth(n, P)
  BY <1>1, <1>2, NthKept
<1>11. TextOf(j)' = IF j = i THEN TextOf(j) \o When(piece # "", piece)
                             ELSE TextOf(j)
  <2>1. CASE j = i /\ Filled(piece)
    <3>1. PiecesFor(j)' = P \cup {l + 1}
      BY <1>3, <2>1, Zenon DEF Filled
    <3>2. TextOf(j)' = [n \in 1 .. c + 1 |-> log'[Nth(n, P \cup {l + 1})].piece]
      BY <1>4, <1>10, <3>1, Zenon
    <3>3. ASSUME NEW n \in 1 .. c + 1
          PROVE  log'[Nth(n, P \cup {l + 1})].piece =
                   IF n = c + 1 THEN piece ELSE log[Nth(n, P)].piece
      <4>1. CASE n = c + 1
        BY <1>1, <1>10, <4>1
      <4>2. CASE n # c + 1
        <5>1. n \in 1 .. c
          BY <1>2, <4>2
        <5>2. log'[Nth(n, P)] = log[Nth(n, P)]
          BY <1>1, <1>8, <5>1
        <5> QED  BY <1>10, <4>2, <5>1, <5>2
      <4> QED  BY <4>1, <4>2
    <3>4. piece \in Pieces /\ TextOf(j) \in Seq(Pieces) /\ Len(TextOf(j)) = c
      <4>1. piece \in Pieces
        BY <2>1, Zenon DEF Receives, Filled
      <4>2. log \in Seq(Fragments)
        BY DEF Booked
      <4> QED  BY <4>1, <4>2, TextType DEF P
    <3> DEFINE longer == Append(TextOf(j), piece)
    <3>5. /\ longer \in Seq(Pieces) /\ Len(longer) = c + 1
          /\ \A n \in 1 .. c : longer[n] = TextOf(j)[n]
          /\ longer[c + 1] = piece
      BY <3>4, AppendProperties
    <3>6. ASSUME NEW n \in 1 .. c + 1
          PROVE  longer[n] = IF n = c + 1 THEN piece ELSE log[Nth(n, P)].piece
      <4>1. n # c + 1 => n \in 1 .. c
        BY <1>2
      <4> QED  BY <1>5, <3>5, <4>1
    <3> HIDE DEF longer
    <3>7. longer = [n \in 1 .. c + 1 |-> longer[n]]
      BY <3>5, LenProperties
    <3>8. TextOf(j)' = longer
      BY <3>2, <3>3, <3>6, <3>7
    <3>9. longer = TextOf(j) \o <<piece>>
      BY <3>4, AppendIsConcat DEF longer
    <3>10. When(piece # "", piece) = <<piece>>
      BY <2>1, Zenon DEF When, Filled
    <3> QED  BY <2>1, <3>8, <3>9, <3>10
  <2>2. CASE ~(j = i /\ Filled(piece))
    <3>1. PiecesFor(j)' = P
      BY <1>3, <2>2, Zenon DEF Filled
    <3>2. TextOf(j)' = [n \in 1 .. c |-> log'[Nth(n, P)].piece]
      BY <1>4, <3>1, Zenon
    <3>3. TextOf(j)' = TextOf(j)
      BY <1>1, <1>5, <1>8, <3>2
    <3>4. j = i => TextOf(j) \o When(piece # "", piece) = TextOf(j)
      <4>1. j = i => When(piece # "", piece) = << >>
        BY <2>2, Zenon DEF When, Filled
      <4>2. TextOf(j) \o << >> = TextOf(j)
        <5>1. log \in Seq(Fragments)
          BY DEF Booked
        <5> QED  BY <5>1, TextType, ConcatEmptySeq
      <4> QED  BY <4>1, <4>2
    <3> QED  BY <3>3, <3>4
  <2> QED  BY <2>1, <2>2
<1>12. ToolOf(j)' = IF j = i /\ ToolOf(j) = "" THEN name ELSE ToolOf(j)
  <2>1. CASE N # {}
    <3>1. Nth(1, NamesFor(j)') = Nth(1, N)
      <4>1. Nth(1, N \cup {l + 1}) = Nth(1, N)
        BY <1>1, <1>2, <1>9, <2>1, NthKept
      <4> QED  BY <1>3, <4>1, Zenon
    <3>2. log'[Nth(1, N)] = log[Nth(1, N)]
      BY <1>1, <1>9, <2>1
    <3>3. NamesFor(j)' # {}
      BY <1>3, <2>1
    <3>4. ToolOf(j)' = ToolOf(j) /\ Filled(ToolOf(j))
      BY <1>6, <1>7, <1>9, <2>1, <3>1, <3>2, <3>3, Zenon
    <3> QED  BY <3>4, Zenon DEF Filled
  <2>2. CASE N = {} /\ j = i /\ Filled(name)
    <3>1. ToolOf(j) = ""
      BY <1>7, <2>2
    <3>2. NamesFor(j)' = N \cup {l + 1}
      BY <1>3, <2>2, Zenon DEF Filled
    <3>3. Cardinality(N) = 0
      BY <2>2, FS_EmptySet
    <3>4. Nth(1, N \cup {l + 1}) = l + 1
      <4>1. Nth(Cardinality(N) + 1, N \cup {l + 1}) = l + 1
        BY <1>1, <1>2, NthKept
      <4> QED  BY <3>3, <4>1
    <3>5. ToolOf(j)' = name
      BY <1>1, <1>6, <3>2, <3>4
    <3> QED  BY <2>2, <3>1, <3>5
  <2>3. CASE N = {} /\ ~(j = i /\ Filled(name))
    <3>1. ToolOf(j) = ""
      BY <1>7, <2>3
    <3>2. NamesFor(j)' = {}
      BY <1>3, <2>3, Zenon DEF Filled
    <3>3. ToolOf(j)' = ""
      BY <1>6, <3>2
    <3>4. j = i => name = ""
      BY <2>3, Zenon DEF Filled
    <3> QED  BY <3>1, <3>3, <3>4
  <2> QED  BY <2>1, <2>2, <2>3
<1> QED  BY <1>11, <1>12

LEMMA PutCalls ==
  ASSUME Typed, Booked, NEW i \in Indices, NEW call \in Call, call.index = i,
         calls' = Put(i, call)
  PROVE  /\ CallAt(i)' = call
         /\ \A j : j # i => CallAt(j)' = CallAt(j)
         /\ \A k \in DOMAIN calls' :
              \/ k \in DOMAIN calls /\ calls'[k].index = calls[k].index
              \/ /\ k = Len(calls) + 1 /\ ~Known(i) /\ calls'[k].index = i
<1>0. /\ DOMAIN calls = 1 .. Len(calls) /\ Len(calls) \in Nat
  BY LenProperties DEF Typed
<1>1. PICK p \in DOMAIN calls' :
        /\ calls'[p] = call
        /\ DOMAIN calls' = DOMAIN calls \cup {p}
        /\ \A k \in DOMAIN calls' \ {p} :
             k \in DOMAIN calls /\ calls'[k] = calls[k]
        /\ IF Known(i) THEN p \in DOMAIN calls /\ calls[p].index = i
                       ELSE p = Len(calls) + 1
  BY PutPlace
<1>2. \A j, k \in DOMAIN calls' : calls'[j].index = calls'[k].index => j = k
  BY PutNames
<1>3. CallAt(i)' = call
  <2>1. Known(i)'
    BY <1>1 DEF Known
  <2>2. \A k \in DOMAIN calls' : calls'[k].index = i <=> k = p
    BY <1>1, <1>2
  <2>3. Position(i)' = p
    BY <1>1, <2>2 DEF Position
  <2> QED  BY <1>1, <2>1, <2>3 DEF CallAt
<1>4. ASSUME NEW j, j # i PROVE CallAt(j)' = CallAt(j)
  <2>1. Known(j)' <=> Known(j)
    BY <1>4, PutNames
  <2>2. CASE Known(j)
    <3> DEFINE q == Position(j)
    <3>1. q \in DOMAIN calls /\ calls[q].index = j
      BY <2>2, KnownCall
    <3>2. CallAt(j) = calls[q]
      BY <2>2 DEF CallAt
    <3> HIDE DEF q
    <3>3. q # p
      <4>1. CASE Known(i)
        BY <1>1, <1>4, <3>1, <4>1
      <4>2. CASE ~Known(i)
        BY <1>0, <1>1, <3>1, <4>2
      <4> QED  BY <4>1, <4>2
    <3>4. q \in DOMAIN calls' /\ calls'[q] = calls[q]
      BY <1>1, <3>1, <3>3
    <3>5. \A k \in DOMAIN calls' : calls'[k].index = j <=> k = q
      BY <1>2, <3>1, <3>4
    <3>6. Position(j)' = q
      BY <3>4, <3>5 DEF Position
    <3> QED  BY <2>1, <2>2, <3>2, <3>4, <3>6 DEF CallAt
  <2>3. CASE ~Known(j)
    BY <2>1, <2>3 DEF CallAt
  <2> QED  BY <2>2, <2>3
<1>5. ASSUME NEW k \in DOMAIN calls'
      PROVE  \/ k \in DOMAIN calls /\ calls'[k].index = calls[k].index
             \/ /\ k = Len(calls) + 1 /\ ~Known(i) /\ calls'[k].index = i
  <2>1. CASE k = p
    BY <1>1, <2>1
  <2>2. CASE k # p
    BY <1>1, <2>2
  <2> QED  BY <2>1, <2>2
<1> QED  BY <1>3, <1>4, <1>5

LEMMA SpelledStep ==
  ASSUME Inv, Booked, Spelled, NEW i, NEW name, NEW piece, NEW newChunk,
         Receives(i, name, piece, newChunk)
  PROVE  Spelled'
<1> DEFINE call == Updated(i, name, piece)
<1>1. /\ i \in Indices /\ name \in Tools /\ piece \in Pieces \cup {""}
      /\ calls' = Put(i, call) /\ Typed
  BY DEF Receives, Fragment, Store, Inv
<1>2. /\ call \in Call /\ call.index = i
      /\ call.name = IF NameBefore(i) = "" THEN name ELSE NameBefore(i)
      /\ NameBefore(i) = CallAt(i).name
  BY <1>1, UpdatedType, UpdatedName
<1>3. call.args = CallAt(i).args \o When(piece # "", piece)
  <2>1. "args" \in DOMAIN CallAt(i)
    <3>1. CASE Known(i)
      BY <1>1, <3>1, KnownCall DEF CallAt, Call
    <3>2. CASE ~Known(i)
      BY <3>2 DEF CallAt
    <3> QED  BY <3>1, <3>2
  <2> QED  BY <2>1 DEF Updated
<1> HIDE DEF call
<1>4. /\ CallAt(i)' = call
      /\ \A j : j # i => CallAt(j)' = CallAt(j)
      /\ \A k \in DOMAIN calls' :
           \/ k \in DOMAIN calls /\ calls'[k].index = calls[k].index
           \/ /\ k = Len(calls) + 1 /\ ~Known(i) /\ calls'[k].index = i
  BY <1>1, <1>2, PutCalls
<1>5. ASSUME NEW j
      PROVE  CallAt(j)'.name = ToolOf(j)' /\ CallAt(j)'.args = TextOf(j)'
  <2>1. CallAt(j).name = ToolOf(j) /\ CallAt(j).args = TextOf(j)
    BY DEF Spelled
  <2>2. /\ TextOf(j)' = IF j = i THEN TextOf(j) \o When(piece # "", piece)
                                 ELSE TextOf(j)
        /\ ToolOf(j)' = IF j = i /\ ToolOf(j) = "" THEN name ELSE ToolOf(j)
    BY FragmentSpells
  <2>3. CASE j = i
    BY <1>2, <1>3, <1>4, <2>1, <2>2, <2>3
  <2>4. CASE j # i
    BY <1>4, <2>1, <2>2, <2>4
  <2> QED  BY <2>3, <2>4
<1> DEFINE l == Len(log)
<1>6. /\ l \in Nat /\ DOMAIN log = 1 .. l /\ DOMAIN log' = 1 .. l + 1
      /\ \A k \in 1 .. l : log'[k] = log[k]
  BY LogGrows
<1> HIDE DEF l
<1> DEFINE BeforeNow(a, b) ==
             \E k \in DOMAIN log' : /\ log'[k].index = a
                                    /\ \A m \in 1 .. k : log'[m].index # b
<1>7. ASSUME NEW a, NEW b, Before(a, b) PROVE BeforeNow(a, b)
  <2>1. PICK k \in 1 .. l : /\ log[k].index = a
                            /\ \A m \in 1 .. k : log[m].index # b
    BY <1>6, <1>7 DEF Before
  <2>2. \A m \in 1 .. k : m \in 1 .. l
    BY <1>6
  <2>3. k \in DOMAIN log' /\ log'[k].index = a
    BY <1>6, <2>1
  <2>4. \A m \in 1 .. k : log'[m].index # b
    BY <1>6, <2>1, <2>2
  <2> QED  BY <2>3, <2>4
<1> HIDE DEF BeforeNow
<1>8. ASSUME NEW j \in DOMAIN calls', NEW k \in DOMAIN calls', j < k
      PROVE  BeforeNow(calls'[j].index, calls'[k].index)
  <2>0. DOMAIN calls = 1 .. Len(calls) /\ Len(calls) \in Nat
    BY <1>1, LenProperties DEF Typed
  <2>1. j \in DOMAIN calls /\ calls'[j].index = calls[j].index
    <3>1. k \in DOMAIN calls \/ k = Len(calls) + 1
      BY <1>4
    <3>2. j # Len(calls) + 1
      BY <1>8, <2>0, <3>1
    <3> QED  BY <1>4, <3>2
  <2>2. CASE k \in DOMAIN calls /\ calls'[k].index = calls[k].index
    <3>1. Before(calls[j].index, calls[k].index)
      BY <1>8, <2>1, <2>2 DEF Spelled
    <3> QED  BY <1>7, <2>1, <2>2, <3>1
  <2>3. CASE ~Known(i) /\ calls'[k].index = i
    <3>1. Known(calls[j].index) /\ ~Came(i)
      BY <2>1, <2>3 DEF Known, Booked
    <3>2. PICK m \in DOMAIN log : log[m].index = calls[j].index
      BY <3>1 DEF Booked, Came
    <3>3. \A n \in 1 .. m : n \in DOMAIN log /\ log[n].index # i
      BY <1>6, <3>1 DEF Came
    <3>4. Before(calls[j].index, i)
      BY <3>2, <3>3 DEF Before
    <3> QED  BY <1>7, <2>1, <2>3, <3>4
  <2> QED  BY <1>4, <2>2, <2>3
<1>9. \A j, k \in DOMAIN calls' :
        j < k => Before(calls[j].index, calls[k].index)'
  BY <1>8 DEF Before, BeforeNow
<1>10. \A j : CallAt(j)'.name = ToolOf(j)' /\ CallAt(j)'.args = TextOf(j)'
  BY <1>5
<1> QED  BY <1>9, <1>10, Zenon DEF Spelled

\* What a dict like this holds is the landing that the fragments spell.
LEMMA LandingSpelled ==
  ASSUME Typed, Booked, Spelled, NEW f
  PROVE  LET whole == {i \in Indices : ToolOf(i) = f /\ IsObject(TextOf(i))}
             hits  == {k \in DOMAIN Contents : Contents[k].tool = f}
         IN \/ whole = {} /\ hits = {}
            \/ \E k \in hits :
                 /\ \A j \in hits : j <= k
                 /\ calls[k].index \in whole
                 /\ Contents[k].content = TextOf(calls[k].index)
                 /\ \A j \in whole \ {calls[k].index} : Before(j, calls[k].index)
<1> DEFINE whole == {i \in Indices : ToolOf(i) = f /\ IsObject(TextOf(i))}
           hits  == {k \in DOMAIN Contents : Contents[k].tool = f}
<1>0. /\ DOMAIN calls = 1 .. Len(calls) /\ Len(calls) \in Nat
      /\ \A k \in DOMAIN calls : calls[k].index \in Indices
  <2>1. calls \in Seq(Call)
    BY DEF Typed
  <2>2. \A k \in DOMAIN calls : calls[k] \in Call
    BY <2>1
  <2> QED  BY <2>1, <2>2, LenProperties DEF Call
<1>1. ASSUME NEW k \in DOMAIN calls
      PROVE  /\ calls[k].name = ToolOf(calls[k].index)
             /\ calls[k].args = TextOf(calls[k].index)
  <2>1. Known(calls[k].index)
    BY DEF Known
  <2>2. Position(calls[k].index) = k
    BY <2>1, KnownCall DEF Booked
  <2>3. CallAt(calls[k].index) = calls[k]
    BY <2>1, <2>2 DEF CallAt
  <2> QED  BY <2>3 DEF Spelled
<1>2. ASSUME NEW k
      PROVE  /\ k \in hits <=> /\ k \in DOMAIN calls /\ IsObject(calls[k].args)
                               /\ calls[k].name = f
             /\ k \in hits => Contents[k].content = calls[k].args
  BY DEF Contents
<1>3. ASSUME NEW k \in hits
      PROVE  /\ calls[k].index \in whole
             /\ Contents[k].content = TextOf(calls[k].index)
  BY <1>0, <1>1, <1>2
<1>4. ASSUME NEW i \in whole PROVE \E k \in hits : calls[k].index = i
  <2>1. TextOf(i) # << >>
    BY DEF IsObject
  <2>2. Known(i)
    <3>1. ~Known(i) => CallAt(i).args = << >>
      BY DEF CallAt
    <3> QED  BY <2>1, <3>1 DEF Spelled
  <2>3. PICK k \in DOMAIN calls : calls[k].index = i
    BY <2>2 DEF Known
  <2> QED  BY <1>1, <1>2, <2>3
<1>5. CASE hits = {}
  BY <1>4, <1>5
<1>6. CASE hits # {}
  <2>1. hits \subseteq 1 .. Len(calls)
    BY <1>0, <1>2
  <2> HIDE DEF hits, whole
  <2>2. PICK k \in hits : \A j \in hits : j <= k
    BY <1>0, <1>6, <2>1, LastPlace
  <2>3. ASSUME NEW i \in whole \ {calls[k].index}
        PROVE  Before(i, calls[k].index)
    <3>1. PICK j \in hits : calls[j].index = i
      BY <1>4, <2>3
    <3>2. j < k
      BY <1>0, <2>1, <2>2, <2>3, <3>1
    <3>3. j \in DOMAIN calls /\ k \in DOMAIN calls
      BY <1>0, <2>1
    <3> QED  BY <3>1, <3>2, <3>3 DEF Spelled
  <2> QED  BY <1>3, <2>2, <2>3 DEF hits, whole
<1> QED  BY <1>5, <1>6

LandingInv == Booked /\ Spelled /\ ResultFaithful

LEMMA LandingInit == Init => LandingInv
<1> SUFFICES ASSUME Init PROVE LandingInv
  OBVIOUS
<1>1. calls = << >> /\ log = << >> /\ pc = "open"
  BY DEF Init
<1>2. DOMAIN calls = {} /\ DOMAIN log = {} /\ log \in Seq(Fragments)
  BY <1>1, EmptySeq
<1>3. Booked
  BY <1>2 DEF Booked, Known, Came
<1>4. ASSUME NEW i
      PROVE  CallAt(i).name = ToolOf(i) /\ CallAt(i).args = TextOf(i)
  <2>1. PiecesFor(i) = {} /\ NamesFor(i) = {}
    BY <1>2 DEF PiecesFor, NamesFor
  <2>2. Cardinality(PiecesFor(i)) = 0
    BY <2>1, FS_EmptySet
  <2>3. TextOf(i) = << >> /\ ToolOf(i) = ""
    BY <2>1, <2>2 DEF TextOf, ToolOf
  <2>4. ~Known(i)
    BY <1>2 DEF Known
  <2> QED  BY <2>3, <2>4 DEF CallAt
<1>5. Spelled
  BY <1>2, <1>4 DEF Spelled
<1> QED  BY <1>1, <1>3, <1>5 DEF LandingInv, ResultFaithful

\* As long as neither the dict nor the log changes.
LEMMA SameSpelling ==
  ASSUME UNCHANGED <<calls, log>>
  PROVE  /\ \A i : ToolOf(i)' = ToolOf(i) /\ TextOf(i)' = TextOf(i)
         /\ \A i, j : Before(i, j)' <=> Before(i, j)
         /\ Booked' <=> Booked
         /\ Spelled' <=> Spelled
<1>1. ASSUME NEW i PROVE ToolOf(i)' = ToolOf(i)
  BY DEF ToolOf, NamesFor
<1>2. ASSUME NEW i PROVE TextOf(i)' = TextOf(i)
  BY DEF TextOf, PiecesFor
<1>3. ASSUME NEW i PROVE CallAt(i)' = CallAt(i)
  BY DEF CallAt, Known, Position
<1>4. ASSUME NEW i, NEW j PROVE Before(i, j)' <=> Before(i, j)
  BY DEF Before
<1>5. (\A j, k \in DOMAIN calls :
         j < k => Before(calls[j].index, calls[k].index))'
        <=> \A j, k \in DOMAIN calls :
              j < k => Before(calls[j].index, calls[k].index)
  BY DEF Before
<1>6. Spelled' <=> Spelled
  BY <1>1, <1>2, <1>3, <1>5 DEF Spelled
<1> QED  BY <1>1, <1>2, <1>4, <1>6, SameBooks

\* The landing for a field, as the fragments spell it.
Faithful(f) ==
  LET whole == {i \in Indices : ToolOf(i) = f /\ IsObject(TextOf(i))}
  IN IF whole = {} THEN result[f] = << >>
     ELSE \E i \in whole : /\ result[f] = TextOf(i)
                           /\ \A j \in whole \ {i} : Before(j, i)

LEMMA LandingEnd ==
  ASSUME Inv, LandingInv, End, NEW f \in Fields
  PROVE  Faithful(f)'
<1> DEFINE whole == {i \in Indices : ToolOf(i) = f /\ IsObject(TextOf(i))}
           hits  == {k \in DOMAIN Contents : Contents[k].tool = f}
<1>1. /\ \A i : ToolOf(i)' = ToolOf(i) /\ TextOf(i)' = TextOf(i)
      /\ \A i, j : Before(i, j)' <=> Before(i, j)
  BY SameSpelling DEF End
<1>2. result'[f] =
        IF hits = {} THEN << >>
        ELSE Contents[CHOOSE k \in hits : \A j \in hits : j <= k].content
  BY DEF End, Apply
<1>3. \/ whole = {} /\ hits = {}
      \/ \E k \in hits :
           /\ \A j \in hits : j <= k
           /\ calls[k].index \in whole
           /\ Contents[k].content = TextOf(calls[k].index)
           /\ \A j \in whole \ {calls[k].index} : Before(j, calls[k].index)
  BY LandingSpelled DEF Inv, LandingInv
<1>4. \A k \in hits : k \in Nat
  <2>1. DOMAIN calls = 1 .. Len(calls) /\ Len(calls) \in Nat
    BY LenProperties DEF Inv, Typed
  <2> QED  BY <2>1 DEF Contents
<1>5. {i \in Indices : ToolOf(i)' = f /\ IsObject(TextOf(i)')} = whole
  BY <1>1
<1>6. Faithful(f)' <=>
        IF whole = {} THEN result'[f] = << >>
        ELSE \E i \in whole : /\ result'[f] = TextOf(i)
                              /\ \A j \in whole \ {i} : Before(j, i)
  BY <1>1, <1>5 DEF Faithful
<1> HIDE DEF whole, hits
<1>7. CASE whole = {} /\ hits = {}
  BY <1>2, <1>6, <1>7
<1>8. CASE \E k \in hits :
             /\ \A j \in hits : j <= k
             /\ calls[k].index \in whole
             /\ Contents[k].content = TextOf(calls[k].index)
             /\ \A j \in whole \ {calls[k].index} : Before(j, calls[k].index)
  <2>1. PICK k \in hits :
          /\ \A j \in hits : j <= k
          /\ calls[k].index \in whole
          /\ Contents[k].content = TextOf(calls[k].index)
          /\ \A j \in whole \ {calls[k].index} : Before(j, calls[k].index)
    BY <1>8
  <2>2. \A m \in hits : (\A j \in hits : j <= m) => m = k
    BY <1>4, <2>1
  <2>3. (CHOOSE m \in hits : \A j \in hits : j <= m) = k
    BY <2>1, <2>2
  <2>4. hits # {} /\ whole # {}
    BY <2>1
  <2>5. result'[f] = TextOf(calls[k].index)
    BY <1>2, <2>1, <2>3, <2>4, Zenon
  <2> QED  BY <1>6, <2>1, <2>4, <2>5, Zenon
<1> QED  BY <1>3, <1>7, <1>8

LEMMA LandingStep ==
  ASSUME Inv, LandingInv, [Next]_vars
  PROVE  LandingInv'
<1>0. /\ ResultFaithful <=> (pc = "done" => \A f \in Fields : Faithful(f))
      /\ ResultFaithful' <=> (pc' = "done" => \A f \in Fields : Faithful(f)')
  BY DEF ResultFaithful, Faithful
<1>1. CASE OpenStream \/ Finish \/ Fail
  <2>1. UNCHANGED <<calls, log>> /\ pc' # "done"
    BY <1>1 DEF OpenStream, Finish, Fail
  <2> QED  BY <1>0, <2>1, SameSpelling DEF LandingInv
<1>2. CASE End
  <2>1. UNCHANGED <<calls, log>>
    BY <1>2 DEF End
  <2>2. \A f \in Fields : Faithful(f)'
    BY <1>2, LandingEnd
  <2> QED  BY <1>0, <2>1, <2>2, SameSpelling DEF LandingInv
<1>3. ASSUME NEW i \in Indices, NEW name \in Names \cup {""},
             NEW piece \in Pieces \cup {""}, NEW newChunk \in BOOLEAN,
             Fragment(i, name, piece, newChunk)
      PROVE  LandingInv'
  <2>1. Receives(i, name, piece, newChunk)
    BY <1>3 DEF Receives, Tools
  <2>2. Booked' /\ Spelled'
    BY <2>1, BookedStep, SpelledStep DEF LandingInv
  <2>3. pc' # "done"
    BY <1>3 DEF Fragment
  <2> QED  BY <1>0, <2>2, <2>3 DEF LandingInv
<1>4. CASE UNCHANGED vars
  <2>1. UNCHANGED <<pc, calls, log, result>>
    BY <1>4 DEF vars
  <2>2. \A f : Faithful(f)' <=> Faithful(f)
    BY <2>1, SameSpelling DEF Faithful
  <2> QED  BY <1>0, <2>1, <2>2, SameSpelling DEF LandingInv
<1> QED  BY <1>1, <1>2, <1>3, <1>4 DEF Next

-----------------------------------------------------------------------------
(***************************************************************************)
(* The facade.                                                             *)
(***************************************************************************)
FacadeInv ==
  /\ Inv
  /\ plugin # "openai" => BlocksInv
  /\ plugin # "anthropic" => ProgressInv /\ LandingInv

LEMMA FacadeInitInv == FacadeInit => FacadeInv
<1> SUFFICES ASSUME FacadeInit PROVE FacadeInv
  OBVIOUS
<1>1. Inv
  BY InitInv DEF FacadeInit
<1>2. BlocksInv
  <2>1. /\ out = << >> /\ pc = "open" /\ block = "none" /\ tool = ""
    BY DEF FacadeInit, Init, Anthropic!Init, Anthropic!NoTool
  <2>2. out \in Seq(Events)
    BY <2>1, EmptySeq
  <2>3. BlocksTyped /\ BlocksAt
    BY <2>1, <2>2 DEF BlocksTyped, BlocksAt
  <2>4. Contract!Paired(out)
    <3>1. Len(out) = 0 /\ DOMAIN out = 1 .. Len(out)
      BY <2>1, <2>2, LenProperties
    <3>2. \A i \in DOMAIN out : FALSE
      BY <3>1
    <3> QED  BY <3>2 DEF Contract!Paired, Contract!Follows, Contract!ToolTypes
  <2> QED  BY <2>3, <2>4 DEF BlocksInv
<1>3. ProgressInv /\ LandingInv
  BY ProgressInit, LandingInit DEF FacadeInit
<1> QED  BY <1>1, <1>2, <1>3 DEF FacadeInv

LEMMA FacadeStepInv == FacadeInv /\ [FacadeNext]_facadeVars => FacadeInv'
<1> SUFFICES ASSUME FacadeInv, [FacadeNext]_facadeVars PROVE FacadeInv'
  OBVIOUS
<1>0. /\ Inv /\ (plugin # "openai" => BlocksInv)
      /\ plugin # "anthropic" => ProgressInv /\ LandingInv
  BY DEF FacadeInv
<1>1. CASE Resolve \/ UNCHANGED facadeVars
  <2>1. UNCHANGED <<vars, anthropic>>
    BY <1>1 DEF Resolve, facadeVars
  <2>2. Inv'
    BY <1>0, <2>1, StepInv
  <2>3. BlocksInv => BlocksInv'
    BY <2>1 DEF vars, anthropic, BlocksInv, BlocksTyped, BlocksAt,
                Contract!Paired, Contract!Follows
  <2>4. ProgressInv /\ LandingInv => ProgressInv' /\ LandingInv'
    BY <1>0, <2>1, ProgressStep, LandingStep
  <2>5. /\ plugin' # "openai" => plugin # "openai"
        /\ plugin' # "anthropic" => plugin # "anthropic"
    BY <1>1 DEF Resolve, facadeVars
  <2> QED  BY <1>0, <2>2, <2>3, <2>4, <2>5 DEF FacadeInv
<1>2. CASE StreamOpenAi
  <2>1. plugin = "openai" /\ plugin' = "openai" /\ Next
    BY <1>2 DEF StreamOpenAi
  <2> QED  BY <1>0, <2>1, StepInv, ProgressStep, LandingStep DEF FacadeInv
<1>3. CASE StreamAnthropic
  <2>1. BlocksInv'
    BY <1>0, <1>3, BlocksNext DEF StreamAnthropic
  <2>2. Typed'
    BY <1>0, <1>3, <2>1
    DEF StreamAnthropic, Inv, Typed, BlocksInv, BlocksTyped, openAi
  <2>3. NoKeyError'
    BY <1>0, <1>3 DEF StreamAnthropic, Inv, NoKeyError, Known, openAi
  <2>4. plugin' = "anthropic"
    BY <1>3 DEF StreamAnthropic
  <2> QED  BY <2>1, <2>2, <2>3, <2>4 DEF FacadeInv, Inv
<1> QED  BY <1>1, <1>2, <1>3 DEF FacadeNext

LEMMA FacadeInvariance == FacadeSpec => []FacadeInv
BY FacadeInitInv, FacadeStepInv, PTL DEF FacadeSpec

\* Whichever plugin streams, tool_calls[current_index] never raises a KeyError.
THEOREM FacadeNoKeyError == FacadeSpec => []NoKeyError
<1>1. FacadeInv => NoKeyError
  BY DEF FacadeInv, Inv
<1> QED  BY <1>1, FacadeInvariance, PTL

\* The events of the Anthropic plugin are paired tool by tool.
THEOREM BlocksPairedAlways == FacadeSpec => []BlocksPaired
<1>1. FacadeInv => BlocksPaired
  BY SameContract
  DEF FacadeInv, BlocksPaired, BlocksInv, Anthropic!EventsPaired
<1> QED  BY <1>1, FacadeInvariance, PTL

\* The events of the OpenAI plugin are paired tool by tool, and completed by the
\* finish, for every provider that sends its fragments in order, however they
\* fall into chunks.
THEOREM FragmentsPairedAlways == FacadeSpec => []FragmentsPaired
<1>1. FacadeInv => FragmentsPaired
  BY DEF FacadeInv, FragmentsPaired, ProgressInv, EventsPaired, Completed
<1> QED  BY <1>1, FacadeInvariance, PTL

\* The landing of the OpenAI plugin is the one its fragments spell, for any number
\* of interleaved calls, cut anywhere and named late or never: each field has the
\* joined pieces of the last whole call of its tool, or nothing without one.
THEOREM FragmentsSpellAlways == FacadeSpec => []FragmentsSpell
<1>1. FacadeInv => FragmentsSpell
  BY DEF FacadeInv, FragmentsSpell, LandingInv
<1> QED  BY <1>1, FacadeInvariance, PTL

\* Whichever plugin the resolver picks, the stream of the facade ends at most
\* once, with "done" or "error", and yields nothing but tool events before.
THEOREM FacadeKeepsContract == FacadeSpec => ContractSpec
<1>1. FacadeInit => Contract!Init
  BY ContractInit DEF FacadeInit
<1>2. ASSUME FacadeInv, [FacadeNext]_facadeVars
      PROVE  [Contract!Next]_<<out, pc \in {"open", "streaming"}>>
  <2>1. CASE Resolve \/ UNCHANGED facadeVars
    BY <2>1 DEF Resolve, facadeVars, vars
  <2>2. CASE StreamOpenAi
    BY <1>2, <2>2, ContractStep DEF StreamOpenAi, FacadeInv
  <2>3. CASE StreamAnthropic
    BY <1>2, <2>3, BlocksContract DEF StreamAnthropic, FacadeInv
  <2> QED  BY <1>2, <2>1, <2>2, <2>3 DEF FacadeNext
<1> QED  BY <1>1, <1>2, FacadeInvariance, PTL
         DEF FacadeSpec, ContractSpec, Contract!Spec
=============================================================================
