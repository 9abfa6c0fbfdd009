---------------------------- MODULE OpenAiStream ----------------------------
(***************************************************************************)
(* OpenAiStreamLandingService.stream: the chunks of a chat completion      *)
(* become events, and the tool calls they spell become the landing.        *)
(*                                                                         *)
(* A chunk carries any number of fragments of tool calls.  A fragment has  *)
(* the index of its call and may have a name and a piece of the arguments. *)
(* One action handles one fragment; newChunk says that it is the first of  *)
(* its chunk.  The provider is free: it may interleave calls, name a call  *)
(* late or never, and cut the arguments anywhere.                          *)
(*                                                                         *)
(* Arguments are spelled as in module ToolCalls, or in one piece "value":  *)
(* a JSON value that is not an object.                                     *)
(***************************************************************************)
EXTENDS ToolCalls, FiniteSets

CONSTANTS
  Indices,      \* indices of tool calls
  NoIndex,      \* current_index is None
  MaxFragments  \* bound: fragments in one stream

ASSUME IndexAssumption == NoIndex \notin Indices
ASSUME BoundAssumption == MaxFragments \in Nat

VARIABLES
  pc,        \* "open", "streaming", or how the stream ended
  calls,     \* tool_calls: a dict keeps the order in which calls appeared
  current,   \* current_index of _translate_chunks
  local,     \* current_index of _on_delta, while it handles one chunk
  finished,  \* the provider has sent a finish_reason
  out,       \* the events yielded
  result,    \* the LandingResultTransfer of the "done" event
  log        \* every fragment received

vars == <<pc, calls, current, local, finished, out, result, log>>

Pieces == Spelling \cup {"value"}

Call == [index : Indices, name : Names \cup {""}, args : Seq(Pieces)]
Fragments == [index : Indices, name : Names \cup {""}, piece : Pieces \cup {""},
              newChunk : BOOLEAN]

Known(i) == \E k \in DOMAIN calls : calls[k].index = i
Position(i) == CHOOSE k \in DOMAIN calls : calls[k].index = i
NameOf(i) == calls[Position(i)].name

\* Yielded when a condition holds, nothing otherwise.
When(condition, event) == IF condition THEN <<event>> ELSE << >>

Init ==
  /\ pc = "open"
  /\ calls = << >>
  /\ current = NoIndex /\ local = NoIndex
  /\ finished = FALSE
  /\ out = << >>
  /\ result = Empty
  /\ log = << >>

OpenStream ==
  /\ pc = "open"
  /\ pc' = "streaming"
  /\ UNCHANGED <<calls, current, local, finished, out, result, log>>

(***************************************************************************)
(* _on_delta for one fragment.  _translate_chunks learns the new index     *)
(* only together with an event.                                            *)
(***************************************************************************)
Active(newChunk) == IF newChunk THEN current ELSE local

CallAt(i) == IF Known(i) THEN calls[Position(i)]
                         ELSE [index |-> i, name |-> "", args |-> << >>]

Named(i, name) == name # "" /\ CallAt(i).name = ""

Updated(i, name, piece) ==
  [CallAt(i) EXCEPT !.name = IF Named(i, name) THEN name ELSE @,
                    !.args = @ \o When(piece # "", piece)]

Put(i, call) == IF Known(i) THEN [calls EXCEPT ![Position(i)] = call]
                            ELSE Append(calls, call)

\* Broken: a call is remembered once it has a name.
StoreNamed(i, name, piece) ==
  calls' = IF Updated(i, name, piece).name = "" THEN calls
                                      ELSE Put(i, Updated(i, name, piece))

\* Broken: the piece goes to the call in progress, whatever its index.
StoreActive(i, name, piece) ==
  LET j == IF Known(i) /\ Known(current) THEN current ELSE i
  IN calls' = Put(j, Updated(j, name, piece))

Store(i, name, piece) == calls' = Put(i, Updated(i, name, piece))

Progress(i, name, piece) ==
  When(Named(i, name), Event("tool_start", name))
    \o When(piece # "", Event("tool_delta", Updated(i, name, piece).name))

\* Broken: the call before is not completed when a new one starts.
DeltaUnclosed(i, name, piece, newChunk) == Progress(i, name, piece)

Delta(i, name, piece, newChunk) ==
  When(~Known(i) /\ Active(newChunk) # NoIndex,
       Event("tool_complete", NameOf(Active(newChunk))))
    \o Progress(i, name, piece)

\* A fragment that brings nothing to a known call changes nothing.
Fragment(i, name, piece, newChunk) ==
  /\ pc = "streaming" /\ ~finished
  /\ Len(log) < MaxFragments
  /\ log = << >> => newChunk
  /\ name # "" \/ piece # "" \/ ~Known(i)
  /\ log' = Append(log, [index |-> i, name |-> name, piece |-> piece,
                         newChunk |-> newChunk])
  /\ Store(i, name, piece)
  /\ out' = out \o Delta(i, name, piece, newChunk)
  /\ current' = IF out' = out THEN current ELSE i
  /\ local' = IF Known(i) THEN Active(newChunk) ELSE i
  /\ UNCHANGED <<pc, finished, result>>

\* A finish_reason, alone or after the fragments of its chunk.
Finish ==
  /\ pc = "streaming" /\ ~finished
  /\ finished' = TRUE
  /\ out' = out \o When(current # NoIndex,
                        Event("tool_complete", NameOf(current)))
  /\ UNCHANGED <<pc, calls, current, local, result, log>>

(***************************************************************************)
(* The end: _extract_landing_result, or an exception.                      *)
(***************************************************************************)
IsValue(args) == args = <<"value">>

\* The calls whose arguments parse, at their places in the dict.
Contents == [k \in {k \in DOMAIN calls : IsObject(calls[k].args)} |->
               [tool |-> calls[k].name, content |-> calls[k].args]]

\* Broken: the exception is swallowed.
FailSilently ==
  /\ pc \in {"open", "streaming"}
  /\ pc' = "error"
  /\ UNCHANGED <<calls, current, local, finished, out, result, log>>

\* OpenAIError or any other exception of the request or the stream.
Fail ==
  /\ pc \in {"open", "streaming"}
  /\ pc' = "error"
  /\ out' = Append(out, Event("error", ""))
  /\ UNCHANGED <<calls, current, local, finished, result, log>>

\* args.get raises for a JSON value that is not an object.
End ==
  /\ pc = "streaming"
  /\ ~\E k \in DOMAIN calls : IsValue(calls[k].args)
  /\ pc' = "done"
  /\ result' = Apply(Contents)
  /\ out' = Append(out, Event("done", ""))
  /\ UNCHANGED <<calls, current, local, finished, log>>

Next ==
  \/ OpenStream \/ Finish \/ Fail \/ End
  \/ \E i \in Indices, name \in Names \cup {""}, piece \in Pieces \cup {""},
        newChunk \in BOOLEAN : Fragment(i, name, piece, newChunk)

Spec == Init /\ [][Next]_vars

-----------------------------------------------------------------------------
(***************************************************************************)
(* Properties.                                                             *)
(***************************************************************************)

\* The lookups tool_calls[current_index] never raise a KeyError, whatever the
\* order of indices, the names and the chunks: the generator learns an index
\* only with an event, but then the call is already in the dict.
NoKeyError == \A i \in {current, local} \ {NoIndex} : Known(i)

Contract == INSTANCE LlmStream WITH open <- pc \in {"open", "streaming"}

\* The service keeps the contract of the plugin interface: whatever chunks and
\* exceptions come, the stream ends with one "done" or one "error".
ContractSpec == Contract!Spec

\* A fragment of call log[k].index has brought the name by the n-th fragment.
NamedBy(k, n) ==
  \E j \in 1 .. n : log[j].index = log[k].index /\ log[j].name # ""

IsFirst(k) == \A j \in 1 .. k - 1 : log[j].index # log[k].index

\* What the service needs from the provider: one call after the other; each
\* named before its arguments and before the next call or the finish; and a name
\* that comes late not in one chunk with the start of the next call, where
\* _on_delta has not noticed the call it names.
WellFormed ==
  /\ \A j, k \in DOMAIN log :
       log[j].index = log[k].index =>
         \A m \in j .. k : log[m].index = log[k].index
  /\ \A k \in DOMAIN log :
       /\ log[k].piece # "" => NamedBy(k, k)
       /\ finished \/ log[k].index # log[Len(log)].index => NamedBy(k, Len(log))
       /\ k > 1 /\ IsFirst(k) /\ ~log[k].newChunk =>
            \E j \in 1 .. k - 1 : /\ log[j].index = log[k - 1].index
                                  /\ IsFirst(j) /\ log[j].name # ""

\* From such a provider a client can show its progress: starts, pieces and
\* completions are paired tool by tool, however the fragments fall into chunks
\* and even when the name comes after the first fragment; and after the finish
\* no tool is left open.
EventsPaired ==
  WellFormed =>
    /\ Contract!Paired(out)
    /\ finished /\ log # << >> =>
         \E k \in DOMAIN out : /\ out[k].type = "tool_complete"
                               /\ \A m \in k + 1 .. Len(out) :
                                    out[m].type \in Contract!FinalTypes

\* Reference definition, from the fragments alone: the name of call i is the
\* first one that came for it, its arguments are its pieces in order.
NamesFor(i)  == {k \in DOMAIN log : log[k].index = i /\ log[k].name # ""}
PiecesFor(i) == {k \in DOMAIN log : log[k].index = i /\ log[k].piece # ""}

Nth(n, places) == CHOOSE k \in places : Cardinality(places \cap (1 .. k)) = n

ToolOf(i) == IF NamesFor(i) = {} THEN "" ELSE log[Nth(1, NamesFor(i))].name

TextOf(i) == [n \in 1 .. Cardinality(PiecesFor(i)) |->
                log[Nth(n, PiecesFor(i))].piece]

\* Call i appeared before call j.
Before(i, j) ==
  \E k \in DOMAIN log : log[k].index = i /\ \A m \in 1 .. k : log[m].index # j

\* The landing is spelled by the fragments, even interleaved ones: a field has
\* exactly the joined pieces of the last call of its tool that is whole, and is
\* empty only when there is none.
ResultFaithful ==
  pc = "done" =>
    \A f \in Fields :
      LET whole == {i \in Indices : ToolOf(i) = f /\ IsObject(TextOf(i))}
      IN IF whole = {} THEN result[f] = << >>
         ELSE \E i \in whole : /\ result[f] = TextOf(i)
                               /\ \A j \in whole \ {i} : Before(j, i)
=============================================================================
