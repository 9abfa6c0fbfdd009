----------------------------- MODULE LlmFacade ------------------------------
(***************************************************************************)
(* LlmFacade.stream_landing: one landing, streamed by the plugin that the  *)
(* resolver picks.  The stream is that of module OpenAiStream or that of   *)
(* module AnthropicStream; a client of the facade cannot tell which.       *)
(*                                                                         *)
(* The facade is an async generator: nothing of it runs before the client  *)
(* asks for the first event, not even the choice of the plugin, and what   *)
(* the resolver raises leaves it there, inside the try of execute.         *)
(***************************************************************************)
EXTENDS OpenAiStream

CONSTANTS
  Plugins,    \* the registry of LlmFactory
  MaxChunks   \* bound: chunks in one stream of the Anthropic service

Providers == {"openai", "anthropic"}

ASSUME PluginAssumption == Plugins \subseteq Providers

VARIABLES
  plugin,                      \* the plugin that streams
  block, tool, message, chunks \* the state of the Anthropic service

openAi    == <<calls, current, local, finished, log>>
anthropic == <<block, tool, message, chunks>>

facadeVars == <<vars, anthropic, plugin>>

Anthropic == INSTANCE AnthropicStream WITH current <- tool

FacadeInit ==
  /\ Init
  /\ Anthropic!Init
  /\ plugin = "none"

\* LlmPluginResolver: its constructor wants the default in the registry;
\* without a name it is the default that is chosen.
Chosen(name, default) == IF name = "none" THEN default ELSE name

Resolve ==
  /\ plugin = "none"
  /\ \E default \in Providers, name \in Providers \cup {"none"} :
       plugin' = IF {default, Chosen(name, default)} \subseteq Plugins
                 THEN Chosen(name, default) ELSE "raised"
  /\ UNCHANGED <<vars, anthropic>>

\* The plugins and the facades behind them hand every event on.
StreamOpenAi ==
  plugin = "openai" /\ Next /\ UNCHANGED <<anthropic, plugin>>

StreamAnthropic ==
  plugin = "anthropic" /\ Anthropic!Next /\ UNCHANGED <<openAi, plugin>>

FacadeNext == Resolve \/ StreamOpenAi \/ StreamAnthropic

FacadeSpec == FacadeInit /\ [][FacadeNext]_facadeVars

-----------------------------------------------------------------------------
(***************************************************************************)
(* Properties; with those of the services (NoKeyError, ContractSpec).      *)
(***************************************************************************)
\* From the OpenAI plugin a client can show its progress if the provider sends
\* its fragments in order; with the Anthropic plugin it always can.
FragmentsPaired == plugin = "openai" => EventsPaired

\* Starts, pieces and completions of content blocks are paired tool by tool, text
\* blocks in between or not, until an exception ends the stream.
BlocksPaired == plugin = "anthropic" => Anthropic!EventsPaired

\* The landing of the OpenAI plugin is the one the fragments spell.
FragmentsSpell == plugin = "openai" => ResultFaithful
=============================================================================
