---------------------------- MODULE MCAgentRuntime -----------------------------
(* AgentRuntime with the relay and the dialogue engine, in the order main     *)
(* registers them, and two messages that mention the agent.                   *)
EXTENDS AgentRuntime

CONSTANTS relay, dialogue
RelayAndDialogue == <<relay, dialogue>>
TwoMentions == {1, 2}
=============================================================================
