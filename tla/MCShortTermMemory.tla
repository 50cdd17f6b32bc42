-------------------------- MODULE MCShortTermMemory ---------------------------
(* ShortTermMemory with the mentions of one chat.                             *)
EXTENDS ShortTermMemory

CONSTANT dm
OneChat == [m \in Mentions |-> dm]
=============================================================================
