--------------------------- MODULE MCMemoryPersist ----------------------------
(* MemoryPersist needs no constant that a configuration cannot write. *)
EXTENDS MemoryPersist
=============================================================================
