---------------------------- MODULE MCMemoryCard ----------------------------
(* MemoryCard with a card of a few blocks. *)
EXTENDS MemoryCard
=============================================================================
