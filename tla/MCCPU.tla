-------------------------------- MODULE MCCPU --------------------------------
(* CPU has a fixed set of threads: model values stand for them. *)
EXTENDS CPU
=============================================================================
