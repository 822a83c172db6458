--------------------------- MODULE MCBlockingLoop ---------------------------
(* BlockingLoop with a thread that starts and uses it and one that stops it: model values stand for them. *)
EXTENDS BlockingLoop
=============================================================================
