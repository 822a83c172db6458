---------------------------- MODULE MCCoreTiming ----------------------------
(* CoreTiming with short slices and a few types of event. *)
EXTENDS CoreTiming

\* The user halves the clock rate of the guest, or doubles it.
SlowAndFast == {[num |-> 1, den |-> 2], [num |-> 2, den |-> 1]}
=============================================================================
