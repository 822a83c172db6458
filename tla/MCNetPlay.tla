----------------------------- MODULE MCNetPlay -----------------------------
(* NetPlay with two pads: two players, or two players and a spectator. *)
EXTENDS NetPlay

\* The host may change the two pads.
Swapped == {[i \in Pads |-> 2 - i]}

Unchanged == {}

Once == <<1>>
OnceThenTwice == <<1, 2>>
=============================================================================
