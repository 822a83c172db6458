------------------------------ MODULE MCWiiIpc ------------------------------
(* Instances of WiiIpc for TLC; all constants are given in the cfg. *)
EXTENDS WiiIpc
=============================================================================
