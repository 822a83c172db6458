--------------------------- MODULE MCAsyncRequests ---------------------------
(* AsyncRequests with a short queue. *)
EXTENDS AsyncRequests
=============================================================================
