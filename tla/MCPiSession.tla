----------------------------- MODULE MCPiSession -----------------------------
(* Model-checking instance of PiSession: two identities for each kind of     *)
(* worker thread, so that an old and a new one can be alive together.        *)
EXTENDS PiSession
=============================================================================
