---------------------------- MODULE MCVideoOutput ----------------------------
(* Model-checking instances of VideoOutput: a queue of one chunk and two     *)
(* player processes, whose identities are reused once they are dead.         *)
EXTENDS VideoOutput
=============================================================================
