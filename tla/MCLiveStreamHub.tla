--------------------------- MODULE MCLiveStreamHub ---------------------------
(* Model-checking instance of LiveStreamHub: an input queue of one entry,    *)
(* viewers' queues of two and room for one of two viewers, so that a handful *)
(* of access units overflows each queue, an overflow is emptied in more than *)
(* one step, and the limit on viewers is met.                                *)
EXTENDS LiveStreamHub
=============================================================================
