---------------------------- MODULE LeaseContract ----------------------------
(***************************************************************************)
(* What the kext promises about the gadget description: an accessory is    *)
(* visible only while something is in charge of taking it away again, a    *)
(* running lease or an operation in progress.                              *)
(***************************************************************************)
VARIABLES visible,   \* the controller presents an accessory
          covered    \* a lease runs or an operation is in progress

Init == visible = FALSE /\ covered = FALSE

Acquire  == ~covered /\ covered' = TRUE /\ UNCHANGED visible
Show     == covered /\ visible' = TRUE /\ UNCHANGED covered
Withdraw == covered /\ visible' = FALSE /\ UNCHANGED covered
Release  == covered /\ ~visible /\ covered' = FALSE /\ UNCHANGED visible

Next == Acquire \/ Show \/ Withdraw \/ Release

Spec == Init /\ [][Next]_<<visible, covered>>
=============================================================================
