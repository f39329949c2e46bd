------------------------------ MODULE MCLiveview ------------------------------
(* The loss window on its own, and the session around it: WindowSpec moves    *)
(* the one, SessionSpec the other, and what does not move is at its beginning. *)
(* Window: 20 numbers, and a stream that starts four before the wrap; STALE :  *)
(* MAX_STEPS : M \div 2 keep the order of the code (256 < 512 < 4096 steps).   *)
(* Session: one destination, 12 numbers, timeouts of one and two ticks.        *)
EXTENDS LossWindow

CONSTANTS Clients, Dests, None, BindHost, Boost, MaxPartsC, TIMEOUT, HANDSHAKE, MaxVideo,
          MaxFlight

VARIABLES pc, sock, linked, joined, rtx, assembler, batch, resend, ackWin, client, mi04,
          videoAge, ctrlAge, ackAge, hsAge, boostAge, net, usb, asked, flight, newest,
          ack, hint

S == INSTANCE LiveviewSession

ASSUME ClientAssumption == S!SessionAssumption

sessionVars ==
  <<pc, sock, linked, joined, rtx, assembler, batch, resend, ackWin, client, mi04, videoAge,
    ctrlAge, ackAge, hsAge, boostAge, net, usb, asked, flight, newest, ack, hint>>
MCVars == <<vars, sessionVars>>

\* No cable is plugged in while the window moves.
WindowInit == Init /\ S!Init /\ client = "python" /\ net = {} /\ usb = FALSE
WindowNext == Next /\ UNCHANGED sessionVars
WindowSpec == WindowInit /\ [][WindowNext]_MCVars /\ Fairness

BothInit == Init /\ S!Init
SessionNext == S!Next /\ UNCHANGED vars
SessionSpec == BothInit /\ [][SessionNext]_MCVars
FairSessionSpec == SessionSpec /\ S!Fairness
-----------------------------------------------------------------------------
Wifi == <<"wifi">>
Wired == <<"wired">>

\* A stream has a link that is at least as fresh.
SessionInv == S!SessionInv

\* ACKs lead with the hole of their window, and ask for what was sent.
AckInv == S!AckInv

\* A linked session goes on sending.
KeepaliveFlows == S!KeepaliveFlows

\* A link that is lost comes back.
Relinks == S!Relinks

\* Video that stops is noticed.
StallsAreNoticed == S!StallsAreNoticed

\* The bitrate hint goes on when MI04 comes and goes.
HintKeepsFlowing == S!HintKeepsFlowing
=============================================================================
