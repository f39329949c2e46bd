------------------------------- MODULE MCViewer -------------------------------
(* The way of the video behind the socket, one section in a behaviour: packets *)
(* to frames in both clients, and frames to the screen in the desktop viewer.  *)
EXTENDS LiveApp

CONSTANTS MaxPartsC, FrameMod, PartMod, MaxParts, MaxFrames, FrameLife

VARIABLES py, c, outPy, outC, newest, heard, np, run, done, mixed

VARIABLE part                                  \* "frames", "screen"

F == INSTANCE FrameAssembler

ASSUME FramesAssumption == F!FrameAssumption

frameVars == <<py, c, outPy, outC, newest, heard, np, run, done, mixed>>
MCVars == <<part, vars, frameVars>>

\* What does not take part is at rest: frames have no parts, and the viewer is closed.
MCInit ==
  /\ part \in {"frames", "screen"}
  /\ F!Init /\ (part = "screen" => np = [id \in F!Ids |-> 0])
  /\ IF part = "screen" THEN Init
     ELSE InitAt("dead", "dead", "dead", "done") /\ pub = "off"

MCNext ==
  \/ part = "frames" /\ F!Next /\ UNCHANGED <<part, vars>>
  \/ part = "screen" /\ Next /\ UNCHANGED <<part, frameVars>>

MCSpec == MCInit /\ [][MCNext]_MCVars /\ Fairness
-----------------------------------------------------------------------------
\* Units are whole frames, the same in both clients, and none that came in one piece
\* is missing, unless two frames with the same index are heard one after the other.
FrameInv == F!FrameInv
=============================================================================
