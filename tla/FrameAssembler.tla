--------------------------- MODULE FrameAssembler ----------------------------
(***************************************************************************)
(* Access-unit assembly of the two liveview clients, fed with the same     *)
(* type-2 packets: class FrameAssembler of ip-liveview/protocol.py and     *)
(* g3_frame_* of ip-liveview/c/protocol.c, with the stall handling of      *)
(* receiver.py and g3lv.c.                                                 *)
(*                                                                         *)
(* Frame id (unbounded, ghost) travels as the 8-bit index id % FrameMod;   *)
(* part p travels as the 6-bit field p % PartMod.                          *)
(***************************************************************************)
EXTENDS AccessUnits

CONSTANTS FrameMod,     \* values of the frame index byte (256)
          PartMod,      \* values of the part field (64)
          MaxParts,     \* bound: parts of a frame
          MaxFrames,    \* bound: frames sent in a behaviour
          FrameLife     \* packets of the newest FrameLife frames may arrive

FrameAssumption ==
  /\ FrameMod \in Nat \ {0} /\ PartMod \in Nat \ {0}
  /\ MaxPartsC \in Nat /\ MaxParts \in Nat /\ MaxFrames \in Nat \ {0}
  /\ FrameLife \in Nat \ {0}

VARIABLES py,       \* FrameAssembler of the Python client
          c,        \* G3Frame of the C client
          outPy,    \* what the last packet made the Python client emit
          outC,     \* what it made the C client emit
          newest,   \* ghost: newest frame the goggles sent
          heard,    \* ghost: frame of the last packet that arrived
          np,       \* ghost: number of parts of every frame
          run,      \* ghost: its parts that arrived with no other frame in between
          done,     \* ghost: frames emitted by the Python client
          mixed     \* ghost: clients that take packets for the frame heard before,
                    \* whose index comes again

vars == <<py, c, outPy, outC, newest, heard, np, run, done, mixed>>

Clients == {"py", "c"}

Ids == 1 .. MaxFrames
Payload == Ids \X (0 .. MaxParts)

\* parse_video / g3_parse_video on the packet that carries part p of frame id.
Packet(id, p) ==
  [frame |-> id % FrameMod, n_parts |-> np[id], part |-> p % PartMod,
   h264 |-> <<id, p>>]

Whole(id) == [i \in 0 .. np[id] - 1 |-> <<id, i>>]

Init ==
  /\ np \in [Ids -> 0 .. MaxParts]
  /\ newest = 1 /\ heard = 1
  /\ py = NewAssembler /\ c = NewAssembler
  /\ outPy = NoAU /\ outC = NoAU
  /\ run = {}
  /\ done = {} /\ mixed = {}

\* The goggles start the next frame, whether the clients hear of it or not.  Between
\* two packets there may be more than a round of frame numbers (4 s): after a stall,
\* and after a socket that failed, when nothing clears the assemblers
\* (receiver.py:274-276, 301-303, 337-339; g3lv.c:329, 346).
NextFrame ==
  /\ newest < MaxFrames
  /\ newest' = newest + 1
  /\ outPy' = NoAU /\ outC' = NoAU
  /\ UNCHANGED <<py, c, heard, np, run, done, mixed>>

\* Part p of frame id, a first copy or a duplicate or a retransmission, reaches
\* both clients.
Deliver(id, p) ==
  /\ id <= newest /\ id > newest - FrameLife
  /\ p < np[id] \/ p = 0
  /\ LET rp == push(py, Packet(id, p))
         rc == g3_frame_push(c, Packet(id, p))
     IN  /\ py' = rp.asm /\ outPy' = rp.au
         /\ c' = rc.asm /\ outC' = rc.au
         /\ done' = IF rp.au = NoAU THEN done ELSE done \cup {id}
  /\ heard' = IF np[id] > 0 THEN id ELSE heard
  /\ run' = IF np[id] = 0 THEN run ELSE IF id = heard THEN run \cup {p} ELSE {p}
  /\ mixed' = IF np[id] = 0 THEN mixed
              ELSE {x \in Clients :
                      /\ (IF x = "py" THEN py ELSE c).frame = id % FrameMod
                      /\ id # heard \/ x \in mixed}
  /\ UNCHANGED <<newest, np>>

\* No video for video_timeout.  The Python client keeps the index and the number of
\* parts of the frame heard last.
Stall ==
  /\ py' = StallPy(py)
  /\ c' = StallC(c)
  /\ outPy' = NoAU /\ outC' = NoAU
  /\ run' = {}
  /\ mixed' = mixed \ {"c"}
  /\ UNCHANGED <<newest, heard, np, done>>

Next ==
  \/ NextFrame
  \/ \E id \in Ids, p \in 0 .. MaxParts : Deliver(id, p)
  \/ Stall

Spec == Init /\ [][Next]_vars
-----------------------------------------------------------------------------
AssemblerOK(a) ==
  /\ a.frame \in {NoFrame} \cup 0 .. FrameMod - 1
  /\ a.n_parts \in 0 .. MaxParts
  /\ DOMAIN a.parts \subseteq 0 .. PartMod - 1
  /\ \A i \in DOMAIN a.parts : a.parts[i] \in Payload

FrameTypeOK ==
  /\ AssemblerOK(py) /\ AssemblerOK(c)
  /\ newest \in Ids /\ heard \in Ids
  /\ done \subseteq Ids /\ mixed \subseteq Clients

\* An emitted access unit is all parts of one frame, in order: late and
\* duplicated parts of other frames never end up in it.  The one exception is a frame
\* with the index of the frame heard just before, a round of indices later, as
\* nothing tells the two apart; a stall between them spares the C client that.
AccessUnitsAreWhole ==
  /\ ("py" \notin mixed /\ outPy # NoAU) => \E id \in Ids : outPy = Whole(id)
  /\ ("c" \notin mixed /\ outC # NoAU) => \E id \in Ids : outC = Whole(id)

\* docs/02-ip-liveview.md:14: the Python client is "the same protocol": for the
\* same packets both clients emit the same access units, but for such a frame.
ClientsAgree == mixed = {} => outPy = outC

\* A frame whose parts all arrived without a part of another frame or a stall in
\* between has been emitted, whatever came before and however often and in which
\* order they came, if its part numbers fit the 6-bit field.
FullFramesAreEmitted ==
  ("py" \notin mixed /\ np[heard] \in 1 .. PartMod /\ run = 0 .. np[heard] - 1) =>
    heard \in done

\* The assemblers are well-typed, what they emit is whole and the same, and no
\* frame that came in one piece is missing.
FrameInv == FrameTypeOK /\ AccessUnitsAreWhole /\ ClientsAgree /\ FullFramesAreEmitted
=============================================================================
