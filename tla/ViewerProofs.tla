----------------------------- MODULE ViewerProofs ------------------------------
(***************************************************************************)
(* Proofs about the way of the video behind the liveview socket: the       *)
(* assembly of packets into access units in both clients (FrameAssembler), *)
(* for every size of the frame and part numbers that satisfies             *)
(* FrameAssumption, and the desktop viewer (LiveApp), for every size of    *)
(* its queues.                                                             *)
(***************************************************************************)
EXTENDS MCViewer, TLAPS
-----------------------------------------------------------------------------
(* Frames *)

\* A remainder is smaller than the modulus and not larger than the number.
LEMMA ModFacts ==
  ASSUME NEW m \in Nat \ {0}, NEW x \in Nat
  PROVE  /\ x % m \in 0 .. m - 1 /\ x % m <= x
         /\ x < m => x % m = x
  OBVIOUS

\* Parts of frame id, each under the number that travels with it.
PartsOf(P, id) ==
  /\ P = [i \in DOMAIN P |-> P[i]]
  /\ \A i \in DOMAIN P : \E q \in 0 .. np[id] - 1 : i = q % PartMod /\ P[i] = <<id, q>>

LEMMA NoParts == \A id : PartsOf(F!NoAU, id) /\ DOMAIN F!NoAU = {}
  BY DEF PartsOf, F!NoAU

\* One more part of the same frame.
LEMMA StoreParts ==
  ASSUME NEW P, NEW id \in F!Ids, NEW p \in 0 .. np[id] - 1, PartsOf(P, id)
  PROVE  /\ PartsOf(F!Store(P, F!Packet(id, p)), id)
         /\ DOMAIN F!Store(P, F!Packet(id, p)) = DOMAIN P \cup {p % PartMod}
<1> DEFINE pkt == F!Packet(id, p)
<1>1. pkt.part = p % PartMod /\ pkt.h264 = <<id, p>>
  BY DEF F!Packet
<1> HIDE DEF pkt
<1>2. F!Store(P, pkt) = [i \in DOMAIN P \cup {pkt.part} |->
                         IF i = pkt.part THEN pkt.h264 ELSE P[i]]
  BY DEF F!Store
<1> QED
  BY <1>1, <1>2 DEF PartsOf, pkt

\* As many parts as the frame has are all of its parts, and nothing else.
LEMMA WholeParts ==
  ASSUME NEW P, NEW id \in F!Ids, np[id] \in Nat \ {0}, PartsOf(P, id),
         0 .. np[id] - 1 \subseteq DOMAIN P
  PROVE  /\ [i \in 0 .. np[id] - 1 |-> P[i]] = F!Whole(id) /\ F!Whole(id) # F!NoAU
         /\ DOMAIN P \ (0 .. np[id] - 1) = {}
<1>1. PartMod \in Nat \ {0}
  BY FramesAssumption DEF F!FrameAssumption
<1>2. \A q \in 0 .. np[id] - 1 : /\ q % PartMod \in 0 .. PartMod - 1
                                 /\ q % PartMod <= q
                                 /\ q < PartMod => q % PartMod = q
  <2> TAKE q \in 0 .. np[id] - 1
  <2>1. q \in Nat
    OBVIOUS
  <2> QED
    BY <1>1, <2>1, ModFacts
<1>3. DOMAIN P \subseteq (0 .. np[id] - 1) \cap (0 .. PartMod - 1)
  BY <1>1, <1>2 DEF PartsOf
<1>4. np[id] <= PartMod
  <2>1. np[id] - 1 \in DOMAIN P
    OBVIOUS
  <2> QED
    BY <1>1, <1>3, <2>1
<1>5. \A i \in 0 .. np[id] - 1 : P[i] = <<id, i>>
  BY <1>1, <1>2, <1>4 DEF PartsOf
<1>6. 0 \in DOMAIN F!Whole(id)
  BY DEF F!Whole
<1> QED
  BY <1>3, <1>5, <1>6, NoParts DEF F!Whole

\* An assembler, with the index of the frame heard last.
Shape(a) ==
  /\ a = [parts |-> a.parts, frame |-> a.frame, n_parts |-> a.n_parts]
  /\ a.frame \in {F!NoFrame, heard % FrameMod}
  /\ F!AssemblerOK(a)

\* It holds parts of the frame heard last, or waits for a frame.
Holds(a) ==
  /\ PartsOf(a.parts, heard)
  /\ a.frame = F!NoFrame => a.parts = F!NoAU
  /\ a.frame # F!NoFrame => a.n_parts = np[heard] /\ np[heard] > 0

Position ==
  /\ np \in [F!Ids -> 0 .. MaxParts]
  /\ newest \in F!Ids /\ heard \in F!Ids

\* What client x holds, unless the same index has come twice.
Sound(x, a) ==
  /\ Shape(a)
  /\ x \in mixed => a.frame # F!NoFrame
  /\ x \notin mixed => Holds(a)

\* Both clients hold the same parts of the frame heard last, among them those that
\* came in one piece, unless it is done.
FrameInd ==
  /\ Position /\ mixed \subseteq F!Clients
  /\ Sound("py", py) /\ Sound("c", c)
  /\ mixed = {} => c.parts = py.parts
  /\ run \subseteq 0 .. np[heard] - 1
  /\ ("py" \notin mixed /\ np[heard] <= PartMod /\ heard \notin done) =>
       run \subseteq DOMAIN py.parts
  /\ done \subseteq F!Ids
  /\ F!AccessUnitsAreWhole /\ F!ClientsAgree /\ F!FullFramesAreEmitted

\* What an assembler keeps when a packet of frame id comes.
Held(a, id) == IF a.frame = id % FrameMod THEN a.parts ELSE F!NoAU

\* The assembler that held the parts P of frame id and has taken in part p, and what
\* that leaves and emits.
Got(P, id, p) ==
  [parts |-> F!Store(P, F!Packet(id, p)), frame |-> id % FrameMod, n_parts |-> np[id]]

After(f) ==
  IF F!Complete(f) THEN [asm |-> [f EXCEPT !.parts = F!NoAU], au |-> F!AU(f)]
  ELSE [asm |-> f, au |-> F!NoAU]

\* Whatever is held, a packet leaves an assembler with its index.
LEMMA PushShape ==
  ASSUME NEW a, Shape(a), Position, NEW id \in F!Ids, NEW p \in 0 .. np[id] - 1,
         MaxParts <= MaxPartsC, NEW r,
         r = F!push(a, F!Packet(id, p)).asm \/ r = F!g3_frame_push(a, F!Packet(id, p)).asm
  PROVE  /\ r = [parts |-> r.parts, frame |-> id % FrameMod, n_parts |-> r.n_parts]
         /\ id % FrameMod \in 0 .. FrameMod - 1 /\ F!AssemblerOK(r)
<1> DEFINE pkt == F!Packet(id, p)
           b == F!Switch(a, pkt)
           f == F!Filled(b, pkt)
<1>0. /\ pkt.frame = id % FrameMod /\ pkt.n_parts = np[id] /\ pkt.part = p % PartMod
      /\ pkt.h264 = <<id, p>>
  BY DEF F!Packet
<1>1. /\ FrameMod \in Nat \ {0} /\ PartMod \in Nat \ {0} /\ id \in Nat /\ p \in Nat
      /\ np[id] \in 0 .. MaxParts /\ MaxParts \in Nat /\ MaxPartsC \in Nat /\ p < np[id]
      /\ p \in 0 .. MaxParts
  BY FramesAssumption DEF F!FrameAssumption, Position, F!Ids
<1>2. /\ id % FrameMod \in 0 .. FrameMod - 1
      /\ p % PartMod \in 0 .. PartMod - 1 /\ p % PartMod <= p
  BY <1>1, ModFacts
<1>3. <<id, p>> \in F!Payload
  BY <1>1 DEF F!Payload
<1> HIDE DEF pkt
<1>4. /\ b = [parts |-> b.parts, frame |-> id % FrameMod, n_parts |-> b.n_parts]
      /\ b.parts \in {a.parts, F!NoAU} /\ b.n_parts \in {a.n_parts, np[id]}
  BY <1>0 DEF F!Switch, Shape
<1>5. /\ b.n_parts \in 0 .. MaxParts /\ DOMAIN b.parts \subseteq 0 .. PartMod - 1
      /\ \A i \in DOMAIN b.parts : b.parts[i] \in F!Payload
  BY <1>1, <1>4, NoParts DEF Shape, F!AssemblerOK
<1> HIDE DEF b
<1>6. f = [parts |-> F!Store(b.parts, pkt), frame |-> id % FrameMod, n_parts |-> b.n_parts]
  BY <1>4 DEF F!Filled
<1>7. /\ DOMAIN f.parts \subseteq 0 .. PartMod - 1
      /\ \A i \in DOMAIN f.parts : f.parts[i] \in F!Payload
  BY <1>0, <1>2, <1>3, <1>5, <1>6 DEF F!Store
<1> HIDE DEF f
<1>8. ASSUME NEW P, DOMAIN P \subseteq DOMAIN f.parts,
             \A i \in DOMAIN P : P[i] \in F!Payload,
             r = [f EXCEPT !.parts = P]
      PROVE  /\ r = [parts |-> r.parts, frame |-> id % FrameMod, n_parts |-> r.n_parts]
             /\ F!AssemblerOK(r)
  <2>1. r = [parts |-> P, frame |-> id % FrameMod, n_parts |-> b.n_parts]
    BY <1>6, <1>8
  <2>2. r.parts = P /\ r.frame = id % FrameMod /\ r.n_parts = b.n_parts
    BY <2>1
  <2>3. F!AssemblerOK(r)
    BY <1>2, <1>5, <1>7, <1>8, <2>2 DEF F!AssemblerOK
  <2> QED
    BY <2>1, <2>2, <2>3
<1>9. CASE r = f
  <2>1. f = [f EXCEPT !.parts = f.parts]
    BY <1>6
  <2> QED
    BY <1>2, <1>7, <1>8, <1>9, <2>1
<1>10. CASE r = [f EXCEPT !.parts = F!NoAU]
  BY <1>2, <1>8, <1>10, NoParts
<1>11. CASE r = [f EXCEPT !.parts =
                   [i \in DOMAIN f.parts \ (0 .. f.n_parts - 1) |-> f.parts[i]]]
  <2> DEFINE left == [i \in DOMAIN f.parts \ (0 .. f.n_parts - 1) |-> f.parts[i]]
  <2>1. DOMAIN left \subseteq DOMAIN f.parts /\ \A i \in DOMAIN left : left[i] \in F!Payload
    BY <1>7
  <2>2. r = [f EXCEPT !.parts = left]
    BY <1>11
  <2> HIDE DEF left
  <2> QED
    BY <1>2, <1>8, <2>1, <2>2
<1>12. ~(pkt.n_parts <= 0)
  BY <1>0, <1>1
<1>13. ~(pkt.n_parts > MaxPartsC) /\ ~(pkt.part >= pkt.n_parts)
  BY <1>0, <1>1, <1>2
<1>14. \/ r = f \/ r = [f EXCEPT !.parts = F!NoAU]
       \/ r = [f EXCEPT !.parts =
                 [i \in DOMAIN f.parts \ (0 .. f.n_parts - 1) |-> f.parts[i]]]
  <2>1. CASE r = F!push(a, pkt).asm
    BY <1>12, <2>1 DEF F!push, f, b
  <2>2. CASE r = F!g3_frame_push(a, pkt).asm
    BY <1>12, <1>13, <2>2 DEF F!g3_frame_push, f, b
  <2> QED
    BY <2>1, <2>2 DEF pkt
<1> QED
  BY <1>2, <1>9, <1>10, <1>11, <1>14

\* A packet whose index is not the one held, or whose frame is the one held.
LEMMA SwitchFacts ==
  ASSUME NEW a, Shape(a), NEW id \in F!Ids, NEW p,
         a.frame = id % FrameMod => a.n_parts = np[id]
  PROVE  F!Filled(F!Switch(a, F!Packet(id, p)), F!Packet(id, p)) = Got(Held(a, id), id, p)
<1> DEFINE pkt == F!Packet(id, p)
           b == [parts |-> Held(a, id), frame |-> id % FrameMod, n_parts |-> np[id]]
<1>1. pkt.frame = id % FrameMod /\ pkt.n_parts = np[id]
  BY DEF F!Packet
<1> HIDE DEF pkt
<1>2. F!Switch(a, pkt) = b
  BY <1>1 DEF F!Switch, Shape, Held
<1>3. F!Filled(b, pkt) = [parts |-> F!Store(b.parts, pkt), frame |-> id % FrameMod,
                        n_parts |-> np[id]]
  BY DEF F!Filled
<1> QED
  BY <1>2, <1>3 DEF Got, pkt

\* Both clients do the same with a part, whatever they held before, if that was of the
\* same frame.
LEMMA PushFacts ==
  ASSUME NEW a, Shape(a), Position, MaxParts <= MaxPartsC,
         NEW id \in F!Ids, NEW p \in 0 .. np[id] - 1,
         a.frame = id % FrameMod => a.n_parts = np[id], PartsOf(Held(a, id), id)
  PROVE  /\ F!push(a, F!Packet(id, p)) = After(Got(Held(a, id), id, p))
         /\ F!g3_frame_push(a, F!Packet(id, p)) = After(Got(Held(a, id), id, p))
         /\ PartsOf(Got(Held(a, id), id, p).parts, id)
         /\ DOMAIN Got(Held(a, id), id, p).parts = DOMAIN Held(a, id) \cup {p % PartMod}
         /\ F!Complete(Got(Held(a, id), id, p)) =>
              F!AU(Got(Held(a, id), id, p)) = F!Whole(id) /\ F!Whole(id) # F!NoAU
<1> DEFINE pkt == F!Packet(id, p)
           Q == Held(a, id)
           f == Got(Q, id, p)
<1>0. pkt.n_parts = np[id] /\ pkt.part = p % PartMod
  BY DEF F!Packet
<1>1. /\ np[id] \in Nat \ {0} /\ np[id] <= MaxPartsC /\ MaxPartsC \in Nat
      /\ PartMod \in Nat \ {0} /\ p \in Nat /\ p < np[id]
  BY FramesAssumption DEF F!FrameAssumption, Position
<1>2. p % PartMod \in Nat /\ p % PartMod < np[id]
  <2>1. p \in Nat /\ PartMod \in Nat \ {0}
    BY <1>1
  <2>2. p % PartMod \in 0 .. PartMod - 1 /\ p % PartMod <= p
    BY ONLY <2>1, ModFacts
  <2> QED
    BY <1>1, <2>2
<1>3. F!Filled(F!Switch(a, pkt), pkt) = f
  BY SwitchFacts
<1>4. PartsOf(Q, id)
  OBVIOUS
<1>5. f = [parts |-> F!Store(Q, pkt), frame |-> id % FrameMod, n_parts |-> np[id]]
  BY DEF Got
<1>6. f.parts = F!Store(Q, pkt) /\ f.n_parts = np[id]
  BY <1>5
<1> HIDE DEF Q, f
<1>7. PartsOf(f.parts, id) /\ DOMAIN f.parts = DOMAIN Q \cup {p % PartMod}
  <2>1. PartsOf(F!Store(Q, pkt), id) /\ DOMAIN F!Store(Q, pkt) = DOMAIN Q \cup {p % PartMod}
    BY <1>4, StoreParts, Zenon
  <2> QED
    BY <1>6, <2>1
<1>8. F!Complete(f) => /\ F!AU(f) = F!Whole(id) /\ F!Whole(id) # F!NoAU
                     /\ DOMAIN f.parts \ (0 .. f.n_parts - 1) = {}
  <2>1. CASE F!Complete(f)
    <3>1. 0 .. np[id] - 1 \subseteq DOMAIN f.parts
      BY <1>6, <2>1 DEF F!Complete
    <3>2. F!AU(f) = [i \in 0 .. np[id] - 1 |-> f.parts[i]]
      BY <1>6 DEF F!AU
    <3> QED
      BY <1>1, <1>6, <1>7, <3>1, <3>2, WholeParts
  <2> QED
    BY <2>1
<1>9. F!push(a, pkt) = After(f)
  BY <1>0, <1>1, <1>3 DEF F!push, After
<1>10. F!g3_frame_push(a, pkt) = After(f)
  <2> DEFINE left == [i \in DOMAIN f.parts \ (0 .. f.n_parts - 1) |-> f.parts[i]]
  <2>1. ~(pkt.n_parts <= 0 \/ pkt.n_parts > MaxPartsC \/ pkt.part >= pkt.n_parts)
    BY <1>0, <1>1, <1>2
  <2>2. F!g3_frame_push(a, pkt) =
          IF F!Complete(f) THEN [asm |-> [f EXCEPT !.parts = left], au |-> F!AU(f)]
          ELSE [asm |-> f, au |-> F!NoAU]
    BY <1>3, <2>1 DEF F!g3_frame_push
  <2>3. F!Complete(f) => left = F!NoAU
    BY <1>8 DEF F!NoAU
  <2> QED
    BY <2>2, <2>3 DEF After
<1> QED
  BY <1>7, <1>8, <1>9, <1>10 DEF f, Q

\* A client that does not mix two frames held nothing but parts of this one.
LEMMA HeldFacts ==
  ASSUME NEW x \in F!Clients, NEW a, Sound(x, a), NEW id \in F!Ids,
         ~(a.frame = id % FrameMod /\ (id # heard \/ x \in mixed)), Position
  PROVE  /\ PartsOf(Held(a, id), id)
         /\ a.frame = id % FrameMod => a.n_parts = np[id]
         /\ id = heard => x \notin mixed /\ Held(a, id) = a.parts
         /\ id # heard => Held(a, id) = F!NoAU
<1>1. FrameMod \in Nat \ {0} /\ id \in Nat
  BY FramesAssumption DEF F!FrameAssumption, F!Ids
<1>2. id % FrameMod # F!NoFrame
  BY <1>1, ModFacts DEF F!NoFrame
<1>3. CASE a.frame = id % FrameMod
  <2>1. id = heard /\ x \notin mixed /\ Holds(a)
    BY <1>3 DEF Sound
  <2> QED
    BY <1>2, <1>3, <2>1 DEF Holds, Held
<1>4. CASE a.frame # id % FrameMod
  <2>1. Held(a, id) = F!NoAU /\ PartsOf(F!NoAU, id)
    BY <1>4, NoParts DEF Held
  <2>2. id = heard => a.frame = F!NoFrame
    BY <1>4 DEF Sound, Shape
  <2>3. id = heard => x \notin mixed /\ a.parts = F!NoAU
    BY <2>2 DEF Sound, Holds
  <2> QED
    BY <1>4, <2>1, <2>3
<1> QED
  BY <1>3, <1>4

LEMMA FrameStep ==
  ASSUME MaxParts <= MaxPartsC, FrameInd, [F!Next]_(F!vars)
  PROVE  FrameInd'
<1>0. /\ FrameMod \in Nat \ {0} /\ PartMod \in Nat \ {0} /\ MaxFrames \in Nat
      /\ MaxParts \in Nat /\ Position /\ newest \in Nat /\ heard \in Nat
      /\ newest \in F!Ids /\ heard \in F!Ids /\ np[heard] \in 0 .. MaxParts
  BY FramesAssumption DEF F!FrameAssumption, FrameInd, Position, F!Ids
<1> USE DEF Sound
<1>1. CASE UNCHANGED F!vars
  <2>1. UNCHANGED <<py, c, outPy, outC, newest, heard, np, run, done, mixed>>
    BY <1>1 DEF F!vars
  <2>2. Position' /\ Sound("py", py)' /\ Sound("c", c)'
    BY <2>1 DEF FrameInd, Position, PartsOf, Shape, Holds, F!AssemblerOK
  <2>3. F!AccessUnitsAreWhole' /\ F!ClientsAgree' /\ F!FullFramesAreEmitted'
    BY <2>1, Zenon DEF FrameInd, F!AccessUnitsAreWhole, F!ClientsAgree,
       F!FullFramesAreEmitted, F!Whole
  <2> QED
    BY <2>1, <2>2, <2>3 DEF FrameInd
<1>2. CASE F!NextFrame
  <2>1. /\ newest' \in F!Ids /\ outPy' = F!NoAU /\ outC' = F!NoAU
        /\ UNCHANGED <<py, c, heard, np, run, done, mixed>>
    BY <1>0, <1>2 DEF F!NextFrame, F!Ids
  <2>2. Position'
    BY <1>0, <2>1 DEF Position
  <2> QED
    BY <2>1, <2>2, Zenon DEF FrameInd, PartsOf, Shape, Holds, F!AssemblerOK,
       F!AccessUnitsAreWhole, F!ClientsAgree, F!FullFramesAreEmitted
<1>3. CASE F!Stall
  <2>1. /\ UNCHANGED <<newest, heard, np, done>> /\ outPy' = F!NoAU /\ outC' = F!NoAU
        /\ run' = {} /\ mixed' = mixed \ {"c"}
        /\ py' = [py EXCEPT !.parts = F!NoAU] /\ c' = F!NewAssembler
    BY <1>3 DEF F!Stall, F!StallPy, F!StallC
  <2>2. Position'
    BY <1>0, <2>1 DEF Position
  <2>3. py' = [parts |-> F!NoAU, frame |-> py.frame, n_parts |-> py.n_parts]
    BY <2>1 DEF FrameInd, Shape
  <2>4. PartsOf(F!NoAU, heard)'
    BY DEF PartsOf, F!NoAU
  <2>5. Shape(py)'
    <3>1. F!AssemblerOK(py)'
      BY <2>3, NoParts DEF FrameInd, Shape, F!AssemblerOK
    <3> QED
      BY <2>1, <2>3, <3>1 DEF FrameInd, Shape
  <2>6. Sound("py", py)'
    BY <2>1, <2>3, <2>4, <2>5 DEF FrameInd, Holds
  <2>7. Shape(c)'
    BY <1>0, <2>1, NoParts DEF Shape, F!AssemblerOK, F!NewAssembler
  <2>8. Sound("c", c)'
    BY <2>1, <2>4, <2>7 DEF Holds, F!NewAssembler
  <2>9. c'.parts = py'.parts /\ run' \subseteq DOMAIN py'.parts
    BY <2>1, <2>3 DEF F!NewAssembler
  <2>10. F!FullFramesAreEmitted'
    <3>1. np[heard] \in 1 .. PartMod => 0 \in 0 .. np[heard] - 1
      BY <1>0
    <3> QED
      BY <2>1, <3>1, Zenon DEF F!FullFramesAreEmitted
  <2>11. F!AccessUnitsAreWhole' /\ F!ClientsAgree' /\ done' \subseteq F!Ids
    BY <2>1 DEF F!AccessUnitsAreWhole, F!ClientsAgree, FrameInd
  <2>12. run' \subseteq 0 .. np'[heard'] - 1 /\ mixed' \subseteq F!Clients
    BY <2>1 DEF FrameInd
  <2> QED
    BY <2>2, <2>6, <2>8, <2>9, <2>10, <2>11, <2>12 DEF FrameInd
<1>4. ASSUME NEW id \in F!Ids, NEW p \in 0 .. MaxParts, F!Deliver(id, p) PROVE FrameInd'
  <2>0. /\ p < np[id] \/ p = 0
        /\ np[id] \in 0 .. MaxParts /\ UNCHANGED <<newest, np>>
    BY <1>0, <1>4 DEF F!Deliver, Position
  <2>1. CASE np[id] = 0
    <3>1. F!Packet(id, p).n_parts <= 0
      BY <2>1 DEF F!Packet
    <3>2. /\ F!push(py, F!Packet(id, p)) = [asm |-> py, au |-> F!NoAU]
          /\ F!g3_frame_push(c, F!Packet(id, p)) = [asm |-> c, au |-> F!NoAU]
      BY <3>1 DEF F!push, F!g3_frame_push
    <3>3. UNCHANGED <<py, c, heard, run, done, mixed>> /\ outPy' = F!NoAU /\ outC' = F!NoAU
      BY <1>4, <2>1, <3>2 DEF F!Deliver
    <3> QED
      BY <2>0, <3>3, Zenon DEF FrameInd, Position, PartsOf, Shape, Holds, F!AssemblerOK,
         F!AccessUnitsAreWhole, F!ClientsAgree, F!FullFramesAreEmitted
  <2>2. CASE np[id] # 0
    <3> DEFINE rp == F!push(py, F!Packet(id, p))
               rc == F!g3_frame_push(c, F!Packet(id, p))
               f == Got(Held(py, id), id, p)
               g == Got(Held(c, id), id, p)
    <3>1. np[id] > 0 /\ p \in 0 .. np[id] - 1 /\ p \in Nat
      BY <2>0, <2>2
    <3>2. /\ heard' = id /\ run' = (IF id = heard THEN run \cup {p} ELSE {p})
          /\ py' = rp.asm /\ c' = rc.asm /\ outPy' = rp.au /\ outC' = rc.au
          /\ done' = IF rp.au = F!NoAU THEN done ELSE done \cup {id}
      BY <1>4, <2>2, <3>1 DEF F!Deliver
    <3>3. /\ mixed' \subseteq F!Clients
          /\ "py" \notin mixed' =>
               ~(py.frame = id % FrameMod /\ (id # heard \/ "py" \in mixed))
          /\ "c" \notin mixed' =>
               ~(c.frame = id % FrameMod /\ (id # heard \/ "c" \in mixed))
      <4>1. mixed' = {x \in F!Clients :
                        /\ (IF x = "py" THEN py ELSE c).frame = id % FrameMod
                        /\ id # heard \/ x \in mixed}
        BY <1>4, <2>2, <3>1 DEF F!Deliver
      <4>2. "py" \in F!Clients /\ "c" \in F!Clients /\ "c" # "py"
        BY DEF F!Clients
      <4> QED
        BY <4>1, <4>2
    <3>4. Shape(py)' /\ Shape(c)' /\ py'.frame # F!NoFrame /\ c'.frame # F!NoFrame
      <4>1. Shape(py) /\ Shape(c)
        BY DEF FrameInd
      <4>2. /\ py' = [parts |-> py'.parts, frame |-> id % FrameMod, n_parts |-> py'.n_parts]
            /\ id % FrameMod \in 0 .. FrameMod - 1 /\ F!AssemblerOK(py')
        BY <1>0, <3>1, <3>2, <4>1, PushShape
      <4>3. /\ c' = [parts |-> c'.parts, frame |-> id % FrameMod, n_parts |-> c'.n_parts]
            /\ F!AssemblerOK(c')
        BY <1>0, <3>1, <3>2, <4>1, PushShape
      <4>4. F!AssemblerOK(py)' /\ F!AssemblerOK(c)'
        BY <4>2, <4>3 DEF F!AssemblerOK
      <4>5. py'.frame = id % FrameMod /\ c'.frame = id % FrameMod
        BY <4>2, <4>3
      <4> QED
        BY <1>0, <3>2, <4>2, <4>3, <4>4, <4>5 DEF Shape, F!NoFrame
    <3>5. "py" \notin mixed' => /\ rp = After(f) /\ PartsOf(f.parts, id)
                                /\ DOMAIN f.parts = DOMAIN Held(py, id) \cup {p % PartMod}
                                /\ F!Complete(f) => F!AU(f) = F!Whole(id) /\ F!Whole(id) # F!NoAU
                                /\ id = heard => "py" \notin mixed /\ Held(py, id) = py.parts
                                /\ id # heard => Held(py, id) = F!NoAU
      <4>1. ASSUME "py" \notin mixed'
            PROVE  /\ PartsOf(Held(py, id), id)
                   /\ py.frame = id % FrameMod => py.n_parts = np[id]
                   /\ id = heard => "py" \notin mixed /\ Held(py, id) = py.parts
                   /\ id # heard => Held(py, id) = F!NoAU
        <5>1. "py" \in F!Clients /\ Sound("py", py)
          BY DEF F!Clients, FrameInd
        <5> QED
          BY <1>0, <3>3, <4>1, <5>1, HeldFacts
      <4>2. Shape(py)
        BY DEF FrameInd
      <4> QED
        BY <1>0, <3>1, <4>1, <4>2, PushFacts
    <3>6. "c" \notin mixed' => /\ rc = After(g) /\ PartsOf(g.parts, id)
                               /\ F!Complete(g) => F!AU(g) = F!Whole(id) /\ F!Whole(id) # F!NoAU
                               /\ id = heard => "c" \notin mixed /\ Held(c, id) = c.parts
                               /\ id # heard => Held(c, id) = F!NoAU
      <4>1. ASSUME "c" \notin mixed'
            PROVE  /\ PartsOf(Held(c, id), id)
                   /\ c.frame = id % FrameMod => c.n_parts = np[id]
                   /\ id = heard => "c" \notin mixed /\ Held(c, id) = c.parts
                   /\ id # heard => Held(c, id) = F!NoAU
        <5>1. "c" \in F!Clients /\ Sound("c", c)
          BY DEF F!Clients, FrameInd
        <5> QED
          BY <1>0, <3>3, <4>1, <5>1, HeldFacts
      <4>2. Shape(c)
        BY DEF FrameInd
      <4> QED
        BY <1>0, <3>1, <4>1, <4>2, PushFacts
    <3>7. mixed' = {} => f = g
      <4>1. ASSUME mixed' = {} PROVE Held(py, id) = Held(c, id)
        <5>1. CASE id # heard
          BY <3>5, <3>6, <4>1, <5>1
        <5>2. CASE id = heard
          <6>1. /\ "py" \notin mixed /\ "c" \notin mixed
                /\ Held(py, id) = py.parts /\ Held(c, id) = c.parts
            BY <3>5, <3>6, <4>1, <5>2
          <6>2. mixed = {}
            BY <6>1 DEF FrameInd, F!Clients
          <6> QED
            BY <6>1, <6>2 DEF FrameInd
        <5> QED
          BY <5>1, <5>2
      <4> QED
        BY <4>1
    <3>8. /\ f = [parts |-> f.parts, frame |-> id % FrameMod, n_parts |-> np[id]]
          /\ g = [parts |-> g.parts, frame |-> id % FrameMod, n_parts |-> np[id]]
      BY DEF Got
    <3> HIDE DEF f, g, rp, rc
    <3>9. ASSUME NEW h, NEW r, r = After(h), PartsOf(h.parts, id),
                 h = [parts |-> h.parts, frame |-> id % FrameMod, n_parts |-> np[id]]
          PROVE  /\ r.asm.n_parts = np[id] /\ r.asm.parts \in {h.parts, F!NoAU}
                 /\ PartsOf(r.asm.parts, id)
      <4>1. CASE F!Complete(h)
        <5>1. r.asm = [h EXCEPT !.parts = F!NoAU]
          BY <3>9, <4>1 DEF After
        <5>2. r.asm = [parts |-> F!NoAU, frame |-> id % FrameMod, n_parts |-> np[id]]
          BY <3>9, <5>1
        <5> QED
          BY <5>2, NoParts
      <4>2. CASE ~F!Complete(h)
        <5>1. r.asm = h
          BY <3>9, <4>2 DEF After
        <5>2. h.n_parts = np[id]
          BY <3>9
        <5> QED
          BY <3>9, <5>1, <5>2
      <4> QED
        BY <4>1, <4>2
    <3>10. Sound("py", py)'
      <4>1. ASSUME "py" \notin mixed' PROVE Holds(py)'
        <5>1. py'.n_parts = np[id] /\ PartsOf(py'.parts, id)
          BY <3>2, <3>5, <3>8, <3>9, <4>1
        <5>2. PartsOf(py.parts, heard)'
          BY <2>0, <3>2, <5>1 DEF PartsOf
        <5> QED
          BY <2>0, <3>1, <3>2, <3>4, <5>1, <5>2 DEF Holds
      <4> QED
        BY <3>4, <4>1
    <3>11. Sound("c", c)'
      <4>1. ASSUME "c" \notin mixed' PROVE Holds(c)'
        <5>1. c'.n_parts = np[id] /\ PartsOf(c'.parts, id)
          BY <3>2, <3>6, <3>8, <3>9, <4>1
        <5>2. PartsOf(c.parts, heard)'
          BY <2>0, <3>2, <5>1 DEF PartsOf
        <5> QED
          BY <2>0, <3>1, <3>2, <3>4, <5>1, <5>2 DEF Holds
      <4> QED
        BY <3>4, <4>1
    <3>12. mixed' = {} => c' = py' /\ outPy' = outC'
      BY <3>2, <3>5, <3>6, <3>7
    <3>13. Position'
      BY <1>0, <2>0, <3>2 DEF Position
    <3>14. run' \subseteq 0 .. np[id] - 1
      BY <3>1, <3>2 DEF FrameInd
    <3>15. ("py" \notin mixed' /\ np[id] <= PartMod /\ id \notin done) =>
             run' \subseteq DOMAIN f.parts
      <4>1. p \in Nat /\ PartMod \in Nat \ {0}
        BY <1>0, <3>1
      <4>2. p < PartMod => p % PartMod = p
        BY ONLY <4>1, ModFacts
      <4>3. np[id] <= PartMod => p % PartMod = p
        BY <1>0, <2>0, <3>1, <4>2
      <4> QED
        BY <3>2, <3>5, <4>3 DEF FrameInd
    <3>16. F!AccessUnitsAreWhole'
      <4>1. ASSUME "py" \notin mixed', outPy' # F!NoAU PROVE outPy' = F!Whole(id)
        BY <3>2, <3>5, <4>1 DEF After
      <4>2. ASSUME "c" \notin mixed', outC' # F!NoAU PROVE outC' = F!Whole(id)
        BY <3>2, <3>6, <4>2 DEF After
      <4>3. F!Whole(id) = F!Whole(id)'
        BY <2>0 DEF F!Whole
      <4> QED
        BY <4>1, <4>2, <4>3, Zenon DEF F!AccessUnitsAreWhole, F!Ids
    <3>17. F!ClientsAgree'
      BY <3>12 DEF F!ClientsAgree
    <3>18. /\ ("py" \notin mixed' /\ np[id] <= PartMod /\ id \notin done') =>
                run' \subseteq DOMAIN py'.parts
           /\ F!FullFramesAreEmitted' /\ done' \subseteq F!Ids
      <4>1. CASE id \in done'
        BY <2>0, <3>2, <4>1 DEF F!FullFramesAreEmitted, FrameInd
      <4>2. CASE id \notin done' /\ "py" \notin mixed'
        <5>1. rp.au = F!NoAU /\ done' = done
          BY <3>2, <4>2
        <5>2. ~F!Complete(f)
          BY <3>5, <4>2, <5>1 DEF After
        <5>3. py' = f
          BY <3>2, <3>5, <4>2, <5>2 DEF After
        <5>4. ~(0 .. np[id] - 1 \subseteq DOMAIN f.parts)
          BY <3>8, <5>2 DEF F!Complete
        <5>5. F!FullFramesAreEmitted'
          BY <1>0, <2>0, <3>2, <3>15, <4>2, <5>1, <5>4 DEF F!FullFramesAreEmitted
        <5> QED
          BY <3>15, <4>2, <5>1, <5>3, <5>5 DEF FrameInd
      <4>3. CASE "py" \in mixed'
        BY <3>2, <4>3 DEF F!FullFramesAreEmitted, FrameInd
      <4> QED
        BY <4>1, <4>2, <4>3
    <3> QED
      BY <2>0, <3>2, <3>3, <3>10, <3>11, <3>12, <3>13, <3>14, <3>16, <3>17, <3>18
         DEF FrameInd
  <2> QED
    BY <2>1, <2>2
<1> QED
  BY <1>1, <1>2, <1>3, <1>4 DEF F!Next

LEMMA FrameStart == F!Init => FrameInd
<1> SUFFICES ASSUME F!Init PROVE FrameInd
  OBVIOUS
<1>1. /\ newest = 1 /\ heard = 1 /\ np \in [F!Ids -> 0 .. MaxParts] /\ run = {} /\ done = {}
      /\ py = F!NewAssembler /\ c = F!NewAssembler /\ outPy = F!NoAU /\ outC = F!NoAU
      /\ mixed = {}
  BY DEF F!Init
<1>2. Position /\ 0 \in Nat /\ MaxParts \in Nat
  BY <1>1, FramesAssumption DEF F!FrameAssumption, Position, F!Ids
<1>3. /\ F!NewAssembler = [parts |-> F!NoAU, frame |-> F!NoFrame, n_parts |-> 0]
      /\ F!AssemblerOK(F!NewAssembler)
  BY <1>2, NoParts DEF F!NewAssembler, F!AssemblerOK
<1>4. Shape(F!NewAssembler) /\ Holds(F!NewAssembler)
  BY <1>3, NoParts DEF Shape, Holds
<1>5. Sound("py", py) /\ Sound("c", c) /\ c.parts = py.parts
  BY <1>1, <1>4 DEF Sound
<1>6. F!AccessUnitsAreWhole /\ F!ClientsAgree
  BY <1>1 DEF F!AccessUnitsAreWhole, F!ClientsAgree
<1>7. F!FullFramesAreEmitted
  BY <1>1, FramesAssumption DEF F!FrameAssumption, F!FullFramesAreEmitted
<1> QED
  BY <1>1, <1>2, <1>5, <1>6, <1>7 DEF FrameInd

LEMMA FrameTypes == FrameInd => F!FrameTypeOK
  BY DEF FrameInd, Position, Sound, Shape, F!FrameTypeOK

\* Whatever is lost, repeated, late or reordered, both clients emit the same access
\* units, each of which is one frame, and none of a frame that came in one piece is
\* missing: for frames that the C client has room for, and while the index of the
\* frame heard last does not come again for another frame, however long the silence.
THEOREM FramesAreWhole ==
  ASSUME MaxParts <= MaxPartsC
  PROVE  F!Spec => []FrameInv
<1>1. FrameInd /\ [F!Next]_(F!vars) => FrameInd'
  BY FrameStep
<1>2. FrameInd => FrameInv
  BY FrameTypes DEF FrameInd, FrameInv, F!FrameInv
<1> QED
  BY <1>1, <1>2, FrameStart, PTL DEF F!Spec
-----------------------------------------------------------------------------
(* The viewer *)

\* What the queues hold.  Frames come out of them in the order of their numbers.
Queues ==
  /\ events \in Seq(Phases) /\ Len(events) <= EventsSize
  /\ h264_q \in Seq(Nat) /\ Len(h264_q) <= H264Size
  /\ yuv_q \in Seq(Nat) /\ Len(yuv_q) <= 1
  /\ sphase \in Phases /\ phase \in Phases \cup {"stalled"}

Window ==
  /\ proc \in Procs \cup {None} /\ target \in Procs \cup {None}
  /\ held \in [Stoppers -> Procs \cup {None}]
  /\ procs \in [Procs -> {"run", "exited", "closed"}]

\* Units that wait are newer than the newest frame decoded, and older than the one the
\* engine is publishing.
Upstream ==
  /\ n \in Nat /\ latest \in Nat /\ latest <= n
  /\ \A i \in 1 .. Len(h264_q) : latest < h264_q[i] /\ h264_q[i] <= n
  /\ epc = "publish" =>
       latest < n /\ \A i \in 1 .. Len(h264_q) : h264_q[i] < n

\* While the decoder has a new frame in hand, what it has put before is older; once it
\* has taken that out, nobody else fills the place.
Downstream ==
  /\ frame \in Nat /\ frame <= latest
  /\ yuv_q # <<>> => yuv_q[1] > frame /\ yuv_q[1] <= latest
  /\ dpc = "get" /\ yuv_q # <<>> => yuv_q[1] = latest
  /\ dpc \in {"put", "swap", "again"} =>
       frame < latest /\ (yuv_q # <<>> => yuv_q[1] < latest)
  /\ dpc = "again" => yuv_q = <<>>
  /\ dpc \in {"get", "put", "swap", "again", "dead"}

ViewerInd == Queues /\ Window /\ Upstream /\ Downstream

LEMMA ViewerInit == Init => ViewerInd
<1> SUFFICES ASSUME Init PROVE ViewerInd
  OBVIOUS
<1>1. Queues
  BY AppAssumption DEF Init, InitAt, Queues, Phases
<1>2. Window
  BY DEF Init, InitAt, Window
<1>3. Upstream /\ Downstream
  BY DEF Init, InitAt, Upstream, Downstream
<1> QED
  BY <1>1, <1>2, <1>3 DEF ViewerInd

LEMMA OneFrame ==
  ASSUME NEW s \in Seq(Nat), Len(s) <= 1, s # <<>>
  PROVE  s = <<s[1]>> /\ Head(s) = s[1]
<1>1. Len(s) \in Nat /\ Len(s) # 0 /\ DOMAIN s = 1 .. Len(s)
  OBVIOUS
<1>2. Len(s) = 1
  BY <1>1
<1>3. s = [i \in 1 .. 1 |-> s[i]]
  BY <1>1, <1>2
<1> QED
  BY <1>2, <1>3

LEMMA QueuesStep ==
  ASSUME ViewerInd, [Next]_vars
  PROVE  Queues'
<1> USE DEF engine, decoder, player, tk, window
<1>0. /\ Queues /\ n \in Nat /\ latest \in Nat /\ EventsSize \in Nat \ {0}
      /\ H264Size \in Nat \ {0}
  BY AppAssumption DEF ViewerInd, Upstream
<1>1. CASE UNCHANGED <<events, h264_q, yuv_q, sphase, phase>>
  BY <1>0, <1>1 DEF Queues
<1>2. ASSUME NEW e \in Phases, emit(e), sphase' \in Phases,
             UNCHANGED <<h264_q, yuv_q, phase>>
      PROVE  Queues'
  <2>1. \/ Len(events) < EventsSize /\ events' = Append(events, e)
        \/ UNCHANGED events
    BY <1>2 DEF emit
  <2>2. events \in Seq(Phases) /\ Len(events) <= EventsSize
    BY <1>0 DEF Queues
  <2>3. events' \in Seq(Phases) /\ Len(events') <= EventsSize
    <3>1. CASE Len(events) < EventsSize /\ events' = Append(events, e)
      <4>1. events' \in Seq(Phases) /\ Len(events') = Len(events) + 1
        BY <2>2, <3>1
      <4> QED
        BY <1>0, <2>2, <3>1, <4>1
    <3> QED
      BY <2>1, <2>2, <3>1
  <2> QED
    BY <1>0, <1>2, <2>3 DEF Queues
<1>3. ASSUME NEW u \in Nat, Enqueue(u), UNCHANGED <<events, yuv_q, sphase, phase>>
      PROVE  Queues'
  BY <1>0, <1>3 DEF Enqueue, Queues
<1>4. CASE EmitDrops
  BY <1>0, <1>4 DEF EmitDrops, Queues
<1>5. ASSUME NEW p \in Phases, SessionChanges(p) PROVE Queues'
  <2>1. /\ emit(p) /\ sphase' \in Phases /\ UNCHANGED <<h264_q, yuv_q, phase>>
    BY <1>5 DEF SessionChanges
  <2> QED
    BY <1>2, <2>1
<1>6. CASE SessionReports
  <2>1. /\ emit(sphase) /\ sphase' = sphase /\ UNCHANGED <<h264_q, yuv_q, phase>>
    BY <1>6 DEF SessionReports
  <2> QED
    BY <1>0, <1>2, <2>1 DEF Queues
<1>7. CASE EmitFrame
  <2>1. /\ Enqueue(n + 1) \/ UNCHANGED h264_q
        /\ UNCHANGED <<events, yuv_q, sphase, phase>>
    BY <1>7 DEF EmitFrame, Enqueue
  <2> QED
    BY <1>0, <1>1, <1>3, <2>1
<1>8. CASE Published
  <2>1. Enqueue(n) /\ UNCHANGED <<events, yuv_q, sphase, phase>>
    BY <1>8 DEF Published
  <2> QED
    BY <1>0, <1>3, <2>1
<1>9. CASE Decode
  BY <1>0, <1>9 DEF Decode, Queues
<1>10. CASE Put
  <2>1. /\ yuv_q' \in {yuv_q, <<>>, <<latest>>}
        /\ UNCHANGED <<events, h264_q, sphase, phase>>
    BY <1>10 DEF Put
  <2>2. \A x \in Nat : <<x>> \in Seq(Nat) /\ Len(<<x>>) = 1
    OBVIOUS
  <2>3. <<>> \in Seq(Nat) /\ Len(<<>>) = 0
    OBVIOUS
  <2>4. yuv_q \in Seq(Nat) /\ Len(yuv_q) <= 1
    BY <1>0 DEF Queues
  <2>5. yuv_q' \in Seq(Nat) /\ Len(yuv_q') <= 1
    <3>1. CASE yuv_q' = yuv_q
      BY <2>4, <3>1
    <3>2. CASE yuv_q' = <<>>
      BY <2>3, <3>2
    <3>3. CASE yuv_q' = <<latest>>
      BY <1>0, <2>2, <3>3
    <3> QED
      BY <2>1, <3>1, <3>2, <3>3
  <2> QED
    BY <1>0, <2>1, <2>5 DEF Queues
<1>11. CASE PlayerGet
  BY <1>0, <1>11 DEF PlayerGet, Queues
<1>12. CASE Pump
  <2>1. /\ UNCHANGED <<h264_q, yuv_q, sphase>>
        /\ \/ UNCHANGED <<events, phase>>
           \/ events # <<>> /\ events' = Tail(events) /\ phase' = Head(events)
    BY <1>12 DEF Pump
  <2>2. events \in Seq(Phases) /\ Len(events) <= EventsSize
    BY <1>0 DEF Queues
  <2>3. CASE events # <<>> /\ events' = Tail(events) /\ phase' = Head(events)
    <3>1. /\ events' \in Seq(Phases) /\ Len(events') = Len(events) - 1
          /\ phase' \in Phases /\ Len(events) \in Nat
      BY <2>2, <2>3
    <3> QED
      BY <1>0, <2>1, <2>2, <3>1 DEF Queues
  <2> QED
    BY <1>0, <1>1, <2>1, <2>3
<1>13. CASE PumpStall
  <2>1. /\ UNCHANGED <<events, h264_q, yuv_q, sphase>> /\ phase' \in {phase, "stalled"}
    BY <1>13 DEF PumpStall
  <2> QED
    BY <1>0, <2>1 DEF Queues
<1> QED
  BY <1>1, <1>4, <1>5, <1>6, <1>7, <1>8, <1>9, <1>10, <1>11, <1>12, <1>13
     DEF Next, PlayerStep, TkStep, Ensure, Spawn, Check, Write, Broken,
     TkStops, Closed, PumpAgain, close, FrameAges, ProcessExits, vars

LEMMA WindowStep ==
  ASSUME ViewerInd, [Next]_vars
  PROVE  Window'
<1> USE DEF engine, decoder, player, tk, window
<1>0. Window /\ None \notin Procs
  BY AppAssumption DEF ViewerInd
<1>1. CASE UNCHANGED <<proc, target, held, procs>>
  BY <1>0, <1>1 DEF Window
<1>2. ASSUME NEW a \in Stoppers, StopTake(a), UNCHANGED <<proc, procs>>,
             target' \in {target, None}
      PROVE  Window'
  BY <1>0, <1>2 DEF StopTake, Window
<1>3. ASSUME NEW a \in Stoppers, StopClear(a), UNCHANGED target
      PROVE  Window'
  BY <1>0, <1>3 DEF StopClear, Window
<1>4. "player" \in Stoppers /\ "tk" \in Stoppers
  BY DEF Stoppers
<1>5. CASE Ensure
  <2>1. /\ UNCHANGED target
        /\ \/ UNCHANGED <<proc, held, procs>>
           \/ StopTake("player") /\ UNCHANGED <<proc, procs>>
           \/ StopClear("player")
    BY <1>5 DEF Ensure
  <2> QED
    BY <1>1, <1>2, <1>3, <1>4, <2>1
<1>6. CASE Spawn
  <2>1. CASE Unused # {} /\ target' = CHOOSE p \in Unused : TRUE
    <3>1. target' \in Procs
      BY <2>1 DEF Unused
    <3>2. UNCHANGED held /\ proc' \in {proc, target}
          /\ procs' \in {procs, [procs EXCEPT ![target'] = "run"]}
      BY <1>6 DEF Spawn
    <3> QED
      BY <1>0, <3>1, <3>2 DEF Window
  <2>2. CASE proc' = target /\ target' = None /\ UNCHANGED <<procs, held>>
    BY <1>0, <2>2 DEF Window
  <2> QED
    BY <1>6, <2>1, <2>2 DEF Spawn
<1>7. CASE Check
  BY <1>0, <1>7 DEF Check, Window
<1>8. CASE Write
  <2>1. /\ target' = None /\ UNCHANGED <<proc, procs>>
        /\ UNCHANGED held \/ StopTake("player")
    BY <1>8 DEF Write
  <2> QED
    BY <1>0, <1>2, <1>4, <2>1 DEF Window
<1>9. CASE Broken
  BY <1>3, <1>4, <1>9 DEF Broken
<1>10. CASE Pump \/ PumpStall \/ close
  <2>1. /\ UNCHANGED <<proc, procs, target>>
        /\ UNCHANGED held \/ StopTake("tk")
    BY <1>10 DEF Pump, PumpStall, close, show_idle
  <2> QED
    BY <1>1, <1>2, <1>4, <2>1
<1>11. CASE TkStops \/ Closed
  BY <1>3, <1>4, <1>11 DEF TkStops, Closed
<1>12. CASE ProcessExits
  BY <1>0, <1>12 DEF ProcessExits, Window
<1> QED
  BY <1>1, <1>5, <1>6, <1>7, <1>8, <1>9, <1>10, <1>11, <1>12
     DEF Next, PlayerStep, TkStep, EmitDrops, SessionChanges, SessionReports,
     EmitFrame, Published, Decode, Put, PlayerGet, PumpAgain, FrameAges,
     vars

LEMMA UpstreamStep ==
  ASSUME ViewerInd, [Next]_vars
  PROVE  Upstream'
<1> USE DEF engine, decoder, player, tk, window
<1>0. Upstream /\ h264_q \in Seq(Nat)
  BY DEF ViewerInd, Queues
<1>1. CASE UNCHANGED <<n, latest, h264_q>> /\ (epc' = "publish" => epc = "publish")
  BY <1>0, <1>1 DEF Upstream
<1>2. CASE EmitFrame
  <2>1. /\ n' = n + 1 /\ latest' = latest /\ epc = "run"
        /\ \/ UNCHANGED h264_q
           \/ Enqueue(n + 1) /\ epc' = "run"
    BY <1>2 DEF EmitFrame, Enqueue
  <2> QED
    BY <1>0, <2>1, SMTT(30) DEF Enqueue, Upstream
<1>3. CASE Published
  <2>1. Enqueue(n) /\ epc = "publish" /\ epc' = "run" /\ UNCHANGED <<n, latest>>
    BY <1>3 DEF Published
  <2> QED
    BY <1>0, <2>1 DEF Enqueue, Upstream
<1>4. CASE Decode
  <2>1. /\ h264_q' = <<>> /\ UNCHANGED <<n, epc>>
        /\ latest' = latest \/ \E i \in 1 .. Len(h264_q) : latest' = h264_q[i]
    BY <1>0, <1>4 DEF Decode, ToSet
  <2> QED
    BY <1>0, <2>1 DEF Upstream
<1> QED
  BY <1>1, <1>2, <1>3, <1>4
     DEF Next, PlayerStep, TkStep, Ensure, Spawn, Check, Write, Broken,
     TkStops, Closed, PumpAgain, close, FrameAges, ProcessExits, vars,
     EmitDrops, SessionChanges, SessionReports, emit, Put, PlayerGet, Pump,
     PumpStall

LEMMA DownstreamStep ==
  ASSUME ViewerInd, [Next]_vars
  PROVE  Downstream'
<1> USE DEF engine, decoder, player, tk, window
<1>0. /\ Downstream /\ Upstream /\ yuv_q \in Seq(Nat) /\ Len(yuv_q) <= 1
      /\ h264_q \in Seq(Nat) /\ latest \in Nat /\ frame \in Nat
  BY DEF ViewerInd, Queues, Upstream, Downstream
<1>1. CASE UNCHANGED <<frame, latest, yuv_q>> /\ dpc' \in {dpc, "dead"}
  BY <1>0, <1>1 DEF Downstream
<1>2. CASE Decode
  <2>1. /\ UNCHANGED <<yuv_q, frame>> /\ dpc = "get"
        /\ \/ UNCHANGED <<latest, dpc>>
           \/ dpc' = "put" /\ \E i \in 1 .. Len(h264_q) : latest' = h264_q[i]
    BY <1>0, <1>2 DEF Decode, ToSet
  <2> QED
    BY <1>0, <2>1 DEF Upstream, Downstream
<1>3. CASE Put
  BY <1>0, <1>3 DEF Put, Downstream
<1>4. CASE PlayerGet
  <2>1. /\ yuv_q # <<>> /\ frame' = yuv_q[1] /\ yuv_q' = <<>> /\ UNCHANGED <<dpc, latest>>
    BY <1>0, <1>4 DEF PlayerGet
  <2> QED
    BY <1>0, <2>1 DEF Downstream
<1> QED
  BY <1>1, <1>2, <1>3, <1>4
     DEF Next, PlayerStep, TkStep, Ensure, Spawn, Check, Write, Broken,
     TkStops, Closed, PumpAgain, close, FrameAges, ProcessExits, vars,
     EmitDrops, SessionChanges, SessionReports, EmitFrame, Published, Pump,
     PumpStall

\* The queues of the viewer stay within their sizes, the frame that waits for the player
\* is the newest one decoded, and the player never goes back: for any sizes of the
\* queues, any number of ffplay processes, and whatever is dropped.
THEOREM ViewerIsSafe == Spec => []AppInv
<1>1. ViewerInd /\ [Next]_vars => ViewerInd'
  BY QueuesStep, WindowStep, UpstreamStep, DownstreamStep DEF ViewerInd
<1>2. ViewerInd => AppInv
  <2> SUFFICES ASSUME ViewerInd PROVE AppInv
    OBVIOUS
  <2>1. AppTypeOK
    BY DEF ViewerInd, Queues, Window, AppTypeOK
  <2>2. /\ Downstream
        /\ yuv_q # <<>> => yuv_q = <<yuv_q[1]>> /\ Head(yuv_q) = yuv_q[1]
    BY OneFrame DEF ViewerInd, Queues
  <2>3. LatestIsShown
    BY <2>2 DEF Downstream, LatestIsShown
  <2> QED
    BY <2>1, <2>3 DEF AppInv
<1> QED
  BY <1>1, <1>2, ViewerInit, PTL DEF Spec
==============================================================================
