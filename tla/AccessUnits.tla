----------------------------- MODULE AccessUnits -----------------------------
(***************************************************************************)
(* Assembly of type-2 packets into H.264 access units, as operators on an  *)
(* assembler record: class FrameAssembler of ip-liveview/protocol.py and   *)
(* g3_frame_* of ip-liveview/c/protocol.c.                                 *)
(*                                                                         *)
(* A packet is a record with the fields frame, n_parts, part and h264.     *)
(***************************************************************************)
EXTENDS Integers

CONSTANT MaxPartsC     \* G3_MAX_PARTS

NoFrame == -1          \* frame = None / frame = -1
NoAU == [x \in {} |-> x]

\* Both clients keep received parts by number; a repeated part replaces the old.
Store(parts, pkt) ==
  [i \in DOMAIN parts \cup {pkt.part} |->
     IF i = pkt.part THEN pkt.h264 ELSE parts[i]]

\* Mutant: a new frame index leaves the parts of the old frame in place.
SwitchKeepsParts(a, pkt) ==
  [a EXCEPT !.frame = pkt.frame, !.n_parts = pkt.n_parts]

\* A new frame index drops the parts held so far.
Switch(a, pkt) ==
  IF a.frame # pkt.frame
    THEN [parts |-> NoAU, frame |-> pkt.frame, n_parts |-> pkt.n_parts]
    ELSE a

Filled(a, pkt) == [a EXCEPT !.parts = Store(@, pkt)]

Complete(a) == 0 .. a.n_parts - 1 \subseteq DOMAIN a.parts

AU(a) == [i \in 0 .. a.n_parts - 1 |-> a.parts[i]]

\* FrameAssembler.push: the assembler and the access unit it returns.
push(a, pkt) ==
  IF pkt.n_parts <= 0
    THEN [asm |-> a, au |-> NoAU]
    ELSE LET f == Filled(Switch(a, pkt), pkt)
         IN  IF Complete(f)
               THEN [asm |-> [f EXCEPT !.parts = NoAU], au |-> AU(f)]
               ELSE [asm |-> f, au |-> NoAU]

\* g3_frame_push.  Completed parts are freed one by one up to n_parts; parts
\* stored beyond n_parts (by a packet with a larger count) stay.
g3_frame_push(a, pkt) ==
  IF pkt.n_parts <= 0 \/ pkt.n_parts > MaxPartsC \/ pkt.part >= pkt.n_parts
    THEN [asm |-> a, au |-> NoAU]
    ELSE LET f == Filled(Switch(a, pkt), pkt)
             left == [i \in DOMAIN f.parts \ (0 .. f.n_parts - 1) |-> f.parts[i]]
         IN  IF Complete(f)
               THEN [asm |-> [f EXCEPT !.parts = left], au |-> AU(f)]
               ELSE [asm |-> f, au |-> NoAU]

\* FrameAssembler() and g3_frame_init.
NewAssembler == [parts |-> NoAU, frame |-> NoFrame, n_parts |-> 0]

\* receiver.py on a stall: assembler.parts.clear() and nothing else.
StallPy(a) == [a EXCEPT !.parts = NoAU]

\* g3lv.c on a stall: g3_frame_clear and g3_frame_init.
StallC(a) == NewAssembler
=============================================================================
