----------------------------- MODULE BulkFraming -----------------------------
(***************************************************************************)
(* Framing on the bulk pipe of the USB gadget, as the two endpoints undo   *)
(* it: VideoDeframer.feed and aoa.unwrap behind Session.read_bulk on the   *)
(* Pi, handle_frames behind the read loop of mac-usb/userspace/link.c.     *)
(* Both get the same transfers, cut anywhere.                              *)
(*                                                                         *)
(* A token stands for a few bytes: a frame is 0x55, 0xCC, a channel, a     *)
(* length and as many payload tokens.  A DUML packet starts with 0x55 too. *)
(***************************************************************************)
EXTENDS Integers, Sequences

CONSTANTS VideoPayloads, ControlPayloads,   \* what the goggles send, in tokens
          MaxItems,        \* bound: frames in a behaviour
          Garbage,         \* what may precede the first frame
          MAX_PAYLOAD,     \* longest video payload, in tokens
          MinControl,      \* shortest DUML packet (13 bytes), in tokens
          MaxControl,      \* longest one that aoa.unwrap accepts
          MaxLink,         \* longest payload that handle_frames accepts
          RxSize,          \* sizeof(g_rx), in tokens
          TransferSize     \* longest transfer (0x10000 bytes), in tokens

S55 == -1
SCC == -2
CH_VIDEO == -3
CH_AOA == -4
HEADER == 4        \* 8 bytes

VIDEO_MAGIC == <<S55, SCC, CH_VIDEO>>
AOA_MAGIC == <<S55, SCC, CH_AOA>>

\* Where a magic is in b.
Matches(b, magic) ==
  {i \in 1 .. Len(b) - Len(magic) + 1 :
     \A j \in 1 .. Len(magic) : b[i + j - 1] = magic[j]}

\* Payloads have the lengths that every parser accepts.  Noise has no magic in it:
\* no video magic in what the deframer skips, no control magic in what unwrap skips.
FramingAssumption ==
  /\ VideoPayloads \subseteq Seq(Int) /\ ControlPayloads \subseteq Seq(Int)
  /\ Garbage \subseteq Seq(Int)
  /\ MaxItems \in Nat /\ MAX_PAYLOAD \in Nat /\ MinControl \in Nat \ {0}
  /\ MaxControl \in Nat /\ MaxLink \in Nat /\ RxSize \in Nat /\ TransferSize \in Nat
  /\ MaxControl <= MAX_PAYLOAD /\ MAX_PAYLOAD <= MaxLink
  /\ \A p \in VideoPayloads : Len(p) \in 1 .. MAX_PAYLOAD /\ Matches(p, AOA_MAGIC) = {}
  /\ \A p \in ControlPayloads :
       Len(p) \in MinControl .. MaxControl /\ Matches(p, VIDEO_MAGIC) = {}
  /\ \A p \in Garbage : Matches(p, VIDEO_MAGIC) = {}

\* The link's buffer has room for a transfer behind an unfinished frame.
RxAssumption == HEADER + MAX_PAYLOAD - 1 + TransferSize <= RxSize

\* aoa.wrap, and the same for video.
wrap(channel, payload) == <<S55, SCC, channel, Len(payload)>> \o payload

VARIABLES
  start,            \* what precedes the first frame
  stream,           \* all that has been sent
  videos, controls, \* the frames in it: [at |-> tokens before it, body |-> payload]
  taken,            \* so much of the stream has been transferred
  pc,               \* "read", "video", "control", "link"
  data,             \* the transfer being handled
  buffer,           \* VideoDeframer._buffer
  control_buffer,   \* Session.control_buffer
  g_rx,             \* link.c
  replied,          \* link.c: the reply slot of this transfer is taken
  video, control,   \* Pi: payloads handled, packets recorded and answered
  linkVideo,        \* link.c: payloads handed to emit_video
  linkControl,      \* link.c: control frames seen
  linkReplies,      \* link.c: control frames answered
  cut               \* history: the transfers have cut a control frame, see Cuts

sent == <<start, stream, videos, controls>>
pi == <<buffer, control_buffer, video, control>>
link == <<g_rx, replied, linkVideo, linkControl, linkReplies>>
vars == <<sent, taken, pc, data, pi, link, cut>>

Init ==
  /\ start \in Garbage /\ stream = start
  /\ videos = <<>> /\ controls = <<>> /\ taken = 0
  /\ pc = "read" /\ data = <<>>
  /\ buffer = <<>> /\ control_buffer = <<>> /\ g_rx = <<>> /\ replied = FALSE
  /\ video = <<>> /\ control = <<>>
  /\ linkVideo = <<>> /\ linkControl = <<>> /\ linkReplies = <<>> /\ cut = FALSE

\* The end of a frame in the stream.
End(f) == f.at + HEADER + Len(f.body)
-----------------------------------------------------------------------------
(* One round of a deframing loop: what is left, what came out, go on or return *)

FirstMatch(b, magic) ==
  CHOOSE i \in Matches(b, magic) : \A j \in Matches(b, magic) : i <= j

LastTokens(b, k) == SubSeq(b, Len(b) - k + 1, Len(b))

\* Once the buffer begins with a magic: too short, bad length, incomplete, whole.
TakeFrame(b, lengths) ==
  IF Len(b) < HEADER
    THEN [left |-> b, out |-> <<>>, more |-> FALSE]
  ELSE IF b[HEADER] \notin lengths
    THEN [left |-> Tail(b), out |-> <<>>, more |-> TRUE]
  ELSE IF Len(b) < HEADER + b[HEADER]
    THEN [left |-> b, out |-> <<>>, more |-> FALSE]
    ELSE [left |-> SubSeq(b, HEADER + b[HEADER] + 1, Len(b)),
          out  |-> <<SubSeq(b, 1, HEADER + b[HEADER])>>, more |-> TRUE]

\* The Python loops; without a magic, what could be the beginning of one stays.
Resync(b, magic, lengths) ==
  IF Matches(b, magic) # {}
    THEN TakeFrame(SubSeq(b, FirstMatch(b, magic), Len(b)), lengths)
    ELSE [left |-> IF Len(b) > Len(magic) - 1 THEN LastTokens(b, Len(magic) - 1)
                   ELSE b,
          out  |-> <<>>, more |-> FALSE]

\* Mutant: the tail that is kept is one byte too short.
FeedKeepsTooLittle(b) ==
  IF Matches(b, VIDEO_MAGIC) # {} THEN Resync(b, VIDEO_MAGIC, 1 .. MAX_PAYLOAD)
  ELSE [left |-> IF Len(b) > 1 THEN LastTokens(b, 1) ELSE b,
        out |-> <<>>, more |-> FALSE]

\* VideoDeframer.feed
feed(b) == Resync(b, VIDEO_MAGIC, 1 .. MAX_PAYLOAD)

\* aoa.unwrap
unwrap(b) == Resync(b, AOA_MAGIC, MinControl .. MaxControl)

\* handle_frames: any channel; without 0x55 0xCC the whole buffer goes.
handle_frames(b) ==
  IF Len(b) < HEADER
    THEN [left |-> b, out |-> <<>>, more |-> FALSE]
  ELSE IF Matches(b, <<S55, SCC>>) # {}
    THEN TakeFrame(SubSeq(b, FirstMatch(b, <<S55, SCC>>), Len(b)), 1 .. MaxLink)
    ELSE [left |-> <<>>, out |-> <<>>, more |-> FALSE]

Body(f) == SubSeq(f, HEADER + 1, Len(f))

\* duml.parse accepts a packet: length and checksums are those of one that was
\* sent.
DumlParses(p) == \E i \in DOMAIN controls : p = controls[i].body
-----------------------------------------------------------------------------
\* The goggles send a frame.
SendVideo(payload) ==
  /\ pc = "read" /\ Len(videos) + Len(controls) < MaxItems
  /\ stream' = stream \o wrap(CH_VIDEO, payload)
  /\ videos' = Append(videos, [at |-> Len(stream), body |-> payload])
  /\ UNCHANGED <<start, controls, taken, pc, data, pi, link, cut>>

SendControl(payload) ==
  /\ pc = "read" /\ Len(videos) + Len(controls) < MaxItems
  /\ stream' = stream \o wrap(CH_AOA, payload)
  /\ controls' = Append(controls, [at |-> Len(stream), body |-> payload])
  /\ UNCHANGED <<start, videos, taken, pc, data, pi, link, cut>>

\* The next n tokens end inside a control frame, or they begin with what could be
\* the rest of a control magic: read_bulk may have skipped the transfer before.
Cuts(n) ==
  \/ \E i \in DOMAIN controls :
       controls[i].at < taken + n /\ taken + n < End(controls[i])
  \/ stream[taken + 1] = CH_AOA
  \/ n > 1 /\ stream[taken + 1] = SCC /\ stream[taken + 2] = CH_AOA

\* ep_read, and the read selector of link.c: the next transfer.  A full g_rx is
\* thrown away first.
Read(n) ==
  /\ pc = "read" /\ n <= TransferSize
  /\ cut' = (cut \/ Cuts(n))
  /\ data' = SubSeq(stream, taken + 1, taken + n)
  /\ taken' = taken + n
  /\ buffer' = buffer \o data'
  /\ g_rx' = IF Len(g_rx) + n > RxSize THEN data' ELSE g_rx \o data'
  /\ replied' = FALSE
  /\ pc' = "video"
  /\ UNCHANGED <<sent, control_buffer, video, control, linkVideo, linkControl,
                 linkReplies>>

\* read_bulk: the video deframer takes the transfer in any case, the control
\* buffer only if it has the control magic in it.
Feed ==
  /\ pc = "video"
  /\ LET r == feed(buffer)
         aoa == Matches(data, AOA_MAGIC) # {}
     IN  /\ buffer' = r.left
         /\ video' = video \o [i \in DOMAIN r.out |-> Body(r.out[i])]
         /\ control_buffer' = IF ~r.more /\ aoa THEN control_buffer \o data
                              ELSE control_buffer
         /\ pc' = IF r.more THEN "video" ELSE IF aoa THEN "control" ELSE "link"
  /\ UNCHANGED <<sent, taken, data, control, link, cut>>

\* Every packet that parses is recorded, and answered if it asks for identity.
Unwrap ==
  /\ pc = "control"
  /\ LET r == unwrap(control_buffer)
         packets == [i \in DOMAIN r.out |-> Body(r.out[i])]
     IN  /\ control_buffer' = r.left
         /\ control' = IF r.out # <<>> /\ DumlParses(packets[1])
                       THEN control \o packets ELSE control
         /\ pc' = IF r.more THEN "control" ELSE "link"
  /\ UNCHANGED <<sent, taken, data, buffer, video, link, cut>>

\* link.c: video goes to the player, one control frame per transfer is answered.
HandleFrames ==
  /\ pc = "link"
  /\ LET r == handle_frames(g_rx)
         isVideo == r.out # <<>> /\ r.out[1][3] = CH_VIDEO
         isControl == r.out # <<>> /\ ~isVideo
         bodies == [i \in DOMAIN r.out |-> Body(r.out[i])]
     IN  /\ g_rx' = r.left
         /\ linkVideo' = IF isVideo THEN linkVideo \o bodies ELSE linkVideo
         /\ linkControl' = IF isControl THEN linkControl \o bodies ELSE linkControl
         /\ linkReplies' = IF isControl /\ ~replied THEN linkReplies \o bodies
                           ELSE linkReplies
         /\ replied' = (replied \/ isControl)
         /\ pc' = IF r.more THEN "link" ELSE "read"
  /\ UNCHANGED <<sent, taken, data, pi, cut>>

Next ==
  \/ \E payload \in VideoPayloads : SendVideo(payload)
  \/ \E payload \in ControlPayloads : SendControl(payload)
  \/ \E n \in 1 .. Len(stream) - taken : Read(n)
  \/ Feed \/ Unwrap \/ HandleFrames

Spec == Init /\ [][Next]_vars
-----------------------------------------------------------------------------
\* Between two transfers, exactly the frames that have been transferred to their
\* last token have come out, whole and in order.
Received(out, frames) ==
  pc = "read" =>
    /\ Len(out) <= Len(frames)
    /\ \A i \in DOMAIN frames : End(frames[i]) <= taken <=> i <= Len(out)
    /\ \A i \in DOMAIN out : out[i] = frames[i].body

\* Types, and: what the Pi keeps between two transfers is bounded by one frame,
\* although it sees control frames as noise in the video and video as noise
\* between control frames.
FramingTypeOK ==
  /\ pc \in {"read", "video", "control", "link"}
  /\ pc = "read" => Len(buffer) < HEADER + MAX_PAYLOAD
  /\ pc = "read" => Len(control_buffer) < HEADER + MaxControl
  /\ Len(g_rx) <= RxSize

\* However the stream is cut into transfers, the Pi hands out exactly the video
\* that was sent, in order, also when it joins in the middle of a frame.
PiFindsTheStream == Received(video, videos)

\* An endpoint that is there from the first frame on gets every payload, in
\* order: link.c video and control, the Pi control as long as the transfers do
\* not cut it (read_bulk hands on only transfers with a magic).
PayloadsArriveWhole ==
  start = <<>> =>
    /\ Received(linkVideo, videos)
    /\ Received(linkControl, controls)
    /\ cut \/ Received(control, controls)

\* The buffers stay bounded, the Pi finds the stream, and payloads arrive whole.
FramingInv == FramingTypeOK /\ PiFindsTheStream /\ PayloadsArriveWhole
=============================================================================
