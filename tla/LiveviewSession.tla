--------------------------- MODULE LiveviewSession ---------------------------
(***************************************************************************)
(* The liveview client's main loop: Session.run of ip-liveview/receiver.py *)
(* (client = "python") and main of ip-liveview/c/g3lv.c (client = "c").    *)
(* One round of the loop is a chain of steps, one per section of the code: *)
(*   bind -> expire -> boost -> ack -> handshake -> select -> batch        *)
(* and the goggles, the network and the clock act between any two of them. *)
(*                                                                         *)
(* Timestamps are ages in ticks, capped where the code stops telling them  *)
(* apart.  Frames have two parts, which are video packets 1 and 2, 3 and 4,*)
(* and so on.                                                              *)
(***************************************************************************)
EXTENDS Integers, Sequences, FiniteSets

CONSTANTS Clients,       \* which of "python" and "c" may be the one that runs
          Dests,         \* addresses of the goggles, in the order they are tried
          None,          \* no peer / no ACK
          BindHost,      \* peer whose link the socket is bound to, None: 0.0.0.0
          Boost,         \* --boost
          M, STALE, MAX_RESEND, MAX_STEPS,    \* the retransmission window
          MaxPartsC,     \* G3_MAX_PARTS
          TIMEOUT,       \* video_timeout, in ticks
          HANDSHAKE,     \* handshake_interval, in ticks
          MaxVideo,      \* bound: video packets a peer sends
          MaxFlight      \* bound: datagrams in flight to the client

\* peers_from_args
Peers == {Dests[i] : i \in DOMAIN Dests}

SessionAssumption ==
  /\ Clients \subseteq {"python", "c"} /\ Boost \in BOOLEAN
  /\ Len(Dests) > 0 /\ None \notin Peers /\ BindHost \in Peers \cup {None}
  /\ TIMEOUT \in Nat \ {0} /\ HANDSHAKE \in Nat \ {0}
  /\ MaxVideo \in 1 .. M - 1 /\ MaxFlight \in Nat \ {0}

Rtx == INSTANCE RtxWindow
Asm == INSTANCE AccessUnits

VARIABLES
  pc,         \* the section of the loop that runs next, or "ended"
  sock,       \* a socket is bound
  linked,     \* peer that keepalives go to, or None
  joined,     \* peer the video is taken from, or None
  rtx,        \* the LossWindow
  assembler,  \* the FrameAssembler
  batch,      \* datagrams read by recv_burst, not yet handled
  resend,     \* the resend list computed at the top of the round
  ackWin,     \* the window edges computed at the top of the round
  client,     \* the program: "python" or "c"
  mi04,       \* the MI04 interface is claimed
  videoAge, ctrlAge, ackAge, hsAge, boostAge,    \* ticks since last_...
  net,        \* external: peers there is a route to
  usb,        \* external: MI04 takes writes
  asked,      \* external: peers that got a handshake since their last answer
  flight,     \* external: datagrams on their way to the client
  newest,     \* external: video packets each peer has sent
  ack,        \* the type-4 packet sent by the last step, or None
  hint        \* the last step got a bitrate hint out

setup  == <<client, mi04>>
loop   == <<batch, resend, ackWin>>
ages   == <<videoAge, ctrlAge, ackAge, hsAge, boostAge>>
link   == <<linked, joined>>
stream == <<rtx, assembler>>
env    == <<net, usb, asked, flight, newest>>
vars   == <<pc, sock, link, stream, loop, setup, ages, env, ack, hint>>

seed == 0
ACK == 1      \* ack_interval: 1/30 s, always due after a tick
BOOST == 1    \* boost_interval: 1/4 s

Cap(age, limit) == IF age < limit THEN age + 1 ELSE age

\* build_ack: the type-4 packet, as far as the properties look at it.
build_ack(to, start, end, list) ==
  [to |-> to, start |-> start, end |-> end, resend |-> list]

NothingSent == ack' = None /\ hint' = FALSE

Init ==
  /\ pc = "bind" /\ sock = FALSE
  /\ linked = None /\ joined = None
  /\ rtx = Rtx!NewWindow(seed) /\ assembler = Asm!NewAssembler
  /\ batch = {} /\ resend = {} /\ ackWin = [start |-> seed, end |-> seed]
  /\ client \in Clients /\ mi04 = FALSE
  /\ videoAge = TIMEOUT + 1 /\ ctrlAge = TIMEOUT + 1
  /\ ackAge = ACK /\ hsAge = HANDSHAKE /\ boostAge = BOOST
  /\ net \in SUBSET Peers /\ usb \in {FALSE, Boost}
  /\ asked = {} /\ flight = {} /\ newest = [p \in Peers |-> 0]
  /\ ack = None /\ hint = FALSE
-----------------------------------------------------------------------------
(* The loop *)

\* bind_udp fails while the address is away; the client sleeps and retries.
Bind ==
  /\ pc = "bind"
  /\ \/ /\ BindHost \in net \cup {None}
        /\ sock' = TRUE /\ hsAge' = HANDSHAKE /\ pc' = "expire"
     \/ BindHost \notin net \cup {None} /\ UNCHANGED <<sock, hsAge, pc>>
  /\ NothingSent
  /\ UNCHANGED <<link, stream, loop, setup, videoAge, ctrlAge, ackAge, boostAge,
                 env>>

\* Mutant: the stream is timed by the control clock, which telemetry refreshes.
ExpireByControl ==
  /\ pc = "expire"
  /\ LET idle == linked # None /\ ctrlAge > TIMEOUT
     IN  /\ joined' = IF idle THEN None ELSE joined
         /\ linked' = IF idle THEN None ELSE linked
         /\ rtx' = IF idle THEN Rtx!NewWindow(seed) ELSE rtx
         /\ assembler' = IF idle THEN Asm!StallPy(assembler) ELSE assembler
  /\ resend' = IF joined' # None THEN Rtx!missing(rtx') ELSE {}
  /\ ackWin' = IF rtx'.armed THEN [start |-> rtx'.start, end |-> rtx'.end]
               ELSE [start |-> seed, end |-> seed]
  /\ pc' = "boost"
  /\ NothingSent
  /\ UNCHANGED <<sock, batch, setup, ages, env>>

\* Stream and link time out, then the resend list and window of this round.
Expire ==
  /\ pc = "expire"
  /\ LET stalled == joined # None /\ videoAge > TIMEOUT
         idle    == linked # None /\ ctrlAge > TIMEOUT
     IN  /\ joined' = IF stalled THEN None ELSE joined
         /\ linked' = IF idle THEN None ELSE linked
         /\ rtx' = IF stalled THEN Rtx!NewWindow(seed) ELSE rtx
         /\ assembler' = IF ~stalled THEN assembler
                         ELSE IF client = "python" THEN Asm!StallPy(assembler)
                         ELSE Asm!StallC(assembler)
  /\ resend' = IF joined' # None THEN Rtx!missing(rtx') ELSE {}
  /\ ackWin' = IF rtx'.armed THEN [start |-> rtx'.start, end |-> rtx'.end]
               ELSE [start |-> seed, end |-> seed]
  /\ pc' = "boost"
  /\ NothingSent
  /\ UNCHANGED <<sock, batch, setup, ages, env>>

\* Close the socket and start over.  The port is ephemeral: what is on its way to
\* the old one is lost.
CloseSocket ==
  /\ sock' = FALSE /\ pc' = "bind"
  /\ asked' = {} /\ flight' = {}

\* Mutant: a failed send forgets to leave the stream.
UnpluggedKeepsStream ==
  /\ CloseSocket /\ linked' = None
  /\ UNCHANGED joined

\* A send without a route closes the socket and drops link and peer; window and
\* assembler stay as they are.
Unplugged == CloseSocket /\ linked' = None /\ joined' = None

\* Claim MI04 if it is there (tried every 2 s; what receiver.py does not catch in it
\* is in RunEnds).
TryMi04 ==
  /\ mi04' \in {mi04} \cup (IF Boost /\ usb THEN {TRUE} ELSE {})
  /\ UNCHANGED client

\* receiver.py: a claimed MI04 is the only route, and a failed write leaves
\* last_boost alone; else type-5 to the linked peer.
BoostPython ==
  /\ pc = "boost" /\ client = "python"
  /\ TryMi04
  /\ LET due == Boost /\ boostAge >= BOOST
         viaUsb == due /\ mi04'
         viaUdp == due /\ ~mi04' /\ linked # None
     IN  \/ /\ viaUdp /\ linked \notin net
            /\ Unplugged /\ NothingSent /\ UNCHANGED boostAge
         \/ /\ viaUdp => linked \in net
            /\ LET out == viaUdp \/ (viaUsb /\ usb)
               IN  /\ hint' = out /\ ack' = None
                   /\ boostAge' = IF out THEN 0 ELSE boostAge
            /\ pc' = "ack" /\ UNCHANGED <<sock, link, asked, flight>>
  /\ UNCHANGED <<stream, loop, videoAge, ctrlAge, ackAge, hsAge, net, usb, newest>>

\* Mutant: the C client, too, has no way around a claimed MI04.
BoostCNoFallback ==
  /\ pc = "boost" /\ client = "c"
  /\ TryMi04
  /\ LET due == Boost /\ boostAge >= BOOST
         viaUdp == due /\ ~mi04' /\ linked # None
         out == viaUdp \/ (due /\ mi04' /\ usb)
     IN  \/ /\ viaUdp /\ linked \notin net
            /\ Unplugged /\ NothingSent /\ UNCHANGED boostAge
         \/ /\ viaUdp => linked \in net
            /\ hint' = out /\ ack' = None
            /\ boostAge' = IF out THEN 0 ELSE boostAge
            /\ pc' = "ack" /\ UNCHANGED <<sock, link, asked, flight>>
  /\ UNCHANGED <<stream, loop, videoAge, ctrlAge, ackAge, hsAge, net, usb, newest>>

\* g3lv.c: a failed MI04 write falls through to type-5.
BoostC ==
  /\ pc = "boost" /\ client = "c"
  /\ TryMi04
  /\ LET due == Boost /\ boostAge >= BOOST
         viaUsb == due /\ mi04' /\ usb
         viaUdp == due /\ ~viaUsb /\ linked # None
     IN  \/ /\ viaUdp /\ linked \notin net
            /\ Unplugged /\ NothingSent /\ UNCHANGED boostAge
         \/ /\ viaUdp => linked \in net
            /\ hint' = (viaUdp \/ viaUsb) /\ ack' = None
            /\ boostAge' = IF viaUdp \/ viaUsb THEN 0 ELSE boostAge
            /\ pc' = "ack" /\ UNCHANGED <<sock, link, asked, flight>>
  /\ UNCHANGED <<stream, loop, videoAge, ctrlAge, ackAge, hsAge, net, usb, newest>>

\* Mutant: while there is video, its own ACKs are taken to be enough.
KeepaliveIdleOnly ==
  /\ pc = "ack"
  /\ LET due == linked # None /\ joined = None /\ ackAge >= ACK
     IN  \/ /\ due /\ linked \notin net
            /\ Unplugged /\ NothingSent /\ UNCHANGED ackAge
         \/ /\ due => linked \in net
            /\ ack' = IF due THEN build_ack(linked, ackWin.start, ackWin.end,
                                            resend)
                      ELSE None
            /\ ackAge' = IF due THEN 0 ELSE ackAge
            /\ hint' = FALSE
            /\ pc' = "handshake" /\ UNCHANGED <<sock, link, asked, flight>>
  /\ UNCHANGED <<stream, loop, setup, videoAge, ctrlAge, hsAge, boostAge, net, usb,
                 newest>>

\* The keepalive ACK, with the window and list of the top of the round.
Keepalive ==
  /\ pc = "ack"
  /\ LET due == linked # None /\ ackAge >= ACK
     IN  \/ /\ due /\ linked \notin net
            /\ Unplugged /\ NothingSent /\ UNCHANGED ackAge
         \/ /\ due => linked \in net
            /\ ack' = IF due THEN build_ack(linked, ackWin.start, ackWin.end,
                                            resend)
                      ELSE None
            /\ ackAge' = IF due THEN 0 ELSE ackAge
            /\ hint' = FALSE
            /\ pc' = "handshake" /\ UNCHANGED <<sock, link, asked, flight>>
  /\ UNCHANGED <<stream, loop, setup, videoAge, ctrlAge, hsAge, boostAge, net, usb,
                 newest>>

\* The peers the handshake gets to: those before the first without a route.
Reached == {Dests[i] : i \in {k \in DOMAIN Dests :
                               \A j \in 1 .. k : Dests[j] \in net}}

\* Mutant: every round restarts the handshake timer, whether it sent or not.
HandshakeRestartsTimer ==
  /\ pc = "handshake"
  /\ LET due == joined = None /\ linked = None /\ hsAge >= HANDSHAKE
     IN  /\ hsAge' = 0
         /\ \/ due /\ Reached # Peers /\ CloseSocket
            \/ /\ due => Reached = Peers
               /\ asked' = IF due THEN Peers ELSE asked
               /\ pc' = "select" /\ UNCHANGED <<sock, flight>>
  /\ NothingSent
  /\ UNCHANGED <<link, stream, loop, setup, videoAge, ctrlAge, ackAge, boostAge,
                 net, usb, newest>>

\* With neither video nor telemetry, the peers get a handshake one after the
\* other; the first that cannot be reached ends it and closes the socket.
Handshake ==
  /\ pc = "handshake"
  /\ LET due == joined = None /\ linked = None /\ hsAge >= HANDSHAKE
     IN  /\ hsAge' = IF due THEN 0 ELSE hsAge
         /\ \/ due /\ Reached # Peers /\ CloseSocket
            \/ /\ due => Reached = Peers
               /\ asked' = IF due THEN Peers ELSE asked
               /\ pc' = "select" /\ UNCHANGED <<sock, flight>>
  /\ NothingSent
  /\ UNCHANGED <<link, stream, loop, setup, videoAge, ctrlAge, ackAge, boostAge,
                 net, usb, newest>>

\* select()/poll() times out, finds datagrams and recv_burst takes them, or
\* fails.  A failure closes the socket and keeps the link; a failing read drops
\* the link too in receiver.py.
Select ==
  /\ pc = "select"
  /\ \/ /\ flight = {} /\ pc' = "expire"
        /\ UNCHANGED <<sock, link, batch, asked, flight>>
     \/ /\ flight # {}
        /\ batch' = flight /\ flight' = {}
        /\ pc' = "batch" /\ UNCHANGED <<sock, link, asked>>
     \/ net # Peers /\ CloseSocket /\ UNCHANGED <<link, batch>>
     \/ net # Peers /\ client = "python" /\ Unplugged /\ UNCHANGED batch
  /\ NothingSent
  /\ UNCHANGED <<stream, resend, ackWin, setup, ages, net, usb, newest>>

\* The burst is handled.
EndBatch ==
  /\ pc = "batch" /\ batch = {}
  /\ pc' = "expire"
  /\ NothingSent
  /\ UNCHANGED <<sock, link, stream, loop, setup, ages, env>>

\* Replies inside the burst ignore the result of sendto.
Reply(packet) ==
  /\ ack' = IF packet.to \in net THEN packet ELSE None
  /\ hint' = FALSE

\* Type 0: the sender becomes the linked peer and gets a seed ACK.
RecvHandshake(d) ==
  /\ pc = "batch" /\ d \in batch /\ d.type = "handshake"
  /\ batch' = batch \ {d}
  /\ linked' = d.from
  /\ ctrlAge' = 0 /\ ackAge' = 0
  /\ Reply(build_ack(d.from, seed, seed, {}))
  /\ UNCHANGED <<pc, sock, joined, stream, resend, ackWin, setup, videoAge, hsAge,
                 boostAge, env>>

\* Mutant: the window as it is now, the list of the top of the round.
RecvDataMixed(d) ==
  /\ pc = "batch" /\ d \in batch /\ d.type = "data"
  /\ batch' = batch \ {d}
  /\ linked' = IF linked = None THEN d.from ELSE linked
  /\ ctrlAge' = 0 /\ ackAge' = 0
  /\ Reply(build_ack(d.from, rtx.start, rtx.end, resend))
  /\ UNCHANGED <<pc, sock, joined, stream, resend, ackWin, setup, videoAge, hsAge,
                 boostAge, env>>

\* Type 1: answered with the window and list of the top of the round.
RecvData(d) ==
  /\ pc = "batch" /\ d \in batch /\ d.type = "data"
  /\ batch' = batch \ {d}
  /\ linked' = IF linked = None THEN d.from ELSE linked
  /\ ctrlAge' = 0 /\ ackAge' = 0
  /\ Reply(build_ack(d.from, ackWin.start, ackWin.end, resend))
  /\ UNCHANGED <<pc, sock, joined, stream, resend, ackWin, setup, videoAge, hsAge,
                 boostAge, env>>

\* Type 2: the window takes the number before the sender is compared with the
\* joined peer; only then are the timestamps, the assembler and the ACK due.
RecvVideo(d) ==
  /\ pc = "batch" /\ d \in batch /\ d.type = "video"
  /\ batch' = batch \ {d}
  /\ rtx' = Rtx!push(rtx, d.seq)
  /\ \/ /\ joined \notin {None, d.from}
        /\ NothingSent
        /\ UNCHANGED <<link, assembler, ages>>
     \/ /\ joined \in {None, d.from}
        /\ joined' = d.from
        /\ linked' = IF joined = None THEN d.from ELSE linked
        /\ videoAge' = 0 /\ ctrlAge' = 0
        /\ LET pkt == [frame |-> (d.seq - 1) \div 2, n_parts |-> 2,
                       part |-> (d.seq - 1) % 2, h264 |-> <<d.from, d.seq>>]
               gaps == Rtx!missing(rtx')
           IN  /\ assembler' = IF client = "python"
                                 THEN Asm!push(assembler, pkt).asm
                                 ELSE Asm!g3_frame_push(assembler, pkt).asm
               /\ IF pkt.part = pkt.n_parts - 1 \/ gaps # {}
                    THEN /\ Reply(build_ack(d.from, rtx'.start, rtx'.end, gaps))
                         /\ ackAge' = 0
                    ELSE NothingSent /\ UNCHANGED ackAge
        /\ UNCHANGED <<hsAge, boostAge>>
  /\ UNCHANGED <<pc, sock, resend, ackWin, setup, env>>

\* receiver.py: the datagram is answered, or its frame handed on.
IsAnswered(d) ==
  \/ d.type # "video"
  \/ /\ joined \in {None, d.from}
     /\ d.seq % 2 = 0 \/ Rtx!missing(Rtx!push(rtx, d.seq)) # {}

\* receiver.py: _sendto raises any error but four that mean a lost route, and so do
\* usb.core.find and get_active_configuration, whatever they meet.  No one catches it:
\* run() is left, its `finally` closes the socket and MI04, and it is not started again.
RunEnds ==
  /\ client = "python"
  /\ \/ pc = "boost" /\ Boost /\ ~mi04
     \/ pc = "ack" /\ linked # None /\ ackAge >= ACK
     \/ pc = "handshake" /\ joined = None /\ linked = None /\ hsAge >= HANDSHAKE
     \/ pc = "batch" /\ \E d \in batch : IsAnswered(d)
  /\ pc' = "ended" /\ sock' = FALSE /\ mi04' = FALSE
  /\ linked' = None /\ joined' = None
  /\ rtx' = Rtx!NewWindow(seed) /\ assembler' = Asm!NewAssembler
  /\ batch' = {} /\ resend' = {}
  /\ asked' = {} /\ flight' = {}
  /\ NothingSent
  /\ UNCHANGED <<ackWin, client, ages, net, usb, newest>>

ClientStep ==
  \/ Bind \/ Expire \/ BoostPython \/ BoostC \/ Keepalive \/ Handshake
  \/ Select \/ EndBatch
  \/ \E d \in batch : RecvHandshake(d) \/ RecvData(d) \/ RecvVideo(d)
-----------------------------------------------------------------------------
(* The environment: goggles, interface, USB, time *)

Idle == UNCHANGED <<pc, sock, link, stream, loop, setup>> /\ NothingSent

Fly(d) ==
  /\ d.from \in net /\ pc # "ended"
  /\ Cardinality(flight) < MaxFlight
  /\ flight' = flight \cup {d}

\* A peer answers the handshake.
GogglesAnswer(p) ==
  /\ p \in asked
  /\ Fly([type |-> "handshake", from |-> p, seq |-> 0])
  /\ asked' = asked \ {p}
  /\ Idle /\ UNCHANGED <<ages, net, usb, newest>>

\* Telemetry, about ten times a second.
GogglesData(p) ==
  /\ Fly([type |-> "data", from |-> p, seq |-> 0])
  /\ Idle /\ UNCHANGED <<ages, net, usb, asked, newest>>

\* The next video packet, or an earlier one again.
GogglesVideo(p, n) ==
  /\ n \in 1 .. newest[p] + 1 /\ n <= MaxVideo
  /\ Fly([type |-> "video", from |-> p, seq |-> n])
  /\ newest' = [newest EXCEPT ![p] = IF n > @ THEN n ELSE @]
  /\ Idle /\ UNCHANGED <<ages, net, usb, asked>>

Lose(d) ==
  /\ d \in flight
  /\ flight' = flight \ {d}
  /\ Idle /\ UNCHANGED <<ages, net, usb, asked, newest>>

\* A cable or an access point comes and goes; so does MI04.
Plug ==
  /\ \/ /\ \E p \in Peers : net' = (net \ {p}) \cup ({p} \ net)
        /\ flight' = {d \in flight : d.from \in net'}
        /\ UNCHANGED usb
     \/ Boost /\ usb' = ~usb /\ UNCHANGED <<net, flight>>
  /\ Idle /\ UNCHANGED <<ages, asked, newest>>

\* Time passes while the client waits; the loop samples it once per round.
Tick ==
  /\ pc \in {"bind", "select"}
  /\ videoAge' = Cap(videoAge, TIMEOUT + 1)
  /\ ctrlAge' = Cap(ctrlAge, TIMEOUT + 1)
  /\ ackAge' = Cap(ackAge, ACK)
  /\ hsAge' = Cap(hsAge, HANDSHAKE)
  /\ boostAge' = Cap(boostAge, BOOST)
  /\ Idle /\ UNCHANGED env

Next ==
  \/ ClientStep \/ RunEnds
  \/ \E p \in Peers : GogglesAnswer(p) \/ GogglesData(p)
  \/ \E p \in Peers, n \in 1 .. MaxVideo : GogglesVideo(p, n)
  \/ \E d \in flight : Lose(d)
  \/ Plug
  \/ Tick

Spec == Init /\ [][Next]_vars

\* The process keeps running, time passes, and goggles that are asked answer.
Fairness ==
  /\ WF_vars(ClientStep)
  /\ SF_vars(Tick)
  /\ \A p \in Peers : SF_vars(GogglesAnswer(p))
-----------------------------------------------------------------------------
Datagram ==
  [type : {"handshake", "data", "video"}, from : Peers, seq : 0 .. MaxVideo]

SessionTypeOK ==
  /\ pc \in {"bind", "expire", "boost", "ack", "handshake", "select", "batch",
             "ended"}
  /\ sock = (pc \notin {"bind", "ended"})
  /\ linked \in Peers \cup {None} /\ joined \in Peers \cup {None}
  /\ rtx \in Rtx!Window
  /\ resend \subseteq Rtx!Seqs
  /\ net \subseteq Peers /\ asked \subseteq Peers
  /\ flight \subseteq Datagram /\ batch \subseteq Datagram
  /\ videoAge \in 0 .. TIMEOUT + 1 /\ ctrlAge \in 0 .. TIMEOUT + 1

\* A client that takes video always has somewhere to send keepalives, and never
\* loses the link before the stream: video refreshes both timestamps, and every
\* path that drops one drops the other.
StreamHasKeepalive == joined # None => linked # None /\ ctrlAge <= videoAge

\* README.md:93: "resend: the first hole first, else the G3 ignores the list".
\* On the wire, every list leads with the number after the window start that
\* travels in the same ACK, also for ACKs built from the values of the top of
\* the round after the burst moved the window on.
AckLeadsWithItsHole ==
  (ack # None /\ ack.resend # {}) => Rtx!Plus(ack.start, 1) \in ack.resend

\* docs/02-ip-liveview.md:40: the resend list names missed type-2 packets: it
\* never asks a peer for a number that peer has not sent.
ResendWasSent ==
  ack # None => \A s \in ack.resend : s \in 1 .. newest[ack.to]

\* Every ACK leads with its first hole and asks a peer only for what it sent.
AckInv == AckLeadsWithItsHole /\ ResendWasSent

\* While the link stays up, ACKs keep going out ("without it the stream stops",
\* README.md:93).
KeepaliveFlows == <>[](linked # None /\ net = Peers) => []<>(ack # None)

\* A network that loses many answers, but not all of them.
FairLossy ==
  LET Answer(S) == \E d \in S : d.type = "handshake"
  IN  []<>Answer(flight) => []<>Answer(batch)

\* "The goggles share liveview (Wi-Fi AP or USB RNDIS). This process joins that
\* network" (receiver.py:4): however often the cable is pulled, once the destinations
\* stay reachable the client links again, by retrying the handshake until an answer
\* comes through; unless an error other than a lost route has ended receiver.py's
\* session.  (One destination that does not is enough to keep it off the others.)
Relinks ==
  <>[](net = Peers) /\ FairLossy => []<>(linked # None) \/ <>(pc = "ended")

\* A stream that falls silent is given up, also while telemetry goes on, unless
\* the interface is gone: the loop does not look at the timers while it rebinds.
StallsAreNoticed ==
  (joined # None /\ videoAge > 0) ~> (joined = None \/ videoAge = 0 \/ net # Peers)

\* "22500 kbps every 250 ms" (docs/02-ip-liveview.md:45): while the link is up the
\* bitrate hint keeps going out, though MI04 comes and goes; from the Python client
\* unless it holds an MI04 that takes no writes, where it has no way around it.  (A
\* session that an error has ended is not linked.)
HintKeepsFlowing ==
  <>[](linked # None /\ net = Peers) =>
    []<>hint \/ (client = "python" /\ []<>(mi04 /\ ~usb))

\* The session is well-typed, its socket there exactly outside of binding, and a
\* stream has its keepalive.
SessionInv == SessionTypeOK /\ StreamHasKeepalive
=============================================================================
