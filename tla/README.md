# A TLA+ model of dji-goggles-lab

The repository receives the live video of DJI goggles in three ways: over IP
(`src/ip-liveview`), over USB with a Raspberry Pi that plays the accessory
(`src/linux-gadget`), and over USB with a Mac whose device controller is switched
to an accessory by a kernel extension (`src/mac-usb`). This directory has TLA+
models of the parts that keep state, TLC runs that check them on small instances,
and proofs that TLAPS checks. `PROJECT.json` has the index: components, runs,
mutants, the map from definitions to source lines, hazards and theorems.

Line numbers are those of the files under `src/`. `endpoint.py`, `live_stream.py`,
`video.py`, `aoa.py`, `preview.py`, `output_profile.py`, `control_server.py`,
`raw_gadget.py` are in `src/linux-gadget/pi_endpoint/`; `protocol.py`,
`receiver.py`, `liveview.py`, `mac_wired.py`, `mi04.py` in `src/ip-liveview/`; `protocol.c`, `g3lv.c`
in `src/ip-liveview/c/`; `aspan_usb_bridge.cpp` in `src/mac-usb/kext/`; `link.c`,
`publish.c`, `gadget.c` in `src/mac-usb/userspace/`.

## 1. Inventory

| component | state | operations | what makes it correct |
|---|---|---|---|
| loss window (`protocol.py`, `protocol.c`) | start, end, held numbers, armed | push, missing, reset | exact over a wrapping field; the list leads with the first hole; gaps close |
| access-unit assembly (same files) | frame number, total, parts | push, clear | units are whole; both clients emit the same |
| liveview session (`receiver.py`, `g3lv.c`, `mi04.*`) | socket, linked and joined peer, timers, window, assembler, MI04 claim | bind, expire, boost, keepalive, handshake, select, receive, end by an error | keepalives while a stream lives; links come back; stalls noticed; ACKs consistent |
| desktop viewer (`liveview.py`) | three queues, phase, ffplay and ffmpeg processes | emit, decoder loop, player loop, pump, close | shows the latest frame; follows the session |
| kext lease (`aspan_usb_bridge.cpp`) | published, lease, timer, gate, apply thread | Publish, Heartbeat, Restore, timer, stop | an accessory never outlives its lease |
| kext clients (`publish.c`, `gadget.c`, `link.c`) | heartbeat period | publish, beat, restore, exit, crash | beat in time |
| macOS link process (`link.c`) | loop position, ffplay pid and pipe, timers, receive buffer | setup, loop, frames, player, shutdown | one ffplay; stock on return; lease held |
| Pi bulk framing (`video.py`, `aoa.py`, `endpoint.py`) | two buffers | feed, unwrap | payloads whole however transfers are cut |
| Pi USB session (`endpoint.py`, Session, AppDriver) | transport, threads, tx_lock, video flag | configure, reset, close, read, send, watchdog | one reader; sessions kept apart; events served |
| Pi HDMI output (`endpoint.py`, VideoOutput) | queue, events, player process | push, reset, player loop, reload, close | one player; streams start at an SPS; recovers |
| Pi browser fan-out (`live_stream.py`, LiveStreamHub) | input queue, GOP, clients and their queues | push, reset, consume, serve, close | no gap, no mixed init segment; viewers end |
| Pi byte stream (`live_stream.py`, AnnexBParser, AccessUnitAssembler, Fmp4Muxer) | buffer, unit in work, parameter sets | feed, push, set_parameter_sets, reset | NALs whole however chunks are cut; one picture per unit; key fragments decodable |
| Pi control API (`control_server.py`, `endpoint.py`) | sequence number, bounded history of packets, client threads | request, write, wait, record | replies are those of the request; calls end in time |
| Pi USB control (`endpoint.py` main, handle_control, `raw_gadget.py`) | mode, endpoints, gadget descriptor | requests on ep0, bus reset, re-enumeration | goggles and gadget agree; the accessory comes up again |
| Pi preview (`preview.py`) | queue, one encoder process, two threads | push, reset, write loop, read loop, close | one encoder; replaced when it fails; gone after close |
| Pi output profiles (`output_profile.py`, `endpoint.py`) | settings file, command of the player | build, start, reload | what is called applied is shown; a reload takes effect |
| macOS wired setup (`mac_wired.py`) | sudo, tetherkit and receiver processes, exit code | wait, start, configure, launch, finally, Ctrl-C | no tetherkit left behind |
| trace, camera payload tables, desktop helpers, probe tools | none, or write-only | | see section 8 |

How they interact. On the IP side the session loop owns window and assembler and
calls back into the viewer, whose four threads meet in bounded queues. On the Mac,
`link` and `publish` are processes that reach the kext through `setProperties`, one
at a time behind a command gate; the kext drives the controller from a thread of its
own. On the Pi the main thread handles USB events, a reader thread feeds the
deframer, HDMI output, hub and preview, a driver thread and API threads send, a
watchdog stops stale video; `tx_lock` is what they share. API threads also wait for
packets that the reader records, and reload the profile of the player; the preview
has two threads and a process of its own.

What is hard here. The repository contains no tests: threads stop each other's
processes, joins time out, flags are cleared after the work they ask for, resets
race data already read. Datagrams are lost, doubled and reordered, and their 16-bit,
8-bit and 6-bit fields wrap. The lease must survive crashes of its clients. Players
exit, hang, or cannot be killed. Calls fail and their results are ignored, or are
raised past every handler. The hazards of `PROJECT.json` list these line by
line, each with the property that would notice.

## 2. Modules

```
RtxWindow  <- LossWindow                           AccessUnits <- FrameAssembler
RtxWindow, AccessUnits <- LiveviewSession          LeaseContract <- KextLease
VideoOutput   PiSession   LiveStreamHub
LossWindow, LiveviewSession <- MCLiveview          FrameAssembler, LiveApp <- MCViewer
LinkLoop, MacWired, KextLease <- MCMac             BulkFraming, AnnexB     <- MCStreams
ControlReplies, UsbControl, PreviewEncoder, OutputProfile <- MCPiServices
MC<module> + .cfg: the instances TLC checks

MCLiveview                  <- LiveviewProofs      MCStreams     <- StreamsProofs
MCViewer                    <- ViewerProofs        VideoOutput   <- VideoOutputProofs
MCMac                       <- MacProofs           PiSession     <- PiSessionProofs
MCPiServices                <- PiServicesProofs    LiveStreamHub <- LiveStreamHubProofs
```

* `RtxWindow` has the window as pure operators (`push`, `missing`, ...), which
  `LossWindow` drives with a network and `LiveviewSession` instantiates inside the
  whole client. Sequence numbers are counted in steps of 8 (`SEQ_STEP`), so that
  65536 raw values are `M` numbers.
* `AccessUnits` has both assemblers (`push` of Python, `g3_frame_push` of C);
  `FrameAssembler` feeds both with the same packets.
* `LiveviewSession` is the loop of `Session.run` and of `g3lv.c`, one action per
  section of an iteration. The variable `client` says which of the two it is, where
  they differ (`BoostPython`, `BoostC`, `Expire`).
* `KextLease` is the kext with its clients: `op` is the command inside the gate,
  `apply` the kernel thread, `phase` how far `stop()` is. Only the restore of `stop()`
  goes through the gate; `StopCancel`, `StopTimer` and `StopGate` run beside it, and a
  command whose look at `m_timer` is behind it and whose use is not meets what they leave
  (`Panic`, `Stranded`). `LeaseContract` is what it
  promises: the accessory is visible only while something is in charge of it.
* `LinkLoop` is `main` of `link.c` after `Publish`: its early returns, the loop, and
  the ffplay it feeds. The kext is reduced to a description and a lease, and may refuse
  to publish stock, which `link` does not look at.
* `BulkFraming` puts the same stream of frames, cut anywhere, through
  `VideoDeframer.feed`, `aoa.unwrap` and `handle_frames`. `pc` says which of the three
  loops runs on the transfer just read, and a step is one round of it: skip to a magic,
  take a frame, or return (`Resync`, `TakeFrame`). The stream and the places of its
  frames are recorded, so that properties compare what comes out with what was sent.
* `VideoOutput`, `PiSession` and `LiveStreamHub` have one action per section between
  two points where another thread can step in; `_stop_process` is split in three
  because two threads run it at once.
  `LiveStreamHub` empties a queue as the code does, one `get_nowait` a step, next to the
  thread at its other end (`EndViewer`, `ConsumeDrain`). `PiSession` has the reopening of the
  gadget for an accessory (`CloseOld`, `OpenNew`).
* `AnnexB` has what the hub does to bytes: `feed`, `push` and the parameter sets, on
  NALs with their real header bytes. `Parse` takes a chunk; `Skip`, `Wait` and `Complete`
  are the three ways through the loop of `feed`, and `Complete` passes its NAL to `push`
  at once, where the code returns a list and pushes afterwards. `join` and `given` record
  from which byte and which NAL on the parser has the stream. `LiveStreamHub` has the queues, viewers and
  resets around it, with an access unit for a chunk.
* `ControlReplies` has the client threads of the control socket in
  `send_raw_command`, the reader that records packets, and goggles that answer late,
  twice or never. Requests that change nothing are left out.
* `UsbControl` is `main`'s event loop with `handle_control`, `set_configuration` and
  `reset`, behind an event queue that lets the goggles be ahead of it, and the goggles'
  way from a bus reset to a configured accessory. `PiSession` has the same calls with
  their threads and locks and without the protocol; the signal that ends `main` is
  there. `pending_reenum` is set and used in one turn of the loop and is part of
  `Start`.
* `PreviewEncoder` has both loops and `close`, section by section, with processes
  that exit, hang or close their input.
* `OutputProfile` has what decides which command runs: the settings file, the state
  of the connectors, `build_command`, the start of the player and `reload_profile` in
  the steps in which two callers can meet. A command is its connectors and the
  version of the settings it was made from.
* `LiveApp` has the four threads of the viewer; H.264 and YUV are frame numbers. The
  write to the publisher's ffmpeg is a step that may never return.
* `MacWired` is `main` of `mac_wired.py` between the processes it starts: each call that
  waits is a step, and so is the time between the start of tetherkit and the assignment
  of `tether`. sudo is a process of its own (`sproc`): it is what main signals and kills.
  `astray` marks a Ctrl-C in which main has no hold of tetherkit.

Ghost variables are marked in the declarations. Several of them (`far`, `mixed`, `refused`,
`unrestored`, `stalled`, `cut`, `unjoined`, `failed`, `pulled`, `forgotten`, `revived`, `swallowed`,
`late`, `overdue`, `overtaken`, `astray`, `killed`) record that a behaviour has
left the region a property speaks of; the models still contain those behaviours, and
section 7 says what happens there. Definitions whose comment begins with "Mutant:"
are deliberately wrong variants, used only to show that a property notices the bug.

## 3. Runs

| run | checks | shows |
|---|---|---|
| `loss` | `WindowInv`, `ResendLeadsWithFirstHole`, `WindowIsExact`, `StartNeverRetreats`, `GapsClose` | the window agrees with a reference that numbers packets without wrapping, as long as nothing arrives more than `STALE` + 2 past the oldest hole; the other properties hold beyond that too |
| `streams` | `FramingInv`, `AnnexInv` | two reassemblers, one in a behaviour: with transfers cut anywhere exactly the payloads that were sent come out, as soon as they are whole; with chunks cut anywhere exactly the NALs come out, and browsers get whole pictures under their parameter sets |
| `session` | `SessionInv`, `AckInv` | failures at any step leave socket, link and stream consistent; ACKs built before and in the middle of a burst are both well-formed |
| `session_live` | `KeepaliveFlows`, `Relinks`, `StallsAreNoticed`, `HintKeepsFlowing` | the retries of the loop do not starve each other, as long as no error ends it |
| `kext` | `KextInv`, `LeaseSparesTheLiving`, `KextHonoursContract`, `DeadMeansStock` | the lease works in both directions, the kext refines its contract, and only a command that `stop()` overtakes uses a timer that is gone |
| `link` | `LinkInv`, `AccessoryStays`, `VideoReachesPlayer`, `WiredInv` | two command line programs of the Mac, one in a behaviour: link's one thread holds the lease and feeds a player, and asks for stock wherever it ends; `mac_wired.py` asks its tetherkit to end however it ends |
| `output` | `OutputInv`, `HdmiRecovers` | player loop, reload and close do not lose or double a player; no flag stays set for ever |
| `output_hung` | `HungPlayerIsReplaced` (**violated**) | see section 6 |
| `pi_session` | `PiInv`, `SessionsKeptApart`, `SessionHasWorkers`, `UsbEventsAreServed` | resets, failures and shutdown keep sessions apart and end |
| `hub` | `HubInv`, `ResetEndsViewers` | viewers get consecutive fragments of their init segment, or their stream ends, while queues are emptied under their hands |
| `app` | `FrameInv`, `AppInv`, `AppFollowsSession` | two halves of the way to the screen, one in a behaviour: no unit mixes frames although frame numbers wrap and silences are as long as they like, and Python and C agree, except on a frame that has the index of the one before it; dropped events and the race for ffplay do not leave the viewer in the wrong phase; a session that is blocked is not shown as live |
| `pi_services` | `RepliesInv`, `UsbInv`, `PreviewInv`, `ProfileInv`, `CallsReturn`, `AccessoryIsReached`, `PreviewLives`, `SettingsReachTheScreen` | four services of the Pi, one in a behaviour: replies go to their requests and calls end; the accessory comes up; the preview keeps one encoder; reloaded settings reach the screen |

`streams`, `app`, `link` and `pi_services` put components side by side that share no
state: an initial choice (`part`) says which one moves, the others rest in a state in
which they have nothing to do. `MCLiveview` does the same with a specification for each
of its two components, because their fields have different sizes; constants of the one
that rests have the smallest values they can have. `MCMac` has `link`, `mac_wired.py`
and the kext, and for the kext a specification of its own (`KextSpec`), which the run
`kext` checks. Each component is checked as if it were alone.

The invariants named `...Inv` are conjunctions of named parts: the module's type
invariant with the safety property that depends on it most, in the order in which an
inductive invariant would be built from them.

| invariant | parts |
|---|---|
| `WindowInv` | `LossTypeOK`, `HoleAtStart`, `HeldAreRecent`, `DisarmedIsEmpty` |
| `FrameInv` | `FrameTypeOK`, `AccessUnitsAreWhole`, `ClientsAgree`, `FullFramesAreEmitted` |
| `FramingInv` | `FramingTypeOK`, `PiFindsTheStream`, `PayloadsArriveWhole` |
| `AnnexInv` | `AnnexTypeOK`, `NalsAreTheSent`, `UnitsAreTheNals`, `OnePicturePerUnit`, `KeysMatchInit` |
| `SessionInv` | `SessionTypeOK`, `StreamHasKeepalive` |
| `AckInv` | `AckLeadsWithItsHole`, `ResendWasSent` |
| `KextInv` | `LeaseTypeOK`, `NoTimerAfterTeardown` |
| `LinkInv` | `LinkTypeOK`, `OnePlayer`, `ReturnsStock` |
| `OutputInv` | `OutputTypeOK`, `OnePlayer`, `ClosedMeansStopped`, `SpsAfterReset` |
| `PiInv` | `PiTypeOK`, `OneReader`, `ClosedWithoutReader`, `NoTransportNoVideo` |
| `HubInv` | `HubTypeOK`, `FragmentsMatchInit`, `ViewersSeeNoGap` |
| `AppInv` | `AppTypeOK`, `LatestIsShown` |
| `WiredInv` | `WiredTypeOK`, `NoTetherLeft` |
| `RepliesInv` | `RepliesTypeOK`, `RepliesAreTheirs`, `NobodySleepsOverAReply`, `NumbersDiffer` |
| `UsbInv` | `UsbTypeOK`, `EndpointsAreKnown`, `ProductIdIsStable`, `HostAndDeviceAgree` |
| `PreviewInv` | `PreviewTypeOK`, `OneEncoder`, `ClosedIsClean` |
| `ProfileInv` | `ProfileTypeOK`, `AppliedIsShown`, `ReloadTakesEffect` |

`SessionsKeptApart` is the conjunction of two action properties, `VideoIsCurrent` and
`FreshTransportSurvives`.

Every property of a passing run has a mutant of the code that violates it; `LinkInv` has two,
one for `OnePlayer` and one for `ReturnsStock`.

Deadlock checking is off where behaviours end by design: after the last packet,
after `close()`, after `link` returns, after the kext has brought the machine down.

## 4. Bounds

* `loss`: `M` = 20 with 9 packets from number 15 on crosses the wrap; `STALE` = 3 is
  below half of it as in the code (2048 of 65536), and `Lifetime` = 9 lets packets
  come later than the purge allows. `MaxLag` bounds how far a packet may be ahead of
  the oldest hole, below half the field, past which the window is ambiguous.
* `app`, frames: frame numbers modulo 3 and parts modulo 2 with frames of up to 3 parts
  make both fields wrap; four frames in turn reuse a number; a frame's parts live for
  two frames. Nothing bounds a silence, so that the index heard last comes again.
* `session`, `session_live`: one destination, 12 sequence numbers, up to three video
  packets and two datagrams in flight; timeouts of one and two ticks. The safety run
  has three packets, so that a hole can be followed by a packet and filled; the
  liveness run has one, and MI04.
* `kext`: one `link` and one `publish`; an asked lease above `MaxLease` is cut.
  Ticks are about 5 s of heartbeat (`HEARTBEAT`), one tick late at most. The asked
  lease must exceed heartbeat and delay; `publish` accepts shorter ones
  (`publish.c:92`), for which `LeaseSparesTheLiving` is not claimed.
* `link`: the 20 s lease, 5 s heartbeat, 10 s wait and 12 s of silence in units of
  2.5 s; one transfer per burst; ffplay exits twice. For `mac_wired.py` two Ctrl-C: the
  second one comes while the first is handled.
* `output`: a queue of one chunk overflows and is full at `close()`; two process
  identities that are reused, enough for one that is stuck and one that replaced it.
* `pi_session`: two identities per kind of thread; two transport numbers, reused.
* `hub`: an input queue of one entry, viewers' queues of two, room for one of two viewers,
  GOPs of two fragments, six access units with up to two parameter sets: a queue that
  overflows takes three steps to empty, between which its viewer can take a fragment.
* `app`, screen: an events queue of two, an H.264 queue of one, two access units, two ffplay
  identities.
* `streams`, bulk pipe: three frames out of two kinds of video and one of control, payloads of
  one or two tokens that may begin like a magic, transfers of up to eight tokens, and
  starts in the middle of a frame. `RxSize` is what `RxAssumption` needs: in the code
  8 + 2,000,000 - 1 + 65,536 bytes are less than the 2 MiB of `g_rx`.
* `streams`, byte stream: five streams of one to four pictures, with and without
  delimiters, with short and long start codes; chunks of one to six bytes cut every
  start code everywhere; one reset, after which the stream goes on up to six bytes
  further. The 8 MiB limit is 11 bytes, which pictures exceed.
* `pi_services`: three sequence numbers, a history of one packet and five commands by
  two callers: numbers are reused, and the relation of `Numbers`, `HISTORY`, `Pace` and
  the callers is as tight as `RepliesAssumption` allows (the code has 65536 and 256).
  Up to four bus resets, replugs and errors in a row, three events behind. Four encoder
  processes (one may be held by each of `process`, writer, reader and `close`) and two
  failures. One save out of seven files, one change of a display after any other, a display
  status to look at for both connectors (`Watched`), an output with a connector id from the environment, two callers of `reload_profile`.

## 5. Fairness

Weak fairness of a thread says that the operating system runs it; it is assumed of
the session loop, kernel threads and timers, the link loop, the player, decoder and
Tk threads and the hub's worker and viewers. Beyond that:

* `LossWindow`: requested packets the goggles still have do arrive in the end; the
  goggles answer every list that leads with the first hole (`protocol.py:347`).
* `LiveviewSession`: time passes (`Tick` is strongly fair because the loop always has
  a step to take), and goggles that are asked again and again answer. `Relinks` also
  assumes that not every answer is lost (`FairLossy`). Errors that end the loop have none.
* `LinkLoop`: video, successful writes and successful forks recur; sleep comes round.
* `VideoOutput`: video with parameter sets keeps coming and a display is seen if the
  loop looks often enough. Nothing makes a hanging player go on; that is part of the
  premise of `HdmiRecovers`.
* `PiSession`: main gets a lock that is free again and again (strong fairness), and
  the kernel ends a blocking write once its transport is gone. No fairness of readers
  and drivers is needed, because the joins have a timeout.
* `ControlReplies`: client threads run, `ep_write` returns (what `UsbEventsAreServed`
  needs of it is checked with `PiSession`) and time passes. Nothing makes the goggles
  answer.
* `UsbControl`: `main` handles its events; goggles take the next step of their
  protocol, attach while the gadget is there, and are plugged in again if they are
  configured and get no data. Resets, replugs and errors end (`Bumps`).
* `PreviewEncoder`: threads and `close` go on, video keeps coming, and a stream that
  has ended gives one last read before it is empty. `PreviewLives` assumes that
  resets do not go on for ever, since each of them may empty the queue.
* `OutputProfile`: the player thread goes on, and `Popen` does not fail for ever. It starts
  nothing while no display is connected (`endpoint.py:245`); no display ever has to be.
* `LiveApp`: the session reports its phase again and again (`receiver.py:212`) unless it
  is blocked in the publisher, and time passes. Nothing makes the publisher's ffmpeg read.
* `MacWired`: safety only.

Users, hosts, players, crashes and network failures have no fairness.

## 6. A divergence between comment and code

`output_hung`: the comment on `VideoOutput` (`endpoint.py:53-54`) says "data that
cannot be consumed quickly is dropped and the player is restarted". The loop notes
when a write began to block (`endpoint.py:329`) but never compares that time with
`PLAYER_BLOCK_TIMEOUT`. The counterexample is a player that lives and does not read:
chunks are dropped by overflow and reset for ever, and the player stays.

## 7. Where properties stop

These behaviours are in the models and excepted from the properties named, or were
met while choosing the instances. No document promises otherwise, or the code's
environment makes them rare.

* Loss window: packets more than `STALE` ahead of a hole are purged although the hole
  is open, and asked for again when it closes (`protocol.py:378`; ghost `far`).
* Frame assembly: a round of the 8-bit frame number after the frame heard last (4.3 s at
  60 frames a second), its index comes again, and the parts of that frame are taken for more parts of the
  old one (`mixed`): after a socket that failed, which clears no assembler
  (`receiver.py:274-276`, `301-303`, `337-339`; `g3lv.c:329`, `346`), old and new parts are
  put into one unit. A stall clears the parts, but Python keeps frame number and total
  (`receiver.py:205`), C forgets both, so that only Python can close the new frame by the
  old total. The next frame ends it. A frame of more than 64 parts is ignored by C
  (`MaxPartsC`); Python collects it, but the 6-bit part number never completes it.
* Session: Python has no way around an MI04 it has claimed and cannot write to
  (`receiver.py:257`), C falls back to UDP. Video of a second peer enters the window
  before the peer check (`receiver.py:400`), so `ResendWasSent` needs one peer. An
  unreachable destination ends the handshake round before later ones
  (`receiver.py:311`), so `Relinks` asks for all destinations to stay reachable, and no
  property covers this one. `_sendto` takes four errors for a lost route and
  raises any other (`receiver.py:112-115`), from the hint, the keepalive, the handshake and
  the answers; `usb.core.find` and `get_active_configuration` raise what they like
  (`mi04.py:29`, `33`). Either ends `Session.run` for good (`RunEnds`): links and hints that
  `Relinks` and `HintKeepsFlowing` promise are those of a session that has not ended. `g3lv.c`
  ignores or rebinds.
* Kext: a restore the controller refuses is not tried again
  (`aspan_usb_bridge.cpp:250`; ghost `refused`). A Publish between the restore and
  the end of the timer in `stop()` (lines 94-101) leaves an accessory that no lease
  covers (`InService`). `stop()` takes the timer and the gate away without waiting for the
  gate: a command that has looked at `m_timer` (lines 224, 169, 247) uses it afterwards
  (240, 170, 248), a caller that has looked at `m_gate` (139) enters it (140), and an apply
  thread still runs without controller and lock. Whether such a call is refused or brings
  the machine down is left open (`Panic`, `Stranded`; `overtaken`).
* Link: nobody looks at the result of `aspan_publish_stock` (`link.c:371`, `384`, `398`;
  593 prints it). A kext that refuses it, for want of memory, say, leaves the accessory to
  the lease, and one whose controller refuses it leaves it for good (`unrestored`). A
  hanging ffplay stops the heartbeat (`link.c:253`; `stalled`). The read
  selector is probed once (`link.c:490`).
* Framing: `handle_frames` drops a trailing 0x55 of a buffer without a magic
  (`link.c:285`), so when joining in the middle of a frame it may lose the next one,
  which the Pi keeps. A control frame cut across transfers is lost on the Pi
  (`endpoint.py:995`; `cut`). `read_bulk` joins transfers in `control_buffer` that were
  not adjacent, since it skips those without a magic. The end of one and the beginning
  of another can then look like a magic; `cut` is therefore also set by a transfer that
  begins with what could be the rest of one. Noise has no whole magic in it
  (`FramingAssumption`): a payload or the rest of a frame that contains one makes the
  parsers take it for a frame.
* Output: a reload whose stop times out puts its player back even if the loop has
  replaced it (`endpoint.py:127`; `revived`): the replacement is forgotten and keeps
  running.
* Pi session: a worker that outlives its join and a host that configures again without a
  reset are excepted (`unjoined`), and so, until the next teardown, is a reader or
  LogicLink driver that an error ends while the transport works (`failed`): nobody starts
  another. Threads of the control API are not joined at all and can take down a
  successor. After `AOA_START` `main` closes the gadget without a look at the reader
  (`endpoint.py:1227`, `raw_gadget.py:104-113`), which `close()` is careful not to do; it
  takes a reader that outlived its join (`pulled`).
* Hub: a reset between the drain and the clear of the flag is swallowed
  (`live_stream.py:427`; `swallowed`), after which viewers can see a gap or deltas of
  parameter sets they were not given. While the worker empties a viewer's queue
  (`live_stream.py:365-369`, `391-394`, `416-420`), the viewer may take a fragment behind one that is
  gone, of its own or the next init segment; the next thing it takes is its end, or
  another of that kind. Should two such loops run on one queue (an overflow, then a new
  SPS before the viewer has gone), the second takes the end away and puts another. A
  decoder reset or a missing SPS makes `VideoOutput.push` return before `live.push`
  (`endpoint.py:350-357`, `382`): those units are lost without a word to the hub, which numbers
  what it is given, so that `ViewersSeeNoGap` says nothing of them.
* Byte stream: without delimiters the parameter sets of a key picture are put into
  the access unit before it. If that unit holds another pair already, the muxer takes
  the first (`live_stream.py:352`; `TwoSets`) and the new pair is lost. If that unit is
  a key picture whose own sets came in the unit before, as with three key pictures in a
  row of which the third has new sets, its fragment is made under the sets of the next
  one (`OtherSet`). More than 8 MiB without a start code are thrown away together with
  the NAL's beginning, and if that was a first slice, the rest of its picture joins the
  one before (`given`). After a reset the init segment of the old stream stays until
  parameter sets arrive; fragments made in between are not claimed to match anything.
  Streams are as H.264 says (`IsByteStream`, `IsVideo`: emulation prevention, no NAL ends
  with a zero, a small PPS behind every SPS, the first slice of a picture marked); start
  codes have three or four bytes. An SPS of fewer than four bytes makes the muxer raise;
  such streams are not modelled.
* Camera commands: a reply that is recorded as the wait times out is not looked for
  again (`endpoint.py:946`). The numbers of the driver lie in the same 16 bits; its
  packets, and whatever the goggles send unasked, may match a call (`Other`), so
  `RepliesAreTheirs` rules out the answers to other calls only. `Pace` assumes that
  fewer than 65536 commands pass while a call or a reply is under way.
* USB control: an OSError of an answer on ep0, or of the reopening after `AOA_START`,
  ends `main()` (`endpoint.py:1221`, `1227`). SET_CONFIGURATION is acknowledged before
  the endpoints are enabled, so that configured goggles can face a session that is
  not. One that follows a lost transport without a bus reset drops the handles of
  endpoints that are still enabled (`endpoint.py:781`; `forgotten`), and so does an
  `ep_disable` that fails, whose error is swallowed (`endpoint.py:896-907`); enabling them
  again fails until the gadget is reopened for an accessory.
* Preview: `stdin.close()` waits for a write that is blocked in a hung encoder
  (`preview.py:170`), so `close()` can hang with it (`Hung`). A thread that is inside
  `_ensure_process` while `close()` takes the process starts another one, which nobody
  ends (`late`). The picture of the stream before a reset may be published after it.
* Profiles: without a connected display no player is started. A reload that finds the loop between building a command and starting the
  player stops nothing, and the old settings stay on the screen (`overtaken`). A stuck
  player is reported in the reload's result only. Two reloads at a time can leave a
  `profile`, which the status shows, older than the player's. A `null` where a number is
  expected raises TypeError and ends the player thread; a word raises ValueError and is
  tried again (`output_profile.py:53`). Output 2 is called applied with nothing
  connected, and NTSC or interlacing with two displays keeps the placeholder connector.
  A file read half written counts as no settings.
* Viewer: access units are dropped when `h264_q` is full (`liveview.py:397`), and a
  `stop()` that raced the player thread can leave an ffplay behind. It can also end the
  player thread: by a ValueError at the closed pipe (`liveview.py:205`), or by an
  AttributeError when `proc` is cleared between the two reads of line 148. While the publisher's
  ffmpeg does not read, the session thread waits in `MpegTsPublisher.write`
  (`liveview.py:276`), so that keepalives stop and the goggles end the stream.
* Wired setup: the signal in `finally` (`mac_wired.py:199`) goes to sudo's process, which
  a user may have no right to signal; the call raises and tetherkit stays, unless Ctrl-C
  came from a terminal and reached it, too (`privileged`). A Ctrl-C between `Popen` and the
  assignment of `tether`, or a second one in `finally`, leaves it as well (`astray`). A
  tetherkit that does not end within 5 s of its SIGINT stays, since `kill()` ends the sudo
  that started it and no more (`killed`). After a
  Ctrl-C main does not wait for the receiver. SIGTERM ends main without `finally` and is
  not modelled.

## 8. Not modelled

Packet layouts, CRCs and telemetry parsing, DUML bytes of keepalives, LUT and filter
strings, the boxes of the MP4 muxer, the bytes of USB descriptors, the payload tables
of `camera_control.py`, and the filters, fallback and supervised commands of
`output_profile.py` are pure functions: what they return depends on their arguments
alone, and a table of examples would test them; the repository has none. `probe.c` and `watch.c` make one-shot
calls and keep nothing. `trace.py` writes files that nothing reads back,
`gold_app_seq.py` is empty data, and `features.py` holds one constant. The events queue of the viewer carries only phases; telemetry
and log events share it and are left out. The fallback player of `VideoOutput` is
never started (`endpoint.py:280`).

## 9. Proofs

TLAPS proves every safety property of the runs that pass, for
all values of the constants that the named assumptions and the hypotheses of the
theorem allow. The assumptions of components that an MC module instantiates are named
there (`ClientAssumption`, `FramesAssumption`, `InterruptAssumption`,
`ServicesAssumption`, `StreamsAssumption`), and TLC evaluates them in its runs. Each proof has the same shape: an
inductive invariant, stated at the top of its section, a lemma with one step per
action, and a short temporal theorem. What follows is what each invariant adds, and
why the property alone is not inductive.

**`LiveviewProofs`: the loss window.**

* `LossTypeCorrect`, `LossWindowSafe` (`WindowInv`), `ResendAccepted`
  (`ResendLeadsWithFirstHole`). `LossInv` is the type invariant and `Good(win)`. The
  heart is `RunStops`: the loop "while next in have" ends at a hole. Held numbers lie
  at most `STALE` behind the end, so the adjacent numbers `STALE` + 1 and `STALE` + 2
  behind it are not held, and the new number can fill only one of them; `LeastNat`
  then gives the first hole, which `RunLength` chooses. That is why `HeldAreRecent` and
  `STALE + 2 < M \div 2` are needed.
* `AcksAreNotWithdrawn` (`StartNeverRetreats`). `RunIsShort`: the run that one packet
  closes is shorter than half the field, so that the start it moves to is ahead of the
  old one in the arithmetic that the goggles use, too.
* `WindowKnowsAll` (`WindowIsExact`), the link between 16-bit numbers and the history of
  packets, which has no such limit. `ExactInv` counts packets without wrapping: there
  are `t` and `e` (`Edges`) such that the run of what arrived ends at `t`, the newest is
  `e` and lies at most `STALE` + 2 past `t`, every arrival after `t` is held, and a
  number at or before `t` is held only if it is near `e`. Two counted numbers that
  close cannot share a raw number (`RawApart`), so what is held is what arrived, and
  `missing` lists the holes (`LostAreHoles`). Its hypothesis is `STALE + 2 <= MAX_STEPS`:
  `missing()` looks 512 numbers ahead, `STALE` is 256 of them.

**`LiveviewProofs`: the session.**

* `SessionIsSafe` (`SessionInv`): a stream always has a link that is at least as fresh,
  whatever is lost, delayed or unplugged.
* `AcksLead` (`AckLeadsWithItsHole`). `LeadInv` ties the list made at the top of a round to
  the window of that moment, which the batch read in between has already moved.
* `AcksAreSound` (`AckInv`): the ACK also asks only for what was sent. `SentInv` says that
  what is held, in flight or asked for is at most the newest number sent. Hypotheses:
  one peer (section 7), and at most half a field of packets: beyond it a number in
  flight no longer says which packet it is, in the code as well.

**`ViewerProofs`.**

* `FramesAreWhole` (`FrameInv`). The Python and the C assembler differ in what they keep:
  `FrameInd` says that both hold the same parts of the frame heard last, that these
  are parts of one frame, unless the client is `mixed`. Hypothesis: no frame with more parts than the C client has room for (64, which the
  6-bit part number cannot exceed either).
* `ViewerIsSafe` (`AppInv`). `ViewerInd` orders the units along the threads: those that wait
  are newer than the picture shown and older than the one being published, and while
  the decoder has a picture in hand, what was put before is older.

**`MacProofs`: the kext.** `TeardownIsSafe`, with the types `KextIsSafe` (`KextInv`);
`AccessoryIsCovered`; `KextImplementsContract` (`KextHonoursContract`).
`NoTimerAfterTeardown` needs `GateInv`: what a command in the gate has seen of the timer
and how far its apply thread is, next to how far `stop()` is. `NeverUncovered` needs
`RestoreInv`: a finished restore has left the stock description or been refused. For
the contract, the initial state and every step of `Next` map to a step or a stutter
(`ContractInit`, `ContractStep`). `LivingAreSpared` (`LeaseSparesTheLiving`): `SpareInv`
says that the time left and the age of a client's last beat add up to a lease, if the
lease it asks for, cut to the allowed range, exceeds heartbeat and delay.

**`MacProofs`: the programs.**

* `LinkKeepsItsPlayer` (`LinkInv`): `ProbeInv` (what is read was probed for, and the probe
  followed a write), `WindowInv` (one player, none before the loop) and `ReturnsStock`.
* `LinkKeepsItsLease` (`AccessoryStays`): from the first beat of the loop on, the lease left and
  the time since the last beat add up to at least `Lease`; before it, the lease and the wait. Hypotheses: waiting for the
  interface (10 s) and the heartbeat period (5 s) are each shorter than the lease (20 s).
* `WiredLeavesNoTether` (`WiredInv`): `TetherInv` says at which places of `mac_wired.py`
  sudo and tetherkit may be running, with the exceptions `privileged`, `astray` and `killed`.

**`StreamsProofs`: the bulk pipe.** `StreamsFraming` (`FramingInv`), and the same of
`BulkFraming` alone (`FramingCorrect`). `FramingInv` speaks of the moments between two
transfers; `BulkInv` of each round of each loop:

* `StreamInv`: the recorded frames are where the stream has them, apart from each other,
  and a magic is nowhere but in frames of its channel (`OnlyIn`). Sending keeps it: what
  is sent neither contains a magic of the other channel nor makes one with what is
  before it.
* `FeedInv`: the Pi's buffer is a `Window` of the stream, the last tokens read; the frames
  handed out are those that end before it, and the next one begins in it or later
  (`HandedOut`). So the first magic in the buffer is that of the next frame, and noise is
  skipped without touching it. When the loop returns, the next frame is not whole yet
  (`Waiting`).
* `LinkInv`: the same for `g_rx`, which begins at a frame boundary at each round. It has
  room for a transfer behind an unfinished frame (`RxAssumption`) and is never thrown away.
* `ControlInv`: `control_buffer` is no window, since transfers without a magic are left
  out. While nothing is `cut`, it is what is left of the transfer being handled behind at
  most two tokens of earlier ones (`Spliced`), and the transfer does not begin with the
  rest of a magic that these could complete (`Clean`).

**`StreamsProofs`: the byte stream.** `StreamsAnnex` (`AnnexInv`). `ByteStreamInv` has two
halves, which meet where a NAL passes from the one to the other:

* `ParserInv`: the parser's buffer is a window of the stream that begins after the start
  codes of the NALs completed (`Progress`), and between two chunks the NAL in work is not
  complete (`NotYet`). The lemmas on `NextStart` and `StartLen` say that a code cut by the end
  of a chunk is found in the next round, with or without its leading zero: this is what
  `Keep` needs three bytes for. Giving up empties the window; `Passed` then counts the
  NAL as gone, and `Matched` counts the NALs from there on.
* `AssemblyInv`: units are the NALs, piece by piece, and end before a delimiter or a slice
  (`Assembled`); `has_vcl` says that the unit in work has a slice (`Pictured`); and the muxer
  has the sets that are in force at the beginning of the unit in work (`InForce`), as long
  as no unit has had two different ones. `KeysMatchInit` alone is not inductive: it says
  nothing of the muxer between two key pictures. `InForce` needs a PPS behind every SPS
  (`Followed`) even where the parser gives up NALs, so `NoSpsLost`: what it gave up is not
  the PPS of the last SPS, because that fits into the buffer.

What a loop computes over a whole buffer would need induction over data, with an
operator for the induction hypothesis, which no installed prover instantiates. The
models have one round of a loop per step instead, so that the induction is the one
over steps. The first match in a buffer comes from the library's order on natural
numbers (`LeastNat`).

**`VideoOutputProofs`**: `OutputIsSafe` (`OutputInv`). `StopInv` follows each actor through
`_stop_process`, since two stop the same player at once; `PlayerInv`: only the process the output refers to
may be alive, unless `revived`; `PipeInv`: the pipe is closed from the beginning of a
stop until the next start; `FlushInv`: a player that was told to flush can be written
to only what was queued since, from a parameter set on.

**`PiSessionProofs`**: `PiSessionIsSafe` (`PiInv`), `SessionsAreKeptApart` (the action property
`SessionsKeptApart`). `LockInv` (`tx_lock` is held by the thread that writes), `QuietInv` (a
thread that is not alive sends nothing), `ReaderInv` (only the reader the session refers
to may be alive), `TransportInv` (what main has done to the transport at each of its
steps, the reopening included). `ApartInv` adds that, while no join has timed out, all that
workers read and send is on one transport.

**`LiveStreamHubProofs`**: `HubIsSafe` (`HubInv`). Access units have numbers, which are followed from
the source to the viewers: `SourceInv` (through the input queue and the unit the worker
holds, unless a reset is pending that will empty the queue), `GopInv` (the GOP leads to the
unit held), `NextInv` (what the worker hands out goes on where the queue of a viewer stops)
and `QueueInv` (what is queued goes on where the viewer is). A viewer whose queue is being
emptied, or holds its end (`Over`), is out of the last two, and one that has seen a gap finds
the end next (`AtEnd`). `ChangeInv` is for the time in which the worker ends the viewers of
old parameter sets, `IdleInv` for when it has nothing in hand. `ChainInv` joins them under the
exception `swallowed`.

**`PiServicesProofs`.**

* `RepliesAreSafe` (`RepliesInv`). `CallsInv`: calls in progress and answers under way have
  numbers of their own among the last `Pace`. `AgeInv`: a reply is at most `Pace` commands
  old when it is recorded, and each later command records a packet after it or is about
  to; a reply is therefore pushed out of the history before its number comes round,
  given `Pace + HISTORY + callers <= Numbers + 2` (65536 numbers, 256 packets in the code).
* `UsbIsSafe` (`UsbInv`): `HandlesInv` (while there are handles, none are forgotten; while
  endpoints are being enabled, there are none), `ToldInv` (if the goggles were told
  something, it is the mode of the gadget and no interruption is queued).
* `PreviewIsSafe` (`PreviewInv`): `ThreadsInv` says at which steps the threads and `close` have a
  process in hand; `ClosingInv`: once `close` has taken the process only a `late` thread
  brings another, and threads that it joined in time stay ended.
* `ProfileIsSafe` (`ProfileInv`): `CommandsInv` (every command was built from settings that had
  been saved, and shows what it calls applied), `PromiseInv` (settings that were promised
  are, or while the player is being started will be, those of the player, unless
  `overtaken`).

**Only model-checked.** All liveness: `GapsClose`, `KeepaliveFlows`, `Relinks`,
`StallsAreNoticed`, `HintKeepsFlowing`, `DeadMeansStock`, `VideoReachesPlayer`,
`HdmiRecovers`, `SessionHasWorkers`, `UsbEventsAreServed`, `ResetEndsViewers`,
`AppFollowsSession`, `CallsReturn`, `AccessoryIsReached`, `PreviewLives`,
`SettingsReachTheScreen`. TLAPS 1.4.5 does not reason about fairness or `ENABLED`.

## 10. Plan

1. An abstract specification of a supervised process that `LinkLoop`, `VideoOutput` and
   `PreviewEncoder` implement, with the refinements proved as for the kext.
2. The viewer composed with the session, so that a blocking MPEG-TS publisher stops
   keepalives; two destinations and two goggles in `LiveviewSession`.
