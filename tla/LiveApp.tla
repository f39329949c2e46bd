------------------------------- MODULE LiveApp -------------------------------
(***************************************************************************)
(* The desktop viewer around the liveview client: LiveApp, NativeYuvPlayer *)
(* and MpegTsPublisher of ip-liveview/liveview.py.                         *)
(*                                                                         *)
(* Threads: the engine (Session.run, which calls emit), the decoder, the   *)
(* player and Tk (pump, close).  They share three queues and, without a    *)
(* lock, the ffplay process: stop() reads the reference, clears it and     *)
(* ends the process, and both the player and Tk call it.                   *)
(*                                                                         *)
(* An event is the phase it carries.  Telemetry and log events carry none  *)
(* and are left out: Tk drains the 256 places of the queue every 50 ms.    *)
(***************************************************************************)
EXTENDS Integers, Sequences, FiniteSets, SequencesExt

CONSTANTS Procs,       \* identities of ffplay processes
          None,
          EventsSize,  \* size of events (256)
          H264Size,    \* size of h264_q (256)
          MaxUnits     \* bound: access units the session emits

ASSUME AppAssumption ==
  /\ None \notin Procs
  /\ EventsSize \in Nat \ {0} /\ H264Size \in Nat \ {0}
  /\ MaxUnits \in Nat

Phases == {"live", "telemetry", "idle"}
Stoppers == {"player", "tk"}

VARIABLES
  sphase,      \* external: the phase the session reports
  n,           \* external: access units it has emitted
  epc,         \* engine: "run", "drop" after a full events queue, "publish"
               \* an access unit, "dead"
  events, h264_q, yuv_q,
  dpc, latest, \* decoder: "get", "put", "swap", "again", "dead"; its newest frame
  ppc, frame,  \* player: "get", "ensure", "poll", "take", "stop", "spawn", "assign",
               \* "check", "write", "broken", "dead"; the frame it shows
  target,      \* the process it has started or writes to
  proc,        \* NativeYuvPlayer.proc
  held,        \* stop(): the process a thread has taken out of proc
  tpc, ret,    \* Tk: "pump", "stall", "stop", "reset", "sleep", "closing",
               \* "done"; where _show_idle returns to
  phase, stop,
  fresh,       \* a frame was shown in the last 5 s
  pub,         \* publisher's ffmpeg: "off", "run"
  procs        \* external: ffplay is "run", "exited" or "closed" by stop()

engine  == <<sphase, n, epc>>
decoder == <<dpc, latest>>
player  == <<ppc, frame, target>>
tk      == <<tpc, ret, phase, stop>>
window  == <<proc, held, procs>>
vars    == <<engine, events, h264_q, yuv_q, decoder, player, tk, window, fresh,
             pub>>

InitAt(e, d, p, t) ==
  /\ sphase = "idle" /\ n = 0 /\ epc = e
  /\ events = <<>> /\ h264_q = <<>> /\ yuv_q = <<>>
  /\ dpc = d /\ latest = 0
  /\ ppc = p /\ frame = 0 /\ target = None
  /\ proc = None /\ held = [a \in Stoppers |-> None]
  /\ tpc = t /\ ret = "pump" /\ phase = "idle" /\ stop = FALSE
  /\ fresh = FALSE /\ pub \in {"off", "run"}
  /\ procs = [q \in Procs |-> "closed"]

Init == InitAt("run", "get", "get", "pump")
-----------------------------------------------------------------------------
(* The engine *)

\* emit of a status or stats event; when the queue is full, the oldest event
\* goes as well as the new one.
emit(event) ==
  IF Len(events) < EventsSize
    THEN events' = Append(events, event) /\ UNCHANGED epc
    ELSE epc' = "drop" /\ UNCHANGED events

EmitDrops ==
  /\ epc = "drop" /\ epc' = "run"
  /\ events' = IF events = <<>> THEN events ELSE Tail(events)
  /\ UNCHANGED <<sphase, n, h264_q, yuv_q, decoder, player, tk, window, fresh, pub>>

\* The session enters another phase and says so.
SessionChanges(p) ==
  /\ epc = "run" /\ p # sphase
  /\ sphase' = p
  /\ emit(p)
  /\ UNCHANGED <<n, h264_q, yuv_q, decoder, player, tk, window, fresh, pub>>

\* The session repeats its phase every second.
SessionReports ==
  /\ epc = "run"
  /\ emit(sphase)
  /\ UNCHANGED <<sphase, n, h264_q, yuv_q, decoder, player, tk, window, fresh, pub>>

\* Into the queue, or skipped when that is full.
Enqueue(unit) ==
  h264_q' = IF Len(h264_q) < H264Size THEN Append(h264_q, unit) ELSE h264_q

\* emit of an access unit: it goes to the publisher first, if that runs.
EmitFrame ==
  /\ epc = "run" /\ sphase = "live" /\ n < MaxUnits
  /\ n' = n + 1
  /\ \/ pub = "run" /\ epc' = "publish" /\ UNCHANGED h264_q
     \/ pub = "off" /\ Enqueue(n') /\ UNCHANGED epc
  /\ UNCHANGED <<sphase, events, yuv_q, decoder, player, tk, window, fresh, pub>>

\* MpegTsPublisher.write returns, which it does not while ffmpeg does not read.
\* Once ffmpeg has exited or a write has failed, nothing is published any more.
Published ==
  /\ epc = "publish" /\ epc' = "run"
  /\ pub' \in {pub, "off"}
  /\ Enqueue(n)
  /\ UNCHANGED <<sphase, n, events, yuv_q, decoder, player, tk, window, fresh>>
-----------------------------------------------------------------------------
(* The decoder *)

\* Drain the queue and decode: frames come out, or nothing, or an exception.
Decode ==
  /\ dpc = "get" /\ ~stop /\ h264_q # <<>>
  /\ h264_q' = <<>>
  /\ \/ latest' \in ToSet(h264_q) /\ dpc' = "put"
     \/ UNCHANGED <<latest, dpc>>
  /\ UNCHANGED <<engine, events, yuv_q, player, tk, window, fresh, pub>>

\* Mutant: a full queue keeps its old frame.
PutUnlessFull ==
  /\ dpc = "put" /\ dpc' = "get"
  /\ yuv_q' = IF yuv_q = <<>> THEN <<latest>> ELSE yuv_q
  /\ UNCHANGED <<engine, events, h264_q, latest, player, tk, window, fresh, pub>>

\* Put the newest frame; if the queue is full, take the old one out and put again.
Put ==
  /\ \/ dpc = "put" /\ yuv_q = <<>> /\ yuv_q' = <<latest>> /\ dpc' = "get"
     \/ dpc = "put" /\ yuv_q # <<>> /\ dpc' = "swap" /\ UNCHANGED yuv_q
     \/ dpc = "swap" /\ yuv_q' = <<>> /\ dpc' = "again"
     \/ /\ dpc = "again" /\ dpc' = "get"
        /\ yuv_q' = IF yuv_q = <<>> THEN <<latest>> ELSE yuv_q
  /\ UNCHANGED <<engine, events, h264_q, latest, player, tk, window, fresh, pub>>
-----------------------------------------------------------------------------
(* NativeYuvPlayer *)

Running(p) == p # None /\ procs[p] = "run"

\* stop(), first half: read the reference.
StopTake(a) == held' = [held EXCEPT ![a] = proc]

\* stop(), second half: clear it, close the pipe, end the process.
StopClear(a) ==
  /\ proc' = None
  /\ held' = [held EXCEPT ![a] = None]
  /\ procs' = IF held[a] = None THEN procs ELSE [procs EXCEPT ![held[a]] = "closed"]

\* player_loop: take a frame.
PlayerGet ==
  /\ ppc = "get" /\ ~stop /\ yuv_q # <<>>
  /\ frame' = Head(yuv_q) /\ yuv_q' = <<>> /\ ppc' = "ensure"
  /\ UNCHANGED <<engine, events, h264_q, decoder, target, tk, window, fresh, pub>>

\* _ensure: keep the window that runs, unless the frame size changed.  The reference
\* is read twice: when Tk clears it in between, the thread ends with an AttributeError
\* (liveview.py:148).  Else stop what is there ...
Ensure ==
  /\ \/ /\ ppc = "ensure"
        /\ ppc' = IF proc = None THEN "take" ELSE "poll"
        /\ UNCHANGED window
     \/ /\ ppc = "poll"
        /\ \/ proc = None /\ ppc' = "dead"
           \/ Running(proc) /\ ppc' = "check"
           \/ proc # None /\ ppc' = "take"
        /\ UNCHANGED window
     \/ /\ ppc = "take"
        /\ StopTake("player") /\ ppc' = "stop" /\ UNCHANGED <<proc, procs>>
     \/ /\ ppc = "stop" /\ StopClear("player") /\ ppc' = "spawn"
  /\ UNCHANGED <<engine, events, h264_q, yuv_q, decoder, frame, target, tk, fresh, pub>>

\* Names for a new process; which one it gets makes no difference.
Unused == {p \in Procs : procs[p] # "run" /\ p # proc /\ \A a \in Stoppers : held[a] # p}

\* ... and start a new one; the reference is set once Popen returns.
Spawn ==
  /\ \/ /\ ppc = "spawn"
        /\ Unused # {}
        /\ target' = CHOOSE p \in Unused : TRUE
        /\ procs' = [procs EXCEPT ![target'] = "run"]
        /\ ppc' = "assign" /\ UNCHANGED proc
     \/ /\ ppc = "assign" /\ proc' = target
        /\ target' = None /\ ppc' = "check" /\ UNCHANGED procs
  /\ UNCHANGED <<engine, events, h264_q, yuv_q, decoder, frame, tk, held, fresh, pub>>

\* write: look at the process once more, ...
Check ==
  /\ ppc = "check"
  /\ target' = IF Running(proc) THEN proc ELSE None
  /\ ppc' = IF Running(proc) THEN "write" ELSE "get"
  /\ UNCHANGED <<engine, events, h264_q, yuv_q, decoder, frame, tk, window, fresh, pub>>

\* ... then write.  On a pipe that Tk has closed meanwhile, the write fails with
\* an OSError, or with a ValueError that nothing catches.
Write ==
  /\ ppc = "write"
  /\ \/ /\ procs[target] = "run"
        /\ ppc' = "get" /\ fresh' = TRUE /\ UNCHANGED window
     \/ /\ procs[target] # "run"
        /\ StopTake("player") /\ ppc' = "broken" /\ UNCHANGED <<proc, procs, fresh>>
     \/ /\ procs[target] = "closed"
        /\ ppc' = "dead" /\ UNCHANGED <<window, fresh>>
  /\ target' = None
  /\ UNCHANGED <<engine, events, h264_q, yuv_q, decoder, frame, tk, pub>>

Broken ==
  /\ ppc = "broken" /\ StopClear("player") /\ ppc' = "get"
  /\ UNCHANGED <<engine, events, h264_q, yuv_q, decoder, frame, target, tk, fresh, pub>>

PlayerStep == PlayerGet \/ Ensure \/ Spawn \/ Check \/ Write \/ Broken
-----------------------------------------------------------------------------
(* Tk *)

\* _show_idle stops the window and resets the decoder, then goes on at `next`.
show_idle(next) ==
  StopTake("tk") /\ tpc' = "stop" /\ ret' = next /\ UNCHANGED <<proc, procs>>

\* Mutant: telemetry without video keeps the window.
PumpKeepsWindow ==
  /\ tpc = "pump"
  /\ IF events = <<>>
       THEN tpc' = "stall" /\ UNCHANGED <<events, ret, phase, window>>
       ELSE /\ events' = Tail(events)
            /\ phase' = Head(events)
            /\ IF phase' # "idle" THEN UNCHANGED <<tpc, ret, window>>
               ELSE show_idle("pump")
  /\ UNCHANGED <<engine, h264_q, yuv_q, decoder, player, stop, fresh, pub>>

\* pump: every event that is there sets the phase; all but "live" show idle.
Pump ==
  /\ tpc = "pump"
  /\ IF events = <<>>
       THEN tpc' = "stall" /\ UNCHANGED <<events, ret, phase, window>>
       ELSE /\ events' = Tail(events)
            /\ phase' = Head(events)
            /\ IF phase' = "live" THEN UNCHANGED <<tpc, ret, window>>
               ELSE show_idle("pump")
  /\ UNCHANGED <<engine, h264_q, yuv_q, decoder, player, stop, fresh, pub>>

\* pump, the rest: live without a frame for 5 s is a stall.
PumpStall ==
  /\ tpc = "stall"
  /\ IF phase = "live" /\ ~fresh
       THEN phase' = "stalled" /\ show_idle("sleep")
       ELSE tpc' = "sleep" /\ UNCHANGED <<ret, phase, window>>
  /\ UNCHANGED <<engine, events, h264_q, yuv_q, decoder, player, stop, fresh, pub>>

\* stop() on the Tk thread returns.
TkStops ==
  /\ tpc = "stop" /\ StopClear("tk")
  /\ tpc' = ret /\ ret' = "pump"
  /\ UNCHANGED <<engine, events, h264_q, yuv_q, decoder, player, phase, stop, fresh, pub>>

\* The rest of close(): mainloop returns, and the daemon threads end with it.
Closed ==
  /\ tpc = "closing" /\ StopClear("tk") /\ pub' = "off"
  /\ tpc' = "done" /\ epc' = "dead" /\ dpc' = "dead" /\ ppc' = "dead"
  /\ UNCHANGED <<sphase, n, events, h264_q, yuv_q, latest, frame, target, ret, phase, stop,
                 fresh>>

\* root.after(50, self.pump)
PumpAgain ==
  /\ tpc = "sleep" /\ ~stop /\ tpc' = "pump"
  /\ UNCHANGED <<engine, events, h264_q, yuv_q, decoder, player, ret, phase, stop, window,
                 fresh, pub>>

\* close: the user closes one of the windows.
close ==
  /\ tpc = "sleep"
  /\ stop' = TRUE /\ StopTake("tk") /\ tpc' = "closing"
  /\ UNCHANGED <<engine, events, h264_q, yuv_q, decoder, player, ret, phase, proc, procs,
                 fresh, pub>>

TkStep == Pump \/ PumpStall \/ TkStops \/ Closed \/ PumpAgain
-----------------------------------------------------------------------------
\* External: 5 s without a frame; ffplay exits.
FrameAges ==
  /\ fresh /\ fresh' = FALSE
  /\ UNCHANGED <<engine, events, h264_q, yuv_q, decoder, player, tk, window, pub>>

ProcessExits ==
  /\ \E p \in Procs : procs[p] = "run" /\ procs' = [procs EXCEPT ![p] = "exited"]
  /\ UNCHANGED <<engine, events, h264_q, yuv_q, decoder, player, tk, proc, held, fresh, pub>>

Next ==
  \/ EmitDrops \/ SessionReports \/ EmitFrame \/ Published
  \/ \E p \in Phases : SessionChanges(p)
  \/ Decode \/ Put
  \/ PlayerStep
  \/ TkStep \/ close
  \/ FrameAges \/ ProcessExits

Spec == Init /\ [][Next]_vars

\* The threads run, time passes, and the session reports its phase again and again
\* as long as no write to ffmpeg blocks it.
Fairness ==
  /\ WF_vars(EmitDrops) /\ SF_vars(SessionReports) /\ WF_vars(FrameAges)
  /\ WF_vars(Decode \/ Put) /\ WF_vars(PlayerStep) /\ WF_vars(TkStep)
-----------------------------------------------------------------------------
AppTypeOK ==
  /\ Len(events) <= EventsSize /\ Len(h264_q) <= H264Size /\ Len(yuv_q) <= 1
  /\ proc \in Procs \cup {None} /\ target \in Procs \cup {None}
  /\ held \in [Stoppers -> Procs \cup {None}]
  /\ phase \in Phases \cup {"stalled"}
  /\ procs \in [Procs -> {"run", "exited", "closed"}]

\* "only blit the latest YUV into ffplay" (liveview.py:9): whenever the decoder
\* is done with a batch, the frame that waits for the player is its newest one,
\* and the player never goes back to a frame older than the one it has.
LatestIsShown ==
  /\ (dpc = "get" /\ yuv_q # <<>>) => yuv_q = <<latest>>
  /\ frame <= latest
  /\ yuv_q # <<>> => Head(yuv_q) > frame

\* When the session has no video any more, the viewer ends up in the session's
\* phase and lets go of the video window, whatever events were dropped on the way and
\* although the player thread may start ffplay again behind Tk's back; unless
\* the user closes it.  When the session is blocked in the publisher and reports
\* nothing any more, the viewer does not go on calling it live.
AppFollowsSession ==
  /\ \A p \in Phases \ {"live"} :
       <>[](sphase = p) => <>[](stop \/ (phase = p /\ proc = None))
  /\ <>[](epc = "publish") => <>[](stop \/ phase # "live")

\* The queues stay within their limits and the latest frame is shown.
AppInv == AppTypeOK /\ LatestIsShown
=============================================================================
