----------------------------- MODULE VideoOutput -----------------------------
(***************************************************************************)
(* The HDMI path of the Raspberry Pi endpoint: class VideoOutput of        *)
(* pi_endpoint/endpoint.py, fed by Session.handle_video.                   *)
(*                                                                         *)
(* Threads: the USB side (handle_video and every reset_stream run under    *)
(* tx_lock, so one action each), the player loop (one action per section), *)
(* the control API (reload_profile) and main (close).  The player is an    *)
(* external process.  The fallback player is left out: start_kind is       *)
(* always "live" (endpoint.py:280).                                        *)
(*                                                                         *)
(* A chunk is "sps" if it holds a parameter set, else "mid".               *)
(***************************************************************************)
EXTENDS Integers, Sequences, FiniteSets

CONSTANTS Procs,       \* identities of player processes
          None,        \* no process, no chunk
          QueueSize    \* PLAYER_QUEUE_SIZE

ASSUME OutputAssumption ==
  /\ None \notin Procs \cup {"sps", "mid", "tail"}
  /\ QueueSize \in Nat \ {0}

Chunks == {"sps", "mid"}
Actors == {"loop", "api", "main"}

VARIABLES
  started,       \* Session.video_started
  display_reset, decoder_reset, stop_event,    \* the events
  queue,         \* self.queue; "end" stands for the None of close()
  wait_sps,
  process,       \* self.process
  player_stuck,
  pc,            \* section of the player loop
  pending,       \* its chunk, or "tail": the rest of one partly written
  after,         \* where the loop goes on after _stop_process
  stopping,      \* _stop_process in progress, per thread
  api,           \* reload_profile: "idle", "clear", "stop", "flag"
  closing,       \* close(): "no", "join", "stop", "done"
  procs,         \* external: "run", "hung" (takes no input), "stuck", "dead"
  stdin,         \* the pipe to self.process is open
  fed,           \* ghost: what it was given: "new", "reset", "good", "bad"
  written,       \* ghost: the last step wrote to a player
  revived        \* ghost: a stop that timed out put back a player which had died
                 \* and been replaced meanwhile (endpoint.py:127)

events == <<display_reset, decoder_reset, stop_event>>
stops  == <<stopping, revived>>
loop   == <<pc, pending, after>>
ext    == <<procs, stdin, fed>>
vars   == <<started, events, queue, wait_sps, process, player_stuck, loop, stops,
            api, closing, ext, written>>

NoStop == [p |-> None, st |-> "no"]

Init ==
  /\ started = FALSE
  /\ display_reset = FALSE /\ decoder_reset = FALSE /\ stop_event = FALSE
  /\ queue = <<>> /\ wait_sps = FALSE
  /\ process = None /\ player_stuck = FALSE
  /\ pc = "top" /\ pending = None /\ after = "top"
  /\ stopping = [a \in Actors |-> NoStop]
  /\ api = "idle" /\ closing = "no"
  /\ procs = [p \in Procs |-> "dead"] /\ stdin = FALSE /\ fed = "new"
  /\ written = FALSE /\ revived = FALSE

Gone(p) == p = None \/ procs[p] = "dead"
-----------------------------------------------------------------------------
(* The USB side, under tx_lock *)

\* VideoOutput.push: nothing while a reset is pending, nothing before an SPS
\* after one, and a full queue asks for a reset.
push(chunk) ==
  IF decoder_reset \/ (wait_sps /\ chunk # "sps")
    THEN UNCHANGED <<queue, wait_sps, decoder_reset>>
    ELSE /\ wait_sps' = FALSE
         /\ IF Len(queue) < QueueSize
              THEN queue' = Append(queue, chunk) /\ UNCHANGED decoder_reset
              ELSE decoder_reset' = TRUE /\ UNCHANGED queue

\* Session.handle_video: after a display reset, and at the start of a stream,
\* chunks are held back until one has a parameter set.
handle_video(chunk) ==
  /\ closing = "no"
  /\ display_reset' = FALSE
  /\ LET goes == chunk = "sps" \/ (started /\ ~display_reset)
     IN  /\ started' = goes
         /\ IF goes THEN push(chunk)
            ELSE UNCHANGED <<queue, wait_sps, decoder_reset>>
  /\ written' = FALSE
  /\ UNCHANGED <<stop_event, process, player_stuck, loop, stops, api, closing, ext>>

\* reset_stream, from reset, _transport_lost or _stop_stale_video.
reset_stream ==
  /\ closing = "no"
  /\ started' = FALSE /\ queue' = <<>> /\ decoder_reset' = TRUE
  /\ written' = FALSE
  /\ UNCHANGED <<display_reset, stop_event, wait_sps, process, player_stuck, loop,
                 stops, api, closing, ext>>
-----------------------------------------------------------------------------
(* _stop_process, run by thread a *)

\* Capture the process and close its stdin.
StopBegin(a) ==
  /\ stopping' = [stopping EXCEPT ![a] =
                    [p |-> process, st |-> IF process = None THEN "ok" ELSE "kill"]]
  /\ stdin' = FALSE /\ UNCHANGED revived

\* terminate, wait, kill, wait: the player is gone, or stuck in the kernel.
StopKill(a) ==
  /\ stopping[a].st = "kill"
  /\ LET p == stopping[a].p
     IN  \/ /\ procs[p] # "stuck"
            /\ procs' = [procs EXCEPT ![p] = "dead"]
            /\ stopping' = [stopping EXCEPT ![a].st = "ok"]
         \/ /\ procs[p] \in {"hung", "stuck"}
            /\ procs' = [procs EXCEPT ![p] = "stuck"]
            /\ stopping' = [stopping EXCEPT ![a].st = "timeout"]
  /\ written' = FALSE
  /\ UNCHANGED <<started, events, queue, wait_sps, process, player_stuck, loop, api,
                 closing, stdin, fed, revived>>

\* Mutant: a player that cannot be killed is forgotten.
StopCommitForgets(a) ==
  /\ stopping[a].st \in {"ok", "timeout"}
  /\ stopping' = [stopping EXCEPT ![a] = NoStop]
  /\ process' = None /\ player_stuck' = FALSE /\ stdin' = FALSE /\ UNCHANGED revived

\* The locked end: forget the process, or keep it and suppress restarts.
StopCommit(a) ==
  /\ stopping[a].st \in {"ok", "timeout"}
  /\ stopping' = [stopping EXCEPT ![a] = NoStop]
  /\ LET p == stopping[a].p
     IN  IF stopping[a].st = "ok"
           THEN /\ UNCHANGED revived
                /\ process' = IF process = p THEN None ELSE process
                /\ player_stuck' = IF p = None THEN player_stuck ELSE FALSE
                /\ UNCHANGED stdin
           ELSE /\ process' = p /\ player_stuck' = TRUE /\ stdin' = FALSE
                /\ revived' = (revived \/ process # p)
-----------------------------------------------------------------------------
(* The player loop *)

Goto(l) == pc' = l /\ written' = FALSE
CallStop(next) == StopBegin("loop") /\ Goto("stop") /\ after' = next

\* while not stop_event: handle a pending decoder reset.
LoopTop ==
  /\ pc = "top"
  /\ IF stop_event
       THEN /\ CallStop("done")
            /\ UNCHANGED <<queue, wait_sps, pending, fed>>
     ELSE IF decoder_reset
       THEN /\ queue' = <<>> /\ pending' = None /\ wait_sps' = TRUE
            /\ fed' = IF Gone(process) THEN fed ELSE "reset"
            /\ Goto("clear") /\ UNCHANGED <<after, stops, stdin>>
       ELSE /\ Goto("look")
            /\ UNCHANGED <<queue, wait_sps, pending, after, stops, stdin, fed>>
  /\ UNCHANGED <<started, events, process, player_stuck, api, closing, procs>>

\* decoder_reset.clear()
LoopClear ==
  /\ pc = "clear"
  /\ decoder_reset' = FALSE
  /\ Goto("look")
  /\ UNCHANGED <<started, display_reset, stop_event, queue, wait_sps, process,
                 player_stuck, pending, after, stops, api, closing, ext>>

\* Mutant: the stuck flag is looked at before the player's exit.
LoopLookStuckFirst(display) ==
  /\ pc = "look"
  /\ UNCHANGED <<started, events, queue, wait_sps, pending, api, closing, procs, fed>>
  /\ \/ /\ ~display /\ process # None
        /\ CallStop("unplug") /\ UNCHANGED <<process, player_stuck>>
     \/ /\ display \/ process = None
        /\ process' = IF ~player_stuck /\ Gone(process) THEN None ELSE process
        /\ Goto(IF ~display \/ player_stuck THEN "top"
                ELSE IF process = None THEN "start"
                ELSE IF Gone(process) THEN "top" ELSE "get")
        /\ UNCHANGED <<player_stuck, after, stops, stdin>>

\* Display gone: stop.  Player exited: forget it and start another a little
\* later.  Player stuck: wait.  No player: start one.
LoopLook(display) ==
  /\ pc = "look"
  /\ UNCHANGED <<started, events, queue, wait_sps, pending, api, closing, procs, fed>>
  /\ \/ /\ ~display /\ process # None
        /\ CallStop("unplug") /\ UNCHANGED <<process, player_stuck>>
     \/ /\ ~display /\ process = None
        /\ Goto("top") /\ UNCHANGED <<process, player_stuck, after, stops, stdin>>
     \/ /\ display /\ process # None /\ Gone(process)
        /\ process' = None /\ player_stuck' = FALSE
        /\ Goto("top") /\ UNCHANGED <<after, stops, stdin>>
     \/ /\ display /\ process # None /\ Gone(process) /\ ~player_stuck
        /\ CallStop("died") /\ UNCHANGED <<process, player_stuck>>
     \/ /\ display /\ (process = None \/ ~Gone(process))
        /\ Goto(IF player_stuck THEN "top"
                ELSE IF process = None THEN "start" ELSE "get")
        /\ UNCHANGED <<process, player_stuck, after, stops, stdin>>

\* _start_process: not after stop_event; the command is built anew, ...
LoopStart ==
  /\ pc = "start"
  /\ Goto(IF stop_event THEN "top" ELSE "spawn")
  /\ UNCHANGED <<started, events, queue, wait_sps, process, player_stuck, pending,
                 after, stops, api, closing, ext>>

\* ... and a new player runs, ...
LoopSpawn ==
  /\ pc = "spawn"
  /\ \E p \in Procs :
       /\ procs[p] = "dead" /\ p # process
       /\ \A a \in Actors : stopping[a].p # p
       /\ procs' = [procs EXCEPT ![p] = "run"]
       /\ process' = p
  /\ stdin' = TRUE /\ fed' = "new"
  /\ player_stuck' = FALSE /\ pending' = None
  /\ Goto("get")
  /\ UNCHANGED <<started, events, queue, wait_sps, after, stops, api, closing>>

\* ... or Popen fails.
LoopSpawnFails ==
  /\ pc = "spawn"
  /\ Goto("top")
  /\ UNCHANGED <<started, events, queue, wait_sps, process, player_stuck, pending,
                 after, stops, api, closing, ext>>

\* Take a chunk unless one is left over.
LoopGet ==
  /\ pc = "get"
  /\ \/ /\ pending # None
        /\ Goto("write") /\ UNCHANGED <<queue, pending>>
     \/ /\ pending = None /\ queue = <<>>
        /\ Goto("top") /\ UNCHANGED <<queue, pending>>
     \/ /\ pending = None /\ queue # <<>>
        /\ queue' = Tail(queue)
        /\ IF Head(queue) = "end" THEN Goto("last") /\ UNCHANGED pending
           ELSE Goto("write") /\ pending' = Head(queue)
  /\ UNCHANGED <<started, events, wait_sps, process, player_stuck, after, stops,
                 api, closing, ext>>

\* What the player has been given after one more chunk.  A reload, which drops
\* queued chunks, replaces the player.
Decoded(chunk) ==
  IF chunk = "sps" THEN "good"
  ELSE IF fed = "reset" /\ api = "idle" THEN "bad" ELSE fed

\* os.write on the pipe: all of it, a part, none of it, or an error.
LoopWrite ==
  /\ pc = "write"
  /\ UNCHANGED <<started, events, queue, wait_sps, process, player_stuck, api, closing,
                 procs>>
  /\ \/ /\ process = None
        /\ pending' = None /\ Goto("top") /\ UNCHANGED <<after, stops, stdin, fed>>
     \/ /\ process # None /\ procs[process] = "run" /\ stdin
        /\ pending' \in {None, "tail"}
        /\ fed' = Decoded(pending)
        /\ pc' = "top" /\ written' = TRUE /\ UNCHANGED <<after, stops, stdin>>
     \/ /\ process # None /\ procs[process] = "hung" /\ stdin
        /\ Goto("top") /\ UNCHANGED <<pending, after, stops, stdin, fed>>
     \/ /\ process # None /\ (procs[process] = "dead" \/ ~stdin)
        /\ CallStop("broken") /\ UNCHANGED <<pending, fed>>

\* The end of the loop's own _stop_process calls.
LoopStopped ==
  /\ pc = "stop"
  /\ StopCommit("loop")
  /\ Goto(after) /\ after' = "top"
  /\ UNCHANGED <<started, events, queue, wait_sps, pending, api, closing, procs, fed>>

\* The clean-up that follows them; the display reset is flagged last.
LoopCleanup ==
  /\ \/ /\ pc \in {"died", "broken"} /\ Goto("top") /\ UNCHANGED display_reset
        /\ queue' = <<>> /\ pending' = IF pc = "broken" THEN None ELSE pending
     \/ /\ pc = "unplug" /\ Goto("flag") /\ UNCHANGED display_reset
        /\ queue' = <<>> /\ pending' = None
     \/ /\ pc = "flag" /\ Goto("top") /\ display_reset' = TRUE
        /\ UNCHANGED <<queue, pending>>
  /\ UNCHANGED <<started, decoder_reset, stop_event, wait_sps, process, player_stuck,
                 after, stops, api, closing, ext>>

\* The None of close() ends the loop.
LoopLast ==
  /\ pc = "last"
  /\ CallStop("done")
  /\ UNCHANGED <<started, events, queue, wait_sps, process, player_stuck, pending,
                 api, closing, procs, fed>>

PlayerLoop ==
  \/ LoopTop \/ LoopClear \/ LoopStart \/ LoopSpawn \/ LoopSpawnFails
  \/ LoopGet \/ LoopWrite \/ LoopStopped \/ LoopCleanup \/ LoopLast \/ StopKill("loop")
-----------------------------------------------------------------------------
(* The control API and main *)

\* reload_profile: clear the queue, stop the player, flag a display reset.  Shutdown
\* does not wait for API threads.
reload_profile ==
  /\ \/ /\ api = "idle"
        /\ api' = "clear" /\ queue' = <<>>
        /\ UNCHANGED <<display_reset, process, player_stuck, stops, stdin>>
     \/ /\ api = "clear" /\ api' = "stop" /\ StopBegin("api")
        /\ UNCHANGED <<display_reset, queue, process, player_stuck>>
     \/ /\ api = "stop" /\ api' = "flag" /\ StopCommit("api")
        /\ UNCHANGED <<display_reset, queue>>
     \/ /\ api = "flag" /\ api' = "idle" /\ display_reset' = TRUE
        /\ UNCHANGED <<queue, process, player_stuck, stops, stdin>>
  /\ written' = FALSE
  /\ UNCHANGED <<started, decoder_reset, stop_event, wait_sps, loop, closing, procs, fed>>

\* close: end the loop, wait for it (it ends within the 2 s of the join), stop
\* what it left.
close ==
  /\ \/ /\ closing = "no"
        /\ closing' = "join" /\ stop_event' = TRUE
        /\ queue' = IF Len(queue) < QueueSize THEN Append(queue, "end") ELSE queue
        /\ UNCHANGED <<process, player_stuck, stops, stdin>>
     \/ /\ closing = "join" /\ pc = "done"
        /\ closing' = "stop" /\ StopBegin("main")
        /\ UNCHANGED <<stop_event, queue, process, player_stuck>>
     \/ /\ closing = "stop" /\ closing' = "done" /\ StopCommit("main")
        /\ UNCHANGED <<stop_event, queue>>
  /\ written' = FALSE
  /\ UNCHANGED <<started, display_reset, decoder_reset, wait_sps, loop, api, procs, fed>>

\* External: a player exits, stops or goes on taking input; a stuck one dies.
PlayerChanges(p) ==
  /\ closing # "done"
  /\ \/ procs[p] \in {"run", "stuck"} /\ procs' = [procs EXCEPT ![p] = "dead"]
     \/ procs[p] = "run" /\ procs' = [procs EXCEPT ![p] = "hung"]
     \/ procs[p] = "hung" /\ procs' = [procs EXCEPT ![p] = "run"]
  /\ written' = FALSE
  /\ UNCHANGED <<started, events, queue, wait_sps, process, player_stuck, loop, stops,
                 api, closing, stdin, fed>>

Next ==
  \/ \E chunk \in Chunks : handle_video(chunk)
  \/ reset_stream
  \/ PlayerLoop
  \/ \E display \in BOOLEAN : LoopLook(display)
  \/ reload_profile \/ close \/ StopKill("api") \/ StopKill("main")
  \/ \E p \in Procs : PlayerChanges(p)

Spec == Init /\ [][Next]_vars

\* Threads run, video comes in; nothing makes a hanging player go on.
FairSpec ==
  /\ Spec
  /\ WF_vars(PlayerLoop \/ LoopLook(TRUE))
  /\ WF_vars(handle_video("sps"))
  /\ WF_vars(StopKill("api")) /\ WF_vars(api # "idle" /\ reload_profile)
-----------------------------------------------------------------------------
OutputTypeOK ==
  /\ queue \in Seq(Chunks \cup {"end"}) /\ Len(queue) <= QueueSize
  /\ process \in Procs \cup {None}
  /\ pending \in Chunks \cup {"tail", None}
  /\ pc \in {"top", "clear", "look", "start", "spawn", "get", "write", "stop", "died",
             "broken", "unplug", "flag", "last", "done"}
  /\ \A a \in Actors : stopping[a].st \in {"no", "kill", "ok", "timeout"}
  /\ procs \in [Procs -> {"run", "hung", "stuck", "dead"}]

\* After a stream reset (a new USB stream, or a queue overflow) a running player
\* decodes nothing before the next parameter set: no chunk of the old stream,
\* and no chunk from the middle of the new one, gets through behind the flush.
SpsAfterReset == fed # "bad"

\* There is at most one player: one that is stuck in the kernel "suppresses
\* restart" until it is really gone (_stop_process, _player_loop).  The exception: a reload's
\* stop that times out puts its player back even if the loop has replaced it.
OnePlayer == revived \/ Cardinality({p \in Procs : procs[p] # "dead"}) <= 1

\* After close() no player is left that could have been killed, with the same
\* exception.
ClosedMeansStopped ==
  (closing = "done" /\ ~revived) => \A p \in Procs : procs[p] \in {"dead", "stuck"}

\* From some point on, players neither fail to start nor hang nor exit, the
\* display stays, a running player keeps up with the queue, and there is no reset
\* or reload.
CalmStep ==
  /\ api' = "idle"
  /\ \A p \in Procs : procs'[p] \in {"run", "dead"} /\ ~PlayerChanges(p)
  /\ ~LoopSpawnFails /\ ~LoopLook(FALSE) /\ ~reset_stream
  /\ (decoder_reset' /\ ~decoder_reset) => Gone(process)

\* However players exited, hung, got stuck or the display came and went, once
\* they behave video reaches a player again, up to shutdown: no flag stays set for ever.
HdmiRecovers == <>[][CalmStep]_vars => ([]<>written \/ <>(closing # "no"))

\* VideoOutput docstring (endpoint.py:53): "data that cannot be consumed quickly
\* is dropped and the player is restarted".  Video keeps coming, resets do not.
HungPlayerIsReplaced ==
  <>[][~reset_stream]_vars =>
    \A p \in Procs :
      (process = p /\ procs[p] = "hung")
        ~> (process # p \/ procs[p] # "hung" \/ closing # "no")

\* The output is well-typed with a bounded queue, there is one player at most,
\* none after close(), and none decodes the middle of a stream.
OutputInv == OutputTypeOK /\ OnePlayer /\ ClosedMeansStopped /\ SpsAfterReset
=============================================================================
