------------------------------- MODULE LinkLoop -------------------------------
(***************************************************************************)
(* main of mac-usb/userspace/link.c: publish the accessory, wait for its   *)
(* interface, then one loop for everything: heartbeat, stale video, probe  *)
(* of the read selector, reads and the ffplay they feed, keepalives.       *)
(*                                                                         *)
(* Everything happens on one thread, so what blocks the loop also stops    *)
(* the heartbeat.  The kext is a lease here; KextLease has its insides.    *)
(* A tick is 2.5 s; one iteration of the loop takes less.                  *)
(***************************************************************************)
EXTENDS Integers, FiniteSets

CONSTANTS Procs,         \* identities of ffplay processes
          None,
          Lease,         \* 20000 ms
          Beat,          \* heartbeat period, 5 s
          WaitMax,       \* 40 * 250 ms for the interface
          Silent,        \* 12 s without a byte: keepalives of the Pi
          Burst,         \* transfers read in one iteration (32)
          MaxExits       \* bound: exits of ffplay

ASSUME LinkAssumption ==
  /\ None \notin Procs
  /\ {Lease, Beat, WaitMax, Silent, Burst} \subseteq Nat \ {0}
  /\ MaxExits \in Nat

VARIABLES
  pc,            \* "start", "wait", "open", "top", "beat", "stale", "probe", "read",
                 \* "emit", "feed", "keep", "sleep", "quit", "returned", "killed"
  g_stop,
  g_play_fd,     \* the pipe to ffplay is open
  g_play_pid, g_sps,
  payload,       \* what emit_video was called with
  write_ok, probed,
  read_sel,      \* a read selector was found
  pi_mode,
  gotRx,         \* g_rx_bytes # 0
  reads,         \* transfers read in this iteration
  waited,        \* ticks spent waiting for the interface
  sinceStart, sinceBeat, sinceVideo, writeDue,
  desc, lease,   \* kext: "stock" or "accessory"; ticks left, Off without a timer
  unrestored,    \* ghost: link asked for stock and the kext refused
  procs,         \* external: "off", "run", "hung", "exited", "reaped"
  exits,
  stalled        \* history: a write to ffplay has blocked for a tick

player == <<g_play_fd, g_play_pid, g_sps, payload, procs, exits>>
reader == <<write_ok, probed, read_sel, pi_mode, gotRx, reads>>
clock  == <<waited, sinceStart, sinceBeat, sinceVideo, writeDue, stalled>>
kext   == <<desc, lease, unrestored>>
vars   == <<pc, g_stop, player, reader, clock, kext>>

Off == -1

\* last_hb = last_write = 0: heartbeat and keepalive are due at once.
InitAt(where) ==
  /\ pc = where /\ g_stop = FALSE
  /\ g_play_fd = FALSE /\ g_play_pid = None /\ g_sps = FALSE /\ payload = "none"
  /\ write_ok = FALSE /\ probed = FALSE /\ read_sel = FALSE /\ pi_mode = FALSE
  /\ gotRx = FALSE /\ reads = 0
  /\ waited = 0 /\ sinceStart = 0 /\ sinceBeat = Beat /\ sinceVideo = 0
  /\ writeDue = TRUE /\ stalled = FALSE
  /\ desc = "stock" /\ lease = 0 /\ unrestored = FALSE
  /\ procs = [p \in Procs |-> "off"] /\ exits = 0

Init == InitAt("start")

Go(next) == pc' = next /\ UNCHANGED g_stop
-----------------------------------------------------------------------------
(* Setup *)

\* aspan_publish_stock.  The kext takes it, and when the lease of that publish ends
\* it restores the same description; or it refuses, and link goes on all the same: the
\* lease runs on, or has been cancelled where the controller refused, too.
PublishStock ==
  \/ desc' = "stock" /\ lease' = 0 /\ UNCHANGED unrestored
  \/ unrestored' = TRUE /\ lease' \in {lease, Off} /\ UNCHANGED desc

\* Every early return asks for stock.
GiveUp == Go("returned") /\ PublishStock

Publish ==
  /\ pc = "start"
  /\ \/ desc' = "accessory" /\ lease' = Lease /\ Go("wait") /\ UNCHANGED unrestored
     \/ GiveUp
  /\ UNCHANGED <<player, reader, clock>>

\* find_function(controller, "AspanUSBData"): there, or not after 40 looks.
WaitInterface ==
  /\ pc = "wait"
  /\ \/ Go("open") /\ UNCHANGED kext
     \/ waited = WaitMax /\ GiveUp
  /\ UNCHANGED <<player, reader, clock>>

\* Mutant: an IOServiceOpen that fails just returns.
OpenReturns ==
  /\ pc = "open"
  /\ Go("top") \/ Go("returned")
  /\ UNCHANGED <<player, reader, clock, kext>>

\* IOServiceOpen, the pipes and buffers; signal handlers are set from here on.
Open ==
  /\ pc = "open"
  /\ \/ Go("top") /\ UNCHANGED kext
     \/ GiveUp
  /\ UNCHANGED <<player, reader, clock>>

\* SIGINT or SIGTERM before that ends the process.
Kill ==
  /\ pc \in {"wait", "open"} /\ Go("killed")
  /\ UNCHANGED <<player, reader, clock, kext>>

\* on_stop, or --seconds have passed.
on_stop ==
  /\ ~g_stop /\ pc \notin {"start", "wait", "open", "returned", "killed"}
  /\ g_stop' = TRUE
  /\ UNCHANGED <<pc, player, reader, clock, kext>>
-----------------------------------------------------------------------------
(* ffplay *)

\* Mutant: the pipe is closed, the process is left.
StopPlayerClosesPipe ==
  /\ g_play_fd' = FALSE /\ g_play_pid' = None /\ UNCHANGED procs

\* stop_player: close the pipe, terminate or kill, wait.
stop_player ==
  /\ g_play_fd' = FALSE /\ g_play_pid' = None
  /\ procs' = IF g_play_pid = None THEN procs
              ELSE [procs EXCEPT ![g_play_pid] = "reaped"]

\* start_player: nothing if the pipe is open, or if pipe or fork fails.
start_player ==
  \/ /\ ~g_play_fd
     /\ \E p \in Procs :
          /\ procs[p] \in {"off", "reaped"}
          /\ procs' = [procs EXCEPT ![p] = "run"]
          /\ g_play_pid' = p /\ g_play_fd' = TRUE
  \/ UNCHANGED <<g_play_fd, g_play_pid, procs>>

\* Mutant: the player is only started by the first SPS.
EmitVideoStartsOnce ==
  /\ pc = "emit" /\ Go("feed")
  /\ g_sps' = (g_sps \/ payload = "sps")
  /\ IF ~g_sps /\ payload = "sps" THEN start_player
     ELSE UNCHANGED <<g_play_fd, g_play_pid, procs>>
  /\ sinceVideo' = 0
  /\ UNCHANGED <<payload, exits, reader, waited, sinceStart, sinceBeat, writeDue, stalled, kext>>

\* emit_video: start the player at the first SPS, afterwards whenever it is gone.
emit_video ==
  /\ pc = "emit" /\ Go("feed")
  /\ g_sps' = (g_sps \/ payload = "sps")
  /\ IF g_sps' /\ ~g_play_fd THEN start_player
     ELSE UNCHANGED <<g_play_fd, g_play_pid, procs>>
  /\ sinceVideo' = 0
  /\ UNCHANGED <<payload, exits, reader, waited, sinceStart, sinceBeat, writeDue, stalled, kext>>

\* The blocking write to the pipe: ffplay that does not read it holds the loop
\* up, one that is gone is stopped.
FeedPlayer ==
  /\ pc = "feed"
  /\ \/ ~g_play_fd /\ UNCHANGED <<g_play_fd, g_play_pid, procs>>
     \/ /\ g_play_fd /\ procs[g_play_pid] = "run"
        /\ UNCHANGED <<g_play_fd, g_play_pid, procs>>
     \/ g_play_fd /\ procs[g_play_pid] = "exited" /\ stop_player
  /\ Go("read") /\ payload' = "none"
  /\ UNCHANGED <<g_sps, exits, reader, clock, kext>>
-----------------------------------------------------------------------------
(* The loop *)

Top ==
  /\ pc = "top" /\ Go(IF g_stop THEN "quit" ELSE "beat")
  /\ UNCHANGED <<player, reader, clock, kext>>

\* Mutant: no heartbeat while ffplay is open.
HeartbeatWhenIdle ==
  /\ pc = "beat" /\ Go("stale")
  /\ IF sinceBeat >= Beat /\ ~g_play_fd
       THEN /\ lease' = IF desc = "accessory" THEN Lease ELSE lease
            /\ sinceBeat' = 0
       ELSE UNCHANGED <<lease, sinceBeat>>
  /\ UNCHANGED <<player, reader, waited, sinceStart, sinceVideo, writeDue, stalled, desc,
                 unrestored>>

\* A refused heartbeat is only printed.
Heartbeat ==
  /\ pc = "beat" /\ Go("stale")
  /\ IF sinceBeat >= Beat
       THEN /\ lease' = IF desc = "accessory" THEN Lease ELSE lease
            /\ sinceBeat' = 0
       ELSE UNCHANGED <<lease, sinceBeat>>
  /\ UNCHANGED <<player, reader, waited, sinceStart, sinceVideo, writeDue, stalled, desc,
                 unrestored>>

\* No video for 1.5 s closes the player.
StaleVideo ==
  /\ pc = "stale" /\ Go("probe")
  /\ IF g_play_pid # None /\ sinceVideo > 0 THEN stop_player
     ELSE UNCHANGED <<g_play_fd, g_play_pid, procs>>
  /\ UNCHANGED <<g_sps, payload, exits, reader, clock, kext>>

\* probe_read_sel, once, after the first write that succeeded; no selector may answer.
Probe ==
  /\ pc = "probe" /\ Go("read")
  /\ IF write_ok /\ ~probed
       THEN /\ probed' = TRUE
            /\ read_sel' \in BOOLEAN
       ELSE UNCHANGED <<probed, read_sel>>
  /\ reads' = 0
  /\ UNCHANGED <<player, write_ok, pi_mode, gotRx, clock, kext>>

\* A transfer: video with or without an SPS, or anything else.
Read(kind) ==
  /\ pc = "read" /\ read_sel /\ reads < Burst /\ desc = "accessory"
  /\ gotRx' = TRUE /\ reads' = reads + 1
  /\ payload' = kind
  /\ Go(IF kind = "none" THEN "read" ELSE "emit")
  /\ UNCHANGED <<g_play_fd, g_play_pid, g_sps, procs, exits, write_ok, probed, read_sel,
                 pi_mode, clock, kext>>

\* Nothing to read, an error, or 32 transfers.
ReadDone ==
  /\ pc = "read" /\ Go("keep")
  /\ UNCHANGED <<player, reader, clock, kext>>

\* One keepalive a second, in the format of the Pi when the first 12 s brought
\* nothing; the write succeeds or not.
Keepalive ==
  /\ pc = "keep" /\ Go("sleep")
  /\ IF writeDue
       THEN /\ writeDue' = FALSE
            /\ pi_mode' = (pi_mode \/ (sinceStart > Silent /\ ~gotRx))
            /\ write_ok' \in {write_ok, write_ok \/ desc = "accessory"}
       ELSE UNCHANGED <<writeDue, pi_mode, write_ok>>
  /\ UNCHANGED <<player, probed, read_sel, gotRx, reads, waited, sinceStart, sinceBeat,
                 sinceVideo, stalled, kext>>

\* Leaving the loop: release, close, stop_player, stock.
Quit ==
  /\ pc = "quit" /\ Go("returned")
  /\ stop_player /\ PublishStock
  /\ UNCHANGED <<g_sps, payload, exits, reader, clock>>
-----------------------------------------------------------------------------
(* Time, the kext and ffplay *)

Hung == pc = "feed" /\ g_play_fd /\ procs[g_play_pid] = "hung"

Older(t, top) == IF t < top THEN t + 1 ELSE t

Age ==
  /\ desc = "accessory" => lease # 0
  /\ lease' = IF desc = "accessory" /\ lease > 0 THEN lease - 1 ELSE lease
  /\ sinceStart' = IF pc \in {"sleep", "feed"} THEN Older(sinceStart, Silent + 1)
                   ELSE sinceStart
  /\ sinceBeat' = Older(sinceBeat, Beat)
  /\ sinceVideo' = Older(sinceVideo, 1)
  /\ writeDue' = TRUE /\ stalled' = (stalled \/ Hung)
  /\ UNCHANGED <<player, reader, desc, unrestored, g_stop>>

\* usleep(2000): the next iteration is in this tick or in the next.
SleepLong == pc = "sleep" /\ pc' = "top" /\ Age /\ UNCHANGED waited

Sleep ==
  \/ pc = "sleep" /\ Go("top") /\ UNCHANGED <<player, reader, clock, kext>>
  \/ SleepLong

\* Time passes while the loop waits for the interface or for ffplay, and after it.
Tick ==
  /\ \/ pc = "wait" /\ waited < WaitMax /\ waited' = waited + 1
     \/ (Hung \/ pc \in {"killed", "returned"}) /\ UNCHANGED waited
  /\ Age
  /\ UNCHANGED pc

LeaseFires ==
  /\ desc = "accessory" /\ lease = 0
  /\ desc' = "stock" /\ UNCHANGED <<lease, unrestored, pc, g_stop, player, reader, clock>>

PlayerChanges(p) ==
  /\ \/ /\ procs[p] \in {"run", "hung"} /\ exits < MaxExits
        /\ procs' = [procs EXCEPT ![p] = "exited"] /\ exits' = exits + 1
     \/ /\ procs[p] = "run"
        /\ procs' = [procs EXCEPT ![p] = "hung"] /\ UNCHANGED exits
  /\ UNCHANGED <<pc, g_stop, g_play_fd, g_play_pid, g_sps, payload, reader, clock, kext>>

LinkStep ==
  \/ Publish \/ WaitInterface \/ Open
  \/ Top \/ Heartbeat \/ StaleVideo \/ Probe \/ ReadDone \/ Keepalive \/ Sleep \/ Quit
  \/ emit_video \/ FeedPlayer

Next ==
  \/ LinkStep
  \/ Kill \/ on_stop
  \/ \E kind \in {"none", "video", "sps"} : Read(kind)
  \/ Tick \/ LeaseFires
  \/ \E p \in Procs : PlayerChanges(p)

Spec == Init /\ [][Next]_vars

\* The process runs and time passes; the goggles take a keepalive once in a while, and send
\* parameter sets again and again; fork does not fail for ever.
Fairness ==
  /\ WF_vars(LinkStep) /\ SF_vars(SleepLong)
  /\ SF_vars(Keepalive /\ write_ok')
  /\ SF_vars(Read("sps")) /\ SF_vars(emit_video /\ g_play_fd')

FairSpec == Spec /\ Fairness
-----------------------------------------------------------------------------
InLoop == pc \notin {"start", "wait", "open", "returned", "killed"}

LinkTypeOK ==
  /\ g_play_pid \in Procs \cup {None}
  /\ procs \in [Procs -> {"off", "run", "hung", "exited", "reaped"}]
  /\ desc \in {"stock", "accessory"} /\ lease \in {Off} \cup 0 .. Lease
  /\ waited \in 0 .. WaitMax /\ sinceBeat \in 0 .. Beat
  /\ read_sel => probed /\ write_ok
  /\ pi_mode => sinceStart > Silent

\* Every ffplay that was started and not waited for is the one g_play_pid names,
\* and the pipe is open exactly while there is one: no window is left behind by
\* stale video, a broken pipe or the end of the program.
OnePlayer ==
  /\ \A p \in Procs : procs[p] \in {"run", "hung", "exited"} => p = g_play_pid
  /\ g_play_fd <=> g_play_pid # None
  /\ pc = "returned" => g_play_pid = None

\* Whichever way link returns, it has asked for the stock description, and the
\* controller has that again unless the kext refused.
ReturnsStock == pc = "returned" => desc = "stock" \/ unrestored

\* The lease never runs out under a link that runs, neither while it waits for
\* the interface nor in the loop, unless a write to ffplay has held the loop up.
AccessoryStays == InLoop => desc = "accessory" \/ stalled

\* Video reaches an ffplay again and again, although players exit and video
\* pauses; unless link has ended, a hung ffplay holds it up for good or cost it
\* the accessory, or the one probe found no read selector.
VideoReachesPlayer ==
  \/ <>(pc \in {"returned", "killed"}) \/ <>[]Hung \/ <>(InLoop /\ desc = "stock")
  \/ <>(probed /\ ~read_sel)
  \/ []<>(pc = "feed" /\ g_play_fd /\ procs[g_play_pid] = "run")

\* The loop is well-typed, nothing is read before a write and a probe succeeded, there
\* is one ffplay at most, and link returns in stock unless that was refused.
LinkInv == LinkTypeOK /\ OnePlayer /\ ReturnsStock
=============================================================================
