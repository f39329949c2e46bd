------------------------------ MODULE PiSession ------------------------------
(***************************************************************************)
(* The USB session of the Raspberry Pi endpoint: class Session, AppDriver  *)
(* and the event loop of pi_endpoint/endpoint.py.                          *)
(*                                                                         *)
(* Threads: main (USB events, shutdown), bulk readers, app drivers, the    *)
(* control API and the video watchdog.  tx_lock guards the session; only   *)
(* send_bulk_in keeps it across a blocking call, so other locked sections  *)
(* are single actions that need it free.                                   *)
(*                                                                         *)
(* Every set of endpoints that gets enabled is a transport with a number   *)
(* of its own; the code sees the same endpoint handles each time.          *)
(***************************************************************************)
EXTENDS Integers, FiniteSets

CONSTANTS Readers, Drivers,   \* identities of reader and driver threads
          None,
          MaxTransports   \* bound: transport numbers, reused in turn

ASSUME PiAssumption ==
  /\ MaxTransports \in Nat \ {0}
  /\ Readers # {} /\ Drivers # {} /\ Readers \cap Drivers = {}
  /\ None \notin Readers \cup Drivers \cup {"api"} /\ "api" \notin Readers \cup Drivers

Senders == Readers \cup Drivers \cup {"api"}
Transports == 1 .. MaxTransports
NoTransport == 0

VARIABLES
  mode, configured,
  ep,              \* transport of ep_out and ep_in
  video_started,   \* Session.video_started or a non-empty video_pending
  reader, driver,  \* the threads the session refers to
  tx_lock,         \* None, or the thread that keeps it
  STOP,
  mpc,             \* main: "idle", "enable", "commit", "spawn", "join",
                   \*       "joinDriver", "end", "reinit", "reopen", "done"
  doomed,          \* transport that main is about to disable
  start,           \* the teardown is for AOA START
  rpc,             \* readers: "dead", "check", "call", "blocked", "video"
  rdata,           \* transport a reader's ep_read is on, or got its data from
  dpc,             \* drivers: "dead", "sleep"
  sp,              \* send_bulk_in per thread: "no", "lock", "write", "lost"
  sent,            \* transport that send is on
  live,            \* external: the transport that works
  newest,          \* external: the transport enabled last
  host,            \* external: "reset" or "disconnect" to be reported, or "none"
  gadget,          \* external: raw-gadget is "open" or "closed"
  unjoined,        \* ghost: a worker outlived the 2 s of a join, or the host
                   \* configured again without a reset
  failed,          \* ghost: an error ended a worker of this session while the
                   \* transport worked
  pulled           \* ghost: raw-gadget was closed for AOA START under a reader

state   == <<mode, configured, ep, video_started>>
threads == <<reader, driver>>
main    == <<mpc, doomed, start, STOP>>
work    == <<rpc, rdata, dpc>>
send    == <<tx_lock, sp, sent>>
usb     == <<live, newest, host, gadget>>
ghosts  == <<unjoined, failed, pulled>>
vars    == <<state, threads, main, work, send, usb, ghosts>>

Init ==
  /\ mode = "normal" /\ configured = FALSE /\ ep = NoTransport
  /\ video_started = FALSE
  /\ reader = None /\ driver = None
  /\ tx_lock = None /\ STOP = FALSE
  /\ mpc = "idle" /\ doomed = NoTransport /\ start = FALSE
  /\ rpc = [r \in Readers |-> "dead"] /\ rdata = [r \in Readers |-> NoTransport]
  /\ dpc = [d \in Drivers |-> "dead"]
  /\ sp = [t \in Senders |-> "no"] /\ sent = [t \in Senders |-> NoTransport]
  /\ live = NoTransport /\ newest = NoTransport
  /\ host = "none" /\ gadget = "open"
  /\ unjoined = FALSE /\ failed = FALSE /\ pulled = FALSE

Free == tx_lock = None
ReaderAlive(r) == r # None /\ rpc[r] # "dead"
DriverAlive(d) == d # None /\ dpc[d] # "dead"
-----------------------------------------------------------------------------
(* send_bulk_in *)

SendEnds(t) ==
  /\ sp' = [sp EXCEPT ![t] = "no"]
  /\ sent' = [sent EXCEPT ![t] = NoTransport]

\* Take the lock; without a transport there is nothing to do.
SendLock(t) ==
  /\ sp[t] = "lock" /\ Free
  /\ IF ep = NoTransport \/ ~configured
       THEN sp' = [sp EXCEPT ![t] = "no"] /\ UNCHANGED <<tx_lock, sent>>
       ELSE /\ tx_lock' = t
            /\ sp' = [sp EXCEPT ![t] = "write"]
            /\ sent' = [sent EXCEPT ![t] = ep]
  /\ UNCHANGED <<state, threads, main, work, usb, ghosts>>

\* ep_write: done, or an error that is neither transient nor a lost transport,
\* which ends a driver under --logiclink-magic.
SendReturns(t) ==
  /\ sp[t] = "write"
  /\ tx_lock' = None
  /\ SendEnds(t)
  /\ \/ UNCHANGED <<dpc, failed>>
     \/ t \in Drivers /\ dpc' = [dpc EXCEPT ![t] = "dead"] /\ failed' = TRUE
  /\ UNCHANGED <<state, threads, main, rpc, rdata, usb, unjoined, pulled>>

\* The fourth EBUSY, or ESHUTDOWN, ENODEV, EPIPE.
SendFails(t) ==
  /\ sp[t] = "write"
  /\ tx_lock' = None
  /\ configured' = FALSE
  /\ sp' = [sp EXCEPT ![t] = "lost"]
  /\ UNCHANGED <<mode, ep, video_started, threads, main, work, sent, usb, ghosts>>

\* _transport_lost takes the lock again, and does not look what has changed.
TransportLost(t) ==
  /\ sp[t] = "lost" /\ Free
  /\ configured' = FALSE /\ video_started' = FALSE
  /\ SendEnds(t)
  /\ UNCHANGED <<mode, ep, threads, main, work, tx_lock, usb, ghosts>>

Sending(t) == SendLock(t) \/ SendReturns(t) \/ SendFails(t) \/ TransportLost(t)
-----------------------------------------------------------------------------
(* Readers, drivers, watchdog, control API *)

\* read_bulk: look at the session, ...
ReadCheck(r) ==
  /\ rpc[r] = "check" /\ sp[r] = "no" /\ Free
  /\ IF STOP \/ ~configured \/ ep = NoTransport
       THEN /\ rpc' = [rpc EXCEPT ![r] = "dead"]
            /\ reader' = IF reader = r THEN None ELSE reader
       ELSE rpc' = [rpc EXCEPT ![r] = "call"] /\ UNCHANGED reader
  /\ UNCHANGED <<state, driver, main, rdata, dpc, send, usb, ghosts>>

\* ... call ep_read on the handle, which is that of the endpoints now enabled, ...
ReadCall(r) ==
  /\ rpc[r] = "call"
  /\ rpc' = [rpc EXCEPT ![r] = "blocked"]
  /\ rdata' = [rdata EXCEPT ![r] = live]
  /\ UNCHANGED <<state, threads, main, dpc, send, usb, ghosts>>

\* Mutant: an empty transfer ends the reader.
ReadEndsOnEmpty(r) ==
  /\ rpc[r] = "blocked"
  /\ \/ /\ live = rdata[r] /\ live # NoTransport
        /\ rpc' = [rpc EXCEPT ![r] = "video"] /\ UNCHANGED <<reader, rdata>>
     \/ /\ rpc' = [rpc EXCEPT ![r] = "dead"]
        /\ rdata' = [rdata EXCEPT ![r] = NoTransport]
        /\ reader' = IF reader = r THEN None ELSE reader
  /\ UNCHANGED <<state, driver, main, dpc, send, usb, ghosts>>

\* ... and get data or an empty transfer, if its transport still works, or an error,
\* whatever it is, which ends the thread.
ReadReturns(r) ==
  LET works == live = rdata[r] /\ live # NoTransport
  IN  /\ rpc[r] = "blocked"
      /\ \/ /\ works
            /\ \E next \in {"video", "check"} : rpc' = [rpc EXCEPT ![r] = next]
            /\ UNCHANGED <<reader, failed>>
         \/ /\ rpc' = [rpc EXCEPT ![r] = "dead"]
            /\ reader' = IF reader = r THEN None ELSE reader
            /\ failed' = (failed \/ works)
      /\ rdata' = IF rpc'[r] = "video" THEN rdata ELSE [rdata EXCEPT ![r] = NoTransport]
      /\ UNCHANGED <<state, driver, main, dpc, send, usb, unjoined, pulled>>

\* The data: video under the lock, then perhaps an identity reply.
HandleVideo(r) ==
  /\ rpc[r] = "video" /\ Free
  /\ video_started' = (configured \/ video_started)
  /\ rpc' = [rpc EXCEPT ![r] = "check"]
  /\ rdata' = [rdata EXCEPT ![r] = NoTransport]
  /\ sp' \in {sp, [sp EXCEPT ![r] = "lock"]}
  /\ UNCHANGED <<mode, configured, ep, threads, main, dpc, tx_lock, sent, usb, ghosts>>

\* AppDriver: sleep, look at the session, send.
DriverWakes(d) ==
  /\ dpc[d] = "sleep" /\ sp[d] = "no"
  /\ \/ /\ ~STOP /\ configured
        /\ sp' = [sp EXCEPT ![d] = "lock"] /\ UNCHANGED dpc
     \/ /\ STOP \/ ~configured
        /\ dpc' = [dpc EXCEPT ![d] = "dead"] /\ UNCHANGED sp
  /\ UNCHANGED <<state, threads, main, rpc, rdata, tx_lock, sent, usb, ghosts>>

\* _stop_stale_video: no video for 1.5 s.
StopStaleVideo ==
  /\ Free /\ configured /\ video_started /\ mpc # "done"
  /\ video_started' = FALSE
  /\ UNCHANGED <<mode, configured, ep, threads, main, work, send, usb, ghosts>>

\* send_raw_command from the control API.
ApiSends ==
  /\ configured /\ ep # NoTransport /\ sp["api"] = "no" /\ ~STOP
  /\ sp' = [sp EXCEPT !["api"] = "lock"]
  /\ UNCHANGED <<state, threads, main, work, tx_lock, sent, usb, ghosts>>
-----------------------------------------------------------------------------
(* main: USB events and shutdown *)

Idle == mpc = "idle" /\ ~STOP

\* SET_CONFIGURATION: ignored while configured, else start over.
set_configuration ==
  /\ Idle /\ host = "none" /\ Free
  /\ IF configured /\ ep # NoTransport
       THEN UNCHANGED <<configured, ep, mpc>>
       ELSE /\ configured' = FALSE /\ ep' = NoTransport
            /\ mpc' = "enable"
  /\ unjoined' = (unjoined \/ (~configured /\ ep # NoTransport))
  /\ UNCHANGED <<mode, video_started, threads, doomed, start, STOP, work, send, usb,
                 failed, pulled>>

\* configure and _enable_endpoint: a new transport, or a deferred configuration.
EnableEndpoints ==
  /\ mpc = "enable"
  /\ \/ /\ newest' = (newest % MaxTransports) + 1
        /\ live' = IF host = "none" THEN newest' ELSE NoTransport
        /\ mpc' = "commit"
     \/ Free /\ mpc' = "idle" /\ live' = NoTransport /\ UNCHANGED newest
  /\ UNCHANGED <<state, threads, doomed, start, STOP, work, send, host, gadget, ghosts>>

CommitEndpoints ==
  /\ mpc = "commit" /\ Free
  /\ ep' = newest /\ configured' = TRUE
  /\ mpc' = "spawn"
  /\ UNCHANGED <<mode, video_started, threads, doomed, start, STOP, work, send, usb, ghosts>>

\* An identity for a new thread.  (More threads than identities count as one.)
NewThread(threadpc) ==
  CHOOSE t \in DOMAIN threadpc :
    threadpc[t] = "dead" \/ \A u \in DOMAIN threadpc : threadpc[u] # "dead"

\* Mutant: the reader is not looked at before a new one starts.
StartWorkersAlways ==
  /\ mpc = "spawn" /\ mpc' = "idle"
  /\ IF mode = "accessory"
       THEN LET r == NewThread(rpc)
                d == NewThread(dpc)
            IN  /\ reader' = r /\ rpc' = [rpc EXCEPT ![r] = "check"]
                /\ driver' = d /\ dpc' = [dpc EXCEPT ![d] = "sleep"]
       ELSE UNCHANGED <<threads, rpc, dpc>>
  /\ UNCHANGED <<state, doomed, start, STOP, rdata, send, usb, ghosts>>

\* Threads start in accessory mode, when no reader is alive.
StartWorkers ==
  /\ mpc = "spawn" /\ mpc' = "idle"
  /\ IF mode = "accessory" /\ ~ReaderAlive(reader)
       THEN LET r == NewThread(rpc)
                d == NewThread(dpc)
            IN  /\ reader' = r /\ rpc' = [rpc EXCEPT ![r] = "check"]
                /\ driver' = d /\ dpc' = [dpc EXCEPT ![d] = "sleep"]
       ELSE UNCHANGED <<threads, rpc, dpc>>
  /\ UNCHANGED <<state, doomed, start, STOP, rdata, send, usb, ghosts>>

\* The locked part of reset() and close().
TearDown ==
  /\ Free
  /\ configured' = FALSE /\ ep' = NoTransport /\ video_started' = FALSE
  /\ doomed' = ep /\ mpc' = "join"

\* reset: on a bus reset or disconnect, SET_CONFIGURATION 0, or AOA START.
reset ==
  /\ Idle /\ TearDown
  /\ \/ /\ start' = FALSE
        /\ mode' = IF host = "disconnect" THEN "normal" ELSE mode
     \/ host = "none" /\ start' = TRUE /\ mode' = "accessory"
  /\ host' = "none"
  /\ UNCHANGED <<threads, STOP, work, send, live, newest, gadget, ghosts>>

\* SIGTERM, or an error, ends the event loop; close() follows.  (Nothing is configured
\* after it, so STOP shows no one more than that.)
Shutdown ==
  /\ Idle /\ STOP' = TRUE /\ TearDown
  /\ UNCHANGED <<mode, start, threads, work, send, usb, ghosts>>

\* Mutant: the joins have no timeout.
JoinForever ==
  /\ \/ mpc = "join" /\ ~ReaderAlive(reader) /\ mpc' = "joinDriver"
     \/ mpc = "joinDriver" /\ ~DriverAlive(driver) /\ mpc' = "end"
  /\ UNCHANGED <<state, threads, doomed, start, STOP, work, send, usb, ghosts>>

\* Mutant: reset waits for the reader only.
JoinReaderOnly ==
  /\ \/ /\ mpc = "join" /\ mpc' = "joinDriver"
        /\ unjoined' = (unjoined \/ ReaderAlive(reader))
     \/ mpc = "joinDriver" /\ mpc' = "end" /\ UNCHANGED unjoined
  /\ UNCHANGED <<state, threads, doomed, start, STOP, work, send, usb, failed, pulled>>

\* worker.join(timeout=2.0), reader first: it is dead, or the time is up.
JoinWorkers ==
  /\ \/ /\ mpc = "join" /\ mpc' = "joinDriver"
        /\ unjoined' = (unjoined \/ ReaderAlive(reader))
     \/ /\ mpc = "joinDriver" /\ mpc' = "end"
        /\ unjoined' = (unjoined \/ DriverAlive(driver))
  /\ UNCHANGED <<state, threads, doomed, start, STOP, work, send, usb, failed, pulled>>

\* Forget dead workers and disable the endpoints, which a reader still in ep_read may
\* prevent (EBUSY, ignored); at shutdown raw-gadget is closed only if no reader is alive.
FinishTearDown ==
  /\ mpc = "end"
  /\ reader' = IF ReaderAlive(reader) THEN reader ELSE None
  /\ driver' = IF DriverAlive(driver) THEN driver ELSE None
  /\ \/ live' = IF live = doomed THEN NoTransport ELSE live
     \/ \E r \in Readers : rpc[r] = "blocked" /\ UNCHANGED live
  /\ doomed' = NoTransport /\ start' = FALSE /\ failed' = FALSE
  /\ mpc' = IF STOP THEN "done" ELSE IF start THEN "reinit" ELSE "idle"
  /\ gadget' = IF STOP /\ ~ReaderAlive(reader) THEN "closed" ELSE gadget
  /\ UNCHANGED <<state, STOP, work, send, newest, host, unjoined, pulled>>

\* gadget.reinit after AOA START: the descriptor is closed, whoever is using it, ...
CloseOld ==
  /\ mpc = "reinit" /\ mpc' = "reopen"
  /\ gadget' = "closed" /\ live' = NoTransport /\ host' = "none"
  /\ pulled' = ReaderAlive(reader)
  /\ UNCHANGED <<state, threads, doomed, start, STOP, work, send, newest, unjoined, failed>>

\* ... and after a pause a new one is opened, or the UDC is not free, which ends main.
OpenNew ==
  /\ mpc = "reopen"
  /\ \/ /\ mpc' = "idle" /\ gadget' = "open" /\ pulled' = FALSE
        /\ UNCHANGED <<configured, ep, video_started, doomed, STOP>>
     \/ /\ TearDown /\ STOP' = TRUE
        /\ UNCHANGED <<gadget, pulled>>
  /\ UNCHANGED <<mode, threads, start, work, send, live, newest, host, unjoined, failed>>

\* External: the bus goes down; main will hear of it.
BusDown ==
  /\ mpc # "done" /\ host = "none" /\ gadget = "open"
  /\ live' = NoTransport /\ host' \in {"reset", "disconnect"}
  /\ UNCHANGED <<state, threads, main, work, send, newest, gadget, ghosts>>

MainStep ==
  \/ EnableEndpoints \/ CommitEndpoints \/ StartWorkers \/ JoinWorkers
  \/ FinishTearDown \/ CloseOld \/ OpenNew
  \/ (host # "none" /\ reset)

Work(r) == ReadCheck(r) \/ ReadCall(r) \/ ReadReturns(r) \/ HandleVideo(r)

Next ==
  \/ MainStep \/ set_configuration \/ reset \/ Shutdown
  \/ \E t \in Senders : Sending(t)
  \/ \E r \in Readers : Work(r)
  \/ \E d \in Drivers : DriverWakes(d)
  \/ StopStaleVideo \/ ApiSends \/ BusDown

Spec == Init /\ [][Next]_vars

\* Main runs and has a lock that is free again and again in the end; the kernel ends
\* a blocking write once its transport is gone.  Nothing is assumed of the workers.
FairSpec ==
  /\ Spec
  /\ SF_vars(MainStep)
  /\ WF_vars(\E t \in Senders : live # sent[t] /\ SendFails(t))
-----------------------------------------------------------------------------
PiTypeOK ==
  /\ configured => ep # NoTransport
  /\ ep \in Transports \cup {NoTransport} /\ live \in Transports \cup {NoTransport}
  /\ reader \in Readers \cup {None} /\ driver \in Drivers \cup {None}
  /\ tx_lock \in Senders \cup {None}
  /\ \A t \in Senders : sp[t] = "write" <=> tx_lock = t
  /\ mpc \in {"idle", "enable", "commit", "spawn", "join", "joinDriver", "end",
              "reinit", "reopen", "done"}

\* Two threads never read the bulk endpoint at once, whatever joins time out:
\* chunks would reach the deframer out of order (set_configuration, read_bulk).
OneReader == Cardinality({r \in Readers : rpc[r] # "dead"}) <= 1

\* raw-gadget is not closed under a reader ("reader still active; deferred raw-gadget
\* close to process teardown"), at shutdown never, and for AOA START, where main does not
\* look, only if the reader has outlived its join.
ClosedWithoutReader ==
  /\ gadget = "closed" => pulled \/ \A r \in Readers : rpc[r] = "dead"
  /\ pulled => unjoined

\* Without a transport the picture is off, or a thread is about to turn it off
\* ("Stop HDMI immediately when the UDC reports a broken transport").
NoTransportNoVideo ==
  configured \/ ~video_started \/ \E t \in Senders : sp[t] = "lost"

\* As long as no join times out, no chunk read from one transport is shown on
\* another, ...
VideoIsCurrent ==
  [][\A r \in Readers :
       (rpc[r] = "video" /\ rpc'[r] = "check" /\ video_started' /\ ~unjoined)
         => rdata[r] = ep]_vars

\* ... and a worker of an old transport that fails never takes down its successor,
\* although _transport_lost does not check which one it is called for.  (Threads of
\* the control API are not joined, and do so.)
FreshTransportSurvives ==
  [][\A t \in Readers \cup Drivers :
       (sp[t] = "lost" /\ sp'[t] = "no" /\ configured /\ ~unjoined)
         => sent[t] = ep]_vars

\* Workers of an old transport neither show what they have read on the new one nor take
\* it down: a teardown waits for them (Session.reset).
SessionsKeptApart == VideoIsCurrent /\ FreshTransportSurvives

\* With the same exception, an accessory session on a working transport comes to be
\* served by both its threads, again after every reset and failure: neither ends, or
\* is left out by set_configuration, while the session goes on.  (An error on a working
\* transport ends a worker, and no one starts another.)
SessionHasWorkers ==
  (configured /\ mode = "accessory" /\ live = ep)
    ~> \/ ReaderAlive(reader) /\ DriverAlive(driver)
       \/ ~configured \/ live # ep \/ unjoined \/ failed

\* A bus reset is always acted on, up to the end of the teardown, or goes with its
\* descriptor: no sender keeps tx_lock, and no worker keeps main, for ever.
UsbEventsAreServed == (host # "none") ~> (mpc \in {"end", "reopen", "done"})

\* The session is well-typed, tx_lock is held by the thread that writes, there is one
\* reader at most, raw-gadget is not closed under it, and there is no video without
\* a transport.
PiInv == PiTypeOK /\ OneReader /\ ClosedWithoutReader /\ NoTransportNoVideo
=============================================================================
