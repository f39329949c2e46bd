------------------------------ MODULE UsbControl ------------------------------
(***************************************************************************)
(* The control side of the Pi's USB gadget: the event loop and             *)
(* Session.handle_control, set_configuration and reset of                  *)
(* pi_endpoint/endpoint.py over RawGadget (raw_gadget.py), with goggles    *)
(* that enumerate, ask for an Android accessory and configure it.          *)
(*                                                                         *)
(* The kernel queues events in the order in which they happen; the main    *)
(* thread handles them late.  PiSession has the other threads and locks.   *)
(***************************************************************************)
EXTENDS Integers, Sequences

CONSTANTS Bumps,       \* bound: resets, replugs and errors in a behaviour
          MaxEvents    \* bound: events the main thread is behind

UsbAssumption == Bumps \in Nat /\ MaxEvents \in Nat \ {0, 1}

VARIABLES
  pc,           \* main: "open", "fetch", "enable", "reopen", "ended"
  mode, configured,
  ep,           \* which of ep_out and ep_in are not None
  enabled,      \* kernel: the bulk endpoints that are enabled
  events,       \* kernel: events not fetched yet
  host,         \* goggles: "away", "default", "normal", "aoa", "accessory",
                \*   "configured"
  asked,        \* goggles: the request they wait for, or "none"
  told,         \* history: product ids the goggles got in this enumeration
  forgotten,    \* history: enabled endpoints whose handles a SET_CONFIGURATION
                \*   dropped, or whose ep_disable failed
  bumps

device == <<pc, mode, configured, ep, enabled, forgotten>>
goggles == <<host, asked, told>>
vars == <<device, events, goggles, bumps>>

Bulk == {"out", "in"}
Requests == {"device", "protocol", "string", "start", "set_configuration",
             "set_configuration_0", "misc"}
Interruptions == {"reset", "disconnect"}

InitAt(at) ==
  /\ pc = at /\ mode = "normal" /\ configured = FALSE /\ ep = {}
  /\ enabled = {} /\ events = <<>> /\ forgotten = {} /\ bumps = 0
  /\ host = "away" /\ asked = "none" /\ told = {}

Init == InitAt("open")
-----------------------------------------------------------------------------
(* Endpoint *)

Bump == bumps < Bumps /\ bumps' = bumps + 1

\* RawGadget._open: a failure closes the descriptor again; main tries again.
Open(ok) ==
  /\ pc = "open"
  /\ IF ok THEN pc' = "fetch" /\ UNCHANGED bumps ELSE Bump /\ UNCHANGED pc
  /\ UNCHANGED <<mode, configured, ep, enabled, forgotten, events, goggles>>

\* Closing the descriptor ends the gadget: its endpoints and events are gone and
\* the goggles see it leave.
FdCloses ==
  /\ enabled' = {} /\ events' = <<>> /\ forgotten' = {}
  /\ host' = "away" /\ asked' = "none" /\ told' = {}

\* An OSError that main does not expect: finally, session and gadget close.
Die ==
  /\ pc' = "ended" /\ configured' = FALSE /\ ep' = {} /\ FdCloses
  /\ UNCHANGED mode

\* Session.reset disables the endpoints it knows of.  _disable_endpoints goes on when
\* that fails (a reader is still in ep_read, an answer is queued): the endpoint stays
\* enabled, but its handle is gone.
reset(m) ==
  /\ mode' = m /\ configured' = FALSE /\ ep' = {}
  /\ \E kept \in SUBSET ep :
       /\ enabled' = (enabled \ ep) \cup kept
       /\ forgotten' = forgotten \cup kept
       /\ IF kept = {} THEN UNCHANGED bumps ELSE Bump

\* The answer to a request can no longer be given when the bus has been reset or
\* unplugged since.
Stale == \E i \in 2 .. Len(events) : events[i] \in Interruptions

\* What the goggles do next when their request r is answered.
Answered(r) ==
  /\ asked' = "none"
  /\ told' = IF r = "device" THEN told \cup {mode} ELSE told
  /\ host' = CASE r = "device" -> mode
               [] r = "protocol" -> "aoa"
               [] r = "set_configuration" /\ host = "accessory" -> "configured"
               [] r = "set_configuration_0" /\ host = "configured" -> "accessory"
               [] OTHER -> host

\* Nobody hears a late answer.
Heard(r) == IF Stale THEN UNCHANGED goggles ELSE Answered(r)

Fetch(e) == pc = "fetch" /\ events # <<>> /\ Head(events) = e

\* handle_control for descriptors, GET_PROTOCOL, SEND_STRING and whatever else is
\* read, written or stalled without effect.
Reply(r) ==
  /\ Fetch(r) /\ r \in {"device", "protocol", "string", "misc"}
  /\ Heard(r)
  /\ events' = Tail(events)
  /\ UNCHANGED <<device, bumps>>

\* The ioctl of an answer fails; only SET_CONFIGURATION, SET_INTERFACE and
\* SET_ADDRESS go on.
ReplyFails(r) ==
  /\ Fetch(r) /\ r \in {"device", "protocol", "string", "start", "misc"}
  /\ Bump /\ Die

\* AOA_START: reset to the accessory, close the gadget and come back as another.
Start ==
  /\ Fetch("start")
  /\ mode' = "accessory" /\ configured' = FALSE /\ ep' = {}
  /\ FdCloses
  /\ pc' = "reopen"
  /\ UNCHANGED bumps

\* RawGadget.reinit after its settling time; nothing catches a failure.
Reopen(ok) ==
  /\ pc = "reopen"
  /\ IF ok
       THEN pc' = "fetch" /\ UNCHANGED <<mode, configured, ep, enabled, forgotten,
                                         events, goggles, bumps>>
       ELSE Bump /\ Die

\* SET_CONFIGURATION is acknowledged first; endpoints that are there stay, those
\* of a transport that was lost are forgotten.
SetConfiguration ==
  /\ Fetch("set_configuration")
  /\ Heard("set_configuration")
  /\ events' = Tail(events) /\ UNCHANGED bumps
  /\ IF configured
       THEN UNCHANGED device
       ELSE /\ pc' = "enable" /\ ep' = {}
            /\ forgotten' = forgotten \cup ep
            /\ UNCHANGED <<mode, configured, enabled>>

Unconfigure ==
  /\ Fetch("set_configuration_0")
  /\ Heard("set_configuration_0")
  /\ events' = Tail(events)
  /\ reset(mode)
  /\ UNCHANGED pc

\* Mutant: a failure leaves the first endpoint enabled.
EnableLeaves(ok) ==
  /\ pc = "enable"
  /\ ok \subseteq Bulk \ enabled /\ ok # {"in"}
  /\ pc' = "fetch"
  /\ enabled' = enabled \cup ok
  /\ IF ok = Bulk THEN ep' = Bulk /\ configured' = TRUE
     ELSE UNCHANGED <<ep, configured>>
  /\ IF ok = Bulk \/ enabled # {} THEN UNCHANGED bumps ELSE Bump
  /\ UNCHANGED <<mode, forgotten, events, goggles>>

\* ep_enable for both endpoints, which fails for one that is enabled already:
\* both, or what has been enabled is disabled again, which may fail too, and the
\* session waits.
Enable(ok) ==
  /\ pc = "enable"
  /\ ok \subseteq Bulk \ enabled /\ ok # {"in"}
  /\ pc' = "fetch"
  /\ IF ok = Bulk
       THEN /\ enabled' = Bulk /\ ep' = Bulk /\ configured' = TRUE
            /\ UNCHANGED <<forgotten, bumps>>
       ELSE /\ \E kept \in SUBSET ok :
                 /\ enabled' = enabled \cup kept
                 /\ forgotten' = forgotten \cup kept
                 /\ IF kept = {} /\ enabled # {} THEN UNCHANGED bumps ELSE Bump
            /\ UNCHANGED <<ep, configured>>
  /\ UNCHANGED <<mode, events, goggles>>

\* Mutant: a bus reset ends the accessory.
ResetToNormal ==
  /\ Fetch("reset")
  /\ reset("normal")
  /\ events' = Tail(events)
  /\ UNCHANGED <<pc, goggles>>

Reset ==
  /\ Fetch("reset")
  /\ reset(mode)
  /\ events' = Tail(events)
  /\ UNCHANGED <<pc, goggles>>

Disconnect ==
  /\ Fetch("disconnect")
  /\ reset("normal")
  /\ events' = Tail(events)
  /\ UNCHANGED <<pc, goggles>>

\* send_bulk_in found the endpoint broken: configured goes, the handles stay.
TransportLost ==
  /\ configured /\ pc = "fetch"
  /\ Bump
  /\ configured' = FALSE
  /\ UNCHANGED <<pc, mode, ep, enabled, forgotten, events, goggles>>
-----------------------------------------------------------------------------
(* Goggles *)

Room == Len(events) < MaxEvents
FdOpen == pc \in {"fetch", "enable"}

Happens(e) == Room /\ events' = Append(events, e)

\* CONNECT is only logged; the bus reset that opens an enumeration is an event.
Attach ==
  /\ host = "away" /\ FdOpen
  /\ Happens("reset")
  /\ host' = "default" /\ asked' = "none" /\ told' = {}
  /\ UNCHANGED <<device, bumps>>

\* The request that takes the goggles further.
NextRequest ==
  CASE host = "default" -> "device"
    [] host = "normal" -> "protocol"
    [] host = "aoa" -> "start"
    [] host = "accessory" -> "set_configuration"
    [] OTHER -> "none"

Ask(r) ==
  /\ host # "away" /\ asked = "none" /\ r \in Requests
  /\ IF r = NextRequest THEN UNCHANGED bumps ELSE Bump
  /\ r \in {"start", "string"} => host = "aoa"
  /\ r = "set_configuration_0" => host = "configured"
  /\ asked' = r
  /\ Happens(r)
  /\ UNCHANGED <<device, host, told>>

BusReset ==
  /\ host # "away" /\ Bump
  /\ Happens("reset")
  /\ host' = "default" /\ asked' = "none" /\ told' = {}
  /\ UNCHANGED device

Leave ==
  /\ Happens("disconnect")
  /\ host' = "away" /\ asked' = "none" /\ told' = {}
  /\ UNCHANGED device

Unplug == host # "away" /\ Bump /\ Leave

\* Configured goggles that get no bulk data are plugged in again.
GiveUp ==
  /\ host = "configured" /\ ~configured /\ events = <<>> /\ pc = "fetch"
  /\ Leave
  /\ UNCHANGED bumps

Next ==
  \/ \E ok \in BOOLEAN : Open(ok) \/ Reopen(ok)
  \/ \E r \in Requests : Reply(r) \/ ReplyFails(r) \/ Ask(r)
  \/ Start \/ SetConfiguration \/ Unconfigure \/ Reset \/ Disconnect
  \/ \E ok \in SUBSET Bulk : Enable(ok)
  \/ TransportLost \/ Attach \/ BusReset \/ Unplug \/ GiveUp

Spec == Init /\ [][Next]_vars

\* The main thread handles its events, and the goggles go on with their protocol.
Fairness ==
  /\ WF_vars(Open(TRUE)) /\ WF_vars(Reopen(TRUE))
  /\ WF_vars(\E r \in Requests : Reply(r))
  /\ WF_vars(Start \/ SetConfiguration \/ Unconfigure \/ Reset \/ Disconnect)
  /\ WF_vars(\E ok \in SUBSET Bulk : Enable(ok))
  /\ WF_vars(Attach) /\ WF_vars(Ask(NextRequest)) /\ WF_vars(GiveUp)

FairSpec == Spec /\ Fairness
-----------------------------------------------------------------------------
UsbTypeOK ==
  /\ pc \in {"open", "fetch", "enable", "reopen", "ended"}
  /\ mode \in {"normal", "accessory"} /\ configured \in BOOLEAN
  /\ ep \in {{}, Bulk} /\ enabled \subseteq Bulk
  /\ asked \in Requests \cup {"none"} /\ bumps \in 0 .. Bumps

\* The session knows every endpoint that is enabled, except those a
\* SET_CONFIGURATION after a lost transport made it forget and those whose
\* ep_disable failed; a configured session has both.
EndpointsAreKnown ==
  /\ enabled = ep \cup forgotten
  /\ configured => ep = Bulk

\* Within one enumeration the goggles are told one product id, however late their
\* requests are handled.
ProductIdIsStable == told \subseteq {"normal"} \/ told \subseteq {"accessory"}

\* Configured goggles talk to an accessory, unless their next event is on its way.
HostAndDeviceAgree ==
  host = "configured" /\ events = <<>> => mode = "accessory"

UsbInv == UsbTypeOK /\ EndpointsAreKnown /\ ProductIdIsStable /\ HostAndDeviceAgree

\* After any mix of resets, replugs and errors the goggles end up with a
\* configured accessory, unless an error of ep0 or of the reopening ended main().
AccessoryIsReached ==
  <>[](host = "configured" /\ mode = "accessory" /\ configured) \/ <>(pc = "ended")
=============================================================================
