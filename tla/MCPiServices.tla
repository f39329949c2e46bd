----------------------------- MODULE MCPiServices -----------------------------
(* What serves the Pi's session and its display, one of four in a behaviour:  *)
(* camera commands on the control socket, USB requests on ep0, the preview    *)
(* encoder, and the output profile.                                           *)
EXTENDS ControlReplies

CONSTANTS Bumps, MaxEvents,                    \* UsbControl
          Procs, None, QueueSize, MaxFaults,   \* PreviewEncoder
          Env, Watched, Saved, MaxSaves, MaxPlugs       \* OutputProfile

VARIABLES
  part,                                        \* "replies", "usb", "preview", "profile"
  usbPc, usbConfigured,
  mode, ep, enabled, events, host, asked, told, forgotten, bumps,
  queue, stop_event, process, writer, wproc, reader, rproc, closing, cproc, picture,
  state, late, overdue, faults,
  file, saves, drm, plugs, profile, thread, built, player, api, fresh, promised, overtaken

U == INSTANCE UsbControl WITH pc <- usbPc, configured <- usbConfigured
V == INSTANCE PreviewEncoder
O == INSTANCE OutputProfile

ASSUME ServicesAssumption == U!UsbAssumption /\ V!PreviewAssumption /\ O!ProfileAssumption

usbVars == <<usbPc, usbConfigured, mode, ep, enabled, events, host, asked, told,
             forgotten, bumps>>
previewVars == <<queue, stop_event, process, writer, wproc, reader, rproc, closing, cproc,
                 picture, state, late, overdue, faults>>
profileVars == <<file, saves, drm, plugs, profile, thread, built, player, api, fresh,
                 promised, overtaken>>
MCVars == <<part, vars, usbVars, previewVars, profileVars>>

\* Those that do not take part are at rest: nobody calls, main() is over, the
\* preview is closed, the player thread is dead.
MCInit ==
  /\ Init
  /\ part \in {"replies", "usb", "preview", "profile"}
  /\ U!InitAt(IF part = "usb" THEN "open" ELSE "ended")
  /\ IF part = "preview" THEN V!Init ELSE V!InitAt("done", "done", "closed")
  /\ O!InitAt(IF part = "profile" THEN "look" ELSE "dead")
  /\ drm = [i \in O!Connectors |-> "absent"]

MCNext ==
  \/ part = "replies" /\ Next /\ UNCHANGED <<part, usbVars, previewVars, profileVars>>
  \/ part = "usb" /\ U!Next /\ UNCHANGED <<part, vars, previewVars, profileVars>>
  \/ part = "preview" /\ V!Next /\ UNCHANGED <<part, vars, usbVars, profileVars>>
  \/ part = "profile" /\ O!Next /\ UNCHANGED <<part, vars, usbVars, previewVars>>

MCSpec ==
  /\ MCInit /\ [][MCNext]_MCVars
  /\ Fairness /\ U!Fairness /\ V!Fairness /\ O!Fairness
-----------------------------------------------------------------------------
Json(o, s, n_) == [form |-> "json", settings |-> [out |-> o, scan |-> s, ntsc |-> n_]]

\* One of everything that changes a command, and what raises.
SavedFiles ==
  {Json("all", "interlaced", FALSE), Json("1", "progressive", FALSE),
   Json("2", "progressive", FALSE), Json("all", "progressive", TRUE)}
  \cup {[form |-> f, settings |-> Json("all", "progressive", FALSE).settings] :
          f \in {"text", "word", "null"}}

\* Endpoints are known, the product id is stable, goggles and session agree.
UsbInv == U!UsbInv

\* USB behaviours end with a configured accessory, or with main().
AccessoryIsReached == U!AccessoryIsReached

\* One encoder, and nothing of it after close().
PreviewInv == V!PreviewInv

\* The preview goes on after failures of its encoder, and close() ends.
PreviewLives == V!PreviewLives

\* What is called applied is shown, and a reload is not undone by an older one.
ProfileInv == O!ProfileInv

\* The settings of a reload reach the screen.
SettingsReachTheScreen == O!SettingsReachTheScreen
=============================================================================
