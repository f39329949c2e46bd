---------------------------- MODULE OutputProfile ----------------------------
(***************************************************************************)
(* HDMI output profiles of the Pi endpoint: pi_endpoint/output_profile.py  *)
(* as VideoOutput uses it.  A dashboard writes the settings, displays come *)
(* and go, the control API reloads the profile, and the player loop builds *)
(* its command afresh at every start (VideoOutput has the loop itself).    *)
(*                                                                         *)
(* Of a command only the connectors it shows on matter; the filters of a   *)
(* rotation or a frame rate are left out.                                  *)
(***************************************************************************)
EXTENDS Integers, FiniteSets

CONSTANTS Callers,    \* API threads that may reload the profile
          Saved,      \* what a dashboard may write to the settings file
          Env,        \* connectors with a DJI_HDMI_CONNECTOR_<i>
          Watched,    \* connectors whose status is in --display-status
          MaxSaves,   \* bound: times the settings are written
          MaxPlugs    \* bound: times a display comes or goes

VARIABLES
  file,        \* the settings file
  saves,       \* history: how often it has been written
  drm,         \* external: status of HDMI-A-1 and HDMI-A-2, or "absent"
  plugs,
  profile,     \* VideoOutput.command and profile
  thread,      \* player thread: "look", "start", "spawn", "dead"
  built,       \* the command it is starting
  player,      \* the command that runs, or NoPlayer
  api,         \* per caller of reload_profile: "idle", "set", "stop"
  fresh,       \* per caller: the command it has built
  promised,    \* history: newest settings of a reload that stopped the player
  overtaken    \* ghost: that reload found a player neither running nor started yet

dash == <<file, saves, drm, plugs>>
loop == <<thread, built, player>>
vars == <<dash, profile, loop, api, fresh, promised, overtaken>>

Placeholder == 0      \* the connector-id of the configured command
Connectors == {1, 2}
Statuses == {"absent", "disconnected", "unknown", "connected"}

\* profile_from_settings maps values it does not know to these.
Settings == [out : {"all", "1", "2"}, scan : {"progressive", "interlaced"}, ntsc : BOOLEAN]
Default == [out |-> "all", scan |-> "progressive", ntsc |-> FALSE]

Files == {f \in [form : {"json", "text", "word", "null"}, settings : Settings] :
            f.form # "json" => f.settings = Default}

ProfileAssumption ==
  /\ Saved \subseteq Files /\ Env \subseteq Connectors /\ Watched \subseteq Connectors
  /\ MaxSaves \in Nat /\ MaxPlugs \in Nat

\* What load_settings and profile_from_settings make of a file: no JSON is no
\* settings, a word for a number raises ValueError, a null TypeError.
Raises(f) == IF f.form \in {"word", "null"} THEN f.form ELSE "no"
load(f) == IF f.form = "text" THEN Default ELSE f.settings
-----------------------------------------------------------------------------
(* build_command *)

\* connector_one and connector_two.
Live == Env \cup {i \in Connectors : drm[i] = "connected"}

\* What stays pending: no display to show on, NTSC always, and interlacing as soon
\* as any connector exists (discover_interlaced_connectors finds none).
Pending(s) ==
  (CASE s.out = "all" /\ Live = {} -> {"multi_hdmi"}
     [] s.out = "1" /\ 1 \notin Live -> {"hdmi_1_connector_id"}
     [] OTHER -> {})
  \cup (IF s.ntsc THEN {"ntsc_drm_timing"} ELSE {})
  \cup (IF s.scan = "interlaced" /\ \E i \in Connectors : drm[i] # "absent"
          THEN {"interlaced_mode_unavailable"} ELSE {})

\* The connectors put into the command; output 2 falls back to a display of
\* unknown status and to the other one.  Two displays need everything applied.
Chosen(s) ==
  CASE s.out = "1" -> Live \cap {1}
    [] s.out = "2" -> IF 2 \in Env \/ drm[2] \in {"connected", "unknown"} THEN {2}
                      ELSE {1} \cap {i \in Connectors : drm[i] = "connected"}
    [] s.out = "all" -> IF Live = {1, 2} /\ Pending(s) # {} THEN {} ELSE Live

build_command ==
  LET s == load(file)
  IN  [version |-> saves, settings |-> s, live |-> Live,
       sinks |-> IF Chosen(s) = {} THEN {Placeholder} ELSE Chosen(s),
       applied |-> Pending(s) = {}]

NoPlayer == [version |-> -1]
-----------------------------------------------------------------------------
InitAt(t) ==
  /\ file \in [form : {"json"}, settings : {Default}]
  /\ saves = 0 /\ plugs = 0
  /\ drm \in [Connectors -> {"absent", "connected"}]
  /\ profile = build_command
  /\ thread = t /\ built = NoPlayer /\ player = NoPlayer
  /\ api = [c \in Callers |-> "idle"] /\ fresh = [c \in Callers |-> NoPlayer]
  /\ promised = 0 /\ overtaken = FALSE

\* A file that raises would end the endpoint's start.
Init == InitAt("look")

\* The dashboard writes the file in place: it may be read half written.
Save(f) ==
  /\ saves < MaxSaves
  /\ file' = f /\ saves' = saves + 1
  /\ UNCHANGED <<drm, plugs, profile, loop, api, fresh, promised, overtaken>>

Plug(i, status) ==
  /\ plugs < MaxPlugs /\ drm[i] # status
  /\ drm' = [drm EXCEPT ![i] = status] /\ plugs' = plugs + 1
  /\ UNCHANGED <<file, saves, profile, loop, api, fresh, promised, overtaken>>

\* _display_connected: without any status to read the loop goes on.
display_connected ==
  \/ \A i \in Watched : drm[i] = "absent"
  \/ \E i \in Watched : drm[i] = "connected"

\* The loop finds a display and no player.
Looks ==
  /\ thread = "look" /\ display_connected /\ player = NoPlayer
  /\ thread' = "start"
  /\ UNCHANGED <<dash, profile, built, player, api, fresh, promised, overtaken>>

\* Mutant: the command of the last reload is used.
StartsOld ==
  /\ thread = "start"
  /\ thread' = "spawn" /\ built' = profile
  /\ UNCHANGED <<dash, profile, player, api, fresh, promised, overtaken>>

\* _start_process reads settings and connectors again.  It catches ValueError; a
\* TypeError ends the player thread.
Starts ==
  /\ thread = "start"
  /\ CASE Raises(file) = "no"   -> thread' = "spawn" /\ built' = build_command
       [] Raises(file) = "word" -> thread' = "look" /\ UNCHANGED built
       [] Raises(file) = "null" -> thread' = "dead" /\ UNCHANGED built
  /\ UNCHANGED <<dash, profile, player, api, fresh, promised, overtaken>>

\* Popen, which may fail.
Spawn(ok) ==
  /\ thread = "spawn"
  /\ player' = IF ok THEN built ELSE NoPlayer
  /\ thread' = "look" /\ built' = NoPlayer
  /\ UNCHANGED <<dash, profile, api, fresh, promised, overtaken>>

\* By itself, or stopped by the loop because no display is connected.
PlayerExits ==
  /\ player # NoPlayer
  /\ player' = NoPlayer
  /\ UNCHANGED <<dash, profile, thread, built, api, fresh, promised, overtaken>>

\* reload_profile: an exception goes to the caller and nothing has changed.
ReloadBuilds(c) ==
  /\ api[c] = "idle" /\ Raises(file) = "no"
  /\ api' = [api EXCEPT ![c] = "set"] /\ fresh' = [fresh EXCEPT ![c] = build_command]
  /\ UNCHANGED <<dash, profile, loop, promised, overtaken>>

ReloadSets(c) ==
  /\ api[c] = "set"
  /\ api' = [api EXCEPT ![c] = "stop"] /\ profile' = fresh[c]
  /\ UNCHANGED <<dash, loop, fresh, promised, overtaken>>

Promise(c) ==
  /\ promised' = IF fresh[c].version > promised THEN fresh[c].version ELSE promised
  /\ overtaken' = IF fresh[c].version < promised THEN overtaken
                  ELSE thread = "spawn" /\ built.version < fresh[c].version

Returns(c) ==
  /\ api' = [api EXCEPT ![c] = "idle"] /\ fresh' = [fresh EXCEPT ![c] = NoPlayer]
  /\ UNCHANGED <<dash, profile, thread, built>>

\* Mutant: the player is left to the display reset.
ReloadSpares(c, stuck) ==
  /\ api[c] = "stop" /\ (stuck => player # NoPlayer)
  /\ Promise(c) /\ UNCHANGED player
  /\ Returns(c)

\* _stop_process: the player ends, or is stuck and the caller is told so.
ReloadStops(c, stuck) ==
  /\ api[c] = "stop" /\ (stuck => player # NoPlayer)
  /\ IF stuck THEN UNCHANGED <<player, promised, overtaken>>
              ELSE Promise(c) /\ player' = NoPlayer
  /\ Returns(c)

Next ==
  \/ \E f \in Saved : Save(f)
  \/ \E i \in Connectors, status \in Statuses : Plug(i, status)
  \/ Looks \/ Starts \/ PlayerExits \/ \E ok \in BOOLEAN : Spawn(ok)
  \/ \E c \in Callers :
       ReloadBuilds(c) \/ ReloadSets(c) \/ \E stuck \in BOOLEAN : ReloadStops(c, stuck)

Spec == Init /\ [][Next]_vars

\* The player thread goes on; starts do not fail for ever.
Fairness ==
  /\ WF_vars(Looks) /\ WF_vars(Starts)
  /\ SF_vars(Spawn(TRUE)) /\ WF_vars(\E ok \in BOOLEAN : Spawn(ok))

FairSpec == Spec /\ Fairness
-----------------------------------------------------------------------------
ProfileTypeOK ==
  /\ file \in Files /\ saves \in 0 .. MaxSaves /\ plugs \in 0 .. MaxPlugs
  /\ drm \in [Connectors -> Statuses]
  /\ thread \in {"look", "start", "spawn", "dead"}
  /\ api \in [Callers -> {"idle", "set", "stop"}]
  /\ promised \in 0 .. MaxSaves

\* A profile that is called applied for both outputs, or for the first, shows on
\* every display that was live when it was built, and on none that was not.  (The
\* second output is called applied with nothing connected, too.)
AppliedIsShown ==
  \A c \in {profile, player} : c # NoPlayer /\ c.applied =>
    CASE c.settings.out = "all" -> c.sinks = c.live /\ c.live # {}
      [] c.settings.out = "1" -> c.sinks = {1} /\ 1 \in c.live
      [] c.settings.out = "2" -> 2 \in c.live => c.sinks = {2}

\* A player is started with the settings of the last reload that stopped one, or
\* newer ones, unless it was being started when the reload looked for it.
ReloadTakesEffect ==
  player # NoPlayer /\ player.version < promised => overtaken

ProfileInv == ProfileTypeOK /\ AppliedIsShown /\ ReloadTakesEffect

\* The settings of a reload reach the screen, unless a file with a null has ended
\* the player thread, a file with a word for a number stays, no display is connected,
\* or it was overtaken.
SettingsReachTheScreen ==
  \A v \in 1 .. MaxSaves :
    (promised = v) ~> \/ player.version >= v
                      \/ thread = "dead" \/ overtaken
                      \/ []<>(Raises(file) # "no") \/ []<>~display_connected
=============================================================================
