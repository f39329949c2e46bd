------------------------------- MODULE MacWired -------------------------------
(***************************************************************************)
(* main of ip-liveview/mac_wired.py: tetherkit makes an interface of the   *)
(* goggles' RNDIS device, main gives it an address and runs the receiver   *)
(* or the viewer on it.  Ctrl-C can come at any step, more than once.      *)
(*                                                                         *)
(* tetherkit runs under sudo, which is the process main knows: sudo first  *)
(* asks for a password, hands a SIGINT on and ends when tetherkit has; a   *)
(* SIGKILL ends sudo alone.                                                *)
(***************************************************************************)
EXTENDS Integers

CONSTANTS MaxInterrupts    \* bound: SIGINTs in a behaviour

WiredAssumption == MaxInterrupts \in Nat

VARIABLES
  no_tether, existing,  \* argument; an interface has the address already
  privileged,           \* main may signal what sudo has started
  at,          \* main: "probe", "rndis", "spawn", "assign", "iface", "address",
               \* "launch", "wait", "finally", "reap", "ended"
  result,      \* "none", "0", "1", the "child"'s, "raised"
  tether,      \* main's variable is set
  sproc,       \* external: sudo is "off", "asks" for a password, "run"s tetherkit
  tproc,       \* external: tetherkit is "off", "run", "asked" to end
  cproc,       \* external: receiver.py or liveview.py, likewise
  iface,       \* external: "absent", "plain", "addressed"
  rndis,       \* external: goggles are on the cable
  interrupts,
  killed,      \* ghost: main gave up on tetherkit after 5 s and killed its sudo
  astray       \* ghost: a SIGINT came where main had no hold of tetherkit, or let go

options == <<no_tether, existing, privileged>>
outside == <<sproc, tproc, cproc, iface, rndis>>
ghosts  == <<interrupts, killed, astray>>
vars    == <<options, at, result, tether, outside, ghosts>>

InitAt(p) ==
  /\ no_tether \in BOOLEAN /\ existing \in BOOLEAN /\ privileged \in BOOLEAN
  /\ at = p /\ result = "none" /\ tether = FALSE
  /\ sproc = "off" /\ tproc = "off" /\ cproc = "off" /\ rndis = FALSE
  /\ iface \in {"absent", "plain"}
  /\ interrupts = 0 /\ killed = FALSE /\ astray = FALSE

Init == InitAt("probe")
-----------------------------------------------------------------------------
(* main *)

Goto(p) == at' = p /\ UNCHANGED result

\* return or raise: finally comes next.
Leave(r) == at' = "finally" /\ result' = r

Probe ==
  /\ at = "probe"
  /\ Goto(IF ~no_tether THEN "rndis" ELSE IF existing THEN "launch" ELSE "address")
  /\ UNCHANGED <<options, tether, outside, ghosts>>

\* has_rndis, for 60 s.
AwaitRndis ==
  /\ at = "rndis"
  /\ IF rndis THEN Goto("spawn") ELSE Leave("1")
  /\ UNCHANGED <<options, tether, outside, ghosts>>

\* start_tetherkit, which raises if it is not installed; main knows the process
\* once Popen has returned it.
StartTether ==
  /\ \/ at = "spawn" /\ Leave("raised") /\ UNCHANGED <<sproc, tether>>
     \/ at = "spawn" /\ Goto("assign") /\ sproc' = "asks" /\ UNCHANGED tether
     \/ at = "assign" /\ Goto("iface") /\ tether' = TRUE /\ UNCHANGED sproc
  /\ UNCHANGED <<options, tproc, cproc, iface, rndis, ghosts>>

\* wait_iface, for 15 s.
WaitIface ==
  /\ at = "iface"
  /\ IF iface # "absent" THEN Goto("address") ELSE Leave("1")
  /\ UNCHANGED <<options, tether, outside, ghosts>>

\* configure_ip: without a password, then with one, where a failure raises.
ConfigureIp ==
  /\ at = "address"
  /\ \/ iface # "absent" /\ iface' = "addressed" /\ Goto("launch")
     \/ Leave("raised") /\ UNCHANGED iface
  /\ UNCHANGED <<options, tether, sproc, tproc, cproc, rndis, ghosts>>

Launch ==
  /\ at = "launch" /\ Goto("wait")
  /\ cproc' = "run"
  /\ UNCHANGED <<options, tether, sproc, tproc, iface, rndis, ghosts>>

Wait ==
  /\ at = "wait" /\ cproc = "off" /\ Leave("child")
  /\ UNCHANGED <<options, tether, outside, ghosts>>

\* What a SIGINT does to sudo: it ends at its prompt, and hands the signal on once
\* tetherkit runs.
SignalSudo ==
  /\ sproc' = IF sproc = "asks" THEN "off" ELSE sproc
  /\ tproc' = IF tproc = "run" THEN "asked" ELSE tproc

\* Mutant: tetherkit is ended only when the receiver has.
FinallyOfChild ==
  /\ at = "finally"
  /\ IF tether /\ sproc # "off" /\ privileged /\ result = "child"
       THEN SignalSudo /\ Goto("reap")
       ELSE at' = "ended" /\ UNCHANGED <<sproc, tproc, result>>
  /\ UNCHANGED <<options, tether, cproc, iface, rndis, ghosts>>

\* finally: SIGINT to a sudo that runs.  Without the right to, that raises.
Finally ==
  /\ at = "finally"
  /\ IF ~tether \/ sproc = "off" THEN at' = "ended" /\ UNCHANGED <<sproc, tproc, result>>
     ELSE IF privileged THEN SignalSudo /\ Goto("reap")
     ELSE at' = "ended" /\ result' = "raised" /\ UNCHANGED <<sproc, tproc>>
  /\ UNCHANGED <<options, tether, cproc, iface, rndis, ghosts>>

\* It ends, or sudo is killed after 5 s; tetherkit is not.
Reap ==
  /\ at = "reap" /\ Goto("ended")
  /\ sproc' = "off" /\ killed' = (sproc # "off")
  /\ UNCHANGED <<options, tether, tproc, cproc, iface, rndis, interrupts, astray>>

\* KeyboardInterrupt: before the try and in finally it ends main, between them main
\* returns 0.  From a terminal the children get the signal, too.
Interrupt(terminal) ==
  /\ at # "ended" /\ interrupts < MaxInterrupts
  /\ interrupts' = interrupts + 1
  /\ IF at \in {"probe", "finally", "reap"}
       THEN at' = "ended" /\ result' = "raised"
       ELSE Leave("0")
  /\ astray' = (astray \/ at \in {"assign", "finally", "reap"})
  /\ IF terminal THEN SignalSudo ELSE UNCHANGED <<sproc, tproc>>
  /\ cproc' = IF terminal /\ cproc = "run" THEN "asked" ELSE cproc
  /\ UNCHANGED <<options, tether, iface, rndis, killed>>
-----------------------------------------------------------------------------
(* External: sudo, tetherkit, its interface, the receiver and the cable *)

\* The password is right, or sudo gives up; later it ends after its tetherkit.
SudoRuns ==
  /\ \/ sproc = "asks" /\ sproc' = "run" /\ tproc' = "run"
     \/ sproc = "asks" /\ sproc' = "off" /\ UNCHANGED tproc
     \/ sproc = "run" /\ tproc = "off" /\ sproc' = "off" /\ UNCHANGED tproc
  /\ UNCHANGED <<options, at, result, tether, cproc, iface, rndis, ghosts>>

TetherRuns ==
  /\ \/ tproc = "run" /\ iface = "absent" /\ iface' = "plain" /\ UNCHANGED tproc
     \/ tproc # "off" /\ tproc' = "off" /\ iface' \in {iface, "absent"}
  /\ UNCHANGED <<options, at, result, tether, sproc, cproc, rndis, ghosts>>

ChildEnds ==
  /\ cproc # "off" /\ cproc' = "off"
  /\ UNCHANGED <<options, at, result, tether, sproc, tproc, iface, rndis, ghosts>>

Cable ==
  /\ rndis' = ~rndis
  /\ UNCHANGED <<options, at, result, tether, sproc, tproc, cproc, iface, ghosts>>

Main == Probe \/ AwaitRndis \/ StartTether \/ WaitIface \/ ConfigureIp \/ Launch \/ Wait
          \/ Finally \/ Reap

Next ==
  \/ Main \/ \E terminal \in BOOLEAN : Interrupt(terminal)
  \/ SudoRuns \/ TetherRuns \/ ChildEnds \/ Cable

Spec == Init /\ [][Next]_vars
-----------------------------------------------------------------------------
WiredTypeOK ==
  /\ at \in {"probe", "rndis", "spawn", "assign", "iface", "address", "launch", "wait",
             "finally", "reap", "ended"}
  /\ result \in {"none", "0", "1", "child", "raised"}
  /\ sproc \in {"off", "asks", "run"} /\ {tproc, cproc} \subseteq {"off", "run", "asked"}
  /\ iface \in {"absent", "plain", "addressed"} /\ interrupts \in 0 .. MaxInterrupts

\* However main ends, by a timeout, an error, Ctrl-C or with the receiver, it leaves
\* no tetherkit behind, nor a sudo at its prompt that would start one; after the 5 s it
\* may leave one that has been asked to end and has not.  Excepted: a main that may not
\* signal it, and a Ctrl-C between the start of tetherkit and main's note of it, or
\* while main was ending it.
NoTetherLeft ==
  at = "ended" =>
    \/ sproc # "asks" /\ (tproc = "off" \/ (killed /\ tproc = "asked"))
    \/ ~privileged \/ astray

\* main is well-typed and leaves no tetherkit behind unasked.
WiredInv == WiredTypeOK /\ NoTetherLeft
=============================================================================
