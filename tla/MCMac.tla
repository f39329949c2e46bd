-------------------------------- MODULE MCMac --------------------------------
(***************************************************************************)
(* The macOS side as one instance for TLC: link of the USB accessory path, *)
(* mac_wired.py of the RNDIS path, and the kext with its clients.  Each    *)
(* models what it needs of the others itself, so a behaviour is about one  *)
(* of the three, part says which, and the other two rest.                  *)
(***************************************************************************)
EXTENDS LinkLoop

CONSTANTS
  MaxInterrupts,                                          \* MacWired
  Links, Publishers, AskedLease, MinLease, MaxLease, DefaultLease,
  MaxDelay                                                \* KextLease

VARIABLES
  part,                                                   \* "link", "wired", "kext"
  no_tether, existing, privileged, at, result, tether, sproc, tproc, cproc, iface,
  rndis, interrupts, killed, astray,
  phase, published, timer, leaseMs, op, by, apply, target, newLease, shown, refused,
  overtaken, cs, beatAge

W == INSTANCE MacWired
K == INSTANCE KextLease WITH desc <- shown

ASSUME InterruptAssumption == W!WiredAssumption
ASSUME ClientAssumption == K!LeaseAssumption

wiredVars == <<no_tether, existing, privileged, at, result, tether, sproc, tproc, cproc, iface,
               rndis, interrupts, killed, astray>>
kextVars  == <<phase, published, timer, leaseMs, op, by, apply, target, newLease, shown,
               refused, overtaken, cs, beatAge>>
MCVars    == <<part, vars, wiredVars, kextVars>>

RestingLink == InitAt("killed")

RestingWired ==
  /\ W!InitAt("ended")
  /\ ~no_tether /\ ~existing /\ ~privileged /\ iface = "absent"

\* The two command line programs.
MCInit ==
  /\ \/ part = "link" /\ Init /\ RestingWired
     \/ part = "wired" /\ W!Init /\ RestingLink
  /\ K!Init

MCNext ==
  \/ part = "link" /\ Next /\ UNCHANGED <<part, wiredVars, kextVars>>
  \/ part = "wired" /\ W!Next /\ UNCHANGED <<part, vars, kextVars>>

MCSpec == MCInit /\ [][MCNext]_MCVars /\ (part = "link" => Fairness)

\* The kext.
KextNext == K!Next /\ UNCHANGED <<part, vars, wiredVars>>

KextStart == part = "kext" /\ RestingLink /\ RestingWired /\ K!Init

KextSpec ==
  /\ KextStart /\ [][KextNext]_MCVars
  /\ WF_kextVars(K!Kernel) /\ WF_kextVars(K!Tick)
-----------------------------------------------------------------------------
\* mac_wired.py leaves no tetherkit behind unasked, see MacWired.
WiredInv == W!WiredInv

\* The kext is well-typed, and only a command that stop() overtook meets its timer cleared.
KextInv == K!KextInv

\* The lease never runs out under a client that beats in time.
LeaseSparesTheLiving == K!LeaseSparesTheLiving

\* The kext implements LeaseContract.
KextHonoursContract == K!KextHonoursContract

\* Once no client is left, the stock description comes back.
DeadMeansStock == K!DeadMeansStock
=============================================================================
