------------------------------ MODULE KextLease ------------------------------
(***************************************************************************)
(* The macOS kext aspan_usb_bridge and its userspace clients (link.c and   *)
(* publish.c): publication of the accessory description under a lease.     *)
(*                                                                         *)
(* Commands and the lease timer run behind one command gate.  A command    *)
(* that changes the description holds the gate while a kernel thread hands *)
(* the description to the USB controller; clients and time go on meanwhile.*)
(* One tick is 5 s, the heartbeat period of both clients.                  *)
(*                                                                         *)
(* stop() passes the gate only to restore: it takes timer and gate down    *)
(* while commands may be anywhere.  What they do with a timer or a gate    *)
(* that is gone is undefined; here the machine goes down.                  *)
(***************************************************************************)
EXTENDS Integers

CONSTANTS Links,           \* processes running link
          Publishers,      \* processes running publish --publish-accessory
          AskedLease,      \* lease a client asks for, in ticks
          MinLease, MaxLease, DefaultLease,   \* kMinLeaseMs, kMaxLeaseMs, kDefaultLeaseMs
          MaxDelay         \* how late a client may send a heartbeat

LeaseAssumption ==
  /\ Links \cap Publishers = {}
  /\ "kext" \notin Links \cup Publishers
  /\ AskedLease \in Nat /\ MinLease \in Nat \ {0} /\ MaxLease \in Nat
  /\ MinLease <= MaxLease /\ MaxDelay \in Nat
  /\ DefaultLease \in MinLease .. MaxLease

Clients == Links \cup Publishers

VARIABLES
  \* the kext
  phase,      \* how far stop() is: "running", "restoring", "restored", "cancelled",
              \* "noTimer", "stopped"; "panicked": the machine went down
  published,  \* m_published
  timer,      \* ticks left on m_timer, 0 when it is due, Off when cancelled
  leaseMs,    \* m_leaseMs
  op,         \* holds the gate: "idle", "publish", "undo", "restore", "stop", "beat"
  by,         \* the caller that waits for it
  apply,      \* "none", "due" once a timer to cancel was seen; the apply thread:
              \* "running", "ok", "failed"
  target,     \* the description it hands over
  newLease,   \* the lease that goes with it
  desc,       \* external: the description the controller presents
  refused,    \* history: the controller has refused to go back to stock
  overtaken,  \* ghost: stop() took timer or gate from a command that had seen it
  \* the clients
  cs,         \* client state; a client waits in "publish", "beat" and "stock"
  beatAge     \* ticks since the client's last heartbeat was handled

kext == <<phase, published, timer, leaseMs, overtaken>>
gate == <<op, by, apply, target, newLease>>
controller == <<desc, refused>>
vars == <<kext, gate, controller, cs, beatAge>>

Off == -1
HEARTBEAT == 1
StockLease == 1     \* aspan_publish_stock asks for 5000 ms

\* The limits handlePropertiesGated puts on LeaseMs.
Clamp(l) == IF l < MinLease THEN MinLease ELSE IF l > MaxLease THEN MaxLease ELSE l

Alive(c) == cs[c] \notin {"idle", "gone", "crashed"}

Init ==
  /\ phase = "running" /\ published = FALSE /\ timer = Off
  /\ leaseMs = DefaultLease /\ overtaken = FALSE
  /\ op = "idle" /\ by = "kext" /\ apply = "none" /\ target = "stock"
  /\ newLease = MinLease
  /\ desc = "stock" /\ refused = FALSE
  /\ cs = [c \in Clients |-> "idle"]
  /\ beatAge = [c \in Clients |-> 0]
-----------------------------------------------------------------------------
(* Behind the gate *)

GateFree == op = "idle" /\ phase \notin {"stopped", "panicked"}

\* m_timer is there.
TimerSet == phase \in {"running", "restoring", "restored", "cancelled"}

\* A command uses what stop() has taken away.
Panic ==
  /\ phase' = "panicked"
  /\ UNCHANGED <<published, timer, leaseMs, overtaken, gate, controller, cs, beatAge>>

\* The answer to a finished command; a crashed caller no longer hears it.
Answered(c, ok) ==
  CASE cs[c] = "publish" /\ ok -> "up"
    [] cs[c] = "publish" /\ ~ok -> IF c \in Links THEN "stock" ELSE "gone"
    [] cs[c] = "stock" -> "gone"
    [] cs[c] = "beat" -> IF ok \/ c \in Links THEN "up" ELSE "stock"
    [] OTHER -> cs[c]

Reply(ok) ==
  cs' = IF by \in Clients THEN [cs EXCEPT ![by] = Answered(by, ok)] ELSE cs

\* applyOnKernelThread: start the thread and sleep, holding the gate.
StartApply(kind, caller, description, lease) ==
  /\ op' = kind /\ by' = caller /\ apply' = "running"
  /\ target' = description /\ newLease' = lease

\* Mutant: publishGated does not look at m_timer.
PublishWithoutTimer(c) ==
  /\ GateFree /\ cs[c] \in {"publish", "stock"}
  /\ IF cs[c] = "publish"
       THEN StartApply("publish", c, "accessory", Clamp(AskedLease))
       ELSE StartApply("publish", c, "stock", Clamp(StockLease))
  /\ UNCHANGED <<kext, controller, cs, beatAge>>

\* "Publish" of the accessory, or of the stock description with a short lease; refused
\* without m_timer or memory.
Publish(c) ==
  /\ GateFree /\ cs[c] \in {"publish", "stock"}
  /\ \/ /\ cs' = [cs EXCEPT ![c] = Answered(c, FALSE)]
        /\ UNCHANGED gate
     \/ /\ TimerSet
        /\ IF cs[c] = "publish"
             THEN StartApply("publish", c, "accessory", Clamp(AskedLease))
             ELSE StartApply("publish", c, "stock", Clamp(StockLease))
        /\ UNCHANGED cs
  /\ UNCHANGED <<kext, controller, beatAge>>

\* Mutant: a heartbeat leaves the timer running.
HeartbeatIgnored(c) ==
  /\ GateFree /\ cs[c] = "beat"
  /\ cs' = [cs EXCEPT ![c] = "up"]
  /\ beatAge' = [beatAge EXCEPT ![c] = 0]
  /\ UNCHANGED <<kext, gate, controller>>

\* "Heartbeat": refused when nothing is published, or without m_timer.  link carries on
\* after a refusal, publish goes back to stock.
Heartbeat(c) ==
  /\ GateFree /\ cs[c] = "beat"
  /\ IF published /\ TimerSet
       THEN /\ op' = "beat" /\ by' = c
            /\ UNCHANGED <<apply, target, newLease, cs, beatAge>>
       ELSE /\ cs' = [cs EXCEPT ![c] = Answered(c, FALSE)]
            /\ beatAge' = [beatAge EXCEPT ![c] = 0]
            /\ UNCHANGED gate
  /\ UNCHANGED <<kext, controller>>

\* Then it restarts m_timer.
FinishBeat ==
  /\ op = "beat"
  /\ \/ /\ TimerSet
        /\ timer' = leaseMs /\ op' = "idle" /\ Reply(TRUE)
        /\ beatAge' = IF by \in Clients THEN [beatAge EXCEPT ![by] = 0] ELSE beatAge
        /\ UNCHANGED <<phase, published, leaseMs, overtaken, by, apply, target, newLease,
                       controller>>
     \/ ~TimerSet /\ Panic

\* restoreGated: cancel a timer that is there, apply the original description.
restoreGated(kind, caller) ==
  /\ op' = kind /\ by' = caller /\ target' = "stock" /\ newLease' = MinLease
  /\ apply' = IF TimerSet THEN "due" ELSE "running"

CancelTimer ==
  /\ apply = "due" /\ phase # "panicked"
  /\ \/ /\ TimerSet
        /\ timer' = Off /\ apply' = "running"
        /\ UNCHANGED <<phase, published, leaseMs, overtaken, op, by, target, newLease,
                       controller, cs, beatAge>>
     \/ ~TimerSet /\ Panic

\* Mutant: the expired lease starts over.
LeaseRenews ==
  /\ GateFree /\ timer = 0
  /\ timer' = leaseMs
  /\ UNCHANGED <<phase, published, leaseMs, overtaken, gate, controller, cs, beatAge>>

\* leaseFired: the timer's event source runs behind the gate.
LeaseFires ==
  /\ GateFree /\ timer = 0
  /\ restoreGated("restore", "kext")
  /\ UNCHANGED <<kext, controller, cs, beatAge>>

\* "Restore" from some process.
RestoreCommand ==
  /\ GateFree
  /\ restoreGated("restore", "kext")
  /\ UNCHANGED <<kext, controller, cs, beatAge>>

\* applyThread / applyConfigurationGated: the controller takes the description
\* or refuses it; after stop() neither controller nor lock may be there.
ApplyThread ==
  /\ apply = "running" /\ phase # "panicked"
  /\ \/ /\ \/ apply' = "ok" /\ desc' = target /\ UNCHANGED refused
           \/ apply' = "failed" /\ refused' = (refused \/ op # "publish") /\ UNCHANGED desc
        /\ UNCHANGED <<kext, op, by, target, newLease, cs, beatAge>>
     \/ phase = "stopped" /\ Panic

\* Mutant: a failed publication returns without restoring.
FinishPublishNoUndo ==
  /\ op = "publish" /\ apply \in {"ok", "failed"} /\ phase # "panicked"
  /\ IF apply = "ok"
       THEN published' = TRUE /\ leaseMs' = newLease /\ timer' = newLease
       ELSE published' = FALSE /\ timer' = Off /\ UNCHANGED leaseMs
  /\ op' = "idle" /\ apply' = "none"
  /\ Reply(apply = "ok")
  /\ UNCHANGED <<phase, overtaken, controller, by, target, newLease, beatAge>>

\* publishGated after the apply: arm the lease, or undo.
FinishPublish ==
  /\ op = "publish" /\ phase # "panicked"
  /\ \/ /\ apply = "ok" /\ TimerSet
        /\ published' = TRUE /\ leaseMs' = newLease /\ timer' = newLease
        /\ op' = "idle" /\ apply' = "none" /\ Reply(TRUE)
        /\ beatAge' = IF by \in Clients THEN [beatAge EXCEPT ![by] = 0] ELSE beatAge
        /\ UNCHANGED <<phase, overtaken, by, target, newLease, controller>>
     \/ apply = "ok" /\ ~TimerSet /\ Panic
     \/ /\ apply = "failed" /\ restoreGated("undo", by)
        /\ UNCHANGED <<kext, controller, cs, beatAge>>

\* restoreGated after the apply: forget the publication, whatever the result.
FinishRestore ==
  /\ op \in {"undo", "restore", "stop"} /\ apply \in {"ok", "failed"}
  /\ phase # "panicked"
  /\ published' = FALSE
  /\ op' = "idle" /\ apply' = "none"
  /\ phase' = IF op = "stop" THEN "restored" ELSE phase
  /\ IF op = "undo" THEN Reply(FALSE) ELSE UNCHANGED cs
  /\ UNCHANGED <<timer, leaseMs, overtaken, by, target, newLease, controller, beatAge>>
-----------------------------------------------------------------------------
(* stop() *)

\* Restore behind the gate.
StopRestore ==
  /\ GateFree /\ phase = "running"
  /\ phase' = "restoring"
  /\ restoreGated("stop", "kext")
  /\ UNCHANGED <<published, timer, leaseMs, overtaken, controller, cs, beatAge>>

\* From here on beside the gate: cancel the timer, which a later publication may
\* have armed, ...
StopCancel ==
  /\ phase = "restored"
  /\ phase' = "cancelled" /\ timer' = Off
  /\ UNCHANGED <<published, leaseMs, overtaken, gate, controller, cs, beatAge>>

\* ... remove, release and clear it, ...
StopTimer ==
  /\ phase = "cancelled"
  /\ phase' = "noTimer" /\ timer' = Off
  /\ overtaken' = (overtaken \/ op \in {"publish", "beat"} \/ apply = "due")
  /\ UNCHANGED <<published, leaseMs, gate, controller, cs, beatAge>>

\* ... then the gate, the controller and the lock of the apply thread.
StopGate ==
  /\ phase = "noTimer"
  /\ phase' = "stopped"
  /\ overtaken' = (overtaken \/ op # "idle"
                     \/ \E c \in Clients : cs[c] \in {"publish", "beat", "stock"})
  /\ UNCHANGED <<published, timer, leaseMs, gate, controller, cs, beatAge>>

\* A caller that setProperties had let pass for the gate that is gone: refused, or worse.
Stranded(c) ==
  /\ phase = "stopped" /\ cs[c] \in {"publish", "beat", "stock"}
  /\ op = "idle" \/ by # c
  /\ \/ /\ cs' = [cs EXCEPT ![c] = "gone"]
        /\ UNCHANGED <<kext, gate, controller, beatAge>>
     \/ Panic
-----------------------------------------------------------------------------
(* Clients and time *)

\* A client starts and asks for the accessory.
Start(c) ==
  /\ cs[c] = "idle" /\ phase # "panicked"
  /\ cs' = [cs EXCEPT ![c] = IF phase = "stopped" THEN "gone" ELSE "publish"]
  /\ UNCHANGED <<kext, gate, controller, beatAge>>

\* The client's loop sends a heartbeat every 5 s.
SendBeat(c) ==
  /\ cs[c] = "up" /\ beatAge[c] >= HEARTBEAT
  /\ phase \notin {"stopped", "panicked"}
  /\ cs' = [cs EXCEPT ![c] = "beat"]
  /\ UNCHANGED <<kext, gate, controller, beatAge>>

\* The client is told to end, or its time is over: back to stock.
Quit(c) ==
  /\ cs[c] = "up" /\ phase # "panicked"
  /\ cs' = [cs EXCEPT ![c] = IF phase = "stopped" THEN "gone" ELSE "stock"]
  /\ UNCHANGED <<kext, gate, controller, beatAge>>

\* The client dies at any point, also while its command holds the gate.
Crash(c) ==
  /\ Alive(c) /\ phase # "panicked"
  /\ cs' = [cs EXCEPT ![c] = "crashed"]
  /\ UNCHANGED <<kext, gate, controller, beatAge>>

\* 5 s pass.  A live client is at most MaxDelay late with its heartbeat.
Tick ==
  /\ phase # "panicked"
  /\ \A c \in Clients : cs[c] \in {"up", "beat"} /\ phase # "stopped" =>
                          beatAge[c] < HEARTBEAT + MaxDelay
  /\ timer' = IF timer > 0 THEN timer - 1 ELSE timer
  /\ beatAge' = [c \in Clients |->
                   IF cs[c] \in {"up", "beat"} /\ phase # "stopped"
                     THEN beatAge[c] + 1 ELSE beatAge[c]]
  /\ UNCHANGED <<phase, published, leaseMs, overtaken, gate, controller, cs>>

Kernel ==
  \/ LeaseFires \/ CancelTimer \/ ApplyThread \/ FinishPublish \/ FinishBeat \/ FinishRestore
  \/ StopCancel \/ StopTimer \/ StopGate
  \/ \E c \in Clients : Publish(c) \/ Heartbeat(c) \/ Stranded(c)

Next ==
  \/ Kernel
  \/ RestoreCommand \/ StopRestore
  \/ \E c \in Clients : Start(c) \/ SendBeat(c) \/ Quit(c) \/ Crash(c)
  \/ Tick

Spec == Init /\ [][Next]_vars

\* The kernel runs what is ready to run and time passes; nothing makes a
\* client do anything.
FairSpec == Spec /\ WF_vars(Kernel) /\ WF_vars(Tick)
-----------------------------------------------------------------------------
LeaseTypeOK ==
  /\ phase \in {"running", "restoring", "restored", "cancelled", "noTimer", "stopped",
                "panicked"}
  /\ published \in BOOLEAN /\ overtaken \in BOOLEAN
  /\ timer \in {Off} \cup 0 .. MaxLease /\ leaseMs \in MinLease .. MaxLease
  /\ op \in {"idle", "publish", "undo", "restore", "stop", "beat"}
  /\ by \in Clients \cup {"kext"}
  /\ apply \in {"none", "due", "running", "ok", "failed"}
  /\ target \in {"stock", "accessory"} /\ newLease \in MinLease .. MaxLease
  /\ desc \in {"stock", "accessory"} /\ refused \in BOOLEAN
  /\ cs \in [Clients -> {"idle", "publish", "up", "beat", "stock", "gone",
                         "crashed"}]
  /\ beatAge \in [Clients -> Nat]

\* Something is in charge of the description: a command holds the gate, or the
\* lease timer runs for a publication.
Covered == op # "idle" \/ (published /\ timer # Off)

\* stop() has not cancelled the timer yet.
InService == phase \in {"running", "restoring", "restored"}

\* An accessory the controller presents is always covered, through crashes, failed
\* publications, foreign restores and stop() up to where it cancels the timer, unless the
\* controller has refused a restore (restoreGated, publishGated).
NeverUncovered == desc = "accessory" /\ InService => Covered \/ refused

\* Once stop() has cleared the timer nothing arms it, and no command that starts then is
\* on its way to it: publishGated and the heartbeat look first.  A command that had
\* looked before stop() took timer or gate away is excepted, it may bring the machine down.
NoTimerAfterTeardown ==
  ~TimerSet =>
    /\ timer = Off
    /\ overtaken \/ (op \notin {"publish", "beat"} /\ apply # "due" /\ phase # "panicked")

\* The kext is well-typed, and only a command that stop() overtook meets its timer cleared.
KextInv == LeaseTypeOK /\ NoTimerAfterTeardown

\* The lease never runs out under a living client: as long as somebody who is at
\* most MaxDelay late beats, an accessory is taken away by a command only, although
\* all clients share the one lease (handlePropertiesGated, leaseFired).
LeaseSparesTheLiving ==
  (op = "idle" /\ published /\ desc = "accessory" /\ \E c \in Clients : cs[c] \in {"up", "beat"})
    => timer # 0

Contract == INSTANCE LeaseContract
              WITH visible <- desc = "accessory" /\ InService /\ ~refused,
                   covered <- Covered \/ ~InService

\* The kext implements the lease contract until stop() cancels the timer or the
\* controller refuses a restore.
KextHonoursContract == Contract!Spec

\* "userspace died - roll back to NCM" (docs/03-macos-kext.md:27): once no client
\* is left, the stock description comes back, under the same two conditions.
DeadMeansStock ==
  (\A c \in Clients : ~Alive(c))
    ~> (desc = "stock" \/ refused \/ ~InService \/ \E c \in Clients : Alive(c))
=============================================================================
