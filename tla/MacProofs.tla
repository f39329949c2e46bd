------------------------------- MODULE MacProofs -------------------------------
(***************************************************************************)
(* Proofs about the macOS side.  For any number of ffplay processes, any   *)
(* timing and any number of interrupts: link leaves no ffplay and no       *)
(* accessory behind and keeps its lease; mac_wired leaves no tetherkit     *)
(* behind.  For any clients, lease limits and delays: the kext never       *)
(* leaves the accessory uncovered nor starts to arm a timer that is gone,  *)
(* spares a client that beats in time, and implements LeaseContract.       *)
(***************************************************************************)
EXTENDS MCMac, TLAPS

\* Every variable has its type.
LinkTypes ==
  /\ pc \in {"start", "wait", "open", "top", "beat", "stale", "probe", "read", "emit",
             "feed", "keep", "sleep", "quit", "returned", "killed"}
  /\ g_play_fd \in BOOLEAN /\ g_play_pid \in Procs \cup {None}
  /\ procs \in [Procs -> {"off", "run", "hung", "exited", "reaped"}]
  /\ desc \in {"stock", "accessory"} /\ lease \in {Off} \cup 0 .. Lease
  /\ waited \in 0 .. WaitMax /\ sinceBeat \in 0 .. Beat
  /\ sinceStart \in Nat /\ stalled \in BOOLEAN

\* What is read was probed for, and the probe followed a write.
ProbeInv ==
  /\ read_sel => probed /\ write_ok
  /\ pi_mode => sinceStart > Silent

\* No player is started before the loop, and none is left after it.
WindowInv ==
  /\ OnePlayer
  /\ pc \in {"start", "wait", "open"} => g_play_pid = None

IInv == LinkTypes /\ ProbeInv /\ WindowInv /\ ReturnsStock

\* One step of an iteration, between its heartbeat and its sleep.
AfterBeat == {"stale", "probe", "read", "emit", "feed", "keep", "sleep"}

\* The lease and the last heartbeat together span the whole lease; the first
\* heartbeat is due when the loop begins.
LeaseInv ==
  \/ stalled
  \/ /\ InLoop \/ pc \in {"wait", "open"} => desc = "accessory"
     /\ pc = "start" => waited = 0
     /\ pc = "wait" => lease + waited = Lease
     /\ pc \in {"start", "wait", "open"} => sinceBeat = Beat
     /\ pc = "open" => lease + WaitMax >= Lease
     /\ pc \in {"top", "beat", "quit"} =>
          \/ lease + sinceBeat >= Lease
          \/ sinceBeat = Beat /\ lease + WaitMax >= Lease
     /\ pc \in AfterBeat => lease + sinceBeat >= Lease /\ sinceBeat < Beat
-----------------------------------------------------------------------------
LEMMA TimesArePositive ==
  /\ Lease \in Nat /\ Beat \in Nat /\ WaitMax \in Nat /\ Silent \in Nat /\ None \notin Procs
  /\ Lease > 0 /\ Beat > 0 /\ WaitMax > 0
BY LinkAssumption

LEMMA LinkInit == Init => IInv /\ LeaseInv
<1> SUFFICES ASSUME Init PROVE IInv /\ LeaseInv
  OBVIOUS
<1>1. LinkTypes
  <2>1. pc \in {"start", "wait", "open", "top", "beat", "stale", "probe", "read", "emit",
             "feed", "keep", "sleep", "quit", "returned", "killed"}
    BY DEF Init, InitAt
  <2>2. g_play_fd \in BOOLEAN /\ g_play_pid \in Procs \cup {None} /\ stalled \in BOOLEAN
    BY DEF Init, InitAt
  <2>3. procs \in [Procs -> {"off", "run", "hung", "exited", "reaped"}]
    BY DEF Init, InitAt
  <2>4. desc \in {"stock", "accessory"} /\ sinceStart \in Nat
    BY DEF Init, InitAt
  <2>5. lease \in 0 .. Lease /\ waited \in 0 .. WaitMax /\ sinceBeat \in 0 .. Beat
    BY TimesArePositive DEF Init, InitAt
  <2> QED
    BY <2>1, <2>2, <2>3, <2>4, <2>5 DEF LinkTypes
<1>2. ProbeInv /\ WindowInv /\ ReturnsStock
  BY DEF Init, InitAt, ProbeInv, WindowInv, OnePlayer, ReturnsStock
<1>3. LeaseInv
  BY DEF Init, InitAt, LeaseInv, InLoop, AfterBeat
<1> QED
  BY <1>1, <1>2, <1>3 DEF IInv

LEMMA LinkTypeStep == LinkTypes /\ [Next]_vars => LinkTypes'
<1> SUFFICES ASSUME LinkTypes, [Next]_vars PROVE LinkTypes'
  OBVIOUS
<1> USE TimesArePositive DEF LinkTypes, player, reader, clock, kext, Go
<1>1. CASE Publish
  BY <1>1 DEF Publish, GiveUp, PublishStock, Off
<1>2. CASE WaitInterface
  BY <1>2 DEF WaitInterface, GiveUp, PublishStock, Off
<1>3. CASE Open
  BY <1>3 DEF Open, GiveUp, PublishStock, Off
<1>4. CASE Kill
  BY <1>4 DEF Kill
<1>5. CASE on_stop
  BY <1>5 DEF on_stop
<1>6. CASE Top
  BY <1>6 DEF Top
<1>7. CASE Heartbeat
  BY <1>7 DEF Heartbeat, Off
<1>8. CASE StaleVideo
  BY <1>8 DEF StaleVideo, stop_player
<1>9. CASE Probe
  BY <1>9 DEF Probe
<1>10. CASE ReadDone
  BY <1>10 DEF ReadDone
<1>11. CASE Keepalive
  BY <1>11 DEF Keepalive
<1>12. CASE Sleep
  BY <1>12 DEF Sleep, SleepLong, Age, Older, Hung, Off
<1>13. CASE Quit
  <2>1. procs' \in [Procs -> {"off", "run", "hung", "exited", "reaped"}]
    BY <1>13 DEF Quit, stop_player
  <2>2. lease' \in {Off} \cup 0 .. Lease /\ desc' \in {"stock", "accessory"}
    BY <1>13 DEF Quit, PublishStock, Off
  <2>3. UNCHANGED <<waited, sinceBeat, sinceStart, stalled>> /\ pc' = "returned"
    BY <1>13 DEF Quit
  <2>4. g_play_fd' \in BOOLEAN /\ g_play_pid' \in Procs \cup {None}
    BY <1>13 DEF Quit, stop_player
  <2> QED
    BY <2>1, <2>2, <2>3, <2>4
<1>14. CASE emit_video
  BY <1>14 DEF emit_video, start_player
<1>15. CASE FeedPlayer
  BY <1>15 DEF FeedPlayer, stop_player
<1>16. CASE Tick
  BY <1>16 DEF Tick, Age, Older, Hung, Off
<1>17. CASE LeaseFires
  BY <1>17 DEF LeaseFires, Off
<1>18. ASSUME NEW kind \in {"none", "video", "sps"}, Read(kind) PROVE LinkTypes'
  BY <1>18 DEF Read
<1>19. ASSUME NEW p \in Procs, PlayerChanges(p) PROVE LinkTypes'
  BY <1>19 DEF PlayerChanges
<1>20. CASE UNCHANGED vars
  BY <1>20 DEF vars
<1> QED
  BY <1>1, <1>2, <1>3, <1>4, <1>5, <1>6, <1>7, <1>8, <1>9, <1>10, <1>11, <1>12, <1>13,
     <1>14,
     <1>15, <1>16, <1>17, <1>18, <1>19, <1>20 DEF Next, LinkStep

LEMMA ProbeStep == LinkTypes /\ ProbeInv /\ [Next]_vars => ProbeInv'
<1> SUFFICES ASSUME LinkTypes, ProbeInv, [Next]_vars PROVE ProbeInv'
  OBVIOUS
<1> USE TimesArePositive DEF LinkTypes, ProbeInv, player, reader, clock, kext, Go
<1>1. CASE Publish
  BY <1>1 DEF Publish, GiveUp, PublishStock, Off
<1>2. CASE WaitInterface
  BY <1>2 DEF WaitInterface, GiveUp, PublishStock, Off
<1>3. CASE Open
  BY <1>3 DEF Open, GiveUp, PublishStock, Off
<1>4. CASE Kill
  BY <1>4 DEF Kill
<1>5. CASE on_stop
  BY <1>5 DEF on_stop
<1>6. CASE Top
  BY <1>6 DEF Top
<1>7. CASE Heartbeat
  BY <1>7 DEF Heartbeat, Off
<1>8. CASE StaleVideo
  BY <1>8 DEF StaleVideo, stop_player
<1>9. CASE Probe
  BY <1>9 DEF Probe
<1>10. CASE ReadDone
  BY <1>10 DEF ReadDone
<1>11. CASE Keepalive
  BY <1>11 DEF Keepalive
<1>12. CASE Sleep
  BY <1>12 DEF Sleep, SleepLong, Age, Older, Hung, Off
<1>13. CASE Quit
  BY <1>13 DEF Quit, stop_player, PublishStock, Off
<1>14. CASE emit_video
  BY <1>14 DEF emit_video, start_player
<1>15. CASE FeedPlayer
  BY <1>15 DEF FeedPlayer, stop_player
<1>16. CASE Tick
  BY <1>16 DEF Tick, Age, Older, Hung, Off
<1>17. CASE LeaseFires
  BY <1>17 DEF LeaseFires, Off
<1>18. ASSUME NEW kind \in {"none", "video", "sps"}, Read(kind) PROVE ProbeInv'
  BY <1>18 DEF Read
<1>19. ASSUME NEW p \in Procs, PlayerChanges(p) PROVE ProbeInv'
  BY <1>19 DEF PlayerChanges
<1>20. CASE UNCHANGED vars
  BY <1>20 DEF vars
<1> QED
  BY <1>1, <1>2, <1>3, <1>4, <1>5, <1>6, <1>7, <1>8, <1>9, <1>10, <1>11, <1>12, <1>13,
     <1>14,
     <1>15, <1>16, <1>17, <1>18, <1>19, <1>20 DEF Next, LinkStep

LEMMA WindowStep == LinkTypes /\ WindowInv /\ [Next]_vars => WindowInv'
<1> SUFFICES ASSUME LinkTypes, WindowInv, [Next]_vars PROVE WindowInv'
  OBVIOUS
<1> USE TimesArePositive
    DEF LinkTypes, WindowInv, OnePlayer, player, reader, clock, kext, Go
<1>1. CASE Publish
  BY <1>1 DEF Publish, GiveUp, PublishStock, Off
<1>2. CASE WaitInterface
  BY <1>2 DEF WaitInterface, GiveUp, PublishStock, Off
<1>3. CASE Open
  BY <1>3 DEF Open, GiveUp, PublishStock, Off
<1>4. CASE Kill
  BY <1>4 DEF Kill
<1>5. CASE on_stop
  BY <1>5 DEF on_stop
<1>6. CASE Top
  BY <1>6 DEF Top
<1>7. CASE Heartbeat
  BY <1>7 DEF Heartbeat, Off
<1>8. CASE StaleVideo
  BY <1>8 DEF StaleVideo, stop_player
<1>9. CASE Probe
  BY <1>9 DEF Probe
<1>10. CASE ReadDone
  BY <1>10 DEF ReadDone
<1>11. CASE Keepalive
  BY <1>11 DEF Keepalive
<1>12. CASE Sleep
  BY <1>12 DEF Sleep, SleepLong, Age, Older, Hung, Off
<1>13. CASE Quit
  BY <1>13 DEF Quit, stop_player, PublishStock, Off
<1>14. CASE emit_video
  BY <1>14 DEF emit_video, start_player
<1>15. CASE FeedPlayer
  BY <1>15 DEF FeedPlayer, stop_player
<1>16. CASE Tick
  BY <1>16 DEF Tick, Age, Older, Hung, Off
<1>17. CASE LeaseFires
  BY <1>17 DEF LeaseFires, Off
<1>18. ASSUME NEW kind \in {"none", "video", "sps"}, Read(kind) PROVE WindowInv'
  BY <1>18 DEF Read
<1>19. ASSUME NEW p \in Procs, PlayerChanges(p) PROVE WindowInv'
  BY <1>19 DEF PlayerChanges
<1>20. CASE UNCHANGED vars
  BY <1>20 DEF vars
<1> QED
  BY <1>1, <1>2, <1>3, <1>4, <1>5, <1>6, <1>7, <1>8, <1>9, <1>10, <1>11, <1>12, <1>13,
     <1>14,
     <1>15, <1>16, <1>17, <1>18, <1>19, <1>20 DEF Next, LinkStep

LEMMA StockStep == LinkTypes /\ ReturnsStock /\ [Next]_vars => ReturnsStock'
<1> SUFFICES ASSUME LinkTypes, ReturnsStock, [Next]_vars PROVE ReturnsStock'
  OBVIOUS
<1> USE DEF LinkTypes, ReturnsStock, player, reader, clock, kext, Go
<1>1. CASE Publish
  BY <1>1 DEF Publish, GiveUp, PublishStock, Off
<1>2. CASE WaitInterface
  BY <1>2 DEF WaitInterface, GiveUp, PublishStock, Off
<1>3. CASE Open
  BY <1>3 DEF Open, GiveUp, PublishStock, Off
<1>4. CASE Kill
  BY <1>4 DEF Kill
<1>5. CASE on_stop
  BY <1>5 DEF on_stop
<1>6. CASE Top
  BY <1>6 DEF Top
<1>7. CASE Heartbeat
  BY <1>7 DEF Heartbeat, Off
<1>8. CASE StaleVideo
  BY <1>8 DEF StaleVideo, stop_player
<1>9. CASE Probe
  BY <1>9 DEF Probe
<1>10. CASE ReadDone
  BY <1>10 DEF ReadDone
<1>11. CASE Keepalive
  BY <1>11 DEF Keepalive
<1>12. CASE Sleep
  BY <1>12 DEF Sleep, SleepLong, Age, Older, Hung, Off
<1>13. CASE Quit
  BY <1>13 DEF Quit, stop_player, PublishStock, Off
<1>14. CASE emit_video
  BY <1>14 DEF emit_video, start_player
<1>15. CASE FeedPlayer
  BY <1>15 DEF FeedPlayer, stop_player
<1>16. CASE Tick
  BY <1>16 DEF Tick, Age, Older, Hung, Off
<1>17. CASE LeaseFires
  BY <1>17 DEF LeaseFires, Off
<1>18. ASSUME NEW kind \in {"none", "video", "sps"}, Read(kind) PROVE ReturnsStock'
  BY <1>18 DEF Read
<1>19. ASSUME NEW p \in Procs, PlayerChanges(p) PROVE ReturnsStock'
  BY <1>19 DEF PlayerChanges
<1>20. CASE UNCHANGED vars
  BY <1>20 DEF vars
<1> QED
  BY <1>1, <1>2, <1>3, <1>4, <1>5, <1>6, <1>7, <1>8, <1>9, <1>10, <1>11, <1>12, <1>13,
     <1>14,
     <1>15, <1>16, <1>17, <1>18, <1>19, <1>20 DEF Next, LinkStep

\* link's own part of the invariant.
LEMMA LinkIsSafe == IInv => LinkInv
BY DEF IInv, LinkTypes, ProbeInv, WindowInv, LinkInv, LinkTypeOK

\* Whatever ffplay does and whichever way link ends, it leaves no ffplay behind and
\* the controller has its stock description, unless the kext refused to go back to it.
THEOREM LinkKeepsItsPlayer == Spec => []LinkInv
<1>1. IInv /\ [Next]_vars => IInv'
  BY LinkTypeStep, ProbeStep, WindowStep, StockStep DEF IInv
<1>2. Spec => []IInv
  BY <1>1, LinkInit, PTL DEF Spec
<1> QED
  BY <1>2, LinkIsSafe, PTL
-----------------------------------------------------------------------------
(* The lease *)

LEMMA LeaseStep ==
  ASSUME WaitMax < Lease, Beat < Lease
  PROVE  LinkTypes /\ LeaseInv /\ [Next]_vars => LeaseInv'
<1> SUFFICES ASSUME LinkTypes, LeaseInv, [Next]_vars PROVE LeaseInv'
  OBVIOUS
<1> USE TimesArePositive, WaitMax < Lease, Beat < Lease
    DEF LinkTypes, LeaseInv, InLoop, AfterBeat, player, reader, clock, kext, Go
<1>1. CASE Publish
  BY <1>1 DEF Publish, GiveUp, PublishStock, Off
<1>2. CASE WaitInterface
  BY <1>2 DEF WaitInterface, GiveUp, PublishStock, Off
<1>3. CASE Open
  BY <1>3 DEF Open, GiveUp, PublishStock, Off
<1>4. CASE Kill
  BY <1>4 DEF Kill
<1>5. CASE on_stop
  BY <1>5 DEF on_stop
<1>6. CASE Top
  BY <1>6 DEF Top
<1>7. CASE Heartbeat
  BY <1>7 DEF Heartbeat, Off
<1>8. CASE StaleVideo
  BY <1>8 DEF StaleVideo, stop_player
<1>9. CASE Probe
  BY <1>9 DEF Probe
<1>10. CASE ReadDone
  BY <1>10 DEF ReadDone
<1>11. CASE Keepalive
  BY <1>11 DEF Keepalive
<1>12. CASE Sleep
  BY <1>12 DEF Sleep, SleepLong, Age, Older, Hung, Off
<1>13. CASE Quit
  BY <1>13 DEF Quit, stop_player, PublishStock, Off
<1>14. CASE emit_video
  BY <1>14 DEF emit_video, start_player
<1>15. CASE FeedPlayer
  BY <1>15 DEF FeedPlayer, stop_player
<1>16. CASE Tick
  BY <1>16 DEF Tick, Age, Older, Hung, Off
<1>17. CASE LeaseFires
  BY <1>17 DEF LeaseFires, Off
<1>18. ASSUME NEW kind \in {"none", "video", "sps"}, Read(kind) PROVE LeaseInv'
  BY <1>18 DEF Read
<1>19. ASSUME NEW p \in Procs, PlayerChanges(p) PROVE LeaseInv'
  BY <1>19 DEF PlayerChanges
<1>20. CASE UNCHANGED vars
  BY <1>20 DEF vars
<1> QED
  BY <1>1, <1>2, <1>3, <1>4, <1>5, <1>6, <1>7, <1>8, <1>9, <1>10, <1>11, <1>12, <1>13,
     <1>14,
     <1>15, <1>16, <1>17, <1>18, <1>19, <1>20 DEF Next, LinkStep

\* While link runs and no ffplay has blocked it, its accessory stays, if waiting for
\* the interface and the heartbeat period are both shorter than the lease; main
\* waits 10 s and beats every 5 s for a lease of 20 s.
THEOREM LinkKeepsItsLease ==
  ASSUME WaitMax < Lease, Beat < Lease
  PROVE  Spec => []AccessoryStays
<1>1. LinkTypes /\ LeaseInv /\ [Next]_vars => (LinkTypes /\ LeaseInv)'
  BY LinkTypeStep, LeaseStep
<1>2. Spec => [](LinkTypes /\ LeaseInv)
  BY <1>1, LinkInit, PTL DEF Spec, IInv
<1>3. LeaseInv => AccessoryStays
  BY DEF LeaseInv, AccessoryStays
<1> QED
  BY <1>2, <1>3, PTL
-----------------------------------------------------------------------------
(* mac_wired *)

\* While main is at work on sudo it knows the process, except between its start and the
\* assignment; tetherkit has its sudo above it until main kills that.
TetherInv ==
  /\ W!WiredTypeOK /\ {privileged, killed, astray, tether} \subseteq BOOLEAN
  /\ at \in {"probe", "rndis", "spawn"} => sproc = "off"
  /\ at = "reap" => tether /\ sproc # "asks" /\ (tproc # "run" \/ astray)
  /\ at \notin {"assign", "ended"} /\ sproc # "off" => tether \/ astray
  /\ tproc # "off" => sproc = "run" \/ killed
  /\ killed => at = "ended"
  /\ W!NoTetherLeft

LEMMA TetherStep == TetherInv /\ [W!Next]_(W!vars) => TetherInv'
<1> SUFFICES ASSUME TetherInv, [W!Next]_(W!vars) PROVE TetherInv'
  OBVIOUS
<1> USE InterruptAssumption
    DEF TetherInv, W!WiredAssumption, W!WiredTypeOK, W!NoTetherLeft, W!options,
        W!outside, W!ghosts, W!Goto, W!Leave, W!SignalSudo
<1>1. CASE W!Probe
  BY <1>1 DEF W!Probe
<1>2. CASE W!AwaitRndis
  BY <1>2 DEF W!AwaitRndis
<1>3. CASE W!StartTether
  BY <1>3 DEF W!StartTether
<1>4. CASE W!WaitIface
  BY <1>4 DEF W!WaitIface
<1>5. CASE W!ConfigureIp
  BY <1>5 DEF W!ConfigureIp
<1>6. CASE W!Launch
  BY <1>6 DEF W!Launch
<1>7. CASE W!Wait
  BY <1>7 DEF W!Wait
<1>8. CASE W!Finally
  BY <1>8 DEF W!Finally
<1>9. CASE W!Reap
  BY <1>9 DEF W!Reap
<1>10. CASE W!TetherRuns
  BY <1>10 DEF W!TetherRuns
<1>15. CASE W!SudoRuns
  BY <1>15 DEF W!SudoRuns
<1>11. CASE W!ChildEnds
  BY <1>11 DEF W!ChildEnds
<1>12. CASE W!Cable
  BY <1>12 DEF W!Cable
<1>13. ASSUME NEW terminal \in BOOLEAN, W!Interrupt(terminal) PROVE TetherInv'
  <2>1. interrupts' \in 0 .. MaxInterrupts
    BY <1>13 DEF W!Interrupt
  <2>2. {tproc', cproc'} \subseteq {"off", "run", "asked"}
    BY <1>13 DEF W!Interrupt
  <2>3. at' \in {"finally", "ended"} /\ result' \in {"raised", "0"}
    BY <1>13 DEF W!Interrupt
  <2> QED
    BY <1>13, <2>1, <2>2, <2>3 DEF W!Interrupt
<1>14. CASE UNCHANGED W!vars
  BY <1>14 DEF W!vars
<1> QED
  BY <1>1, <1>2, <1>3, <1>4, <1>5, <1>6, <1>7, <1>8, <1>9, <1>10, <1>11, <1>12, <1>13,
     <1>14, <1>15 DEF W!Next, W!Main

\* However main of mac_wired.py ends, it leaves no tetherkit behind that it could have
\* asked to end, unless Ctrl-C came where it had no hold of it.
THEOREM WiredLeavesNoTether == W!Spec => []WiredInv
<1>1. W!Init => TetherInv
  <2> SUFFICES ASSUME W!Init PROVE TetherInv
    OBVIOUS
  <2>1. interrupts \in 0 .. MaxInterrupts
    BY InterruptAssumption DEF W!WiredAssumption, W!Init, W!InitAt
  <2>2. {tproc, cproc} \subseteq {"off", "run", "asked"}
    BY DEF W!Init, W!InitAt
  <2> QED
    BY <2>1, <2>2 DEF W!Init, W!InitAt, TetherInv, W!WiredTypeOK, W!NoTetherLeft
<1>2. TetherInv => WiredInv
  BY DEF TetherInv, WiredInv, W!WiredInv
<1> QED
  BY <1>1, <1>2, TetherStep, PTL DEF W!Spec
-----------------------------------------------------------------------------
(* The kext *)

\* What holds while a command owns the gate, and what it leaves behind.
GateInv ==
  /\ op \in {"idle", "beat"} <=> apply = "none"
  /\ op \in {"undo", "restore", "stop"} => target = "stock"
  /\ apply = "due" => op \in {"undo", "restore", "stop"}
  /\ op = "beat" => published
  /\ op = "stop" <=> phase = "restoring"
  /\ phase = "stopped" =>
       \/ overtaken
       \/ op = "idle" /\ \A c \in K!Clients : cs[c] \notin {"publish", "beat", "stock"}

\* A restore that is over has brought stock back, or was refused.
RestoreInv ==
  op \in {"undo", "restore", "stop"} /\ apply \in {"ok", "failed"} => shown = "stock" \/ refused

KextTypes == K!LeaseTypeOK /\ GateInv /\ K!NoTimerAfterTeardown

CoverInv == KextTypes /\ RestoreInv /\ K!NeverUncovered

-----------------------------------------------------------------------------
(* The lease limits *)

LEMMA LeaseLimits ==
  /\ Links \cap Publishers = {} /\ "kext" \notin Links \cup Publishers
  /\ AskedLease \in Nat /\ MinLease \in Nat \ {0} /\ MaxLease \in Nat
  /\ MinLease <= MaxLease /\ MaxDelay \in Nat
  /\ DefaultLease \in MinLease .. MaxLease
BY ClientAssumption DEF K!LeaseAssumption

LEMMA ClampInRange ==
  ASSUME NEW l \in Nat
  PROVE  K!Clamp(l) \in MinLease .. MaxLease
BY LeaseLimits DEF K!Clamp

LEMMA ConstantLeases ==
  /\ K!Clamp(AskedLease) \in MinLease .. MaxLease
  /\ K!Clamp(K!StockLease) \in MinLease .. MaxLease
  /\ MinLease \in MinLease .. MaxLease
  /\ MinLease .. MaxLease \subseteq 0 .. MaxLease
  /\ K!Off \notin 0 .. MaxLease
BY ClampInRange, LeaseLimits DEF K!StockLease, K!Off

LEMMA AnswerType ==
  ASSUME K!LeaseTypeOK, NEW c \in K!Clients, NEW ok \in BOOLEAN
  PROVE  K!Answered(c, ok) \in {"idle", "publish", "up", "beat", "stock", "gone",
                              "crashed"}
BY DEF K!LeaseTypeOK, K!Answered

LEMMA ReplyType ==
  ASSUME K!LeaseTypeOK, NEW ok \in BOOLEAN, K!Reply(ok)
  PROVE  cs' \in [K!Clients -> {"idle", "publish", "up", "beat", "stock", "gone",
                              "crashed"}]
<1>1. CASE by \in K!Clients
  BY <1>1, AnswerType DEF K!LeaseTypeOK, K!Reply
<1>2. CASE by \notin K!Clients
  BY <1>2 DEF K!LeaseTypeOK, K!Reply
<1> QED BY <1>1, <1>2
-----------------------------------------------------------------------------
(* Types and the gate *)

LEMMA KextInit == K!Init => KextTypes
<1> SUFFICES ASSUME K!Init PROVE KextTypes
  OBVIOUS
<1>1. K!LeaseTypeOK
  BY ConstantLeases, LeaseLimits DEF K!Init, K!LeaseTypeOK
<1>2. GateInv /\ K!NoTimerAfterTeardown
  BY DEF K!Init, GateInv, K!NoTimerAfterTeardown, K!TimerSet
<1> QED BY <1>1, <1>2 DEF KextTypes

\* The machine goes down only under a command that stop() overtook.
LEMMA PanicTypes == KextTypes /\ overtaken /\ ~K!TimerSet /\ K!Panic => KextTypes'
<1> SUFFICES ASSUME KextTypes, overtaken, ~K!TimerSet, K!Panic PROVE KextTypes'
  OBVIOUS
<1>1. /\ UNCHANGED <<published, timer, leaseMs, overtaken, op, by, apply, target, newLease,
                     shown, refused, cs, beatAge>>
      /\ phase' = "panicked"
  BY DEF K!Panic, K!gate, K!controller
<1>2. op # "stop"
  BY DEF KextTypes, GateInv, K!TimerSet
<1> QED
  BY <1>1, <1>2
     DEF KextTypes, K!LeaseTypeOK, GateInv, K!NoTimerAfterTeardown, K!TimerSet

LEMMA KextStep == KextTypes /\ [K!Next]_(K!vars) => KextTypes'
<1> SUFFICES ASSUME KextTypes, [K!Next]_(K!vars) PROVE KextTypes'
  OBVIOUS
<1> USE DEF KextTypes, K!LeaseTypeOK, GateInv, K!NoTimerAfterTeardown, K!TimerSet,
        K!controller, K!kext, K!gate
<1>1. CASE K!LeaseFires
  BY <1>1, ConstantLeases DEF K!LeaseFires, K!GateFree, K!restoreGated, K!Off
<1>2. CASE K!RestoreCommand
  BY <1>2, ConstantLeases DEF K!RestoreCommand, K!GateFree, K!restoreGated
<1>3. CASE K!ApplyThread
  <2>1. CASE K!Panic
    <3>1. overtaken /\ ~K!TimerSet
      BY <1>3, <2>1 DEF K!ApplyThread, K!Panic
    <3> QED BY <2>1, <3>1, PanicTypes
  <2>2. CASE ~K!Panic
    <3>1. /\ UNCHANGED <<phase, published, timer, leaseMs, overtaken, op, by, target,
                         newLease, cs, beatAge>>
          /\ apply' \in {"ok", "failed"} /\ apply = "running"
          /\ shown' \in {"stock", "accessory"} /\ refused' \in BOOLEAN
      BY <1>3, <2>2 DEF K!ApplyThread
    <3> QED BY <3>1
  <2> QED BY <2>1, <2>2
<1>4. CASE K!FinishPublish
  <2>1. CASE apply = "ok" /\ K!TimerSet
    <3>1. cs' \in [K!Clients -> {"idle", "publish", "up", "beat", "stock", "gone",
                               "crashed"}]
      BY <1>4, <2>1, ReplyType DEF K!FinishPublish
    <3>2. beatAge' \in [K!Clients -> Nat]
      <4>1. beatAge \in [K!Clients -> Nat]
        OBVIOUS
      <4>2. beatAge' = IF by \in K!Clients THEN [beatAge EXCEPT ![by] = 0] ELSE beatAge
        BY <1>4, <2>1 DEF K!FinishPublish
      <4> HIDE DEF KextTypes, K!LeaseTypeOK, GateInv, K!NoTimerAfterTeardown
      <4> QED BY <4>1, <4>2
    <3> QED
      BY <1>4, <2>1, <3>1, <3>2, ConstantLeases DEF K!FinishPublish
  <2>2. CASE apply = "failed"
    BY <1>4, <2>2, ConstantLeases DEF K!FinishPublish, K!restoreGated
  <2>3. CASE apply = "ok" /\ ~K!TimerSet
    <3>1. overtaken /\ K!Panic
      BY <1>4, <2>3 DEF K!FinishPublish
    <3> QED BY <2>3, <3>1, PanicTypes
  <2> QED BY <1>4, <2>1, <2>2, <2>3 DEF K!FinishPublish
<1>5. CASE K!FinishRestore
  <2>1. cs' \in [K!Clients -> {"idle", "publish", "up", "beat", "stock", "gone",
                             "crashed"}]
    BY <1>5, ReplyType DEF K!FinishRestore
  <2> QED
    BY <1>5, <2>1 DEF K!FinishRestore
<1>6. CASE K!StopRestore
  BY <1>6, ConstantLeases DEF K!StopRestore, K!GateFree, K!restoreGated
<1>7. CASE K!StopCancel
  BY <1>7 DEF K!StopCancel
<1>8. CASE K!StopTimer
  BY <1>8 DEF K!StopTimer
<1>9. CASE K!StopGate
  BY <1>9 DEF K!StopGate
<1>10. CASE K!CancelTimer
  BY <1>10 DEF K!CancelTimer, K!Panic
<1>11. CASE K!FinishBeat
  <2>1. CASE K!TimerSet
    <3>1. cs' \in [K!Clients -> {"idle", "publish", "up", "beat", "stock", "gone",
                               "crashed"}]
      BY <1>11, <2>1, ReplyType DEF K!FinishBeat
    <3>2. beatAge' \in [K!Clients -> Nat]
      <4>1. beatAge \in [K!Clients -> Nat]
        OBVIOUS
      <4>2. beatAge' = IF by \in K!Clients THEN [beatAge EXCEPT ![by] = 0] ELSE beatAge
        BY <1>11, <2>1 DEF K!FinishBeat
      <4> HIDE DEF KextTypes, K!LeaseTypeOK, GateInv, K!NoTimerAfterTeardown
      <4> QED BY <4>1, <4>2
    <3> QED
      BY <1>11, <2>1, <3>1, <3>2, ConstantLeases DEF K!FinishBeat
  <2>2. CASE ~K!TimerSet
    <3>1. overtaken /\ K!Panic
      BY <1>11, <2>2 DEF K!FinishBeat
    <3> QED BY <2>2, <3>1, PanicTypes
  <2> QED BY <2>1, <2>2
<1>12. ASSUME NEW c \in K!Clients, K!Publish(c) PROVE KextTypes'
  <2>1. K!Answered(c, FALSE) \in {"idle", "publish", "up", "beat", "stock", "gone",
                                "crashed"}
    BY AnswerType
  <2>2. op = "idle" /\ phase # "stopped"
        /\ UNCHANGED <<phase, published, timer, leaseMs, overtaken, shown, refused, beatAge>>
    BY <1>12 DEF K!Publish, K!GateFree
  <2>3. CASE UNCHANGED cs
    <3>1. /\ by' = by \/ by' = c
          /\ \/ UNCHANGED <<op, apply, target, newLease>>
             \/ /\ op' = "publish" /\ apply' = "running" /\ K!TimerSet
                /\ target' \in {"stock", "accessory"} /\ newLease' \in MinLease .. MaxLease
      BY <1>12, ConstantLeases DEF K!Publish, K!StartApply
    <3> QED BY <2>2, <2>3, <3>1
  <2>4. CASE cs' = [cs EXCEPT ![c] = K!Answered(c, FALSE)]
    <3>1. \/ UNCHANGED <<op, by, apply, target, newLease>>
          \/ UNCHANGED cs
      BY <1>12 DEF K!Publish
    <3>2. cs' \in [K!Clients -> {"idle", "publish", "up", "beat", "stock", "gone",
                                "crashed"}]
      BY <2>1, <2>4
    <3> QED BY <2>2, <2>3, <3>1, <3>2
  <2> QED BY <1>12, <2>3, <2>4 DEF K!Publish
<1>13. ASSUME NEW c \in K!Clients, K!Heartbeat(c) PROVE KextTypes'
  <2>1. K!Answered(c, FALSE) \in {"idle", "publish", "up", "beat", "stock", "gone",
                                "crashed"}
    BY AnswerType
  <2> QED
    <3>1. CASE published /\ K!TimerSet
      <4>1. /\ op = "idle" /\ op' = "beat" /\ by' = c
            /\ UNCHANGED <<phase, published, timer, leaseMs, overtaken, apply, target,
                           newLease, shown, refused, cs, beatAge>>
        BY <1>13, <3>1 DEF K!Heartbeat, K!GateFree
      <4> QED BY <3>1, <4>1
    <3>2. CASE ~(published /\ K!TimerSet)
      <4>1. /\ cs' = [cs EXCEPT ![c] = K!Answered(c, FALSE)]
            /\ beatAge' = [beatAge EXCEPT ![c] = 0]
        BY <1>13, <3>2 DEF K!Heartbeat, K!GateFree
      <4>7. /\ UNCHANGED <<phase, published, timer, leaseMs, overtaken, op, by, apply,
                           target, newLease, shown, refused>>
            /\ phase # "stopped"
        BY <1>13, <3>2 DEF K!Heartbeat, K!GateFree
      <4>2. cs' \in [K!Clients -> {"idle", "publish", "up", "beat", "stock", "gone",
                                  "crashed"}]
        BY <2>1, <4>1
      <4>3. beatAge' \in [K!Clients -> Nat]
        <5>1. beatAge \in [K!Clients -> Nat]
          OBVIOUS
        <5> HIDE DEF KextTypes, K!LeaseTypeOK, GateInv, K!NoTimerAfterTeardown
        <5> QED BY <4>1, <5>1
      <4>4. K!LeaseTypeOK'
        <5> HIDE DEF GateInv, K!NoTimerAfterTeardown, K!TimerSet
        <5> QED BY <4>2, <4>3, <4>7
      <4>5. GateInv'
        BY <4>7 DEF GateInv
      <4>6. K!NoTimerAfterTeardown'
        BY <4>7
      <4> QED BY <4>4, <4>5, <4>6
    <3> QED BY <3>1, <3>2
<1>14. ASSUME NEW c \in K!Clients, K!Stranded(c) PROVE KextTypes'
  BY <1>14 DEF K!Stranded, K!Panic
<1>15. ASSUME NEW c \in K!Clients, K!Start(c) \/ K!SendBeat(c) \/ K!Quit(c) \/ K!Crash(c)
       PROVE  KextTypes'
  BY <1>15 DEF K!Start, K!SendBeat, K!Quit, K!Crash
<1>16. CASE K!Tick
  BY <1>16, LeaseLimits DEF K!Tick, K!Off
<1>17. CASE UNCHANGED K!vars
  BY <1>17 DEF K!vars
<1> QED
  BY <1>1, <1>2, <1>3, <1>4, <1>5, <1>6, <1>7, <1>8, <1>9, <1>10, <1>11, <1>12,
     <1>13, <1>14, <1>15, <1>16, <1>17 DEF K!Next, K!Kernel

\* The kext's state keeps its types: in particular the lease stays within
\* kMinLeaseMs .. kMaxLeaseMs, whatever a client asks for.
LEMMA LeaseTypeCorrect == K!Spec => []K!LeaseTypeOK
BY KextInit, KextStep, PTL DEF K!Spec, KextTypes

\* m_timer is never armed once stop() has cleared it, nor does a command start then
\* that would use it; only one that stop() overtook does.
THEOREM TeardownIsSafe == K!Spec => []K!NoTimerAfterTeardown
BY KextInit, KextStep, PTL DEF K!Spec, KextTypes
-----------------------------------------------------------------------------
(* Coverage *)

LEMMA CoverInit == K!Init => CoverInv
BY KextInit DEF K!Init, CoverInv, RestoreInv, K!NeverUncovered, K!InService

LEMMA CoverStep == CoverInv /\ [K!Next]_(K!vars) => CoverInv'
<1> SUFFICES ASSUME CoverInv, [K!Next]_(K!vars) PROVE CoverInv'
  OBVIOUS
<1> KextTypes'
  BY KextStep DEF CoverInv
<1> SUFFICES RestoreInv' /\ K!NeverUncovered'
  BY DEF CoverInv
<1> USE DEF CoverInv, RestoreInv, K!NeverUncovered, K!Covered, K!InService, K!controller,
        K!kext, K!gate
<1>1. CASE K!LeaseFires \/ K!RestoreCommand \/ K!StopRestore
  BY <1>1 DEF K!LeaseFires, K!RestoreCommand, K!StopRestore, K!restoreGated
<1>2. CASE K!ApplyThread
  BY <1>2 DEF K!ApplyThread, K!Panic, KextTypes, GateInv, K!LeaseTypeOK
<1>3. CASE K!FinishPublish
  BY <1>3, ConstantLeases
     DEF K!FinishPublish, K!restoreGated, K!Panic, KextTypes, K!LeaseTypeOK, K!Off
<1>4. CASE K!FinishRestore
  BY <1>4 DEF K!FinishRestore, KextTypes, K!LeaseTypeOK
<1>5. CASE K!StopCancel \/ K!StopTimer \/ K!StopGate
  BY <1>5 DEF K!StopCancel, K!StopTimer, K!StopGate
<1>6. CASE K!CancelTimer
  BY <1>6 DEF K!CancelTimer, K!Panic, KextTypes, GateInv
<1>7. CASE K!FinishBeat
  BY <1>7, ConstantLeases
     DEF K!FinishBeat, K!Panic, KextTypes, GateInv, K!LeaseTypeOK, K!Off
<1>8. ASSUME NEW c \in K!Clients, K!Publish(c) \/ K!Heartbeat(c)
      PROVE  RestoreInv' /\ K!NeverUncovered'
  BY <1>8 DEF K!Publish, K!Heartbeat, K!GateFree, K!StartApply
<1>9. ASSUME NEW c \in K!Clients, K!Stranded(c) PROVE RestoreInv' /\ K!NeverUncovered'
  BY <1>9 DEF K!Stranded, K!Panic
<1>10. ASSUME NEW c \in K!Clients, K!Start(c) \/ K!SendBeat(c) \/ K!Quit(c) \/ K!Crash(c)
      PROVE  RestoreInv' /\ K!NeverUncovered'
  BY <1>10 DEF K!Start, K!SendBeat, K!Quit, K!Crash
<1>11. CASE K!Tick
  BY <1>11 DEF K!Tick, KextTypes, K!LeaseTypeOK, K!Off
<1>12. CASE UNCHANGED K!vars
  BY <1>12 DEF K!vars
<1> QED
  BY <1>1, <1>2, <1>3, <1>4, <1>5, <1>6, <1>7, <1>8, <1>9, <1>10, <1>11, <1>12
     DEF K!Next, K!Kernel

\* Unless the controller has refused a restore, an accessory is never presented
\* without a command or a running lease in charge of it, for any number of clients
\* crashing at any point, until stop() cancels the timer.
THEOREM AccessoryIsCovered == K!Spec => []K!NeverUncovered
BY CoverInit, CoverStep, PTL DEF K!Spec, CoverInv
-----------------------------------------------------------------------------
(* The lease and the clients' heartbeats *)

\* A client in time resets its age whenever it resets the timer, so that timer and age
\* add up to the lease at least, whoever else uses the timer.
SpareInv ==
  /\ \A c \in K!Clients : cs[c] \in {"up", "beat"} /\ phase \notin {"stopped", "panicked"}
                          => beatAge[c] <= K!HEARTBEAT + MaxDelay
  /\ op = "publish" /\ target = "accessory" => newLease = K!Clamp(AskedLease)
  /\ op = "publish" /\ apply = "ok" => shown = target
  /\ op \in {"idle", "beat"} /\ published /\ shown = "accessory"
       => /\ leaseMs = K!Clamp(AskedLease)
          /\ timer # K!Off => \A c \in K!Clients : cs[c] \in {"up", "beat"}
                                  => timer + beatAge[c] >= K!Clamp(AskedLease)

LEMMA SpareStep == KextTypes /\ SpareInv /\ [K!Next]_(K!vars) => SpareInv'
<1> SUFFICES ASSUME KextTypes, SpareInv, [K!Next]_(K!vars) PROVE SpareInv'
  OBVIOUS
<1> K!Clamp(AskedLease) \in Nat
  BY ClampInRange, LeaseLimits
<1> HIDE DEF K!Clamp
<1> USE LeaseLimits DEF SpareInv, KextTypes, K!LeaseTypeOK, K!HEARTBEAT, K!Off,
        K!controller, K!kext, K!gate
<1>1. CASE K!LeaseFires \/ K!RestoreCommand \/ K!StopRestore
  BY <1>1 DEF K!LeaseFires, K!RestoreCommand, K!StopRestore, K!restoreGated
<1>2. CASE K!ApplyThread
  BY <1>2 DEF K!ApplyThread, K!Panic, GateInv
<1>3. CASE K!FinishPublish
  <2>1. CASE apply = "ok" /\ K!TimerSet
    <3>1. \A c \in K!Clients : cs'[c] \in {"up", "beat"}
                               => c = by \/ cs[c] \in {"up", "beat"}
      BY <1>3, <2>1 DEF K!FinishPublish, K!Reply
    <3>2. \A c \in K!Clients : beatAge'[c] = IF c = by THEN 0 ELSE beatAge[c]
      BY <1>3, <2>1 DEF K!FinishPublish
    <3>3. beatAge' \in [K!Clients -> Nat]
      BY <1>3, <2>1 DEF K!FinishPublish
    <3> QED
      BY <1>3, <2>1, <3>1, <3>2, <3>3 DEF K!FinishPublish
  <2>2. CASE apply = "failed"
    BY <1>3, <2>2 DEF K!FinishPublish, K!restoreGated
  <2>3. CASE apply = "ok" /\ ~K!TimerSet
    BY <1>3, <2>3 DEF K!FinishPublish, K!Panic
  <2> QED BY <1>3, <2>1, <2>2, <2>3 DEF K!FinishPublish
<1>4. CASE K!FinishRestore
  <2>1. \A c \in K!Clients : cs'[c] \in {"up", "beat"} => cs[c] \in {"up", "beat"}
    BY <1>4 DEF K!FinishRestore, K!Reply, K!Answered
  <2> QED BY <1>4, <2>1 DEF K!FinishRestore, GateInv
<1>5. CASE K!StopCancel \/ K!StopTimer \/ K!StopGate
  BY <1>5 DEF K!StopCancel, K!StopTimer, K!StopGate
<1>6. CASE K!CancelTimer
  BY <1>6 DEF K!CancelTimer, K!Panic, GateInv
<1>7. CASE K!FinishBeat
  <2>1. CASE K!TimerSet
    <3>1. \A c \in K!Clients : cs'[c] \in {"up", "beat"} => cs[c] \in {"up", "beat"} \/ c = by
      BY <1>7, <2>1 DEF K!FinishBeat, K!Reply
    <3>2. \A c \in K!Clients : beatAge'[c] = IF c = by THEN 0 ELSE beatAge[c]
      BY <1>7, <2>1 DEF K!FinishBeat
    <3>3. beatAge' \in [K!Clients -> Nat]
      BY <1>7, <2>1 DEF K!FinishBeat
    <3> QED
      BY <1>7, <2>1, <3>1, <3>2, <3>3 DEF K!FinishBeat
  <2>2. CASE ~K!TimerSet
    <3>1. /\ UNCHANGED <<published, timer, leaseMs, op, apply, target, newLease, shown, cs,
                         beatAge>>
          /\ phase' = "panicked"
      BY <1>7, <2>2 DEF K!FinishBeat, K!Panic
    <3> QED BY <3>1
  <2> QED BY <2>1, <2>2
<1>8. ASSUME NEW c \in K!Clients, K!Publish(c) PROVE SpareInv'
  <2>1. \A d \in K!Clients : cs'[d] \in {"up", "beat"} => cs[d] \in {"up", "beat"}
    BY <1>8 DEF K!Publish, K!Answered
  <2> QED BY <1>8, <2>1 DEF K!Publish, K!GateFree, GateInv, K!StartApply
<1>9. ASSUME NEW c \in K!Clients, K!Heartbeat(c) PROVE SpareInv'
  <2>1. \A d \in K!Clients : cs'[d] \in {"up", "beat"} => cs[d] \in {"up", "beat"}
    BY <1>9 DEF K!Heartbeat
  <2>2. CASE published /\ K!TimerSet
    BY <1>9, <2>1, <2>2 DEF K!Heartbeat, K!GateFree
  <2>3. CASE ~(published /\ K!TimerSet)
    <3>1. /\ beatAge' \in [K!Clients -> Nat]
          /\ \A d \in K!Clients : beatAge'[d] = IF d = c THEN 0 ELSE beatAge[d]
      <4>1. beatAge \in [K!Clients -> Nat] /\ beatAge' = [beatAge EXCEPT ![c] = 0]
        BY <1>9, <2>3 DEF K!Heartbeat
      <4> HIDE DEF SpareInv, KextTypes, K!LeaseTypeOK
      <4> QED BY <4>1
    <3> QED
      <4>1. UNCHANGED <<phase, published, timer, leaseMs, op, apply, target, newLease, shown>>
        BY <1>9, <2>3 DEF K!Heartbeat
      <4>2. op = "idle" /\ (published => timer = K!Off)
        BY <1>9, <2>3 DEF K!Heartbeat, K!GateFree, K!NoTimerAfterTeardown
      <4> QED BY <2>1, <3>1, <4>1, <4>2
  <2> QED BY <2>2, <2>3
<1>10. ASSUME NEW c \in K!Clients, K!Stranded(c) PROVE SpareInv'
  BY <1>10 DEF K!Stranded, K!Panic
<1>11. ASSUME NEW c \in K!Clients, K!Start(c) \/ K!SendBeat(c) \/ K!Quit(c) \/ K!Crash(c)
      PROVE  SpareInv'
  BY <1>11 DEF K!Start, K!SendBeat, K!Quit, K!Crash
<1>12. CASE K!Tick
  BY <1>12 DEF K!Tick, K!NoTimerAfterTeardown, K!TimerSet
<1>13. CASE UNCHANGED K!vars
  BY <1>13 DEF K!vars
<1> QED
  BY <1>1, <1>2, <1>3, <1>4, <1>5, <1>6, <1>7, <1>8, <1>9, <1>10, <1>11, <1>12, <1>13
     DEF K!Next, K!Kernel

\* If the lease a client asks for is longer than a heartbeat and its delay, it never
\* runs out under a client that beats in time, for any number of clients that share,
\* replace and restore it.
THEOREM LivingAreSpared ==
  ASSUME K!HEARTBEAT + MaxDelay < K!Clamp(AskedLease)
  PROVE  K!Spec => []LeaseSparesTheLiving
<1>1. K!Init => KextTypes /\ SpareInv
  BY KextInit DEF K!Init, SpareInv
<1>2. KextTypes /\ SpareInv /\ [K!Next]_(K!vars) => KextTypes' /\ SpareInv'
  BY KextStep, SpareStep
<1>3. KextTypes /\ SpareInv => LeaseSparesTheLiving
  BY ClampInRange, LeaseLimits
     DEF SpareInv, LeaseSparesTheLiving, K!LeaseSparesTheLiving, KextTypes, K!LeaseTypeOK,
         K!NoTimerAfterTeardown, K!TimerSet, K!HEARTBEAT, K!Off
<1> QED
  BY <1>1, <1>2, <1>3, PTL DEF K!Spec
-----------------------------------------------------------------------------
(* Refinement *)

LEMMA ContractInit == K!Init => K!Contract!Init
BY DEF K!Init, K!Contract!Init, K!Covered, K!InService

\* The two variables of the contract.
Visible == shown = "accessory" /\ K!InService /\ ~refused
InCharge == K!Covered \/ ~K!InService

LEMMA ContractStep ==
  ASSUME CoverInv, CoverInv', [K!Next]_(K!vars)
  PROVE  [K!Contract!Next]_<<Visible, InCharge>>
<1> USE DEF K!Contract!Next, K!Contract!Acquire, K!Contract!Show, K!Contract!Withdraw,
            K!Contract!Release, Visible, InCharge, K!Covered, K!InService, K!controller,
            K!kext, K!gate
<1>1. CASE K!LeaseFires \/ K!RestoreCommand \/ K!StopRestore
  BY <1>1 DEF K!LeaseFires, K!RestoreCommand, K!StopRestore, K!GateFree,
     K!restoreGated
<1>2. CASE K!ApplyThread
  BY <1>2 DEF K!ApplyThread, K!Panic, CoverInv, KextTypes, GateInv, K!LeaseTypeOK
<1>3. CASE K!FinishPublish
  BY <1>3, ConstantLeases
     DEF K!FinishPublish, K!restoreGated, K!Panic, K!TimerSet, CoverInv, KextTypes,
         K!LeaseTypeOK
<1>4. CASE K!FinishRestore
  BY <1>4 DEF K!FinishRestore, CoverInv, RestoreInv
<1>5. CASE K!StopCancel
  BY <1>5 DEF K!StopCancel, CoverInv, K!NeverUncovered
<1>6. CASE K!StopTimer \/ K!StopGate
  BY <1>6 DEF K!StopTimer, K!StopGate
<1>7. CASE K!CancelTimer
  BY <1>7 DEF K!CancelTimer, K!Panic, K!TimerSet, CoverInv, KextTypes, GateInv
<1>8. CASE K!FinishBeat
  BY <1>8, ConstantLeases
     DEF K!FinishBeat, K!Panic, K!TimerSet, CoverInv, KextTypes, GateInv, K!LeaseTypeOK
<1>9. ASSUME NEW c \in K!Clients, K!Publish(c) \/ K!Heartbeat(c)
      PROVE  [K!Contract!Next]_<<Visible, InCharge>>
  <2>1. UNCHANGED <<phase, published, timer, shown, refused>> /\ op = "idle"
    BY <1>9 DEF K!Publish, K!Heartbeat, K!GateFree
  <2>2. op' = op \/ op' # "idle"
    BY <1>9 DEF K!Publish, K!Heartbeat, K!StartApply
  <2>3. Visible => InCharge
    BY DEF CoverInv, K!NeverUncovered
  <2> QED BY <2>1, <2>2, <2>3
<1>10. ASSUME NEW c \in K!Clients, K!Stranded(c)
      PROVE  [K!Contract!Next]_<<Visible, InCharge>>
  BY <1>10 DEF K!Stranded, K!Panic
<1>11. ASSUME NEW c \in K!Clients, K!Start(c) \/ K!SendBeat(c) \/ K!Quit(c) \/ K!Crash(c)
      PROVE  [K!Contract!Next]_<<Visible, InCharge>>
  BY <1>11 DEF K!Start, K!SendBeat, K!Quit, K!Crash
<1>12. CASE K!Tick
  BY <1>12 DEF K!Tick, CoverInv, KextTypes, K!LeaseTypeOK, K!Off
<1>13. CASE UNCHANGED K!vars
  BY <1>13 DEF K!vars
<1> QED
  BY <1>1, <1>2, <1>3, <1>4, <1>5, <1>6, <1>7, <1>8, <1>9, <1>10, <1>11, <1>12, <1>13
     DEF K!Next, K!Kernel

\* For any number of clients and any leases, the kext is well-typed, no timer runs once
\* stop() has cleared it, and only a command that stop() overtook meets it cleared.
THEOREM KextIsSafe == K!Spec => []KextInv
  BY LeaseTypeCorrect, TeardownIsSafe, PTL DEF KextInv, K!KextInv

\* The kext implements the lease contract until stop() cancels the timer or the
\* controller refuses a restore: every step of commands, timer, apply thread,
\* teardown and clients is a step of LeaseContract or a stutter.
THEOREM KextImplementsContract == K!Spec => KextHonoursContract
<1>1. CoverInv /\ [K!Next]_(K!vars) => CoverInv'
  BY CoverStep
<1>2. CoverInv /\ CoverInv' /\ [K!Next]_(K!vars)
        => [K!Contract!Next]_<<shown = "accessory" /\ K!InService /\ ~refused,
                             K!Covered \/ ~K!InService>>
  BY ContractStep DEF Visible, InCharge
<1> QED
  BY <1>1, <1>2, CoverInit, ContractInit, PTL
     DEF K!Spec, KextHonoursContract, K!KextHonoursContract, K!Contract!Spec
=============================================================================
