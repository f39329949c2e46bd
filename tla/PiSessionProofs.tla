--------------------------- MODULE PiSessionProofs ---------------------------
(***************************************************************************)
(* Proofs about PiSession, for any number of thread identities and of      *)
(* transport numbers: the session's invariants whatever joins time out,    *)
(* and, as long as none does, that sessions are kept apart.                *)
(***************************************************************************)
EXTENDS PiSession, FiniteSetTheorems, TLAPS

Ends == Transports \cup {NoTransport}

\* Every variable has its type.
PiTypes ==
  /\ mode \in {"normal", "accessory"}
  /\ configured \in BOOLEAN /\ video_started \in BOOLEAN
  /\ STOP \in BOOLEAN /\ start \in BOOLEAN
  /\ unjoined \in BOOLEAN /\ failed \in BOOLEAN /\ pulled \in BOOLEAN
  /\ ep \in Ends /\ live \in Ends /\ newest \in Ends /\ doomed \in Ends
  /\ reader \in Readers \cup {None} /\ driver \in Drivers \cup {None}
  /\ tx_lock \in Senders \cup {None}
  /\ mpc \in {"idle", "enable", "commit", "spawn", "join", "joinDriver", "end",
              "reinit", "reopen", "done"}
  /\ rpc \in [Readers -> {"dead", "check", "call", "blocked", "video"}]
  /\ rdata \in [Readers -> Ends]
  /\ dpc \in [Drivers -> {"dead", "sleep"}]
  /\ sp \in [Senders -> {"no", "lock", "write", "lost"}]
  /\ sent \in [Senders -> Ends]
  /\ host \in {"none", "reset", "disconnect"} /\ gadget \in {"open", "closed"}

\* tx_lock is held by the thread that writes.
LockInv == \A t \in Senders : sp[t] = "write" <=> tx_lock = t

\* A thread that is not alive, or reads, sends nothing.
QuietInv ==
  /\ \A r \in Readers : rpc[r] # "check" => sp[r] = "no"
  /\ \A d \in Drivers : dpc[d] = "dead" => sp[d] = "no"

\* The session refers to the only reader that may be alive; after the joins that reader
\* has outlived one.  No thread is started on a closed gadget.
ReaderInv ==
  /\ \A r \in Readers : rpc[r] # "dead" => reader = r
  /\ gadget = "closed" =>
       /\ mpc = "reopen" \/ (STOP /\ mpc \in {"join", "joinDriver", "end", "done"})
       /\ pulled \/ \A r \in Readers : rpc[r] = "dead"
  /\ mpc \in {"joinDriver", "end", "reinit"} =>
       unjoined \/ \A r \in Readers : rpc[r] = "dead"
  /\ pulled => unjoined

\* What main has done to the transport at each of its steps.
TransportInv ==
  /\ configured => ep # NoTransport /\ mpc \in {"idle", "spawn"}
  /\ ep # NoTransport => ep = newest /\ mpc \in {"idle", "spawn"}
  /\ live \in {newest, NoTransport}
  /\ mpc \in {"commit", "spawn"} => newest # NoTransport
  /\ mpc = "spawn" => ep # NoTransport

StateInv == PiTypes /\ LockInv /\ QuietInv /\ ReaderInv /\ TransportInv
              /\ NoTransportNoVideo

Alive(t) == \/ t \in Readers /\ rpc[t] # "dead"
            \/ t \in Drivers /\ dpc[t] # "dead"

\* While no join has timed out, workers live from their start to the joins of the next
\* teardown, and all they read and send is on the one transport of that time.
ApartInv ==
  /\ mpc = "join" => ~video_started
  /\ ~unjoined =>
       /\ \A d \in Drivers : dpc[d] # "dead" => driver = d
       /\ \A r \in Readers : rpc[r] # "dead" => mpc \in {"idle", "join"}
       /\ \A d \in Drivers : dpc[d] # "dead" => mpc \in {"idle", "join", "joinDriver"}
       /\ mpc = "idle" =>
            /\ \A t \in Readers \cup Drivers : Alive(t) => ep # NoTransport
            /\ \A r \in Readers : rpc[r] \in {"blocked", "video"}
                                     => rdata[r] \in {ep, NoTransport}
            /\ \A t \in Readers \cup Drivers : sp[t] \in {"write", "lost"} => sent[t] = ep
       /\ \A r \in Readers : rpc[r] = "video" => rdata[r] # NoTransport
-----------------------------------------------------------------------------
(* The state *)

LEMMA ConstantFacts ==
  /\ NoTransport \in Ends /\ NoTransport \notin Transports
  /\ Transports \subseteq Ends /\ None \notin Senders
  /\ Readers \subseteq Senders /\ Drivers \subseteq Senders /\ "api" \in Senders
BY PiAssumption DEF Transports, NoTransport, Ends, Senders

LEMMA NextTransport ==
  ASSUME NEW t \in Ends
  PROVE  (t % MaxTransports) + 1 \in Transports
BY PiAssumption DEF Transports, NoTransport, Ends

\* A new thread gets an identity, that of a dead one if all are dead.
LEMMA NewThreadType ==
  ASSUME NEW S, S # {}, NEW PC, NEW f \in [S -> PC]
  PROVE  NewThread(f) \in S
<1>1. CASE \E t \in S : f[t] = "dead"
  BY <1>1 DEF NewThread
<1>2. CASE \A t \in S : f[t] # "dead"
  BY <1>2 DEF NewThread
<1> QED BY <1>1, <1>2

LEMMA StateInit == Init => StateInv
<1> SUFFICES ASSUME Init PROVE StateInv
  OBVIOUS
<1>1. PiTypes
  BY ConstantFacts DEF Init, PiTypes
<1>2. LockInv /\ QuietInv /\ ReaderInv
  BY ConstantFacts DEF Init, LockInv, QuietInv, ReaderInv
<1>3. TransportInv /\ NoTransportNoVideo
  BY DEF Init, TransportInv, NoTransportNoVideo
<1> QED BY <1>1, <1>2, <1>3 DEF StateInv

LEMMA StateStep == StateInv /\ [Next]_vars => StateInv'
<1> SUFFICES ASSUME StateInv, [Next]_vars PROVE StateInv'
  OBVIOUS
<1> USE ConstantFacts
    DEF StateInv, PiTypes, Free, ghosts
<1>1. ASSUME NEW t \in Senders, SendLock(t) PROVE StateInv'
  <2>1. PiTypes'
    BY <1>1 DEF SendLock, state, threads, main, work, usb
  <2>2. LockInv'
    BY <1>1 DEF LockInv, SendLock, state, threads, main, work, usb
  <2>3. QuietInv'
    BY <1>1 DEF QuietInv, SendLock, state, threads, main, work, usb
  <2>4. ReaderInv'
    BY <1>1 DEF ReaderInv, SendLock, state, threads, main, work, usb
  <2>5. TransportInv'
    BY <1>1 DEF TransportInv, SendLock, state, threads, main, work, usb
  <2>6. NoTransportNoVideo'
    BY <1>1 DEF NoTransportNoVideo, SendLock, state, threads, main, work, usb
  <2> QED BY <2>1, <2>2, <2>3, <2>4, <2>5, <2>6
<1>2. ASSUME NEW t \in Senders, SendReturns(t) PROVE StateInv'
  <2>1. PiTypes'
    <3>1. dpc' \in [Drivers -> {"dead", "sleep"}] /\ failed' \in BOOLEAN
      BY <1>2 DEF SendReturns
    <3> QED
      BY <1>2, <3>1 DEF SendReturns, SendEnds, state, threads, main, usb
  <2>2. LockInv'
    BY <1>2, PiAssumption DEF LockInv, SendReturns, SendEnds, state, threads, main,
       usb, Senders
  <2>3. QuietInv'
    BY <1>2, PiAssumption DEF QuietInv, SendReturns, SendEnds, state, threads, main,
       usb, Senders
  <2>4. ReaderInv'
    BY <1>2, PiAssumption DEF ReaderInv, SendReturns, SendEnds, state, threads, main,
       usb, Senders
  <2>5. TransportInv'
    BY <1>2, PiAssumption DEF TransportInv, SendReturns, SendEnds, state, threads,
       main, usb, Senders
  <2>6. NoTransportNoVideo'
    BY <1>2, PiAssumption DEF NoTransportNoVideo, SendReturns, SendEnds, state,
       threads, main, usb, Senders
  <2> QED BY <2>1, <2>2, <2>3, <2>4, <2>5, <2>6
<1>3. ASSUME NEW t \in Senders, SendFails(t) PROVE StateInv'
  <2>1. PiTypes'
    <3>1. /\ configured' \in BOOLEAN /\ tx_lock' \in Senders \cup {None}
          /\ sp' \in [Senders -> {"no", "lock", "write", "lost"}]
      BY <1>3 DEF SendFails
    <3> QED
      BY <1>3, <3>1 DEF SendFails, threads, main, work, usb
  <2>2. LockInv'
    BY <1>3 DEF LockInv, SendFails, threads, main, work, usb
  <2>3. QuietInv'
    BY <1>3 DEF QuietInv, SendFails, threads, main, work, usb
  <2>4. ReaderInv'
    BY <1>3 DEF ReaderInv, SendFails, threads, main, work, usb
  <2>5. TransportInv'
    BY <1>3 DEF TransportInv, SendFails, threads, main, work, usb
  <2>6. NoTransportNoVideo'
    BY <1>3 DEF NoTransportNoVideo, SendFails, threads, main, work, usb
  <2> QED BY <2>1, <2>2, <2>3, <2>4, <2>5, <2>6
<1>4. ASSUME NEW t \in Senders, TransportLost(t) PROVE StateInv'
  <2>1. PiTypes'
    <3>1. /\ configured' \in BOOLEAN /\ video_started' \in BOOLEAN
          /\ sp' \in [Senders -> {"no", "lock", "write", "lost"}]
          /\ sent' \in [Senders -> Ends]
      BY <1>4 DEF TransportLost, SendEnds
    <3> QED
      BY <1>4, <3>1 DEF TransportLost, threads, main, work, usb
  <2>2. LockInv'
    BY <1>4 DEF LockInv, TransportLost, SendEnds, threads, main, work, usb
  <2>3. QuietInv'
    BY <1>4 DEF QuietInv, TransportLost, SendEnds, threads, main, work, usb
  <2>4. ReaderInv'
    BY <1>4 DEF ReaderInv, TransportLost, SendEnds, threads, main, work, usb
  <2>5. TransportInv'
    BY <1>4 DEF TransportInv, TransportLost, SendEnds, threads, main, work, usb
  <2>6. NoTransportNoVideo'
    BY <1>4 DEF NoTransportNoVideo, TransportLost, SendEnds, threads, main, work, usb
  <2> QED BY <2>1, <2>2, <2>3, <2>4, <2>5, <2>6
<1>5. ASSUME NEW r \in Readers, ReadCheck(r) PROVE StateInv'
  BY <1>5 DEF LockInv, QuietInv, ReaderInv, TransportInv, NoTransportNoVideo,
     ReadCheck, state, main, send, usb
<1>6. ASSUME NEW r \in Readers, ReadCall(r) PROVE StateInv'
  BY <1>6 DEF LockInv, QuietInv, ReaderInv, TransportInv, NoTransportNoVideo, ReadCall,
     state, threads, main, send, usb
<1>7. ASSUME NEW r \in Readers, ReadReturns(r) PROVE StateInv'
  <2>1. PiTypes'
    <3>1. /\ rpc' \in [Readers -> {"dead", "check", "call", "blocked", "video"}]
          /\ reader' \in Readers \cup {None} /\ failed' \in BOOLEAN
          /\ rdata' \in [Readers -> Ends]
      BY <1>7 DEF ReadReturns
    <3> QED
      BY <1>7, <3>1 DEF ReadReturns, state, main, send, usb
  <2>2. /\ \A q \in Readers : q # r => rpc'[q] = rpc[q]
        /\ rpc[r] = "blocked" /\ rpc'[r] \in {"dead", "check", "video"}
        /\ reader' = reader \/ (reader = r /\ rpc'[r] = "dead")
    BY <1>7 DEF ReadReturns
  <2>3. LockInv' /\ QuietInv' /\ TransportInv' /\ NoTransportNoVideo'
    BY <1>7, <2>2
       DEF LockInv, QuietInv, TransportInv, NoTransportNoVideo, ReadReturns, state,
           main, send, usb
  <2>4. ReaderInv'
    BY <1>7, <2>2 DEF ReaderInv, ReadReturns, main, usb
  <2> QED BY <2>1, <2>3, <2>4
<1>8. ASSUME NEW r \in Readers, HandleVideo(r) PROVE StateInv'
  <2>1. /\ sp' \in [Senders -> {"no", "lock", "write", "lost"}]
        /\ \A t \in Senders : sp'[t] = sp[t] \/ (t = r /\ sp'[t] = "lock" /\ sp[t] = "no")
    BY <1>8 DEF HandleVideo, QuietInv
  <2>2. PiTypes'
    BY <1>8, <2>1 DEF HandleVideo, threads, main, usb
  <2>3. LockInv' /\ QuietInv'
    BY <1>8, <2>1, PiAssumption DEF LockInv, QuietInv, HandleVideo
  <2>4. ReaderInv' /\ TransportInv'
    BY <1>8 DEF ReaderInv, TransportInv, HandleVideo, threads, main, usb
  <2>5. NoTransportNoVideo'
    BY <1>8, <2>1 DEF NoTransportNoVideo, HandleVideo
  <2> QED BY <2>2, <2>3, <2>4, <2>5
<1>9. ASSUME NEW d \in Drivers, DriverWakes(d) PROVE StateInv'
  BY <1>9, PiAssumption DEF LockInv, QuietInv, ReaderInv, TransportInv,
     NoTransportNoVideo, DriverWakes, state, threads, main, usb, Senders
<1>10. CASE StopStaleVideo
  <2>1. PiTypes'
    <3>1. video_started' \in BOOLEAN
      BY <1>10 DEF StopStaleVideo
    <3> QED
      BY <1>10, <3>1 DEF StopStaleVideo, threads, main, work, send, usb
  <2>2. LockInv' /\ QuietInv'
    BY <1>10 DEF LockInv, QuietInv, StopStaleVideo, threads, main, work, send, usb
  <2>3. ReaderInv'
    BY <1>10 DEF ReaderInv, StopStaleVideo, threads, main, work, send, usb
  <2>4. TransportInv'
    BY <1>10 DEF TransportInv, StopStaleVideo, threads, main, work, send, usb
  <2>5. NoTransportNoVideo'
    BY <1>10 DEF NoTransportNoVideo, StopStaleVideo, threads, main, work, send, usb
  <2> QED BY <2>1, <2>2, <2>3, <2>4, <2>5
<1>11. CASE ApiSends
  BY <1>11, PiAssumption DEF LockInv, QuietInv, ReaderInv, TransportInv,
     NoTransportNoVideo, ApiSends, state, threads, main, work, usb, Senders
<1>12. CASE set_configuration
  <2>1. PiTypes'
    BY <1>12 DEF set_configuration, Idle, threads, work, send, usb
  <2>2. LockInv' /\ QuietInv'
    BY <1>12 DEF LockInv, QuietInv, set_configuration, Idle, threads, work, send, usb
  <2>3. ReaderInv'
    BY <1>12 DEF ReaderInv, set_configuration, Idle, threads, work, send, usb
  <2>4. TransportInv'
    BY <1>12 DEF TransportInv, set_configuration, Idle, threads, work, send, usb
  <2>5. NoTransportNoVideo'
    BY <1>12 DEF NoTransportNoVideo, TransportInv, set_configuration, send
  <2> QED BY <2>1, <2>2, <2>3, <2>4, <2>5
<1>13. CASE EnableEndpoints
  <2>1. PiTypes'
    BY <1>13, NextTransport DEF EnableEndpoints, state, threads, work, send
  <2>2. LockInv' /\ QuietInv'
    BY <1>13, NextTransport DEF LockInv, QuietInv, EnableEndpoints, state, threads, work, send
  <2>3. ReaderInv'
    BY <1>13 DEF ReaderInv, EnableEndpoints, state, threads, work, send
  <2>4. TransportInv'
    BY <1>13, NextTransport DEF TransportInv, EnableEndpoints, state, threads, work, send
  <2>5. NoTransportNoVideo'
    BY <1>13 DEF NoTransportNoVideo, EnableEndpoints, state, threads, work, send
  <2> QED BY <2>1, <2>2, <2>3, <2>4, <2>5
<1>14. CASE CommitEndpoints
  <2>1. PiTypes'
    BY <1>14 DEF CommitEndpoints, threads, work, send, usb
  <2>2. LockInv' /\ QuietInv'
    BY <1>14 DEF LockInv, QuietInv, CommitEndpoints, threads, work, send, usb
  <2>3. ReaderInv'
    BY <1>14 DEF ReaderInv, CommitEndpoints, threads, work, send, usb
  <2>4. TransportInv'
    BY <1>14 DEF TransportInv, CommitEndpoints, threads, work, send, usb
  <2>5. NoTransportNoVideo'
    BY <1>14 DEF NoTransportNoVideo, CommitEndpoints, threads, work, send, usb
  <2> QED BY <2>1, <2>2, <2>3, <2>4, <2>5
<1>15. CASE StartWorkers
  <2>1. NewThread(rpc) \in Readers /\ NewThread(dpc) \in Drivers
    BY NewThreadType, PiAssumption
  <2>2. CASE mode = "accessory" /\ ~ReaderAlive(reader)
    <3>1. PiTypes'
      BY <1>15, <2>1, <2>2 DEF StartWorkers, state, send, usb
    <3>2. QuietInv'
      BY <1>15, <2>1, <2>2 DEF QuietInv, StartWorkers, send
    <3>3. ReaderInv'
      BY <1>15, <2>1, <2>2 DEF ReaderInv, StartWorkers, ReaderAlive, usb
    <3> QED
      BY <1>15, <3>1, <3>2, <3>3
         DEF LockInv, TransportInv, NoTransportNoVideo, StartWorkers, state, send, usb
  <2>3. CASE ~(mode = "accessory" /\ ~ReaderAlive(reader))
    BY <1>15, <2>3
       DEF LockInv, QuietInv, ReaderInv, TransportInv, NoTransportNoVideo, StartWorkers,
           threads, state, send, usb
  <2> QED BY <2>2, <2>3
<1>16. CASE reset
  <2>1. PiTypes'
    <3>1. /\ configured' \in BOOLEAN /\ video_started' \in BOOLEAN
          /\ ep' \in Ends /\ doomed' \in Ends
          /\ start' \in BOOLEAN /\ mpc' = "join"
          /\ mode' \in {"normal", "accessory"}
      BY <1>16 DEF reset, TearDown
    <3> QED
      BY <1>16, <3>1 DEF reset, threads, work, send
  <2>2. LockInv' /\ QuietInv'
    BY <1>16 DEF LockInv, QuietInv, reset, Idle, TearDown, threads, work, send
  <2>3. ReaderInv'
    BY <1>16 DEF ReaderInv, reset, Idle, TearDown, threads, work, send
  <2>4. TransportInv'
    BY <1>16 DEF TransportInv, reset, Idle, TearDown, threads, work, send
  <2>5. NoTransportNoVideo'
    BY <1>16 DEF NoTransportNoVideo, reset, Idle, TearDown, threads, work, send
  <2> QED BY <2>1, <2>2, <2>3, <2>4, <2>5
<1>17. CASE Shutdown
  <2>1. PiTypes'
    <3>1. /\ configured' \in BOOLEAN /\ video_started' \in BOOLEAN
          /\ ep' \in Ends /\ doomed' \in Ends
          /\ STOP' \in BOOLEAN /\ mpc' = "join"
      BY <1>17 DEF Shutdown, TearDown
    <3> QED
      BY <1>17, <3>1 DEF Shutdown, threads, work, send, usb
  <2>2. LockInv' /\ QuietInv'
    BY <1>17 DEF LockInv, QuietInv, Shutdown, Idle, TearDown, threads, work, send, usb
  <2>3. ReaderInv'
    BY <1>17 DEF ReaderInv, Shutdown, Idle, TearDown, threads, work, send, usb
  <2>4. TransportInv'
    BY <1>17 DEF TransportInv, Shutdown, Idle, TearDown, threads, work, send, usb
  <2>5. NoTransportNoVideo'
    BY <1>17 DEF NoTransportNoVideo, Shutdown, Idle, TearDown, threads, work, send, usb
  <2> QED BY <2>1, <2>2, <2>3, <2>4, <2>5
<1>18. CASE JoinWorkers
  <2>1. PiTypes'
    <3>1. unjoined' \in BOOLEAN
      BY <1>18 DEF JoinWorkers
    <3> QED
      BY <1>18, <3>1 DEF JoinWorkers, state, threads, work, send, usb
  <2>2. LockInv' /\ QuietInv' /\ TransportInv' /\ NoTransportNoVideo'
    BY <1>18
       DEF LockInv, QuietInv, TransportInv, NoTransportNoVideo, JoinWorkers, state,
           work, send, usb
  <2>3. ReaderInv'
    BY <1>18 DEF ReaderInv, JoinWorkers, ReaderAlive, threads, work, usb
  <2> QED BY <2>1, <2>2, <2>3
<1>19. CASE FinishTearDown
  <2>1. PiTypes'
    <3>1. reader' \in Readers \cup {None} /\ driver' \in Drivers \cup {None}
      BY <1>19 DEF FinishTearDown
    <3>2. live' \in Ends /\ doomed' \in Ends
      BY <1>19 DEF FinishTearDown
    <3>3. /\ mpc' \in {"idle", "reinit", "done"} /\ gadget' \in {"open", "closed"}
          /\ start' \in BOOLEAN /\ failed' \in BOOLEAN
      BY <1>19 DEF FinishTearDown
    <3> QED
      BY <1>19, <3>1, <3>2, <3>3 DEF FinishTearDown, state, work, send
  <2>2. LockInv'
    BY <1>19 DEF LockInv, FinishTearDown, ReaderAlive, DriverAlive, state, work, send
  <2>3. QuietInv'
    BY <1>19 DEF QuietInv, FinishTearDown, ReaderAlive, DriverAlive, state, work, send
  <2>4. ReaderInv'
    BY <1>19 DEF ReaderInv, FinishTearDown, ReaderAlive, DriverAlive, state, work, send
  <2>5. TransportInv'
    BY <1>19 DEF TransportInv, FinishTearDown, ReaderAlive, DriverAlive, state, work, send
  <2>6. NoTransportNoVideo'
    BY <1>19 DEF NoTransportNoVideo, FinishTearDown, ReaderAlive, DriverAlive, state,
       work, send
  <2> QED BY <2>1, <2>2, <2>3, <2>4, <2>5, <2>6
<1>20. CASE BusDown
  <2>1. PiTypes'
    BY <1>20 DEF BusDown, state, threads, main, work, send
  <2>2. LockInv' /\ QuietInv'
    BY <1>20 DEF LockInv, QuietInv, BusDown, state, threads, main, work, send
  <2>3. ReaderInv'
    BY <1>20 DEF ReaderInv, BusDown, state, threads, main, work, send
  <2>4. TransportInv'
    BY <1>20 DEF TransportInv, BusDown, state, threads, main, work, send
  <2>5. NoTransportNoVideo'
    BY <1>20 DEF NoTransportNoVideo, BusDown, state, threads, main, work, send
  <2> QED BY <2>1, <2>2, <2>3, <2>4, <2>5
<1>22. CASE CloseOld
  <2>1. PiTypes'
    <3>1. pulled' \in BOOLEAN
      BY <1>22 DEF CloseOld, ReaderAlive
    <3> QED
      BY <1>22, <3>1 DEF CloseOld, state, threads, work, send
  <2>2. LockInv' /\ QuietInv'
    BY <1>22 DEF LockInv, QuietInv, CloseOld, work, send
  <2>3. TransportInv' /\ NoTransportNoVideo'
    BY <1>22 DEF TransportInv, NoTransportNoVideo, CloseOld, state, threads, work, send
  <2>4. ReaderInv'
    <3>1. pulled' <=> ReaderAlive(reader)
      BY <1>22 DEF CloseOld
    <3>2. pulled' \/ \A r \in Readers : rpc[r] = "dead"
      BY <3>1 DEF ReaderInv, ReaderAlive
    <3>3. pulled' => unjoined
      BY <1>22, <3>1 DEF ReaderInv, ReaderAlive, CloseOld
    <3> QED
      BY <1>22, <3>2, <3>3 DEF ReaderInv, CloseOld, threads, work
  <2> QED BY <2>1, <2>2, <2>3, <2>4
<1>23. CASE OpenNew
  <2>1. PiTypes'
    <3>1. pulled' \in BOOLEAN
      BY <1>23 DEF OpenNew, ReaderAlive
    <3> QED
      <4>1. CASE mpc' = "idle"
        BY <1>23, <3>1, <4>1 DEF OpenNew, TearDown, threads, work, send
      <4>2. CASE mpc' = "join"
        BY <1>23, <3>1, <4>2 DEF OpenNew, TearDown, threads, work, send
      <4> QED BY <1>23, <4>1, <4>2 DEF OpenNew, TearDown
  <2>2. LockInv' /\ QuietInv'
    BY <1>23 DEF LockInv, QuietInv, OpenNew, work, send
  <2>3. TransportInv' /\ NoTransportNoVideo'
    BY <1>23 DEF TransportInv, NoTransportNoVideo, OpenNew, TearDown, threads, work, send
  <2>4. ReaderInv'
    BY <1>23 DEF ReaderInv, ReaderAlive, OpenNew, TearDown, threads, work, send
  <2> QED BY <2>1, <2>2, <2>3, <2>4
<1>21. CASE UNCHANGED vars
  BY <1>21 DEF LockInv, QuietInv, ReaderInv, TransportInv, NoTransportNoVideo, vars,
     state, threads, main, work, send, usb
<1> QED
  BY <1>1, <1>2, <1>3, <1>4, <1>5, <1>6, <1>7, <1>8, <1>9, <1>10, <1>11, <1>12, <1>13,
     <1>14, <1>15, <1>16, <1>17, <1>18, <1>19, <1>20, <1>21, <1>22, <1>23
     DEF Next, MainStep, Work, Sending

LEMMA StateIsSafe == StateInv => PiInv
<1> SUFFICES ASSUME StateInv PROVE PiInv
  OBVIOUS
<1>1. PiTypeOK
  BY DEF StateInv, PiTypes, LockInv, TransportInv, PiTypeOK, Ends
<1>2. OneReader
  <2> DEFINE Living == {r \in Readers : rpc[r] # "dead"}
  <2>1. Living \subseteq {reader}
    BY DEF StateInv, ReaderInv
  <2>2. IsFiniteSet({reader}) /\ Cardinality({reader}) = 1
    BY FS_Singleton
  <2>3. Cardinality(Living) <= 1
    BY <2>1, <2>2, FS_Subset
  <2> QED BY <2>3 DEF OneReader
<1> QED
  BY <1>1, <1>2 DEF StateInv, ReaderInv, ClosedWithoutReader, PiInv

\* Whatever joins time out and however sends fail: one thread at a time writes under
\* tx_lock, one reads the bulk endpoint, raw-gadget is not closed under it, and there is
\* no video without a transport, for any number of identities and transports.
THEOREM PiSessionIsSafe == Spec => []PiInv
BY StateInit, StateStep, StateIsSafe, PTL DEF Spec
-----------------------------------------------------------------------------
(* Sessions *)

LEMMA ApartStep == StateInv /\ ApartInv /\ [Next]_vars => ApartInv'
<1> SUFFICES ASSUME StateInv, ApartInv, [Next]_vars PROVE ApartInv'
  OBVIOUS
<1> USE ConstantFacts DEF StateInv, PiTypes, Free, Alive, ApartInv, ghosts
<1>1. ASSUME NEW t \in Senders, SendLock(t) PROVE ApartInv'
  BY <1>1 DEF SendLock, state, threads, main, work, usb
<1>2. ASSUME NEW t \in Senders, SendReturns(t) PROVE ApartInv'
  BY <1>2 DEF SendReturns, SendEnds, state, threads, main, usb
<1>3. ASSUME NEW t \in Senders, SendFails(t) PROVE ApartInv'
  BY <1>3 DEF SendFails, threads, main, work, usb
<1>4. ASSUME NEW t \in Senders, TransportLost(t) PROVE ApartInv'
  BY <1>4 DEF TransportLost, SendEnds, threads, main, work, usb
<1>5. ASSUME NEW r \in Readers, ReadCheck(r) PROVE ApartInv'
  BY <1>5 DEF ReadCheck, state, main, send, usb
<1>6. ASSUME NEW r \in Readers, ReadCall(r) PROVE ApartInv'
  BY <1>6 DEF ReadCall, TransportInv, state, threads, main, send, usb
<1>7. ASSUME NEW r \in Readers, ReadReturns(r) PROVE ApartInv'
  BY <1>7 DEF ReadReturns, state, main, send, usb
<1>8. ASSUME NEW r \in Readers, HandleVideo(r) PROVE ApartInv'
  BY <1>8 DEF HandleVideo, TransportInv, threads, main, usb
<1>9. ASSUME NEW d \in Drivers, DriverWakes(d) PROVE ApartInv'
  BY <1>9 DEF DriverWakes, state, threads, main, usb
<1>10. CASE StopStaleVideo
  BY <1>10 DEF StopStaleVideo, threads, main, work, send, usb
<1>11. CASE ApiSends
  BY <1>11 DEF ApiSends, state, threads, main, work, usb
<1>12. CASE set_configuration
  BY <1>12 DEF set_configuration, Idle, TransportInv, QuietInv, threads, work, send, usb
<1>13. CASE EnableEndpoints
  BY <1>13 DEF EnableEndpoints, QuietInv, state, threads, work, send
<1>14. CASE CommitEndpoints
  BY <1>14 DEF CommitEndpoints, threads, work, send, usb
<1>15. CASE StartWorkers
  BY <1>15 DEF StartWorkers, ReaderAlive, QuietInv, TransportInv, state, send, usb
<1>16. CASE reset
  BY <1>16 DEF reset, Idle, TearDown, threads, work, send
<1>17. CASE Shutdown
  BY <1>17 DEF Shutdown, Idle, TearDown, threads, work, send, usb
<1>18. CASE JoinWorkers
  <2>1. CASE mpc = "join"
    <3>1. unjoined' \/ (~unjoined /\ \A r \in Readers : rpc[r] = "dead")
      <4>1. unjoined' <=> unjoined \/ ReaderAlive(reader)
        <5> HIDE DEF StateInv, PiTypes, ApartInv
        <5> QED BY <1>18, <2>1 DEF JoinWorkers
      <4>2. reader = None \/ rpc[reader] = "dead" => \A r \in Readers : rpc[r] = "dead"
        BY DEF ReaderInv
      <4> QED
        BY <4>1, <4>2 DEF ReaderAlive
    <3>2. /\ mpc' = "joinDriver"
          /\ UNCHANGED <<video_started, rpc, rdata, dpc, driver, sp, sent, ep>>
      BY <1>18, <2>1 DEF JoinWorkers, state, threads, work, send
    <3> QED
      BY <2>1, <3>1, <3>2
  <2>2. CASE mpc = "joinDriver"
    BY <1>18, <2>2 DEF JoinWorkers, DriverAlive, state, threads, work, send
  <2> QED BY <1>18, <2>1, <2>2 DEF JoinWorkers
<1>19. CASE FinishTearDown
  BY <1>19 DEF FinishTearDown, QuietInv, TransportInv, ReaderAlive, DriverAlive, state,
     work, send
<1>20. CASE BusDown
  BY <1>20 DEF BusDown, state, threads, main, work, send
<1>22. CASE CloseOld
  BY <1>22 DEF CloseOld, ReaderInv, QuietInv, TransportInv, state, threads, work, send
<1>23. CASE OpenNew
  BY <1>23 DEF OpenNew, TearDown, QuietInv, threads, work, send
<1>21. CASE UNCHANGED vars
  BY <1>21 DEF vars, state, threads, main, work, send, usb
<1> QED
  BY <1>1, <1>2, <1>3, <1>4, <1>5, <1>6, <1>7, <1>8, <1>9, <1>10, <1>11, <1>12, <1>13,
     <1>14, <1>15, <1>16, <1>17, <1>18, <1>19, <1>20, <1>21, <1>22, <1>23
     DEF Next, MainStep, Work, Sending

\* A frame that is handled, and a worker's transport that is reported lost, are of the
\* transport in use.
Current ==
  /\ \A r \in Readers : rpc[r] = "video" /\ rpc'[r] = "check" /\ video_started' /\ ~unjoined
                          => rdata[r] = ep
  /\ \A t \in Readers \cup Drivers :
       sp[t] = "lost" /\ sp'[t] = "no" /\ configured /\ ~unjoined => sent[t] = ep

\* Only a configured session starts video.
LEMMA VideoStarts == [Next]_vars /\ video_started' => video_started \/ configured
<1> SUFFICES ASSUME [Next]_vars, video_started' PROVE video_started \/ configured
  OBVIOUS
<1> USE DEF state, vars, ghosts
<1>1. ASSUME NEW t \in Senders, Sending(t) PROVE video_started
  BY <1>1 DEF Sending, SendLock, SendReturns, SendFails, TransportLost
<1>2. ASSUME NEW r \in Readers, Work(r) PROVE video_started \/ configured
  BY <1>2 DEF Work, ReadCheck, ReadCall, ReadReturns, HandleVideo
<1>3. ASSUME NEW d \in Drivers, DriverWakes(d) PROVE video_started
  BY <1>3 DEF DriverWakes
<1>4. CASE MainStep \/ set_configuration \/ reset \/ Shutdown
  BY <1>4 DEF MainStep, EnableEndpoints, CommitEndpoints, StartWorkers, JoinWorkers,
              FinishTearDown, CloseOld, OpenNew, set_configuration, reset, Shutdown, TearDown
<1>5. CASE StopStaleVideo \/ ApiSends \/ BusDown \/ UNCHANGED vars
  BY <1>5 DEF StopStaleVideo, ApiSends, BusDown
<1> QED BY <1>1, <1>2, <1>3, <1>4, <1>5 DEF Next

LEMMA StepIsCurrent == StateInv /\ ApartInv /\ [Next]_vars => Current
<1> SUFFICES ASSUME StateInv, ApartInv, [Next]_vars PROVE Current
  OBVIOUS
<1> USE ConstantFacts DEF StateInv, PiTypes, ApartInv, Alive
<1>1. ASSUME NEW r \in Readers, rpc[r] = "video", rpc'[r] = "check", video_started', ~unjoined
      PROVE  rdata[r] = ep
  <2>1. mpc = "idle"
    BY <1>1, VideoStarts DEF TransportInv
  <2> QED BY <1>1, <2>1
<1>2. ASSUME NEW t \in Readers \cup Drivers, sp[t] = "lost", configured, ~unjoined
      PROVE  sent[t] = ep
  <2>1. Alive(t)
    BY <1>2 DEF QuietInv
  <2>2. mpc = "idle"
    BY <1>2, <2>1 DEF TransportInv
  <2> QED BY <1>2, <2>2
<1> QED BY <1>1, <1>2 DEF Current

\* As long as workers end within the joins, what a reader shows and what a failing worker
\* takes down is of the transport in use: the teardown waits for both threads, and none
\* is started before the next transport.
THEOREM SessionsAreKeptApart == Spec => SessionsKeptApart
<1>1. Init => StateInv /\ ApartInv
  BY StateInit, ConstantFacts DEF Init, ApartInv, Alive
<1>2. StateInv /\ ApartInv /\ [Next]_vars => StateInv' /\ ApartInv'
  BY StateStep, ApartStep
<1>3. StateInv /\ ApartInv /\ [Next]_vars
        => [\A r \in Readers :
              (rpc[r] = "video" /\ rpc'[r] = "check" /\ video_started' /\ ~unjoined)
                => rdata[r] = ep]_vars
  BY StepIsCurrent DEF Current
<1>4. StateInv /\ ApartInv /\ [Next]_vars
        => [\A t \in Readers \cup Drivers :
              (sp[t] = "lost" /\ sp'[t] = "no" /\ configured /\ ~unjoined)
                => sent[t] = ep]_vars
  BY StepIsCurrent DEF Current
<1> QED
  BY <1>1, <1>2, <1>3, <1>4, PTL
     DEF Spec, SessionsKeptApart, VideoIsCurrent, FreshTransportSurvives
=============================================================================
