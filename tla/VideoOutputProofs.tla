-------------------------- MODULE VideoOutputProofs --------------------------
(***************************************************************************)
(* Proofs about VideoOutput, for any number of processes and any length of *)
(* the queue: one player, none after close(), and streams that begin with  *)
(* a parameter set.                                                        *)
(***************************************************************************)
EXTENDS VideoOutput, SequenceTheorems, FiniteSetTheorems, TLAPS

Items == Chunks \cup {"end"}

\* A queue of at most QueueSize items, and the records of all stops.
QueueOK(q) == q \in Seq(Items) /\ Len(q) <= QueueSize
Stops == [Actors -> [p : Procs \cup {None}, st : {"no", "kill", "ok", "timeout"}]]

\* Every variable has its type.
FlagTypes ==
  /\ started \in BOOLEAN /\ display_reset \in BOOLEAN /\ decoder_reset \in BOOLEAN
  /\ stop_event \in BOOLEAN /\ wait_sps \in BOOLEAN /\ player_stuck \in BOOLEAN
  /\ stdin \in BOOLEAN /\ revived \in BOOLEAN

LoopTypes ==
  /\ pending \in Chunks \cup {"tail", None}
  /\ pc \in {"top", "clear", "look", "start", "spawn", "get", "write", "stop", "died",
             "broken", "unplug", "flag", "last", "done"}
  /\ after \in {"top", "died", "broken", "unplug", "done"}

PlayerTypes ==
  /\ process \in Procs \cup {None}
  /\ procs \in [Procs -> {"run", "hung", "stuck", "dead"}]
  /\ fed \in {"new", "reset", "good", "bad"}

StopTypes ==
  /\ stopping \in Stops
  /\ api \in {"idle", "clear", "stop", "flag"}
  /\ closing \in {"no", "join", "stop", "done"}

OutTypes == FlagTypes /\ LoopTypes /\ PlayerTypes /\ StopTypes /\ QueueOK(queue)

\* Who is in _stop_process, ...
StopPlace ==
  /\ stopping["loop"].st # "no" <=> pc = "stop"
  /\ stopping["api"].st # "no" <=> api = "stop"
  /\ stopping["main"].st # "no" <=> closing = "stop"
  /\ closing \in {"stop", "done"} => pc = "done"

\* ... and what it has found out about its process.
StopFound ==
  \A a \in Actors :
    /\ stopping[a].st = "no" => stopping[a].p = None
    /\ stopping[a].st = "ok" => Gone(stopping[a].p)
    /\ stopping[a].st \in {"kill", "timeout"} => stopping[a].p # None
    /\ stopping[a].st = "timeout" => procs[stopping[a].p] \in {"stuck", "dead"}

StopInv == StopPlace /\ StopFound

\* Only the process the output refers to may be alive.
PlayerInv ==
  ~revived =>
    /\ \A p \in Procs : procs[p] # "dead" => p = process
    /\ pc \in {"start", "spawn"} => process = None
    /\ closing = "stop" => process \in {None, stopping["main"].p}
    /\ closing = "done" => \A p \in Procs : procs[p] \in {"dead", "stuck"}

\* The pipe is closed from the beginning of a stop to the next start.
PipeInv ==
  /\ pc \in {"stop", "died", "broken", "unplug", "flag"} => ~stdin
  /\ \A a \in Actors : stopping[a].p # None /\ stopping[a].p = process => ~stdin
  /\ pc \in {"get", "write"} /\ process = None => ~stdin

\* What comes next to a player begins with a parameter set.
Flushed ==
  \/ pending = "sps"
  \/ pending = None /\ queue = <<>> /\ (wait_sps \/ decoder_reset)
  \/ pending = None /\ queue # <<>> /\ Head(queue) \in {"sps", "end"}

\* A player that was told to flush can be written to only what was queued since.
FlushInv ==
  /\ fed # "bad"
  /\ pc = "write" => pending # None
  /\ pc = "clear" => decoder_reset /\ wait_sps
  /\ fed = "reset" /\ stdin /\ api # "clear" /\ pc # "last" => Flushed

OutInv == OutTypes /\ StopInv /\ PlayerInv /\ PipeInv /\ FlushInv
-----------------------------------------------------------------------------
\* What the operations on the queue return.
LEMMA QueueOps ==
  /\ QueueOK(<<>>)
  /\ \A q : QueueOK(q) /\ q # <<>> => QueueOK(Tail(q)) /\ Head(q) \in Items
  /\ \A q, x : QueueOK(q) /\ x \in Items /\ Len(q) < QueueSize => QueueOK(Append(q, x))
<1>1. QueueOK(<<>>)
  BY OutputAssumption DEF QueueOK
<1>2. ASSUME NEW q, QueueOK(q), q # <<>> PROVE QueueOK(Tail(q)) /\ Head(q) \in Items
  <2>1. Tail(q) \in Seq(Items) /\ Len(Tail(q)) = Len(q) - 1 /\ Head(q) \in Items
    BY <1>2, HeadTailProperties DEF QueueOK
  <2> QED
    BY <2>1, <1>2, LenProperties, OutputAssumption DEF QueueOK
<1>3. ASSUME NEW q, NEW x, QueueOK(q), x \in Items, Len(q) < QueueSize
      PROVE  QueueOK(Append(q, x))
  <2>1. Append(q, x) \in Seq(Items) /\ Len(Append(q, x)) = Len(q) + 1
    BY <1>3, AppendProperties DEF QueueOK
  <2> QED
    BY <2>1, <1>3, LenProperties, OutputAssumption DEF QueueOK
<1> QED
  BY <1>1, <1>2, <1>3

\* The types after the three parts of _stop_process.
LEMMA StopOps ==
  ASSUME OutTypes, NEW a \in Actors
  PROVE  /\ StopBegin(a) => stopping' \in Stops /\ stdin' = FALSE /\ revived' = revived
         /\ StopCommit(a) =>
              /\ stopping' \in Stops /\ process' \in Procs \cup {None}
              /\ player_stuck' \in BOOLEAN /\ stdin' \in BOOLEAN /\ revived' \in BOOLEAN
         /\ StopKill(a) =>
              /\ stopping' \in Stops
              /\ procs' \in [Procs -> {"run", "hung", "stuck", "dead"}]
<1>1. /\ stopping[a] \in [p : Procs \cup {None}, st : {"no", "kill", "ok", "timeout"}]
      /\ stopping[a].p \in Procs \cup {None}
      /\ process \in Procs \cup {None}
  BY DEF OutTypes, FlagTypes, LoopTypes, PlayerTypes, StopTypes, Stops
<1>2. StopBegin(a) => stopping' \in Stops /\ stdin' = FALSE /\ revived' = revived
  BY DEF OutTypes, FlagTypes, LoopTypes, PlayerTypes, StopTypes, Stops, StopBegin
<1>3. StopCommit(a) => stopping' \in Stops
  BY DEF OutTypes, FlagTypes, LoopTypes, PlayerTypes, StopTypes, Stops, StopCommit, NoStop
<1>4. StopCommit(a) =>
        /\ process' \in Procs \cup {None}
        /\ player_stuck' \in BOOLEAN /\ stdin' \in BOOLEAN /\ revived' \in BOOLEAN
  BY <1>1 DEF OutTypes, FlagTypes, LoopTypes, PlayerTypes, StopTypes, StopCommit
<1>5. StopKill(a) => stopping' \in Stops
  BY DEF OutTypes, FlagTypes, LoopTypes, PlayerTypes, StopTypes, Stops, StopKill
<1>6. StopKill(a) => procs' \in [Procs -> {"run", "hung", "stuck", "dead"}]
  BY DEF OutTypes, FlagTypes, LoopTypes, PlayerTypes, StopTypes, StopKill
<1> QED
  BY <1>2, <1>3, <1>4, <1>5, <1>6

LEMMA OutInit == Init => OutInv
<1> SUFFICES ASSUME Init PROVE OutInv
  OBVIOUS
<1>1. OutTypes
  BY QueueOps DEF Init, OutTypes, FlagTypes, LoopTypes, PlayerTypes, StopTypes, Stops,
     Actors, NoStop
<1>2. StopInv
  BY OutputAssumption DEF Init, StopInv, StopPlace, StopFound, Actors, NoStop, Gone
<1>3. PlayerInv
  BY OutputAssumption DEF Init, PlayerInv
<1>4. PipeInv /\ FlushInv
  BY DEF Init, PipeInv, FlushInv
<1> QED
  BY <1>1, <1>2, <1>3, <1>4 DEF OutInv

LEMMA TypeStep == OutTypes /\ [Next]_vars => OutTypes'
<1> SUFFICES ASSUME OutTypes, [Next]_vars PROVE OutTypes'
  OBVIOUS
<1>0. "sps" \in Items /\ "mid" \in Items /\ "end" \in Items /\ Chunks \subseteq Items
  BY DEF Items, Chunks
<1> USE DEF OutTypes, FlagTypes, LoopTypes, PlayerTypes, StopTypes
<1>1. ASSUME NEW chunk \in Chunks, handle_video(chunk) PROVE OutTypes'
  <2>1. FlagTypes'
    BY <1>1, <1>0, QueueOps DEF handle_video, push, events, stops, loop, ext
  <2>2. LoopTypes'
    BY <1>1, <1>0, QueueOps DEF handle_video, push, events, stops, loop, ext
  <2>3. PlayerTypes'
    BY <1>1, <1>0, QueueOps DEF handle_video, push, events, stops, loop, ext
  <2>4. StopTypes'
    BY <1>1, <1>0, QueueOps DEF handle_video, push, events, stops, loop, ext
  <2>5. QueueOK(queue)'
    BY <1>1, <1>0, QueueOps DEF handle_video, push, events, stops, loop, ext
  <2> QED
    BY <2>1, <2>2, <2>3, <2>4, <2>5
<1>2. CASE reset_stream
  <2>1. FlagTypes'
    BY <1>2, <1>0, QueueOps DEF reset_stream, events, stops, loop, ext
  <2>2. LoopTypes'
    BY <1>2, <1>0, QueueOps DEF reset_stream, events, stops, loop, ext
  <2>3. PlayerTypes'
    BY <1>2, <1>0, QueueOps DEF reset_stream, events, stops, loop, ext
  <2>4. StopTypes'
    BY <1>2, <1>0, QueueOps DEF reset_stream, events, stops, loop, ext
  <2>5. QueueOK(queue)'
    BY <1>2, <1>0, QueueOps DEF reset_stream, events, stops, loop, ext
  <2> QED
    BY <2>1, <2>2, <2>3, <2>4, <2>5
<1>3. CASE LoopTop
  <2>1. FlagTypes'
    BY <1>3, <1>0, QueueOps, StopOps DEF Actors, LoopTop, CallStop, Goto, events,
       stops, loop, ext
  <2>2. LoopTypes'
    BY <1>3, <1>0, QueueOps, StopOps DEF Actors, LoopTop, CallStop, Goto, events,
       stops, loop, ext
  <2>3. PlayerTypes'
    BY <1>3, <1>0, QueueOps, StopOps DEF Actors, LoopTop, CallStop, Goto, events,
       stops, loop, ext
  <2>4. StopTypes'
    BY <1>3, <1>0, QueueOps, StopOps DEF Actors, LoopTop, CallStop, Goto, events,
       stops, loop, ext
  <2>5. QueueOK(queue)'
    BY <1>3, <1>0, QueueOps, StopOps DEF Actors, LoopTop, CallStop, Goto, events,
       stops, loop, ext
  <2> QED
    BY <2>1, <2>2, <2>3, <2>4, <2>5
<1>4. CASE LoopClear
  <2>1. FlagTypes'
    BY <1>4 DEF LoopClear, Goto, events, stops, loop, ext
  <2>2. LoopTypes'
    BY <1>4 DEF LoopClear, Goto, events, stops, loop, ext
  <2>3. PlayerTypes'
    BY <1>4 DEF LoopClear, Goto, events, stops, loop, ext
  <2>4. StopTypes'
    BY <1>4 DEF LoopClear, Goto, events, stops, loop, ext
  <2>5. QueueOK(queue)'
    BY <1>4 DEF LoopClear, Goto, events, stops, loop, ext
  <2> QED
    BY <2>1, <2>2, <2>3, <2>4, <2>5
<1>5. CASE LoopStart
  BY <1>5 DEF LoopStart, Goto, events, stops, loop, ext
<1>6. CASE LoopSpawn
  <2>1. FlagTypes'
    BY <1>6 DEF LoopSpawn, Goto, events, stops, loop, ext
  <2>2. LoopTypes'
    BY <1>6 DEF LoopSpawn, Goto, events, stops, loop, ext
  <2>3. PlayerTypes'
    BY <1>6 DEF LoopSpawn, Goto, events, stops, loop, ext
  <2>4. StopTypes'
    BY <1>6 DEF LoopSpawn, Goto, events, stops, loop, ext
  <2>5. QueueOK(queue)'
    BY <1>6 DEF LoopSpawn, Goto, events, stops, loop, ext
  <2> QED
    BY <2>1, <2>2, <2>3, <2>4, <2>5
<1>7. CASE LoopSpawnFails
  BY <1>7 DEF LoopSpawnFails, Goto, events, stops, loop, ext
<1>8. CASE LoopGet
  <2>1. FlagTypes'
    BY <1>8, <1>0, QueueOps DEF LoopGet, Goto, events, stops, loop, ext
  <2>2. LoopTypes'
    BY <1>8, <1>0, QueueOps DEF Items, LoopGet, Goto, events, stops, loop, ext
  <2>3. PlayerTypes'
    BY <1>8, <1>0, QueueOps DEF LoopGet, Goto, events, stops, loop, ext
  <2>4. StopTypes'
    BY <1>8, <1>0, QueueOps DEF LoopGet, Goto, events, stops, loop, ext
  <2>5. QueueOK(queue)'
    BY <1>8, <1>0, QueueOps DEF LoopGet, Goto, events, stops, loop, ext
  <2> QED
    BY <2>1, <2>2, <2>3, <2>4, <2>5
<1>9. CASE LoopWrite
  <2>1. FlagTypes'
    BY <1>9, StopOps DEF Actors, LoopWrite, CallStop, Goto, Decoded, events, stops,
       loop, ext
  <2>2. LoopTypes'
    BY <1>9, StopOps DEF Actors, LoopWrite, CallStop, Goto, Decoded, events, stops,
       loop, ext
  <2>3. PlayerTypes'
    BY <1>9, StopOps DEF Actors, LoopWrite, CallStop, Goto, Decoded, events, stops,
       loop, ext
  <2>4. StopTypes'
    BY <1>9, StopOps DEF Actors, LoopWrite, CallStop, Goto, Decoded, events, stops,
       loop, ext
  <2>5. QueueOK(queue)'
    BY <1>9, StopOps DEF Actors, LoopWrite, CallStop, Goto, Decoded, events, stops,
       loop, ext
  <2> QED
    BY <2>1, <2>2, <2>3, <2>4, <2>5
<1>10. CASE LoopStopped
  <2>1. FlagTypes'
    BY <1>10, StopOps DEF Actors, LoopStopped, Goto, events, stops, loop, ext
  <2>2. LoopTypes'
    BY <1>10, StopOps DEF Actors, LoopStopped, Goto, events, stops, loop, ext
  <2>3. PlayerTypes'
    BY <1>10, StopOps DEF Actors, LoopStopped, Goto, events, stops, loop, ext
  <2>4. StopTypes'
    BY <1>10, StopOps DEF Actors, LoopStopped, Goto, events, stops, loop, ext
  <2>5. QueueOK(queue)'
    BY <1>10, StopOps DEF Actors, LoopStopped, Goto, events, stops, loop, ext
  <2> QED
    BY <2>1, <2>2, <2>3, <2>4, <2>5
<1>11. CASE LoopCleanup
  <2>1. FlagTypes'
    BY <1>11, <1>0, QueueOps DEF LoopCleanup, Goto, events, stops, loop, ext
  <2>2. LoopTypes'
    BY <1>11, <1>0, QueueOps DEF LoopCleanup, Goto, events, stops, loop, ext
  <2>3. PlayerTypes'
    BY <1>11, <1>0, QueueOps DEF LoopCleanup, Goto, events, stops, loop, ext
  <2>4. StopTypes'
    BY <1>11, <1>0, QueueOps DEF LoopCleanup, Goto, events, stops, loop, ext
  <2>5. QueueOK(queue)'
    BY <1>11, <1>0, QueueOps DEF LoopCleanup, Goto, events, stops, loop, ext
  <2> QED
    BY <2>1, <2>2, <2>3, <2>4, <2>5
<1>12. CASE LoopLast
  <2>1. FlagTypes'
    BY <1>12, StopOps DEF Actors, LoopLast, CallStop, Goto, events, stops, loop, ext
  <2>2. LoopTypes'
    BY <1>12, StopOps DEF Actors, LoopLast, CallStop, Goto, events, stops, loop, ext
  <2>3. PlayerTypes'
    BY <1>12, StopOps DEF Actors, LoopLast, CallStop, Goto, events, stops, loop, ext
  <2>4. StopTypes'
    BY <1>12, StopOps DEF Actors, LoopLast, CallStop, Goto, events, stops, loop, ext
  <2>5. QueueOK(queue)'
    BY <1>12, StopOps DEF Actors, LoopLast, CallStop, Goto, events, stops, loop, ext
  <2> QED
    BY <2>1, <2>2, <2>3, <2>4, <2>5
<1>13. CASE reload_profile
  <2>1. FlagTypes'
    BY <1>13, <1>0, QueueOps, StopOps DEF Actors, reload_profile, events, stops, loop, ext
  <2>2. LoopTypes'
    BY <1>13, <1>0, QueueOps, StopOps DEF Actors, reload_profile, events, stops, loop, ext
  <2>3. PlayerTypes'
    BY <1>13, <1>0, QueueOps, StopOps DEF Actors, reload_profile, events, stops, loop, ext
  <2>4. StopTypes'
    BY <1>13, <1>0, QueueOps, StopOps DEF Actors, reload_profile, events, stops, loop, ext
  <2>5. QueueOK(queue)'
    BY <1>13, <1>0, QueueOps, StopOps DEF Actors, reload_profile, events, stops, loop, ext
  <2> QED
    BY <2>1, <2>2, <2>3, <2>4, <2>5
<1>14. CASE close
  <2>1. FlagTypes'
    BY <1>14, <1>0, QueueOps, StopOps DEF Actors, close, events, stops, loop, ext
  <2>2. LoopTypes'
    BY <1>14, <1>0, QueueOps, StopOps DEF Actors, close, events, stops, loop, ext
  <2>3. PlayerTypes'
    BY <1>14, <1>0, QueueOps, StopOps DEF Actors, close, events, stops, loop, ext
  <2>4. StopTypes'
    BY <1>14, <1>0, QueueOps, StopOps DEF Actors, close, events, stops, loop, ext
  <2>5. QueueOK(queue)'
    BY <1>14, <1>0, QueueOps, StopOps DEF Actors, close, events, stops, loop, ext
  <2> QED
    BY <2>1, <2>2, <2>3, <2>4, <2>5
<1>15. ASSUME NEW display \in BOOLEAN, LoopLook(display) PROVE OutTypes'
  <2>1. FlagTypes'
    BY <1>15, StopOps DEF Actors, LoopLook, CallStop, Goto, events, stops, loop, ext
  <2>2. LoopTypes'
    BY <1>15, StopOps DEF Actors, LoopLook, CallStop, Goto, events, stops, loop, ext
  <2>3. PlayerTypes'
    BY <1>15, StopOps DEF Actors, LoopLook, CallStop, Goto, events, stops, loop, ext
  <2>4. StopTypes'
    BY <1>15, StopOps DEF Actors, LoopLook, CallStop, Goto, events, stops, loop, ext
  <2>5. QueueOK(queue)'
    BY <1>15, StopOps DEF Actors, LoopLook, CallStop, Goto, events, stops, loop, ext
  <2> QED
    BY <2>1, <2>2, <2>3, <2>4, <2>5
<1>16. ASSUME NEW a \in Actors, StopKill(a) PROVE OutTypes'
  <2>1. FlagTypes'
    BY <1>16, StopOps DEF Actors, StopKill, events, stops, loop, ext
  <2>2. LoopTypes'
    BY <1>16, StopOps DEF Actors, StopKill, events, stops, loop, ext
  <2>3. PlayerTypes'
    BY <1>16, StopOps DEF Actors, StopKill, events, stops, loop, ext
  <2>4. StopTypes'
    BY <1>16, StopOps DEF Actors, StopKill, events, stops, loop, ext
  <2>5. QueueOK(queue)'
    BY <1>16, StopOps DEF Actors, StopKill, events, stops, loop, ext
  <2> QED
    BY <2>1, <2>2, <2>3, <2>4, <2>5
<1>17. ASSUME NEW p \in Procs, PlayerChanges(p) PROVE OutTypes'
  BY <1>17 DEF PlayerChanges, events, stops, loop, ext
<1>18. CASE UNCHANGED vars
  BY <1>18 DEF vars, events, stops, loop, ext
<1> QED
  BY <1>1, <1>2, <1>3, <1>4, <1>5, <1>6, <1>7, <1>8, <1>9, <1>10, <1>11, <1>12, <1>13,
     <1>14, <1>15, <1>16, <1>17, <1>18 DEF Next, PlayerLoop, Actors

LEMMA StopStep == OutTypes /\ StopInv /\ [Next]_vars => StopInv'
<1> SUFFICES ASSUME OutTypes, StopInv, [Next]_vars PROVE StopInv'
  OBVIOUS
<1> USE OutputAssumption DEF OutTypes, FlagTypes, LoopTypes, PlayerTypes, StopTypes,
        Stops, StopInv, StopPlace, StopFound, Gone, NoStop, Actors
<1>1. ASSUME NEW chunk \in Chunks, handle_video(chunk) PROVE StopInv'
  BY <1>1 DEF handle_video, push, events, stops, loop, ext
<1>2. CASE reset_stream
  BY <1>2 DEF reset_stream, events, stops, loop, ext
<1>3. CASE LoopTop
  <2>1. StopPlace'
    BY <1>3 DEF LoopTop, CallStop, StopBegin, Goto, events, stops, loop, ext
  <2>2. StopFound'
    BY <1>3 DEF LoopTop, CallStop, StopBegin, Goto, events, stops, loop, ext
  <2> QED
    BY <2>1, <2>2
<1>4. CASE LoopClear
  BY <1>4 DEF LoopClear, Goto, events, stops, loop, ext
<1>5. CASE LoopStart
  BY <1>5 DEF LoopStart, Goto, events, stops, loop, ext
<1>6. CASE LoopSpawn
  BY <1>6 DEF LoopSpawn, Goto, events, stops, loop, ext
<1>7. CASE LoopSpawnFails
  BY <1>7 DEF LoopSpawnFails, Goto, events, stops, loop, ext
<1>8. CASE LoopGet
  BY <1>8 DEF LoopGet, Goto, events, stops, loop, ext
<1>9. CASE LoopWrite
  <2>1. StopPlace'
    BY <1>9 DEF LoopWrite, CallStop, StopBegin, Goto, Decoded, events, stops, loop, ext
  <2>2. StopFound'
    BY <1>9 DEF LoopWrite, CallStop, StopBegin, Goto, Decoded, events, stops, loop, ext
  <2> QED
    BY <2>1, <2>2
<1>10. CASE LoopStopped
  <2>1. StopPlace'
    BY <1>10 DEF LoopStopped, StopCommit, Goto, events, stops, loop, ext
  <2>2. StopFound'
    BY <1>10 DEF LoopStopped, StopCommit, Goto, events, stops, loop, ext
  <2> QED
    BY <2>1, <2>2
<1>11. CASE LoopCleanup
  BY <1>11 DEF LoopCleanup, Goto, events, stops, loop, ext
<1>12. CASE LoopLast
  <2>1. StopPlace'
    BY <1>12 DEF LoopLast, CallStop, StopBegin, Goto, events, stops, loop, ext
  <2>2. StopFound'
    BY <1>12 DEF LoopLast, CallStop, StopBegin, Goto, events, stops, loop, ext
  <2> QED
    BY <2>1, <2>2
<1>13. CASE reload_profile
  <2>1. CASE api = "idle"
    <3>1. StopPlace'
      BY <1>13, <2>1 DEF reload_profile, StopBegin, StopCommit, events, stops, loop, ext
    <3>2. StopFound'
      BY <1>13, <2>1 DEF reload_profile, StopBegin, StopCommit, events, stops, loop, ext
    <3> QED
      BY <3>1, <3>2
  <2>2. CASE api = "clear"
    <3>1. StopPlace'
      BY <1>13, <2>2 DEF reload_profile, StopBegin, StopCommit, events, stops, loop, ext
    <3>2. StopFound'
      BY <1>13, <2>2 DEF reload_profile, StopBegin, StopCommit, events, stops, loop, ext
    <3> QED
      BY <3>1, <3>2
  <2>3. CASE api = "stop"
    <3>1. StopPlace'
      BY <1>13, <2>3 DEF reload_profile, StopBegin, StopCommit, events, stops, loop, ext
    <3>2. StopFound'
      BY <1>13, <2>3 DEF reload_profile, StopBegin, StopCommit, events, stops, loop, ext
    <3> QED
      BY <3>1, <3>2
  <2>4. CASE api = "flag"
    <3>1. StopPlace'
      BY <1>13, <2>4 DEF reload_profile, StopBegin, StopCommit, events, stops, loop, ext
    <3>2. StopFound'
      BY <1>13, <2>4 DEF reload_profile, StopBegin, StopCommit, events, stops, loop, ext
    <3> QED
      BY <3>1, <3>2
  <2> QED
    BY <1>13, <2>1, <2>2, <2>3, <2>4 DEF reload_profile
<1>14. CASE close
  <2>1. CASE closing = "no"
    <3>1. StopPlace'
      BY <1>14, <2>1 DEF close, StopBegin, StopCommit, events, stops, loop, ext
    <3>2. StopFound'
      BY <1>14, <2>1 DEF close, StopBegin, StopCommit, events, stops, loop, ext
    <3> QED
      BY <3>1, <3>2
  <2>2. CASE closing = "join"
    <3>1. StopPlace'
      BY <1>14, <2>2 DEF close, StopBegin, StopCommit, events, stops, loop, ext
    <3>2. StopFound'
      BY <1>14, <2>2 DEF close, StopBegin, StopCommit, events, stops, loop, ext
    <3> QED
      BY <3>1, <3>2
  <2>3. CASE closing = "stop"
    <3>1. StopPlace'
      BY <1>14, <2>3 DEF close, StopBegin, StopCommit, events, stops, loop, ext
    <3>2. StopFound'
      BY <1>14, <2>3 DEF close, StopBegin, StopCommit, events, stops, loop, ext
    <3> QED
      BY <3>1, <3>2
  <2> QED
    BY <1>14, <2>1, <2>2, <2>3 DEF close
<1>15. ASSUME NEW display \in BOOLEAN, LoopLook(display) PROVE StopInv'
  <2>1. StopPlace'
    BY <1>15 DEF LoopLook, CallStop, StopBegin, Goto, events, stops, loop, ext
  <2>2. StopFound'
    BY <1>15 DEF LoopLook, CallStop, StopBegin, Goto, events, stops, loop, ext
  <2> QED
    BY <2>1, <2>2
<1>16. ASSUME NEW a \in Actors, StopKill(a) PROVE StopInv'
  <2>1. StopPlace'
    BY <1>16 DEF StopKill, events, stops, loop, ext
  <2>2. StopFound'
    BY <1>16 DEF StopKill, events, stops, loop, ext
  <2> QED
    BY <2>1, <2>2
<1>17. ASSUME NEW p \in Procs, PlayerChanges(p) PROVE StopInv'
  <2>1. StopPlace'
    BY <1>17 DEF PlayerChanges, events, stops, loop, ext
  <2>2. StopFound'
    BY <1>17 DEF PlayerChanges, events, stops, loop, ext
  <2> QED
    BY <2>1, <2>2
<1>18. CASE UNCHANGED vars
  BY <1>18 DEF vars, events, stops, loop, ext
<1> QED
  BY <1>1, <1>2, <1>3, <1>4, <1>5, <1>6, <1>7, <1>8, <1>9, <1>10, <1>11, <1>12, <1>13,
     <1>14, <1>15, <1>16, <1>17, <1>18 DEF Next, PlayerLoop, Actors

LEMMA PlayerStep == OutTypes /\ StopInv /\ PlayerInv /\ [Next]_vars => PlayerInv'
<1> SUFFICES ASSUME OutTypes, StopInv, PlayerInv, [Next]_vars PROVE PlayerInv'
  OBVIOUS
<1> USE OutputAssumption DEF OutTypes, FlagTypes, LoopTypes, PlayerTypes, StopTypes,
        Stops, StopInv, StopPlace, StopFound, PlayerInv, Gone, NoStop, Actors
<1>1. ASSUME NEW chunk \in Chunks, handle_video(chunk) PROVE PlayerInv'
  BY <1>1 DEF handle_video, push, events, stops, loop, ext
<1>2. CASE reset_stream
  BY <1>2 DEF reset_stream, events, stops, loop, ext
<1>3. CASE LoopTop
  BY <1>3 DEF LoopTop, CallStop, StopBegin, Goto, events, stops, loop, ext
<1>4. CASE LoopClear
  BY <1>4 DEF LoopClear, Goto, events, stops, loop, ext
<1>5. CASE LoopStart
  BY <1>5 DEF LoopStart, Goto, events, stops, loop, ext
<1>6. CASE LoopSpawn
  BY <1>6 DEF LoopSpawn, Goto, events, stops, loop, ext
<1>7. CASE LoopSpawnFails
  BY <1>7 DEF LoopSpawnFails, Goto, events, stops, loop, ext
<1>8. CASE LoopGet
  BY <1>8 DEF LoopGet, Goto, events, stops, loop, ext
<1>9. CASE LoopWrite
  BY <1>9 DEF LoopWrite, CallStop, StopBegin, Goto, Decoded, events, stops, loop, ext
<1>10. CASE LoopStopped
  BY <1>10 DEF LoopStopped, StopCommit, Goto, events, stops, loop, ext
<1>11. CASE LoopCleanup
  BY <1>11 DEF LoopCleanup, Goto, events, stops, loop, ext
<1>12. CASE LoopLast
  BY <1>12 DEF LoopLast, CallStop, StopBegin, Goto, events, stops, loop, ext
<1>13. CASE reload_profile
  BY <1>13, ZenonT(40) DEF reload_profile, StopBegin, StopCommit, events, stops, loop, ext
<1>14. CASE close
  <2>1. CASE closing = "no"
    BY <1>14, <2>1 DEF close, StopBegin, StopCommit, events, stops, loop, ext
  <2>2. CASE closing = "join"
    BY <1>14, <2>2 DEF close, StopBegin, StopCommit, events, stops, loop, ext
  <2>3. CASE closing = "stop"
    BY <1>14, <2>3, ZenonT(40) DEF close, StopBegin, StopCommit, events, stops, loop, ext
  <2> QED
    BY <1>14, <2>1, <2>2, <2>3 DEF close
<1>15. ASSUME NEW display \in BOOLEAN, LoopLook(display) PROVE PlayerInv'
  BY <1>15 DEF LoopLook, CallStop, StopBegin, Goto, events, stops, loop, ext
<1>16. ASSUME NEW a \in Actors, StopKill(a) PROVE PlayerInv'
  BY <1>16 DEF StopKill, events, stops, loop, ext
<1>17. ASSUME NEW p \in Procs, PlayerChanges(p) PROVE PlayerInv'
  BY <1>17 DEF PlayerChanges, events, stops, loop, ext
<1>18. CASE UNCHANGED vars
  BY <1>18 DEF vars, events, stops, loop, ext
<1> QED
  BY <1>1, <1>2, <1>3, <1>4, <1>5, <1>6, <1>7, <1>8, <1>9, <1>10, <1>11, <1>12, <1>13,
     <1>14, <1>15, <1>16, <1>17, <1>18 DEF Next, PlayerLoop, Actors

LEMMA PipeStep == OutTypes /\ StopInv /\ PipeInv /\ [Next]_vars => PipeInv'
<1> SUFFICES ASSUME OutTypes, StopInv, PipeInv, [Next]_vars PROVE PipeInv'
  OBVIOUS
<1> USE OutputAssumption DEF OutTypes, FlagTypes, LoopTypes, PlayerTypes, StopTypes,
        Stops, StopInv, StopPlace, StopFound, PipeInv, Gone, NoStop, Actors
<1>1. ASSUME NEW chunk \in Chunks, handle_video(chunk) PROVE PipeInv'
  BY <1>1 DEF handle_video, push, events, stops, loop, ext
<1>2. CASE reset_stream
  BY <1>2 DEF reset_stream, events, stops, loop, ext
<1>3. CASE LoopTop
  BY <1>3 DEF LoopTop, CallStop, StopBegin, Goto, events, stops, loop, ext
<1>4. CASE LoopClear
  BY <1>4 DEF LoopClear, Goto, events, stops, loop, ext
<1>5. CASE LoopStart
  BY <1>5 DEF LoopStart, Goto, events, stops, loop, ext
<1>6. CASE LoopSpawn
  BY <1>6 DEF LoopSpawn, Goto, events, stops, loop, ext
<1>7. CASE LoopSpawnFails
  BY <1>7 DEF LoopSpawnFails, Goto, events, stops, loop, ext
<1>8. CASE LoopGet
  BY <1>8 DEF LoopGet, Goto, events, stops, loop, ext
<1>9. CASE LoopWrite
  BY <1>9 DEF LoopWrite, CallStop, StopBegin, Goto, Decoded, events, stops, loop, ext
<1>10. CASE LoopStopped
  BY <1>10 DEF LoopStopped, StopCommit, Goto, events, stops, loop, ext
<1>11. CASE LoopCleanup
  BY <1>11 DEF LoopCleanup, Goto, events, stops, loop, ext
<1>12. CASE LoopLast
  BY <1>12 DEF LoopLast, CallStop, StopBegin, Goto, events, stops, loop, ext
<1>13. CASE reload_profile
  BY <1>13, ZenonT(40) DEF reload_profile, StopBegin, StopCommit, events, stops, loop, ext
<1>14. CASE close
  <2>1. CASE closing = "no"
    BY <1>14, <2>1 DEF close, StopBegin, StopCommit, events, stops, loop, ext
  <2>2. CASE closing = "join"
    BY <1>14, <2>2 DEF close, StopBegin, StopCommit, events, stops, loop, ext
  <2>3. CASE closing = "stop"
    BY <1>14, <2>3, ZenonT(40) DEF close, StopBegin, StopCommit, events, stops, loop, ext
  <2> QED
    BY <1>14, <2>1, <2>2, <2>3 DEF close
<1>15. ASSUME NEW display \in BOOLEAN, LoopLook(display) PROVE PipeInv'
  BY <1>15 DEF LoopLook, CallStop, StopBegin, Goto, events, stops, loop, ext
<1>16. ASSUME NEW a \in Actors, StopKill(a) PROVE PipeInv'
  BY <1>16 DEF StopKill, events, stops, loop, ext
<1>17. ASSUME NEW p \in Procs, PlayerChanges(p) PROVE PipeInv'
  BY <1>17 DEF PlayerChanges, events, stops, loop, ext
<1>18. CASE UNCHANGED vars
  BY <1>18 DEF vars, events, stops, loop, ext
<1> QED
  BY <1>1, <1>2, <1>3, <1>4, <1>5, <1>6, <1>7, <1>8, <1>9, <1>10, <1>11, <1>12, <1>13,
     <1>14, <1>15, <1>16, <1>17, <1>18 DEF Next, PlayerLoop, Actors

LEMMA FlushStep == OutTypes /\ StopInv /\ PipeInv /\ FlushInv /\ [Next]_vars => FlushInv'
<1> SUFFICES ASSUME OutTypes, StopInv, PipeInv, FlushInv, [Next]_vars PROVE FlushInv'
  OBVIOUS
<1> USE OutputAssumption DEF OutTypes, FlagTypes, LoopTypes, PlayerTypes, StopTypes,
        Stops, StopInv, StopPlace, StopFound, PipeInv, FlushInv, Flushed, Gone, NoStop,
        Actors, Chunks
<1>1. ASSUME NEW chunk \in Chunks, handle_video(chunk) PROVE FlushInv'
  BY <1>1 DEF handle_video, push, events, stops, loop, ext
<1>2. CASE reset_stream
  BY <1>2 DEF reset_stream, events, stops, loop, ext
<1>3. CASE LoopTop
  BY <1>3 DEF LoopTop, CallStop, StopBegin, Goto, events, stops, loop, ext
<1>4. CASE LoopClear
  BY <1>4 DEF LoopClear, Goto, events, stops, loop, ext
<1>5. CASE LoopStart
  BY <1>5 DEF LoopStart, Goto, events, stops, loop, ext
<1>6. CASE LoopSpawn
  BY <1>6 DEF LoopSpawn, Goto, events, stops, loop, ext
<1>7. CASE LoopSpawnFails
  BY <1>7 DEF LoopSpawnFails, Goto, events, stops, loop, ext
<1>8. CASE LoopGet
  <2>1. CASE pending # None
    BY <1>8, <2>1 DEF LoopGet, Goto, events, stops, loop, ext
  <2>2. CASE pending = None /\ queue = <<>>
    BY <1>8, <2>2 DEF LoopGet, Goto, events, stops, loop, ext
  <2>3. CASE pending = None /\ queue # <<>>
    <3>1. Head(queue) \in Items
      BY <2>3, QueueOps
    <3>2. CASE Head(queue) = "end"
      BY <1>8, <2>3, <3>2 DEF LoopGet, Goto, events, stops, loop, ext
    <3>3. CASE Head(queue) # "end"
      <4>1. pending' = Head(queue) /\ pending' \in Chunks /\ pending' # None
        BY <1>8, <2>3, <3>1, <3>3 DEF LoopGet, Items, loop
      <4> QED
        BY <1>8, <2>3, <3>3, <4>1 DEF LoopGet, Goto, events, stops, loop, ext
    <3> QED
      BY <3>2, <3>3
  <2> QED
    BY <1>8, <2>1, <2>2, <2>3 DEF LoopGet
<1>9. CASE LoopWrite
  BY <1>9 DEF LoopWrite, CallStop, StopBegin, Goto, Decoded, events, stops, loop, ext
<1>10. CASE LoopStopped
  BY <1>10 DEF LoopStopped, StopCommit, Goto, events, stops, loop, ext
<1>11. CASE LoopCleanup
  BY <1>11 DEF LoopCleanup, Goto, events, stops, loop, ext
<1>12. CASE LoopLast
  BY <1>12 DEF LoopLast, CallStop, StopBegin, Goto, events, stops, loop, ext
<1>13. CASE reload_profile
  BY <1>13 DEF reload_profile, StopBegin, StopCommit, events, stops, loop, ext
<1>14. CASE close
  <2>1. CASE closing = "no"
    BY <1>14, <2>1 DEF close, StopBegin, StopCommit, events, stops, loop, ext
  <2>2. CASE closing = "join"
    BY <1>14, <2>2 DEF close, StopBegin, StopCommit, events, stops, loop, ext
  <2>3. CASE closing = "stop"
    BY <1>14, <2>3 DEF close, StopBegin, StopCommit, events, stops, loop, ext
  <2> QED
    BY <1>14, <2>1, <2>2, <2>3 DEF close
<1>15. ASSUME NEW display \in BOOLEAN, LoopLook(display) PROVE FlushInv'
  BY <1>15 DEF LoopLook, CallStop, StopBegin, Goto, events, stops, loop, ext
<1>16. ASSUME NEW a \in Actors, StopKill(a) PROVE FlushInv'
  BY <1>16 DEF StopKill, events, stops, loop, ext
<1>17. ASSUME NEW p \in Procs, PlayerChanges(p) PROVE FlushInv'
  BY <1>17 DEF PlayerChanges, events, stops, loop, ext
<1>18. CASE UNCHANGED vars
  BY <1>18 DEF vars, events, stops, loop, ext
<1> QED
  BY <1>1, <1>2, <1>3, <1>4, <1>5, <1>6, <1>7, <1>8, <1>9, <1>10, <1>11, <1>12, <1>13,
     <1>14, <1>15, <1>16, <1>17, <1>18 DEF Next, PlayerLoop, Actors

LEMMA OutStep == OutInv /\ [Next]_vars => OutInv'
BY TypeStep, StopStep, PlayerStep, PipeStep, FlushStep DEF OutInv

\* The invariant is enough: only the process the output refers to may be alive.
LEMMA OutIsSafe == OutInv => OutputInv
<1> SUFFICES ASSUME OutInv PROVE OutputInv
  OBVIOUS
<1>1. OutputTypeOK
  BY DEF OutInv, OutTypes, LoopTypes, PlayerTypes, StopTypes, Stops, Actors, QueueOK,
         Items, OutputTypeOK
<1>2. OnePlayer
  <2> DEFINE Alive == {p \in Procs : procs[p] # "dead"}
  <2> SUFFICES ASSUME ~revived PROVE Cardinality(Alive) <= 1
    BY DEF OnePlayer
  <2>1. Alive \subseteq {process}
    BY DEF OutInv, PlayerInv
  <2>2. IsFiniteSet({process}) /\ Cardinality({process}) = 1
    BY FS_Singleton
  <2>3. IsFiniteSet(Alive) /\ Cardinality(Alive) <= Cardinality({process})
    BY <2>1, <2>2, FS_Subset
  <2> QED
    BY <2>2, <2>3
<1>3. ClosedMeansStopped
  BY DEF OutInv, PlayerInv, ClosedMeansStopped
<1>4. SpsAfterReset
  BY DEF OutInv, FlushInv, SpsAfterReset
<1> QED
  BY <1>1, <1>2, <1>3, <1>4 DEF OutputInv

\* VideoOutput is safe however the USB side, the player loop, a reload, the
\* shutdown and the player processes interleave: one player at most, none left
\* after close() that could be killed, and none decodes the middle of a stream.
THEOREM OutputIsSafe == Spec => []OutputInv
<1>1. Spec => []OutInv
  BY OutInit, OutStep, PTL DEF Spec
<1> QED
  BY <1>1, OutIsSafe, PTL
=============================================================================
