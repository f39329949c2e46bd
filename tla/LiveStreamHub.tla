---------------------------- MODULE LiveStreamHub ----------------------------
(***************************************************************************)
(* The browser fan-out of the Raspberry Pi endpoint: class LiveStreamHub   *)
(* of pi_endpoint/live_stream.py.  The USB side pushes, a remux worker     *)
(* turns access units into fragments, and one thread per viewer sends them.*)
(*                                                                         *)
(* A chunk of input is one access unit.  AnnexBParser and                  *)
(* AccessUnitAssembler complete a unit when the next one begins: the       *)
(* worker always holds one back.                                           *)
(*                                                                         *)
(* A queue is emptied by a loop of get_nowait, which takes no lock that    *)
(* the queue's other end takes: one fragment, or unit, is one step.        *)
(***************************************************************************)
EXTENDS Integers, Sequences, FiniteSets

CONSTANTS Viewers,
          InputQueue,     \* size of input_queue (128)
          CLIENT_QUEUE,
          MAX_CLIENTS,
          MAX_GOP_FRAGMENTS,
          MaxUnits,       \* bound: access units in a behaviour
          MaxParameters   \* bound: different parameter sets in a behaviour

ASSUME HubAssumption ==
  /\ InputQueue \in Nat \ {0} /\ CLIENT_QUEUE \in Nat \ {0}
  /\ MAX_CLIENTS \in Nat /\ MAX_GOP_FRAGMENTS \in Nat \ {0}
  /\ MaxUnits \in Nat /\ MaxParameters \in Nat \ {0}

VARIABLES
  input_queue, reset_pending, stop_event,
  held,        \* the unit in the parser and assembler, or NoUnit
  wpc,         \* worker: "top", "drain", "clear", "get", "change", "put"
  fragment,    \* the unit it is working on
  targets,     \* the clients it hands it to
  ending,      \* the clients whose queues it empties to end them, before all else
  init,        \* parameter sets of muxer.init, 0 while there is none
  gop,
  clients,     \* registered viewers
  st,          \* viewer thread: "off", "wait", "startup", "stream", "closed"
  startup,     \* fragments it sends first
  pending,     \* its queue; End stands for None
  n, ps,       \* ghost: units and parameter sets of the source so far
  last,        \* ghost: number of the last fragment a viewer was sent
  vps,         \* ghost: the init segment a viewer was sent
  gap,         \* ghost: a viewer's fragments did not follow each other
  swallowed    \* ghost: a reset was asked for between the end of the drain and
               \* the clear of the flag, and is lost with it (live_stream.py:427)

input   == <<input_queue, reset_pending, stop_event>>
worker  == <<held, wpc, fragment, targets, ending>>
hub     == <<init, gop, clients>>
viewer  == <<st, startup, pending>>
source  == <<n, ps, swallowed>>
seen    == <<last, vps, gap>>
vars    == <<input, worker, hub, viewer, source, seen>>

NoUnit == [n |-> 0, key |-> FALSE, ps |-> 0]

\* None in a client's queue: the stream ends here.
End == [n |-> -1, key |-> FALSE, ps |-> 0]

Init ==
  /\ input_queue = <<>> /\ reset_pending = FALSE /\ stop_event = FALSE
  /\ held = NoUnit /\ wpc = "top" /\ fragment = NoUnit /\ targets = {}
  /\ ending = {}
  /\ init = 0 /\ gop = <<>> /\ clients = {}
  /\ st = [v \in Viewers |-> "off"]
  /\ startup = [v \in Viewers |-> <<>>] /\ pending = [v \in Viewers |-> <<>>]
  /\ n = 0 /\ ps = 1
  /\ last = [v \in Viewers |-> 0] /\ vps = [v \in Viewers |-> 0]
  /\ gap = [v \in Viewers |-> FALSE] /\ swallowed = FALSE
-----------------------------------------------------------------------------
(* The USB side *)

\* push: a full queue drops the unit and asks for a reset.
push(unit) ==
  /\ IF Len(input_queue) < InputQueue
       THEN input_queue' = Append(input_queue, unit) /\ UNCHANGED reset_pending
       ELSE reset_pending' = TRUE /\ UNCHANGED input_queue
  /\ UNCHANGED stop_event

\* The next access unit: a key frame, with new parameter sets or not, or a delta.
\* Units are numbered as the hub is given them: while its decoder restarts,
\* VideoOutput.push keeps some to itself (endpoint.py:350-357, 382) and goes on with
\* a key frame, without a word to the hub.
Push ==
  /\ ~stop_event /\ n < MaxUnits
  /\ n' = n + 1
  /\ ps' \in {ps, ps + 1} /\ ps' <= MaxParameters
  /\ \E key \in BOOLEAN :
       /\ ps' # ps => key
       /\ push([n |-> n', key |-> key, ps |-> ps'])
  /\ swallowed' = (swallowed \/ (wpc = "clear" /\ UNCHANGED input_queue))
  /\ UNCHANGED <<worker, hub, viewer, seen>>

\* reset: the USB stream ended; a unit of it is lost for good.
Reset ==
  /\ ~stop_event /\ n < MaxUnits
  /\ reset_pending' = TRUE
  /\ n' = n + 1
  /\ swallowed' = (swallowed \/ wpc = "clear")
  /\ UNCHANGED <<input_queue, stop_event, worker, hub, viewer, ps, seen>>
-----------------------------------------------------------------------------
(* The remux worker *)

Free == ending = {}

\* Empty the queue of a client, which may be getting from it, and end it.
EndViewer(v) ==
  /\ v \in ending
  /\ IF pending[v] # <<>>
       THEN pending' = [pending EXCEPT ![v] = Tail(@)] /\ UNCHANGED ending
       ELSE pending' = [pending EXCEPT ![v] = <<End>>] /\ ending' = ending \ {v}
  /\ UNCHANGED <<input, held, wpc, fragment, targets, hub, st, startup, source, seen>>

\* A pending reset: parser, assembler and GOP go, viewers are ended, ...
ConsumeReset ==
  /\ wpc = "top" /\ ~stop_event /\ reset_pending
  /\ held' = NoUnit /\ gop' = <<>>
  /\ ending' = clients
  /\ wpc' = "drain"
  /\ UNCHANGED <<input, fragment, targets, init, clients, viewer, source, seen>>

\* ... the input queue is emptied, ...
ConsumeDrain ==
  /\ wpc = "drain" /\ Free
  /\ IF input_queue # <<>>
       THEN input_queue' = Tail(input_queue) /\ UNCHANGED wpc
       ELSE wpc' = "clear" /\ UNCHANGED input_queue
  /\ UNCHANGED <<reset_pending, stop_event, held, fragment, targets, ending, hub,
                 viewer, source, seen>>

\* ... and the flag is cleared.
ConsumeClear ==
  /\ wpc = "clear"
  /\ reset_pending' = FALSE /\ wpc' = "get"
  /\ UNCHANGED <<input_queue, stop_event, held, fragment, targets, ending, hub, viewer,
                 source, seen>>

ConsumeTop ==
  /\ wpc = "top" /\ ~stop_event /\ ~reset_pending
  /\ wpc' = "get"
  /\ UNCHANGED <<input, held, fragment, targets, ending, hub, viewer, source, seen>>

\* The GOP after fragment u: restarted by a key frame, given up when too long.
NextGop(u, g) ==
  IF u.key THEN <<u>>
  ELSE IF g = <<>> \/ Len(g) >= MAX_GOP_FRAGMENTS THEN <<>>
  ELSE Append(g, u)

\* Mutant: new parameter sets do not end the viewers of the old ones.
OnAccessUnitKeeps(u) ==
  /\ init' = IF u.key THEN u.ps ELSE init
  /\ UNCHANGED <<clients, ending>>
  /\ IF init' = 0
       THEN UNCHANGED <<gop, fragment, targets>> /\ wpc' = "top"
       ELSE /\ gop' = NextGop(u, gop)
            /\ fragment' = u /\ targets' = clients /\ wpc' = "put"

\* _on_access_unit, under the lock: new parameter sets end all viewers first; without
\* an init segment there is no fragment.
on_access_unit(u) ==
  IF u.key /\ u.ps # init
    THEN /\ init' = u.ps /\ gop' = <<>>
         /\ ending' = clients
         /\ fragment' = u /\ wpc' = "change"
         /\ UNCHANGED <<clients, targets>>
    ELSE /\ UNCHANGED <<init, clients, ending>>
         /\ IF init = 0
              THEN UNCHANGED <<gop, fragment, targets>> /\ wpc' = "top"
              ELSE /\ gop' = NextGop(u, gop)
                   /\ fragment' = u /\ targets' = clients /\ wpc' = "put"

\* input_queue.get and _parse: the new unit completes the one held back.
ConsumeGet ==
  /\ wpc = "get"
  /\ IF input_queue = <<>>
       THEN wpc' = "top" /\ UNCHANGED <<input_queue, held, fragment, targets, ending, hub>>
       ELSE /\ input_queue' = Tail(input_queue)
            /\ held' = Head(input_queue)
            /\ IF held = NoUnit
                 THEN wpc' = "top" /\ UNCHANGED <<fragment, targets, ending, hub>>
                 ELSE on_access_unit(held)
  /\ UNCHANGED <<reset_pending, stop_event, viewer, source, seen>>

\* ... once the viewers are ended, the first fragment of the new ones, ...
NewParameters ==
  /\ wpc = "change" /\ Free
  /\ clients' = {} /\ gop' = NextGop(fragment, gop)
  /\ wpc' = "put"
  /\ UNCHANGED <<input, held, fragment, targets, ending, init, viewer, source, seen>>

\* ... and, without the lock, the rest: hand it out; a viewer whose queue is full is
\* ended.
PutFragment ==
  /\ wpc = "put" /\ Free
  /\ \/ /\ targets = {} /\ wpc' = "top" /\ fragment' = NoUnit
        /\ UNCHANGED <<targets, ending, pending>>
     \/ \E v \in targets :
          /\ targets' = targets \ {v}
          /\ IF Len(pending[v]) < CLIENT_QUEUE
               THEN pending' = [pending EXCEPT ![v] = Append(@, fragment)] /\ UNCHANGED ending
               ELSE ending' = {v} /\ UNCHANGED pending
          /\ UNCHANGED <<wpc, fragment>>
  /\ UNCHANGED <<input, held, hub, st, startup, source, seen>>

Worker ==
  \/ ConsumeTop \/ ConsumeReset \/ ConsumeDrain \/ ConsumeClear \/ ConsumeGet
  \/ NewParameters \/ PutFragment
  \/ \E v \in Viewers : EndViewer(v)
-----------------------------------------------------------------------------
(* Viewers *)

\* The lock, which the worker keeps until it has ended the viewers.
LockFree == wpc # "change"

Connect(v) ==
  /\ st[v] = "off" /\ ~stop_event
  /\ st' = [st EXCEPT ![v] = "wait"]
  /\ UNCHANGED <<input, worker, hub, startup, pending, source, seen>>

\* Register once there is something to start from; the lock makes the copy of the
\* GOP and the registration one step.
Register(v) ==
  /\ st[v] = "wait" /\ ~stop_event /\ LockFree
  /\ IF Cardinality(clients) >= MAX_CLIENTS
       THEN st' = [st EXCEPT ![v] = "closed"] /\ UNCHANGED <<clients, startup, vps>>
       ELSE /\ init # 0 /\ gop # <<>>
            /\ clients' = clients \cup {v}
            /\ startup' = [startup EXCEPT ![v] = gop]
            /\ vps' = [vps EXCEPT ![v] = init]
            /\ st' = [st EXCEPT ![v] = "startup"]
  /\ UNCHANGED <<input, worker, init, gop, pending, source, last, gap>>

\* What a viewer has seen after one more fragment.
See(v, u) ==
  /\ last' = [last EXCEPT ![v] = u.n]
  /\ gap' = [gap EXCEPT ![v] = @ \/ (last[v] # 0 /\ u.n # last[v] + 1)]
  /\ UNCHANGED vps

SendStartup(v) ==
  /\ st[v] = "startup"
  /\ IF startup[v] = <<>>
       THEN st' = [st EXCEPT ![v] = "stream"] /\ UNCHANGED <<startup, seen>>
       ELSE /\ See(v, Head(startup[v]))
            /\ startup' = [startup EXCEPT ![v] = Tail(@)]
            /\ UNCHANGED st
  /\ UNCHANGED <<input, worker, hub, pending, source>>

SendPending(v) ==
  /\ st[v] = "stream" /\ ~stop_event /\ pending[v] # <<>> /\ Head(pending[v]) # End
  /\ See(v, Head(pending[v]))
  /\ pending' = [pending EXCEPT ![v] = Tail(@)]
  /\ UNCHANGED <<input, worker, hub, st, startup, source>>

\* An ended stream, the deadline of the wait, or a failing sendall; the
\* queues go with the thread.
Leave(v) ==
  /\ st[v] \in {"wait", "startup", "stream"} /\ LockFree
  /\ st' = [st EXCEPT ![v] = "closed"]
  /\ clients' = clients \ {v}
  /\ targets' = targets \ {v} /\ ending' = ending \ {v}
  /\ startup' = [startup EXCEPT ![v] = <<>>] /\ pending' = [pending EXCEPT ![v] = <<>>]
  /\ last' = [last EXCEPT ![v] = 0] /\ vps' = [vps EXCEPT ![v] = 0]
  /\ gap' = [gap EXCEPT ![v] = FALSE]
  /\ UNCHANGED <<input, held, wpc, fragment, init, gop, source>>

\* Mutant: the end marker is skipped like a timeout of the queue.
EndedAtStopOnly(v) == st[v] = "stream" /\ stop_event

\* The end marker, or shutdown.
Ended(v) ==
  st[v] = "stream" /\ (stop_event \/ (pending[v] # <<>> /\ Head(pending[v]) = End))

\* close
Close ==
  /\ ~stop_event /\ stop_event' = TRUE /\ LockFree
  /\ clients' = {}
  /\ pending' = [v \in Viewers |->
       IF v \in clients /\ Len(pending[v]) < CLIENT_QUEUE THEN Append(pending[v], End)
       ELSE pending[v]]
  /\ UNCHANGED <<input_queue, reset_pending, worker, init, gop, st, startup, source, seen>>

ViewerStep(v) ==
  Register(v) \/ SendStartup(v) \/ SendPending(v) \/ (Ended(v) /\ Leave(v))

Next ==
  \/ Push \/ Reset \/ Close \/ Worker
  \/ \E v \in Viewers : Connect(v) \/ ViewerStep(v) \/ Leave(v)

Spec == Init /\ [][Next]_vars

\* The worker and the viewers' threads run.
FairSpec == Spec /\ WF_vars(Worker) /\ \A v \in Viewers : WF_vars(ViewerStep(v))
-----------------------------------------------------------------------------
HubTypeOK ==
  /\ Len(input_queue) <= InputQueue /\ Len(gop) <= MAX_GOP_FRAGMENTS
  /\ clients \subseteq Viewers /\ Cardinality(clients) <= MAX_CLIENTS
  /\ \A v \in Viewers : Len(pending[v]) <= CLIENT_QUEUE
  /\ wpc \in {"top", "drain", "clear", "get", "change", "put"}
  /\ st \in [Viewers -> {"off", "wait", "startup", "stream", "closed"}]

\* A viewer is sent the access units the hub is given one after the other, starting
\* with the GOP it found.  Lost input (queue overflow, a new USB stream) and a viewer
\* that is too slow end its stream: a hole comes only from what it takes out of its
\* queue while that is emptied, and then the end comes; unless the worker cleared the
\* flag of a reset it had not seen.
ViewersSeeNoGap ==
  ~swallowed => \A v \in Viewers :
    gap[v] => v \in ending \/ (pending[v] # <<>> /\ Head(pending[v]) = End)

\* The same for units not sent yet: viewers never join two GOPs, and what is
\* queued for a viewer has the parameter sets of the init segment it was sent, or
\* stands behind the end, or its queue is being emptied.
FragmentsMatchInit ==
  ~swallowed => \A v \in Viewers :
    /\ \A i \in DOMAIN startup[v] : startup[v][i].ps = vps[v]
    /\ (startup[v] # <<>> /\ last[v] = 0) => startup[v][1].key
    /\ \A i \in DOMAIN pending[v] :
         \/ v \in ending
         \/ pending[v][i] = End
         \/ pending[v][i].ps = vps[v]
         \/ \E j \in 1 .. i - 1 : pending[v][j] = End

\* Every viewer of the old stream leaves after a reset, whatever it was being sent
\* and however many fragments follow the end marker: none hangs on to a socket that
\* will not be fed.
ResetEndsViewers ==
  \A v \in Viewers : (reset_pending /\ v \in clients) ~> (v \notin clients)

\* Queues, GOP and the number of clients stay within their limits, and fragments
\* match the init segment and follow each other.
HubInv == HubTypeOK /\ FragmentsMatchInit /\ ViewersSeeNoGap
=============================================================================
