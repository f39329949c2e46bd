---------------------------- MODULE ControlReplies ----------------------------
(***************************************************************************)
(* Camera commands of the Pi's control API and their replies: the client   *)
(* threads of pi_endpoint/control_server.py in Session.send_raw_command,   *)
(* next to the bulk reader that records what the goggles send.             *)
(*                                                                         *)
(* A reply carries the 16-bit sequence number and the command of its       *)
(* request.  The ghost n tells requests apart whose numbers are the same.  *)
(***************************************************************************)
EXTENDS Integers, Sequences, SequencesExt, FiniteSets

CONSTANTS Callers,      \* connections of the control socket
          Commands, NoCommand,  \* (cmd_set, cmd_id), or none
          Destructive,  \* commands that need allow_destructive
          Numbers,       \* sequence numbers (65536)
          HISTORY,      \* packets that control_history keeps (256)
          Pace,         \* no reply or call is older than this many commands
          MaxCalls      \* bound: commands sent in a behaviour

\* Session.control_seq starts at 0xE000, seven eighths of its range.
FirstSeq == (7 * Numbers) \div 8

ASSUME RepliesAssumption ==
  /\ NoCommand \notin Commands
  /\ IsFiniteSet(Callers) /\ Destructive \subseteq Commands
  /\ Numbers \in Nat \ {0} /\ HISTORY \in Nat \ {0} /\ Pace \in Nat \ {0}
  /\ MaxCalls \in Nat
  /\ Pace + HISTORY + Cardinality(Callers) <= Numbers + 2

VARIABLES
  server,           \* ControlServer: "down", "up", "closed"
  configured,
  control_seq,      \* commands numbered so far; the field holds it modulo Numbers
  control_history,
  pc,               \* "off", "recv", "record", "write", "scan", "asleep"
  n,                \* the command a caller sends
  cmd,
  expired,          \* its deadline has passed
  replies,          \* what send_raw_command returned last
  owed              \* external: commands the goggles may still answer

calls == <<pc, n, cmd, expired, replies>>
vars  == <<server, configured, control_seq, control_history, calls, owed>>

SeqField(k) == (FirstSeq + k) % Numbers

\* What control_history holds.  Packets that go out are never looked for; they
\* only take up room.
In(k, x, of) == [dir |-> "in", seq |-> SeqField(k), cmd |-> x, n |-> of]
Out == [dir |-> "out", seq |-> 0, cmd |-> NoCommand, n |-> 0]
Entries ==
  {Out} \cup [dir : {"in"}, seq : 0 .. Numbers - 1, cmd : Commands, n : 0 .. MaxCalls]

InCall == {"record", "write", "scan", "asleep"}
Calling(c) == pc[c] \in InCall

Init ==
  /\ server = "down" /\ configured = FALSE
  /\ control_seq = 0 /\ control_history = <<>>
  /\ pc = [c \in Callers |-> "off"] /\ n = [c \in Callers |-> 0]
  /\ cmd = [c \in Callers |-> NoCommand]
  /\ expired = [c \in Callers |-> FALSE] /\ replies = [c \in Callers |-> {}]
  /\ owed = {}
-----------------------------------------------------------------------------
\* Mutant: the history is longer than the numbers allow.
RecordKeepsMore(e, at) ==
  /\ control_history' =
       LET h == Append(control_history, e)
       IN  IF Len(h) > 2 * HISTORY THEN Tail(h) ELSE h
  /\ pc' = [c \in Callers |-> IF at[c] = "asleep" THEN "scan" ELSE at[c]]

\* _record_control_packet: append to the bounded history and wake all who wait.
Record(e, at) ==
  /\ control_history' =
       LET h == Append(control_history, e)
       IN  IF Len(h) > HISTORY THEN Tail(h) ELSE h
  /\ pc' = [c \in Callers |-> IF at[c] = "asleep" THEN "scan" ELSE at[c]]

Matching(c) ==
  {e \in Range(control_history) : e.dir = "in" /\ e.seq = SeqField(n[c]) /\ e.cmd = cmd[c]}

Return(c, found) ==
  /\ pc' = [pc EXCEPT ![c] = "recv"]
  /\ replies' = [replies EXCEPT ![c] = found]
  /\ expired' = [expired EXCEPT ![c] = FALSE]
-----------------------------------------------------------------------------
(* control_server.py *)

Start ==
  /\ server = "down"
  /\ server' = "up"
  /\ UNCHANGED <<configured, control_seq, control_history, calls, owed>>

Accept(c) ==
  /\ server = "up" /\ pc[c] = "off"
  /\ pc' = [pc EXCEPT ![c] = "recv"]
  /\ UNCHANGED <<server, configured, control_seq, control_history, n, cmd, expired,
                 replies, owed>>

\* The client hangs up, says nothing for 5 s, or the server has been closed.
Hangup(c) ==
  /\ pc[c] = "recv"
  /\ pc' = [pc EXCEPT ![c] = "off"]
  /\ n' = [n EXCEPT ![c] = 0]
  /\ cmd' = [cmd EXCEPT ![c] = NoCommand]
  /\ replies' = [replies EXCEPT ![c] = {}]
  /\ UNCHANGED <<server, configured, control_seq, control_history, expired, owed>>

\* Client threads are not joined: their calls go on.
Close ==
  /\ server = "up"
  /\ server' = "closed"
  /\ UNCHANGED <<configured, control_seq, control_history, calls, owed>>

\* _send_named refuses what destroys recordings unless asked twice.
Allowed(x, allow_destructive) == x \in Destructive => allow_destructive

\* dispatch and the checks of send_raw_command up to the number it takes.  Every
\* other request is answered at once and changes nothing.
Request(c, x, allow_destructive) ==
  /\ pc[c] = "recv" /\ configured
  /\ Allowed(x, allow_destructive)
  /\ control_seq < MaxCalls
  /\ \A o \in Callers : Calling(o) => control_seq + 1 < n[o] + Pace
  /\ control_seq' = control_seq + 1
  /\ pc' = [pc EXCEPT ![c] = "record"]
  /\ n' = [n EXCEPT ![c] = control_seq']
  /\ cmd' = [cmd EXCEPT ![c] = x]
  /\ replies' = [replies EXCEPT ![c] = {}]
  /\ owed' = {o \in owed : control_seq' < o.n + Pace}
  /\ UNCHANGED <<server, configured, control_history, expired>>
-----------------------------------------------------------------------------
(* send_raw_command and send_bulk_in *)

RecordOut(c) ==
  /\ pc[c] = "record"
  /\ Record(Out, [pc EXCEPT ![c] = "write"])
  /\ UNCHANGED <<server, configured, control_seq, n, cmd, expired, replies, owed>>

\* ep_write under tx_lock.  It may fail, and may find the transport broken; a
\* write that failed can have reached the goggles.  wait_ms may be 0.
Write(c, sent, waits) ==
  /\ pc[c] = "write"
  /\ sent => configured
  /\ owed' = IF configured THEN owed \cup {[n |-> n[c], cmd |-> cmd[c]]} ELSE owed
  /\ configured' \in IF sent THEN {TRUE} ELSE {configured, FALSE}
  /\ IF sent /\ waits
       THEN pc' = [pc EXCEPT ![c] = "scan"] /\ UNCHANGED <<expired, replies>>
       ELSE Return(c, {})
  /\ UNCHANGED <<server, control_seq, control_history, n, cmd>>

\* Mutant: the deadline is counted from the last packet on.
ScanRestarts(c) ==
  /\ pc[c] = "scan" \/ (pc[c] = "asleep" /\ expired[c])
  /\ IF Matching(c) # {} \/ (expired[c] /\ pc[c] = "asleep")
     THEN Return(c, Matching(c))
     ELSE /\ pc' = [pc EXCEPT ![c] = "asleep"]
          /\ expired' = [expired EXCEPT ![c] = FALSE] /\ UNCHANGED replies
  /\ UNCHANGED <<server, configured, control_seq, control_history, n, cmd, owed>>

\* One turn of the loop under control_condition: too late, found, or wait.
Scan(c) ==
  /\ pc[c] = "scan" \/ (pc[c] = "asleep" /\ expired[c])
  /\ IF expired[c] THEN Return(c, {})
     ELSE IF Matching(c) # {} THEN Return(c, Matching(c))
     ELSE pc' = [pc EXCEPT ![c] = "asleep"] /\ UNCHANGED <<expired, replies>>
  /\ UNCHANGED <<server, configured, control_seq, control_history, n, cmd, owed>>

\* min(wait_ms, 10 s) have passed since the write.
Expire(c) ==
  /\ pc[c] \in {"scan", "asleep"} /\ ~expired[c]
  /\ expired' = [expired EXCEPT ![c] = TRUE]
  /\ UNCHANGED <<server, configured, control_seq, control_history, pc, n, cmd, replies,
                 owed>>
-----------------------------------------------------------------------------
(* The bulk reader, the driver and the goggles *)

\* read_bulk records the answer to a command, possibly not for the first time.
Answer(o) ==
  /\ o \in owed
  /\ Record(In(o.n, o.cmd, o.n), pc)
  /\ UNCHANGED <<server, configured, control_seq, n, cmd, expired, replies, owed>>

\* Packets that belong to no call: what the goggles send unasked or to the
\* driver, and what the driver and identity_reply send.
Other(e) ==
  /\ Record(e, pc)
  /\ UNCHANGED <<server, configured, control_seq, n, cmd, expired, replies, owed>>

\* The session is configured, or loses its transport.
Usb ==
  /\ configured' = ~configured
  /\ UNCHANGED <<server, control_seq, control_history, calls, owed>>

Next ==
  \/ Start \/ Close \/ Usb
  \/ \E c \in Callers :
       \/ Accept(c) \/ Hangup(c) \/ RecordOut(c) \/ Scan(c) \/ Expire(c)
       \/ \E x \in Commands, allow \in BOOLEAN : Request(c, x, allow)
       \/ \E sent, waits \in BOOLEAN : Write(c, sent, waits)
  \/ \E o \in owed : Answer(o)
  \/ \E e \in {Out} \cup {In(k, x, 0) : k \in 1 .. Numbers, x \in Commands} : Other(e)

Spec == Init /\ [][Next]_vars

\* Client threads run, ep_write returns (PiSession) and time passes.
Fairness ==
  \A c \in Callers :
    /\ WF_vars(RecordOut(c)) /\ WF_vars(Scan(c)) /\ WF_vars(Expire(c))
    /\ WF_vars(\E sent, waits \in BOOLEAN : Write(c, sent, waits))

FairSpec == Spec /\ Fairness
-----------------------------------------------------------------------------
RepliesTypeOK ==
  /\ server \in {"down", "up", "closed"} /\ configured \in BOOLEAN
  /\ control_seq \in 0 .. MaxCalls
  /\ Range(control_history) \subseteq Entries
  /\ pc \in [Callers -> InCall \cup {"off", "recv"}]
  /\ n \in [Callers -> 0 .. MaxCalls] /\ cmd \in [Callers -> Commands \cup {NoCommand}]
  /\ expired \in [Callers -> BOOLEAN]
  /\ replies \in [Callers -> SUBSET Entries]
  /\ owed \subseteq [n : 1 .. MaxCalls, cmd : Commands]

\* A call returns the answers to its own command, or packets that answer no
\* call; never the answer to another command that had the same number, although
\* the numbers wrap and old packets stay in the history.
RepliesAreTheirs ==
  \A c \in Callers : \A e \in replies[c] :
    e.dir = "in" /\ e.cmd = cmd[c] /\ e.n \in {0, n[c]}

\* A reply that is recorded before its call waits, or while it does, is seen: no
\* call sleeps over one.
NobodySleepsOverAReply ==
  \A c \in Callers : pc[c] = "asleep" => Matching(c) = {}

\* Calls at the same time never share a number.
NumbersDiffer ==
  \A c, d \in Callers : Calling(c) /\ Calling(d) /\ c # d => SeqField(n[c]) # SeqField(n[d])

RepliesInv ==
  RepliesTypeOK /\ RepliesAreTheirs /\ NobodySleepsOverAReply /\ NumbersDiffer

\* control_server.py answers every request: a call ends by its deadline, however
\* many packets that are none of its replies wake it up.
CallsReturn == \A c \in Callers : Calling(c) ~> pc[c] \in {"recv", "off"}
=============================================================================
