---------------------------- MODULE PreviewEncoder ----------------------------
(***************************************************************************)
(* The dashboard preview of the Pi endpoint: class PreviewEncoder of       *)
(* pi_endpoint/preview.py.  A writer feeds H.264 to a gst-launch process,  *)
(* a reader takes its JPEG pictures, and both start it when it is gone.    *)
(***************************************************************************)
EXTENDS Integers

CONSTANTS Procs, None,   \* encoder processes
          QueueSize,     \* chunks the queue holds (6)
          MaxFaults      \* bound: failures of encoders in a behaviour

PreviewAssumption ==
  None \notin Procs /\ QueueSize \in Nat \ {0} /\ MaxFaults \in Nat

VARIABLES
  queue,       \* chunks in the queue
  stop_event,
  process,
  writer,      \* "get", "ensure", "write", "broken", "kill", "done"
  wproc,       \* the process it writes to
  reader,      \* "top", "read", "empty", "done"
  rproc,
  closing,     \* close(): "no", "take", "stdin", "end", "join", "closed"
  cproc,       \* the process it took
  picture,     \* the JPEG is there
  state,       \* external: "none", "runs", "hung" (neither reads nor writes), "deaf"
               \*   (has closed its stdin), "dead" (or never started)
  late,        \* ghost: a process was started after close() took the last one
  overdue,     \* ghost: close() did not wait any longer for a thread
  faults

threads == <<writer, wproc, reader, rproc>>
ends    == <<stop_event, closing, cproc, overdue>>
ext     == <<state, faults>>
vars    == <<queue, process, threads, ends, picture, ext, late>>

InitAt(w, r, c) ==
  /\ queue = 0 /\ process = None /\ picture = FALSE
  /\ writer = w /\ wproc = None /\ reader = r /\ rproc = None
  /\ stop_event = (c # "no") /\ closing = c /\ cproc = None /\ overdue = FALSE
  /\ state = [p \in Procs |-> "dead"] /\ late = FALSE /\ faults = 0

Init == InitAt("get", "top", "no")
-----------------------------------------------------------------------------
Up(p) == p # None /\ state[p] # "dead"
Unused(p) == ~Up(p) /\ p \notin {process, wproc, rproc, cproc}
Fault == faults < MaxFaults /\ faults' = faults + 1

\* _ensure_process under the lock: self.process, or a new one if it has exited;
\* Popen may fail.
Ensured(p) ==
  \/ Up(process) /\ p = process /\ UNCHANGED <<process, ext, late>>
  \/ ~Up(process) /\ p = None /\ Fault /\ UNCHANGED <<process, state, late>>
  \/ /\ ~Up(process) /\ p # None /\ Unused(p)
     /\ process' = p /\ state' = [state EXCEPT ![p] = "runs"]
     /\ late' = (late \/ closing \notin {"no", "take"})
     /\ UNCHANGED faults

\* push: a full queue loses its oldest chunk.
push ==
  /\ ~stop_event
  /\ queue' = IF queue < QueueSize THEN queue + 1 ELSE queue
  /\ UNCHANGED <<process, threads, ends, picture, ext, late>>

\* reset, from the threads that reset the output.
reset ==
  /\ closing = "no" /\ (queue # 0 \/ picture)
  /\ queue' = 0 /\ picture' = FALSE
  /\ UNCHANGED <<process, threads, ends, ext, late>>
-----------------------------------------------------------------------------
(* _write_loop *)

WriterGets ==
  /\ writer = "get"
  /\ \/ /\ stop_event /\ writer' = "done" /\ UNCHANGED queue
     \/ /\ ~stop_event /\ queue > 0
        /\ queue' = queue - 1 /\ writer' = "ensure"
  /\ wproc' = None
  /\ UNCHANGED <<process, reader, rproc, ends, picture, ext, late>>

WriterEnsures ==
  /\ writer = "ensure"
  /\ \E p \in Procs \cup {None} :
       /\ Ensured(p) /\ wproc' = p
       /\ writer' = IF p = None THEN "get" ELSE "write"
  /\ UNCHANGED <<queue, reader, rproc, ends, picture>>

StdinClosed == closing \in {"end", "join", "closed"} /\ wproc = cproc

\* write and flush; a hung process blocks them, one that is deaf or gone, or a pipe
\* close() has closed, raises.
Write ==
  /\ writer = "write"
  /\ \/ state[wproc] = "runs" /\ ~StdinClosed /\ writer' = "get"
     \/ (state[wproc] \in {"deaf", "dead"} \/ StdinClosed) /\ writer' = "broken"
  /\ UNCHANGED <<queue, process, wproc, reader, rproc, ends, picture, ext, late>>

\* Mutant: the error is only recorded.
ForgetNothing ==
  /\ writer = "broken"
  /\ writer' = "get"
  /\ UNCHANGED <<queue, process, wproc, reader, rproc, ends, picture, ext, late>>

\* The broken process is forgotten, unless another has taken its place.
Forget ==
  /\ writer = "broken"
  /\ process' = IF process = wproc THEN None ELSE process
  /\ writer' = "kill"
  /\ UNCHANGED <<queue, wproc, reader, rproc, ends, picture, ext, late>>

Kill ==
  /\ writer = "kill"
  /\ state' = [state EXCEPT ![wproc] = "dead"]
  /\ writer' = "get"
  /\ UNCHANGED <<queue, process, wproc, reader, rproc, ends, picture, faults, late>>
-----------------------------------------------------------------------------
(* _read_loop *)

ReaderEnsures ==
  /\ reader = "top"
  /\ IF stop_event
       THEN reader' = "done" /\ rproc' = None /\ UNCHANGED <<process, ext, late>>
       ELSE \E p \in Procs \cup {None} :
              /\ Ensured(p) /\ rproc' = p
              /\ reader' = IF p = None THEN "top" ELSE "read"
  /\ UNCHANGED <<queue, writer, wproc, ends, picture>>

\* Pictures are published as they come; at the end of the stream there may be one
\* left, and then there is nothing.
Read ==
  /\ reader = "read"
  /\ \/ /\ state[rproc] \in {"runs", "dead"} /\ picture' = TRUE
        /\ reader' = "top" /\ rproc' = None
     \/ /\ state[rproc] = "dead" /\ reader' = "empty"
        /\ UNCHANGED <<picture, rproc>>
  /\ UNCHANGED <<queue, process, writer, wproc, ends, ext, late>>

\* Mutant: whatever process is there is forgotten with the one that ended.
ReaderForgetsAny ==
  /\ reader = "empty"
  /\ process' = None
  /\ reader' = "top" /\ rproc' = None
  /\ UNCHANGED <<queue, writer, wproc, ends, picture, ext, late>>

ReaderForgets ==
  /\ reader = "empty"
  /\ process' = IF process = rproc THEN None ELSE process
  /\ reader' = "top" /\ rproc' = None
  /\ UNCHANGED <<queue, writer, wproc, ends, picture, ext, late>>
-----------------------------------------------------------------------------
(* close *)

Close ==
  /\ closing = "no"
  /\ stop_event' = TRUE /\ closing' = "take"
  /\ UNCHANGED <<queue, process, threads, cproc, overdue, picture, ext, late>>

Take ==
  /\ closing = "take"
  /\ cproc' = process /\ process' = None
  /\ closing' = IF process = None THEN "join" ELSE "stdin"
  /\ UNCHANGED <<queue, threads, stop_event, overdue, picture, ext, late>>

\* stdin.close() needs the lock of the buffered pipe, which a write that is
\* blocked in a hung process keeps.
CloseStdin ==
  /\ closing = "stdin"
  /\ ~(writer = "write" /\ wproc = cproc /\ state[cproc] = "hung")
  /\ closing' = "end"
  /\ UNCHANGED <<queue, process, threads, stop_event, cproc, overdue, picture, ext, late>>

\* terminate, and kill after 0.5 s.
Terminate ==
  /\ closing = "end"
  /\ state' = [state EXCEPT ![cproc] = "dead"]
  /\ closing' = "join"
  /\ UNCHANGED <<queue, process, threads, stop_event, cproc, overdue, picture, faults,
                 late>>

\* The joins time out after 1 s if a thread is in a process that nobody killed; the
\* last reset removes the picture.
JoinThreads ==
  /\ closing = "join"
  /\ overdue' = ~(writer = "done" /\ reader = "done")
  /\ overdue' => (late \/ \E p \in Procs : state[p] = "hung")
  /\ closing' = "closed"
  /\ queue' = 0 /\ picture' = FALSE
  /\ UNCHANGED <<process, threads, stop_event, cproc, ext, late>>
-----------------------------------------------------------------------------
\* External: an encoder exits, stops taking input, or hangs.
Fail(p) ==
  /\ Up(p) /\ Fault
  /\ \E s \in {"dead", "deaf", "hung"} : s # state[p] /\ state' = [state EXCEPT ![p] = s]
  /\ UNCHANGED <<queue, process, threads, ends, picture, late>>

Writer == WriterGets \/ WriterEnsures \/ Write \/ Forget \/ Kill
Reader == ReaderEnsures \/ Read \/ ReaderForgets
Closer == Take \/ CloseStdin \/ Terminate \/ JoinThreads

Next == push \/ reset \/ Writer \/ Reader \/ Close \/ Closer \/ \E p \in Procs : Fail(p)

Spec == Init /\ [][Next]_vars

\* Threads run, close() goes on, video keeps coming, and a stream that has ended
\* has one last picture.
Fairness ==
  /\ WF_vars(Writer) /\ WF_vars(ReaderEnsures) /\ WF_vars(ReaderForgets)
  /\ SF_vars(Read /\ reader' = "empty") /\ WF_vars(Closer) /\ WF_vars(push)

FairSpec == Spec /\ Fairness
-----------------------------------------------------------------------------
PreviewTypeOK ==
  /\ queue \in 0 .. QueueSize /\ picture \in BOOLEAN
  /\ {process, wproc, rproc, cproc} \subseteq Procs \cup {None}
  /\ writer \in {"get", "ensure", "write", "broken", "kill", "done"}
  /\ reader \in {"top", "read", "empty", "done"}
  /\ closing \in {"no", "take", "stdin", "end", "join", "closed"}

\* One encoder runs, although two threads start it and three forget it: any other
\* is about to be killed.  The exception: one started while close() is under way.
OneEncoder ==
  late \/ \A p \in Procs : Up(p) =>
            \/ p = process
            \/ p = wproc /\ writer = "kill"
            \/ p = cproc /\ closing \in {"stdin", "end"}

\* After close() no encoder runs and no picture is left for the dashboard, if both
\* threads ended in time.
ClosedIsClean ==
  (closing = "closed" /\ ~overdue /\ ~late) =>
    ~picture /\ \A p \in Procs : ~Up(p)

PreviewInv == PreviewTypeOK /\ OneEncoder /\ ClosedIsClean

Hung == \E p \in Procs : state[p] = "hung"

\* "Best-effort low-resolution preview": while video comes in, encoders that exited
\* or closed their input are replaced for good, and close() ends; unless one hangs.
PreviewLives ==
  <>[][~reset]_vars =>
  \/ <>Hung
  \/ <>[](process # None /\ state[process] = "runs")
  \/ <>(closing = "closed")
=============================================================================
