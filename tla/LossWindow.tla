----------------------------- MODULE LossWindow ------------------------------
(***************************************************************************)
(* The retransmission window at work: the goggles send numbered type-2     *)
(* packets, the network loses, duplicates, delays and reorders them, and   *)
(* the client pushes what arrives into its window and asks for the rest.   *)
(*                                                                         *)
(* The ghost variables number packets without wrapping: packet n carries   *)
(* sequence number Raw(n).                                                 *)
(***************************************************************************)
EXTENDS RtxWindow

CONSTANTS First,     \* sequence number just before the first packet
          Seed,      \* the session seed a disarmed window rests at
          MaxSent,   \* bound: packets sent in a behaviour
          Lifetime,  \* a packet is delivered before Lifetime more are sent
          MaxLag     \* no packet comes further past the oldest hole

ASSUME LossAssumption ==
  /\ First \in Seqs /\ Seed \in Seqs
  /\ MaxSent \in Nat /\ Lifetime \in Nat /\ MaxLag \in Nat
  /\ Lifetime < M \div 2

VARIABLES win,     \* the LossWindow object
          sent,    \* packets 1 .. sent have left the goggles
          got,     \* packets pushed since the window was armed
          base,    \* the packet that armed it
          far      \* a packet came further past the oldest hole than it can be held

vars == <<win, sent, got, base, far>>

Raw(n) == (First + n) % M

\* What the window should know: the last packet of the unbroken run from base,
\* and the newest packet.
TrueStart ==
  CHOOSE t \in base .. sent : base + 1 .. t \subseteq got /\ t + 1 \notin got
TrueEnd == CHOOSE t \in got : \A u \in got : u <= t

LossTypeOK ==
  /\ win \in Window
  /\ sent \in 0 .. MaxSent
  /\ got \subseteq 1 .. MaxSent
  /\ base \in 0 .. MaxSent
  /\ far \in BOOLEAN

Init ==
  /\ win = NewWindow(Seed)
  /\ sent = 0
  /\ got = {}
  /\ base = 0
  /\ far = FALSE

\* The goggles send the next packet.
Send ==
  /\ sent < MaxSent
  /\ sent' = sent + 1
  /\ UNCHANGED <<win, got, base, far>>

\* A packet (first copy, duplicate, or retransmission) reaches the client.
Deliver(n) ==
  /\ n \in 1 .. sent
  /\ n > sent - Lifetime
  /\ win.armed => n - TrueStart <= MaxLag
  /\ win' = push(win, Raw(n))
  /\ got' = got \cup {n}
  /\ base' = IF win.armed THEN base ELSE n
  /\ far' = (far \/ (win.armed /\ n - TrueStart > STALE + 2))
  /\ UNCHANGED sent

\* No video for video_timeout: Session.run calls rtx.reset().
Reset ==
  /\ win.armed
  /\ win' = NewWindow(Seed)
  /\ got' = {}
  /\ base' = 0
  /\ far' = FALSE
  /\ UNCHANGED sent

\* The goggles answer a resend list that starts at the first hole.
Retransmit ==
  \E n \in 1 .. sent : Raw(n) \in missing(win) /\ Deliver(n)

Next == Send \/ (\E n \in 1 .. MaxSent : Deliver(n)) \/ Reset

Spec == Init /\ [][Next]_vars

\* Requested packets that the goggles still hold do arrive in the end.
Fairness == WF_vars(Retransmit)
-----------------------------------------------------------------------------
(* Invariants of the window record itself *)

\* The slot after start is always a hole: push() leaves no received number
\* directly behind the contiguous run.
HoleAtStart == win.armed => Plus(win.start, 1) \notin win.have

\* Held numbers are at most STALE behind the newest one, so the held set (a
\* Python set that nothing else trims) stays bounded for ever.
HeldAreRecent == \A s \in win.have : seq_ahead(win.end, s) <= STALE

\* A disarmed window holds nothing over from the stream before the stall.
DisarmedIsEmpty == ~win.armed => win.have = {} /\ win.start = win.end

\* The window record has its type and these three properties.
WindowInv == LossTypeOK /\ HoleAtStart /\ HeldAreRecent /\ DisarmedIsEmpty

\* "Retransmit requests must start at the first hole or the goggles ignore the
\* whole list" (LossWindow docstring): whenever the window is open, the list is
\* non-empty and leads with the number after the contiguous run.
ResendLeadsWithFirstHole ==
  (win.armed /\ win.start # win.end) => Plus(win.start, 1) \in missing(win)

(* The window against the packets that really arrived *)

\* As long as no packet has come further than STALE + 2 past the oldest hole, the
\* 16-bit window is exact, also across wrap-around: start is the end of the
\* unbroken run, end the newest packet, and the resend list asks for the oldest
\* MAX_RESEND packets that did not arrive, and for nothing else.
WindowIsExact ==
  win.armed /\ ~far =>
    LET lost == (TrueStart + 1 .. TrueEnd) \ got
    IN  /\ win.start = Raw(TrueStart) /\ win.end = Raw(TrueEnd)
        /\ missing(win) =
             {Raw(n) : n \in {l \in lost :
                                Cardinality({i \in lost : i <= l}) <= MAX_RESEND}}

\* The contiguous edge reported to the goggles never moves backwards while the
\* window stays armed: an ACK never withdraws what an earlier one confirmed.
StartNeverRetreats ==
  [][(win.armed /\ win'.armed) =>
       seq_ahead(win'.start, win.start) < M \div 2]_vars

\* Once the requested packets arrive, every gap closes: the window does not
\* stay open for ever, although purged packets are asked for again.
GapsClose ==
  (win.armed /\ win.start # win.end) ~> (win.start = win.end)
=============================================================================
