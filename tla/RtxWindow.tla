------------------------------ MODULE RtxWindow ------------------------------
(***************************************************************************)
(* The type-2 retransmission window of the liveview client, as operators   *)
(* on a window record: class LossWindow of ip-liveview/protocol.py, and    *)
(* g3_loss_* of ip-liveview/c/protocol.c, which compute the same thing.    *)
(*                                                                         *)
(* Sequence numbers are counted in units of SEQ_STEP ("low 3 bits stay 0", *)
(* protocol.py:35): the 16-bit field is M = 8192 steps, the 0x8000 test is *)
(* M \div 2 steps, the purge distance 2048 is STALE = 256 steps.           *)
(***************************************************************************)
EXTENDS Integers, FiniteSets

CONSTANTS M,           \* number of sequence numbers, 65536 / SEQ_STEP
          STALE,       \* a held number further behind the end is purged
          MAX_RESEND,  \* numbers one ACK can ask for (16)
          MAX_STEPS    \* numbers missing() looks at (512)

ASSUME RtxAssumption ==
  /\ M \in Nat /\ STALE \in Nat /\ MAX_RESEND \in Nat /\ MAX_STEPS \in Nat
  /\ MAX_RESEND >= 1 /\ MAX_STEPS >= 1
  /\ M >= 4 /\ STALE + 2 < M \div 2

Seqs == 0 .. M - 1

\* The number k steps after s (0 <= k <= M), masked to the field's width.
Plus(s, k) == IF s + k < M THEN s + k ELSE s + k - M

\* (newer - older) & SEQ_MASK
seq_ahead(newer, older) ==
  IF newer >= older THEN newer - older ELSE newer - older + M

Window == [start : Seqs, end : Seqs, have : SUBSET Seqs, armed : BOOLEAN]

\* LossWindow.__init__ and reset(): disarmed at the seed.
NewWindow(seed) ==
  [start |-> seed, end |-> seed, have |-> {}, armed |-> FALSE]

\* How often the loop "while nxt in self.have" runs from start.
RunLength(start, have) ==
  CHOOSE k \in 0 .. M - 1 :
    /\ \A j \in 1 .. k : Plus(start, j) \in have
    /\ Plus(start, k + 1) \notin have

\* The first packet arms the window at its own number.
Arm(w, seq) == [w EXCEPT !.start = seq, !.end = seq, !.armed = TRUE]

\* The end moves to a number less than half the field ahead of it.
NewEnd(w, seq) ==
  IF seq_ahead(seq, w.end) \in 1 .. (M \div 2) - 1 THEN seq ELSE w.end

\* The numbers the loop takes out of the held set.
Taken(start, k) == {Plus(start, j) : j \in 1 .. k}

\* Mutant: the purge is missing.
RecentAll(held, end) == held

\* Mutant: the purge takes the number at distance STALE too.
RecentStrict(held, end) == {s \in held : seq_ahead(end, s) < STALE}

\* What the purge leaves of the held set.
Recent(held, end) == {s \in held : seq_ahead(end, s) <= STALE}

\* push() on an armed window: note the number, move the end, take the contiguous
\* run, purge.
PushArmed(w, seq) ==
  LET held == w.have \cup {seq}
      end  == NewEnd(w, seq)
      k    == RunLength(w.start, held)
  IN  [w EXCEPT !.start = Plus(w.start, k),
                !.end   = end,
                !.have  = Recent(held \ Taken(w.start, k), end)]

\* Mutant: a number too old to be held is not looked at.
PushIgnoresOld(w, seq) ==
  IF ~w.armed THEN Arm(w, seq)
  ELSE IF seq_ahead(w.end, seq) \in STALE + 2 .. (M \div 2) - 1 THEN w
  ELSE PushArmed(w, seq)

\* Mutant: a window that has become too long starts again at a late number.
PushRebases(w, seq) ==
  IF ~w.armed THEN Arm(w, seq)
  ELSE IF seq_ahead(w.end, w.start) > STALE + 2 /\ seq_ahead(seq, w.start) >= M \div 2
    THEN [Arm(w, seq) EXCEPT !.have = {}]
  ELSE PushArmed(w, seq)

\* LossWindow.push without its return value, which is missing(push(w, seq)).
push(w, seq) == IF ~w.armed THEN Arm(w, seq) ELSE PushArmed(w, seq)

\* The scan of missing(): offsets from start whose number is not held.
Holes(w) ==
  LET ahead == seq_ahead(w.end, w.start)
      span  == IF ahead < MAX_STEPS THEN ahead ELSE MAX_STEPS
  IN  {j \in 1 .. span : Plus(w.start, j) \notin w.have}

\* Mutant: the scan begins one number late.
MissingSkipsFirst(w) ==
  IF ~w.armed \/ w.start = w.end
    THEN {}
    ELSE {Plus(w.start, j) :
            j \in {h \in Holes(w) \ {1} :
                     Cardinality({i \in Holes(w) : i <= h}) <= MAX_RESEND}}

\* LossWindow.missing: the first MAX_RESEND holes.  The list is in scan order,
\* so it is modelled as the set of its members; its head is the member closest
\* to start.
missing(w) ==
  IF ~w.armed \/ w.start = w.end
    THEN {}
    ELSE {Plus(w.start, j) :
            j \in {h \in Holes(w) :
                     Cardinality({i \in Holes(w) : i <= h}) <= MAX_RESEND}}
=============================================================================
