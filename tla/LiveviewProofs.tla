---------------------------- MODULE LiveviewProofs ----------------------------
(***************************************************************************)
(* Proofs about the IP liveview client: the retransmission window between  *)
(* goggles and client (LossWindow), for every field width, purge distance  *)
(* and resend limit that satisfy RtxAssumption, and the session around it  *)
(* (LiveviewSession).                                                      *)
(***************************************************************************)
EXTENDS MCLiveview, FiniteSetTheorems, WellFoundedInduction, TLAPS
-----------------------------------------------------------------------------
(* The window *)

\* The window record is well typed and satisfies WindowInv.
Good(w) ==
  /\ w \in Window
  /\ w.armed => Plus(w.start, 1) \notin w.have
  /\ \A s \in w.have : seq_ahead(w.end, s) <= STALE
  /\ ~w.armed => w.have = {} /\ w.start = w.end

\* Plus(s, k) stays inside the field, and adding one more step is Plus(s, k+1).
LEMMA PlusFacts ==
  ASSUME NEW s \in Seqs, NEW k \in 0 .. M - 1
  PROVE  /\ Plus(s, k) \in Seqs
         /\ Plus(s, k + 1) \in Seqs
         /\ Plus(Plus(s, k), 1) = Plus(s, k + 1)
  BY RtxAssumption DEF Seqs, Plus

\* A nonempty set of naturals has a least member.
LEMMA LeastNat ==
  ASSUME NEW T \in SUBSET Nat, T # {}
  PROVE  \E x \in T : \A y \in T : x <= y
<1> DEFINE R == OpToRel(<, Nat)
<1>1. IsWellFoundedOn(R, Nat)
  BY NatLessThanWellFounded
<1>2. \A x, y \in T : y < x => <<y, x>> \in R
  BY DEF OpToRel
<1> HIDE DEF R
<1>3. PICK x \in T : \A y \in T : ~(<<y, x>> \in R)
  BY <1>1, WFMin
<1>4. \A y \in T : ~(y < x)
  BY <1>2, <1>3
<1> QED
  BY <1>4

\* The purge keeps two numbers of the field free of held ones; one push fills
\* at most one of them, so the loop that advances start always meets a hole.
LEMMA RunStops ==
  ASSUME NEW w, Good(w), NEW seq \in Seqs
  PROVE  LET held == w.have \cup {seq}
             k    == RunLength(w.start, held)
         IN  /\ k \in 0 .. M - 1
             /\ \A j \in 1 .. k : Plus(w.start, j) \in held
             /\ Plus(w.start, k + 1) \notin held
<1> DEFINE held == w.have \cup {seq}
           start == w.start
           end == w.end
           T == {k \in Nat : k <= M - 1 /\ Plus(start, k + 1) \notin held}
           a == IF end >= STALE + 1 THEN end - (STALE + 1) ELSE end - (STALE + 1) + M
           b == IF end >= STALE + 2 THEN end - (STALE + 2) ELSE end - (STALE + 2) + M
<1>0. start \in Seqs /\ end \in Seqs /\ w.have \subseteq Seqs
  BY DEF Good, Window
<1>1. /\ a \in Seqs /\ b \in Seqs /\ a # b
      /\ seq_ahead(end, a) = STALE + 1
      /\ seq_ahead(end, b) = STALE + 2
  BY <1>0, RtxAssumption DEF Seqs, seq_ahead
<1>2. a \notin w.have /\ b \notin w.have
  <2>1. STALE \in Nat
    BY RtxAssumption
  <2>2. \A s \in w.have : seq_ahead(end, s) <= STALE
    BY DEF Good
  <2> HIDE DEF a, b
  <2> QED
    BY <1>1, <2>1, <2>2
<1>3. PICK x \in Seqs : x \notin held
  <2> HIDE DEF a, b
  <2> QED
    BY <1>1, <1>2
<1>4. \E k \in Nat : k <= M - 1 /\ Plus(start, k + 1) = x
  <2>1. CASE x > start
    <3>1. x - start - 1 \in Nat /\ x - start - 1 <= M - 1
      BY <1>0, <2>1, RtxAssumption DEF Seqs
    <3>2. Plus(start, (x - start - 1) + 1) = x
      BY <1>0, <2>1, RtxAssumption DEF Seqs, Plus
    <3> QED
      BY <3>1, <3>2
  <2>2. CASE x <= start
    <3>1. x - start - 1 + M \in Nat /\ x - start - 1 + M <= M - 1
      BY <1>0, <2>2, RtxAssumption DEF Seqs
    <3>2. Plus(start, (x - start - 1 + M) + 1) = x
      BY <1>0, <2>2, RtxAssumption DEF Seqs, Plus
    <3> QED
      BY <3>1, <3>2
  <2> QED
    BY <1>0, <2>1, <2>2 DEF Seqs
<1>5. T # {} /\ T \in SUBSET Nat
  BY <1>3, <1>4
<1>6. PICK k \in T : \A y \in T : k <= y
  <2> HIDE DEF T
  <2> QED
    BY <1>5, LeastNat
<1>7. k \in 0 .. M - 1 /\ Plus(start, k + 1) \notin held
  BY <1>6, RtxAssumption
<1>8. \A j \in 1 .. k : Plus(start, j) \in held
  <2> SUFFICES ASSUME NEW j \in 1 .. k, Plus(start, j) \notin held
               PROVE  FALSE
    OBVIOUS
  <2>1. j - 1 \in Nat /\ j - 1 <= M - 1 /\ (j - 1) + 1 = j /\ j - 1 < k
    BY <1>7, RtxAssumption
  <2>2. j - 1 \in T
    BY <2>1
  <2> QED
    BY <2>1, <2>2, <1>6, <1>7
<1>9. \E i \in 0 .. M - 1 : /\ \A j \in 1 .. i : Plus(start, j) \in held
                            /\ Plus(start, i + 1) \notin held
  BY <1>7, <1>8
<1> HIDE DEF held
<1>10. /\ RunLength(start, held) \in 0 .. M - 1
       /\ \A j \in 1 .. RunLength(start, held) : Plus(start, j) \in held
       /\ Plus(start, RunLength(start, held) + 1) \notin held
  BY <1>9 DEF RunLength
<1> QED
  BY <1>10 DEF held

\* push() keeps the window good, whatever number arrives.
LEMMA PushGood ==
  ASSUME NEW w, Good(w), NEW seq \in Seqs
  PROVE  Good(push(w, seq))
<1>0. w \in Window
  BY DEF Good
<1>1. CASE ~w.armed
  <2>1. push(w, seq) = [w EXCEPT !.start = seq, !.end = seq, !.armed = TRUE]
    BY <1>1 DEF push, Arm
  <2>2. w.have = {}
    BY <1>1 DEF Good
  <2> QED
    BY <1>0, <2>1, <2>2 DEF Good, Window
<1>2. CASE w.armed
  <2> DEFINE held == w.have \cup {seq}
             end == IF seq_ahead(seq, w.end) \in 1 .. (M \div 2) - 1
                      THEN seq ELSE w.end
             k == RunLength(w.start, held)
             rest == held \ {Plus(w.start, j) : j \in 1 .. k}
             kept == {s \in rest : seq_ahead(end, s) <= STALE}
  <2>1. push(w, seq) = [w EXCEPT !.start = Plus(w.start, k), !.end = end,
                                 !.have = kept]
    BY <1>2 DEF push, PushArmed, NewEnd, Taken, Recent
  <2>2. k \in 0 .. M - 1 /\ Plus(w.start, k + 1) \notin held
    BY RunStops
  <2>3. w.start \in Seqs /\ end \in Seqs /\ held \subseteq Seqs
    BY <1>0 DEF Window
  <2>4. /\ kept \subseteq held
        /\ \A s \in kept : seq_ahead(end, s) <= STALE
    OBVIOUS
  <2> HIDE DEF k, held, end, kept
  <2>5. /\ Plus(w.start, k) \in Seqs
        /\ Plus(Plus(w.start, k), 1) \notin kept
    BY <2>2, <2>3, <2>4, PlusFacts
  <2>6. push(w, seq) \in Window
    BY <1>0, <2>1, <2>3, <2>4, <2>5 DEF Window
  <2>7. /\ push(w, seq).start = Plus(w.start, k)
        /\ push(w, seq).end = end
        /\ push(w, seq).have = kept
        /\ push(w, seq).armed
    BY <1>0, <1>2, <2>1 DEF Window
  <2> QED
    BY <2>4, <2>5, <2>6, <2>7 DEF Good
<1> QED
  BY <1>0, <1>1, <1>2 DEF Window

\* Sequence numbers on the wire stay inside the field.
LEMMA RawType ==
  ASSUME NEW n \in Nat
  PROVE  Raw(n) \in Seqs
<1>1. First + n \in Nat /\ M \in Nat \ {0}
  BY LossAssumption, RtxAssumption DEF Seqs
<1> QED
  BY <1>1 DEF Raw, Seqs

\* A freshly reset window is good.
LEMMA NewGood == Good(NewWindow(Seed))
  BY LossAssumption DEF Good, NewWindow, Window

LossInv == LossTypeOK /\ Good(win)

\* Every behaviour keeps the type invariant and a good window: the inductive
\* invariant behind the theorems below.
THEOREM LossInvariance == Spec => []LossInv
<1>1. Init => LossInv
  <2>1. Init => far \in BOOLEAN
    BY Zenon DEF Init
  <2> QED
    BY <2>1, NewGood, LossAssumption DEF Init, LossInv, LossTypeOK, Good
<1>2. LossInv /\ [Next]_vars => LossInv'
  <2> SUFFICES ASSUME LossInv, [Next]_vars
               PROVE  LossInv'
    OBVIOUS
  <2> USE DEF LossInv, LossTypeOK
  <2>1. CASE Send
    BY <2>1, LossAssumption DEF Send
  <2>2. ASSUME NEW n \in 1 .. MaxSent, Deliver(n)
        PROVE  LossInv'
    <3>1. Raw(n) \in Seqs
      BY RawType, LossAssumption
    <3>2. Good(win')
      BY <2>2, <3>1, PushGood DEF Deliver
    <3>3. win' \in Window
      BY <3>2 DEF Good
    <3>4. far' \in BOOLEAN
      BY <2>2, Zenon DEF Deliver
    <3> QED
      BY <2>2, <3>2, <3>3, <3>4, LossAssumption DEF Deliver
  <2>3. CASE Reset
    <3>1. Good(win')
      BY <2>3, NewGood DEF Reset
    <3>2. win' \in Window
      BY <3>1 DEF Good
    <3>3. far' \in BOOLEAN
      BY <2>3, Zenon DEF Reset
    <3> QED
      BY <2>3, <3>1, <3>2, <3>3, LossAssumption DEF Reset
  <2>4. CASE UNCHANGED vars
    BY <2>4 DEF vars
  <2> QED
    BY <2>1, <2>2, <2>3, <2>4 DEF Next
<1> QED
  BY <1>1, <1>2, PTL DEF Spec

\* The window record has its type in every reachable state.
THEOREM LossTypeCorrect == Spec => []LossTypeOK
<1>1. LossInv => LossTypeOK
  BY DEF LossInv
<1> QED
  BY <1>1, LossInvariance, PTL

\* The window is well-typed, the slot after start is a hole, held numbers are recent,
\* and a disarmed window is empty: for every loss, duplication and reordering of
\* packets.
THEOREM LossWindowSafe == Spec => []WindowInv
<1>1. LossInv => WindowInv
  BY DEF LossInv, Good, WindowInv, HoleAtStart, HeldAreRecent, DisarmedIsEmpty
<1> QED
  BY <1>1, LossInvariance, PTL

\* An open good window asks for the number after start.
LEMMA MissingLeads ==
  ASSUME NEW w, Good(w), w.armed, w.start # w.end
  PROVE  Plus(w.start, 1) \in missing(w)
<1>1. w.start \in Seqs /\ w.end \in Seqs /\ Plus(w.start, 1) \notin w.have
  BY DEF Good, Window
<1>2. seq_ahead(w.end, w.start) \in Nat /\ seq_ahead(w.end, w.start) >= 1
  BY <1>1, RtxAssumption DEF Seqs, seq_ahead
<1>3. 1 \in Holes(w)
  BY <1>1, <1>2, RtxAssumption DEF Holes
<1>4. \A i \in Holes(w) : i \in Int /\ i >= 1
  BY <1>2, RtxAssumption DEF Holes
<1>5. {i \in Holes(w) : i <= 1} = {1}
  BY <1>3, <1>4
<1>6. Cardinality({i \in Holes(w) : i <= 1}) <= MAX_RESEND
  BY <1>5, FS_Singleton, RtxAssumption
<1> QED
  BY <1>3, <1>6 DEF missing

\* Every resend list the client builds leads with its first hole, so the
\* goggles never discard one: proved for all parameters and all arrivals.
THEOREM ResendAccepted == Spec => []ResendLeadsWithFirstHole
<1>1. LossInv => ResendLeadsWithFirstHole
  BY MissingLeads DEF LossInv, ResendLeadsWithFirstHole
<1> QED
  BY <1>1, LossInvariance, PTL
\* A run is at most STALE + 2 numbers long: those of the held set lie within STALE
\* behind the end, and only one number is new.
LEMMA RunIsShort ==
  ASSUME NEW w, Good(w), NEW seq \in Seqs
  PROVE  RunLength(w.start, w.have \cup {seq}) <= STALE + 2
<1> DEFINE k == RunLength(w.start, w.have \cup {seq})
           r(j) == Plus(w.start, j)
<1>0. /\ w.start \in Seqs /\ w.end \in Seqs /\ w.have \subseteq Seqs
      /\ M \in Nat /\ STALE \in Nat /\ STALE + 4 < M
  BY RtxAssumption DEF Good, Window
<1>1. /\ k \in 0 .. M - 1
      /\ \A j \in 1 .. k : r(j) \in w.have \cup {seq}
  BY RunStops
<1> HIDE DEF k
<1>2. SUFFICES ASSUME k >= STALE + 3 PROVE FALSE
  BY <1>0, <1>1 DEF k
<1>3. \A i, j \in 1 .. STALE + 3 : r(i) = r(j) => i = j
  BY <1>0 DEF Plus, Seqs
<1>4. \A j \in 1 .. STALE + 3 : r(j) = seq \/ seq_ahead(w.end, r(j)) <= STALE
  BY <1>0, <1>1, <1>2 DEF Good
<1>5. PICK i \in 1 .. 2 : r(i) # seq /\ (i = 2 => r(1) = seq)
  <2>1. r(1) # seq \/ r(2) # seq
    BY <1>0, <1>3
  <2> QED
    BY <2>1
<1> DEFINE d == seq_ahead(w.end, r(i))
<1>6. r(i) \in Seqs
  BY <1>0 DEF Plus, Seqs
<1>7. d \in 0 .. STALE
  BY <1>0, <1>4, <1>5, <1>6 DEF Seqs, seq_ahead
<1>8. /\ seq_ahead(w.end, r(i + d + 1)) = M - 1
      /\ seq_ahead(w.end, r(i + d + 2)) = M - 2
  BY <1>0, <1>6, <1>7 DEF Seqs, seq_ahead, Plus
<1> HIDE DEF d, r
<1>9. i + d + 1 \in 1 .. STALE + 3 /\ (i = 1 => i + d + 2 \in 1 .. STALE + 3)
  BY <1>0, <1>7
<1>10. r(i + d + 1) = seq /\ (i = 1 => r(i + d + 2) = seq)
  BY <1>0, <1>4, <1>8, <1>9
<1>11. i = 1 => i + d + 1 = i + d + 2
  BY <1>3, <1>9, <1>10
<1>12. i = 2 => i + d + 1 = 1
  BY <1>0, <1>3, <1>5, <1>9, <1>10
<1> QED
  BY <1>5, <1>7, <1>11, <1>12

\* A push moves the start of an armed window ahead by less than half of the field.
LEMMA PushAdvances ==
  ASSUME NEW w, Good(w), w.armed, NEW seq \in Seqs
  PROVE  seq_ahead(push(w, seq).start, w.start) < M \div 2
<1> DEFINE k == RunLength(w.start, w.have \cup {seq})
<1>1. w.start \in Seqs /\ k \in 0 .. M - 1 /\ k <= STALE + 2
  BY RunStops, RunIsShort DEF Good, Window
<1>2. push(w, seq).start = Plus(w.start, k)
  BY DEF push, PushArmed, Good, Window
<1> HIDE DEF k
<1> QED
  BY <1>1, <1>2, RtxAssumption DEF Seqs, Plus, seq_ahead

\* The edge an ACK confirms never moves back while the window is armed, for every field,
\* purge distance and network.
THEOREM AcksAreNotWithdrawn == Spec => StartNeverRetreats
<1> DEFINE Ahead == (win.armed /\ win'.armed) =>
                      seq_ahead(win'.start, win.start) < M \div 2
<1>1. LossInv /\ [Next]_vars => Ahead
  <2> SUFFICES ASSUME LossInv, [Next]_vars, win.armed, win'.armed
               PROVE  Ahead
    OBVIOUS
  <2>1. CASE UNCHANGED win
    BY <2>1, RtxAssumption DEF LossInv, Good, Window, Seqs, seq_ahead
  <2>2. ASSUME NEW n \in 1 .. MaxSent, Deliver(n) PROVE Ahead
    <3>1. Raw(n) \in Seqs
      BY RawType, LossAssumption
    <3> QED
      BY <2>2, <3>1, PushAdvances DEF Deliver, LossInv
  <2>3. ~Reset
    BY DEF Reset, NewWindow
  <2> QED
    BY <2>1, <2>2, <2>3 DEF Next, Send, vars
<1> QED
  BY <1>1, LossInvariance, PTL DEF Spec, StartNeverRetreats
-----------------------------------------------------------------------------
(* The window against the packets that arrived *)

\* A number is its remainder and a multiple of m, and only one way.
LEMMA Remainder ==
  ASSUME NEW m \in Nat \ {0}, NEW x \in Nat, NEW q \in Int, NEW r \in 0 .. m - 1,
         x = m * q + r
  PROVE  x % m = r
<1>1. x = m * (x \div m) + (x % m) /\ x % m \in 0 .. m - 1
  OBVIOUS
<1> DEFINE k == (x \div m) - q
<1>2. k \in Int /\ m * k = r - (x % m)
  BY <1>1
<1> HIDE DEF k
<1>3. m * k < m /\ m * k > -m
  BY <1>1, <1>2
<1>4. k = 0
  BY <1>2, <1>3
<1> QED
  BY <1>1, <1>2, <1>4

\* Steps on the field are steps on the packets.
LEMMA RawPlus ==
  ASSUME NEW x \in Nat, NEW j \in 0 .. M
  PROVE  Plus(Raw(x), j) = Raw(x + j)
<1> DEFINE y == First + x
           q == y \div M
           r == y % M
<1>1. M \in Nat \ {0} /\ First \in Nat
  BY RtxAssumption, LossAssumption DEF Seqs
<1>2. y \in Nat /\ y = M * q + r /\ r \in 0 .. M - 1 /\ q \in Int
  BY <1>1
<1>3. Raw(x) = r /\ Raw(x + j) = (y + j) % M
  <2>1. First + (x + j) = y + j
    BY <1>1
  <2> QED
    BY <2>1 DEF Raw
<1> HIDE DEF y, q, r
<1>4. y + j \in Nat /\ j \in Nat
  BY <1>1, <1>2
<1>5. CASE r + j < M
  <2>1. y + j = M * q + (r + j) /\ r + j \in 0 .. M - 1
    BY <1>1, <1>2, <1>4, <1>5
  <2>2. (y + j) % M = r + j
    BY <1>1, <1>2, <1>4, <2>1, Remainder
  <2> QED
    BY <1>3, <1>5, <2>2 DEF Plus
<1>6. CASE r + j >= M /\ r + j - M < M
  <2>1. /\ y + j = M * (q + 1) + (r + j - M) /\ r + j - M \in 0 .. M - 1
        /\ q + 1 \in Int
    BY <1>1, <1>2, <1>4, <1>6
  <2>2. (y + j) % M = r + j - M
    BY <1>1, <1>4, <2>1, Remainder
  <2> QED
    BY <1>1, <1>2, <1>3, <1>4, <1>6, <2>2 DEF Plus
<1>7. r + j - M < M
  BY <1>1, <1>2
<1> QED
  BY <1>1, <1>2, <1>4, <1>5, <1>6, <1>7

\* Packets less than a field apart have different numbers, and the field tells how far
\* apart they are.
LEMMA RawApart ==
  ASSUME NEW a \in Nat, NEW b \in Nat, b <= a, a - b < M
  PROVE  /\ seq_ahead(Raw(a), Raw(b)) = a - b
         /\ b < a => seq_ahead(Raw(b), Raw(a)) = M - (a - b)
         /\ Raw(a) = Raw(b) => a = b
<1>1. M \in Nat /\ Raw(a) \in Seqs /\ Raw(b) \in Seqs
  BY RawType, RtxAssumption
<1>2. a - b \in 0 .. M /\ b + (a - b) = a
  BY <1>1
<1>3. Raw(a) = Plus(Raw(b), a - b)
  BY <1>2, RawPlus
<1> QED
  BY <1>1, <1>3 DEF Seqs, Plus, seq_ahead

\* The unbroken run ends with packet t, the newest packet is e, and the window says so:
\* it holds all packets after t, and of older ones only some that are still near e.
Edges(t, e) ==
  /\ t \in base .. sent /\ e \in t .. sent /\ e <= t + STALE + 2
  /\ e \in got /\ \A g \in got : g <= e
  /\ base + 1 .. t \subseteq got /\ t + 1 \notin got
  /\ win.start = Raw(t) /\ win.end = Raw(e)
  /\ \A g \in got : g > t => Raw(g) \in win.have
  /\ \A h \in win.have : \E g \in got : h = Raw(g) /\ e - g <= STALE

ExactInv ==
  /\ got \subseteq 1 .. sent
  /\ ~win.armed => got = {} /\ ~far
  /\ win.armed /\ ~far => \E t, e \in Nat : Edges(t, e)

LEMMA TrueEdges ==
  ASSUME LossTypeOK, NEW t \in Nat, NEW e \in Nat, Edges(t, e)
  PROVE  TrueStart = t /\ TrueEnd = e
<1>1. base \in Nat /\ sent \in Nat
  BY LossAssumption DEF LossTypeOK
<1>2. \A u \in base .. sent : (base + 1 .. u \subseteq got /\ u + 1 \notin got) => u = t
  <2> SUFFICES ASSUME NEW u \in base .. sent, base + 1 .. u \subseteq got, u + 1 \notin got
               PROVE  u = t
    OBVIOUS
  <2>1. CASE u < t
    <3>1. u + 1 \in base + 1 .. t
      BY <1>1, <2>1
    <3> QED
      BY <3>1 DEF Edges
  <2>2. CASE t < u
    <3>1. t + 1 \in base + 1 .. u
      BY <1>1, <2>2 DEF Edges
    <3> QED
      BY <3>1 DEF Edges
  <2> QED
    BY <1>1, <2>1, <2>2
<1>3. TrueStart = t
  BY <1>2 DEF Edges, TrueStart
<1>4. got \subseteq Nat
  BY LossAssumption DEF LossTypeOK
<1>5. \A u \in got : (\A v \in got : v <= u) => u = e
  <2> TAKE u \in got
  <2>1. e \in got /\ u <= e
    BY DEF Edges
  <2> QED
    BY <1>4, <2>1
<1>6. TrueEnd = e
  BY <1>5 DEF Edges, TrueEnd
<1> QED
  BY <1>3, <1>6

\* Which numbers after t are held: those of the packets that arrived.
LEMMA HeldAfter ==
  ASSUME LossTypeOK, NEW t \in Nat, NEW e \in Nat, Edges(t, e),
         NEW x \in t + 1 .. t + STALE + 3
  PROVE  Raw(x) \in win.have <=> x \in got
<1>1. M \in Nat /\ STALE \in Nat /\ 2 * (STALE + 2) < M /\ x \in Nat /\ x > t
  BY RtxAssumption
<1>2. ASSUME Raw(x) \in win.have PROVE x \in got
  <2>1. PICK g \in got : Raw(x) = Raw(g) /\ e - g <= STALE
    BY <1>2 DEF Edges
  <2>2. g \in Nat /\ g <= e /\ t <= e /\ e <= t + STALE + 2
    BY LossAssumption DEF LossTypeOK, Edges
  <2>3. x - g < M /\ g - x < M
    BY <1>1, <2>1, <2>2
  <2>4. x = g
    <3>1. CASE x <= g
      BY <1>1, <2>1, <2>2, <2>3, <3>1, RawApart
    <3>2. CASE g <= x
      BY <1>1, <2>1, <2>2, <2>3, <3>2, RawApart
    <3> QED
      BY <1>1, <2>2, <3>1, <3>2
  <2> QED
    BY <2>4
<1> QED
  BY <1>1, <1>2 DEF Edges

\* A packet that comes at most STALE + 2 past the run moves the run to the next hole and
\* the end to the newest packet, and the purge takes nothing that came after the run.
LEMMA EdgesMove ==
  ASSUME LossInv, ExactInv, NEW t \in Nat, NEW e \in Nat, Edges(t, e), win.armed,
         NEW n \in 1 .. sent, n > sent - Lifetime, n <= t + STALE + 2,
         win' = push(win, Raw(n)), got' = got \cup {n}, base' = base, sent' = sent
  PROVE  \E u, f \in Nat : Edges(u, f)'
<1> DEFINE held == win.have \cup {Raw(n)}
           k == RunLength(win.start, held)
           f == IF n > e THEN n ELSE e
           u == t + k
           kept == Recent(held \ Taken(win.start, k), Raw(f))
<1>0. /\ M \in Nat /\ STALE \in Nat /\ M \div 2 \in Nat /\ STALE + 2 < M \div 2
      /\ 2 * (M \div 2) <= M /\ Lifetime < M \div 2 /\ Lifetime \in Nat
      /\ sent \in Nat /\ base \in Nat /\ n \in Nat /\ n <= sent
      /\ win \in Window /\ Good(win) /\ got \subseteq Nat
  BY RtxAssumption, LossAssumption DEF LossInv, LossTypeOK
<1>1. /\ base <= t /\ t <= e /\ e <= sent /\ e <= t + STALE + 2
      /\ e \in got /\ (\A g \in got : g <= e)
      /\ base + 1 .. t \subseteq got /\ t + 1 \notin got
      /\ win.start = Raw(t) /\ win.end = Raw(e)
  BY <1>0 DEF Edges
<1>2. Raw(n) \in Seqs
  BY <1>0, RawType
<1>3. NewEnd(win, Raw(n)) = Raw(f)
  <2>1. CASE n > e
    <3>1. seq_ahead(Raw(n), Raw(e)) = n - e
      BY <1>0, <1>1, <2>1, RawApart
    <3> QED
      BY <1>0, <1>1, <2>1, <3>1 DEF NewEnd
  <2>2. CASE n < e
    <3>1. seq_ahead(Raw(n), Raw(e)) = M - (e - n)
      BY <1>0, <1>1, <2>2, RawApart
    <3>2. M - (e - n) > (M \div 2) - 1
      BY <1>0, <1>1, <2>2
    <3> QED
      BY <1>0, <1>1, <2>2, <3>1, <3>2 DEF NewEnd
  <2>3. CASE n = e
    BY <1>0, <1>1, <2>3, RawApart DEF NewEnd
  <2> QED
    BY <1>0, <2>1, <2>2, <2>3
<1>4. push(win, Raw(n)) = [win EXCEPT !.start = Plus(win.start, k), !.end = Raw(f),
                                      !.have = kept]
  BY <1>3 DEF push, PushArmed
<1>5. /\ k \in 0 .. M - 1
      /\ \A j \in 1 .. k : Plus(win.start, j) \in held
      /\ Plus(win.start, k + 1) \notin held
  BY <1>0, <1>2, RunStops
<1>6. /\ f \in Nat /\ f <= sent /\ t <= f /\ f <= t + STALE + 2 /\ n <= f /\ e <= f
      /\ f \in got' /\ (\A g \in got' : g <= f) /\ f - n < M
  BY <1>0, <1>1
<1> HIDE DEF k, f, held, kept
<1>7. \A x \in t + 1 .. f + 1 : Raw(x) \in held <=> x \in got'
  <2> TAKE x \in t + 1 .. f + 1
  <2>1. x \in t + 1 .. t + STALE + 3 /\ x \in Nat
    BY <1>0, <1>6
  <2>2. Raw(x) \in win.have <=> x \in got
    BY <2>1, HeldAfter DEF LossInv
  <2>3. Raw(x) = Raw(n) => x = n
    <3>1. x - n < M /\ n - x < M
      BY <1>0, <1>1, <1>6, <2>1 DEF f
    <3>2. CASE x <= n
      BY <1>0, <2>1, <3>1, <3>2, RawApart
    <3>3. CASE n <= x
      BY <1>0, <2>1, <3>1, <3>3, RawApart
    <3> QED
      BY <1>0, <2>1, <3>2, <3>3
  <2> QED
    BY <2>2, <2>3 DEF held
<1>8. \A j \in 0 .. M : Plus(win.start, j) = Raw(t + j)
  BY <1>1, RawPlus
<1>9. k <= f - t
  <2> SUFFICES ASSUME k >= f + 1 - t PROVE FALSE
    BY <1>5, <1>6
  <2>1. f + 1 - t \in 1 .. k /\ f + 1 - t \in 0 .. M /\ t + (f + 1 - t) = f + 1
    BY <1>0, <1>5, <1>6
  <2>2. Raw(f + 1) \in held
    BY <1>5, <1>8, <2>1
  <2>3. f + 1 \in got'
    BY <1>6, <1>7, <2>2
  <2> QED
    BY <1>6, <2>3
<1>10. u \in Nat /\ t <= u /\ u <= f /\ k + 1 \in 0 .. M /\ t + (k + 1) = u + 1
  BY <1>0, <1>5, <1>6, <1>9
<1>11. t + 1 .. u \subseteq got' /\ u + 1 \notin got'
  <2>1. ASSUME NEW x \in t + 1 .. u PROVE x \in got'
    <3>1. x - t \in 1 .. k /\ x - t \in 0 .. M /\ t + (x - t) = x /\ x \in t + 1 .. f + 1
      BY <1>0, <1>5, <1>6, <1>9, <1>10
    <3>2. Raw(x) \in held
      BY <1>5, <1>8, <3>1
    <3> QED
      BY <1>7, <3>1, <3>2
  <2>2. u + 1 \in t + 1 .. f + 1
    BY <1>5, <1>6, <1>9
  <2>3. Raw(u + 1) \notin held
    BY <1>5, <1>8, <1>10
  <2> QED
    BY <1>7, <2>1, <2>2, <2>3
<1>12. Plus(win.start, k) = Raw(u)
  BY <1>0, <1>5, <1>8
<1>13. /\ win'.start = Raw(u) /\ win'.end = Raw(f) /\ win'.have = kept
  BY <1>0, <1>4, <1>12 DEF Window
<1>14. \A g \in got' : g > u => Raw(g) \in kept
  <2> SUFFICES ASSUME NEW g \in got', g > u PROVE Raw(g) \in kept
    OBVIOUS
  <2>1. g \in Nat /\ g <= f /\ g # u + 1
    BY <1>0, <1>6, <1>11
  <2>2. g \in t + 1 .. f + 1 /\ f - g <= STALE /\ f - g < M
    BY <1>0, <1>6, <1>10, <2>1
  <2>3. Raw(g) \in held
    BY <1>7, <2>2
  <2>4. Raw(g) \notin Taken(win.start, k)
    <3> SUFFICES ASSUME NEW j \in 1 .. k, Raw(g) = Plus(win.start, j) PROVE FALSE
      BY DEF Taken
    <3>1. /\ j \in 0 .. M /\ t + j \in Nat /\ t + j <= u /\ g - (t + j) < M
          /\ t + j < g
      BY <1>0, <1>5, <1>6, <1>10, <2>1
    <3>2. Raw(g) = Raw(t + j)
      BY <1>8, <3>1
    <3> QED
      BY <2>1, <3>1, <3>2, RawApart
  <2>5. seq_ahead(Raw(f), Raw(g)) <= STALE
    BY <1>6, <2>1, <2>2, RawApart
  <2> QED
    BY <2>3, <2>4, <2>5 DEF kept, Recent
<1>15. \A h \in kept : \E g \in got' : h = Raw(g) /\ f - g <= STALE
  <2> SUFFICES ASSUME NEW h \in kept PROVE \E g \in got' : h = Raw(g) /\ f - g <= STALE
    OBVIOUS
  <2>1. h \in held /\ seq_ahead(Raw(f), h) <= STALE
    BY DEF kept, Recent
  <2>2. CASE h = Raw(n)
    <3>1. f - n <= STALE
      BY <1>0, <1>6, <2>1, <2>2, RawApart
    <3> QED
      BY <2>2, <3>1
  <2>3. CASE h \in win.have
    <3>1. PICK g \in got : h = Raw(g) /\ e - g <= STALE
      BY <2>3 DEF Edges
    <3>2. g \in Nat /\ g <= f /\ f - g < M
      BY <1>0, <1>1, <1>6, <3>1
    <3>3. f - g <= STALE
      BY <1>6, <2>1, <3>1, <3>2, RawApart
    <3> QED
      BY <3>1, <3>3
  <2> QED
    BY <2>1, <2>2, <2>3 DEF held
<1>16. base + 1 .. u \subseteq got'
  <2>1. \A x \in base + 1 .. u : x \in base + 1 .. t \/ x \in t + 1 .. u
    BY <1>0, <1>1, <1>10
  <2> QED
    BY <1>1, <1>11, <2>1
<1>17. /\ u \in base .. sent /\ f \in u .. sent /\ f <= u + STALE + 2
  BY <1>0, <1>1, <1>6, <1>10
<1>18. \E v, w \in Nat :
         /\ v \in base' .. sent' /\ w \in v .. sent' /\ w <= v + STALE + 2
         /\ w \in got' /\ \A g \in got' : g <= w
         /\ base' + 1 .. v \subseteq got' /\ v + 1 \notin got'
         /\ win'.start = Raw(v) /\ win'.end = Raw(w)
         /\ \A g \in got' : g > v => Raw(g) \in win'.have
         /\ \A h \in win'.have : \E g \in got' : h = Raw(g) /\ w - g <= STALE
  <2> HIDE DEF u
  <2> QED
    BY <1>6, <1>10, <1>11, <1>13, <1>14, <1>15, <1>16, <1>17
<1> QED
  BY <1>18 DEF Edges

LEMMA ExactStep ==
  ASSUME LossInv, LossInv', ExactInv, [Next]_vars
  PROVE  ExactInv'
<1>0. /\ sent \in Nat /\ base \in Nat /\ MaxSent \in Nat /\ got \subseteq 1 .. sent
      /\ STALE \in Nat /\ Good(win) /\ far \in BOOLEAN
  BY LossAssumption, RtxAssumption DEF LossInv, LossTypeOK, ExactInv
<1>1. CASE UNCHANGED vars
  BY <1>1 DEF vars, ExactInv, Edges
<1>2. CASE Send
  <2>1. /\ sent' = sent + 1 /\ UNCHANGED <<win, got, base, far>>
    BY <1>2 DEF Send
  <2>2. \A t, e \in Nat : Edges(t, e) => Edges(t, e)'
    BY <1>0, <2>1 DEF Edges
  <2> QED
    BY <1>0, <2>1, <2>2 DEF ExactInv
<1>3. ASSUME NEW n \in 1 .. MaxSent, Deliver(n) PROVE ExactInv'
  <2>1. /\ n \in 1 .. sent /\ n > sent - Lifetime /\ sent' = sent
        /\ win' = push(win, Raw(n)) /\ got' = got \cup {n}
        /\ base' = (IF win.armed THEN base ELSE n)
        /\ far' = (far \/ (win.armed /\ n - TrueStart > STALE + 2))
    BY <1>3 DEF Deliver
  <2>2. got' \subseteq 1 .. sent'
    BY <1>0, <2>1
  <2>3. CASE win.armed
    <3>1. win'.armed
      <4>1. push(win, Raw(n)) = PushArmed(win, Raw(n))
        BY <2>3 DEF push
      <4> QED
        BY <1>0, <2>1, <2>3, <4>1 DEF PushArmed, Good, Window
    <3>2. ASSUME ~far' PROVE \E u, f \in Nat : Edges(u, f)'
      <4>1. ~far /\ ~(n - TrueStart > STALE + 2)
        BY <2>1, <2>3, <3>2
      <4>2. PICK t, e \in Nat : Edges(t, e)
        BY <2>3, <4>1 DEF ExactInv
      <4>3. n <= t + STALE + 2
        <5>1. TrueStart = t
          BY <4>2, TrueEdges DEF LossInv
        <5> QED
          BY <1>0, <4>1, <5>1
      <4> QED
        BY <2>1, <2>3, <4>2, <4>3, EdgesMove
    <3> QED
      BY <2>2, <3>1, <3>2 DEF ExactInv
  <2>4. CASE ~win.armed
    <3>0. got = {} /\ ~far'
      BY <2>1, <2>4, Zenon DEF ExactInv
    <3>1. /\ got' = {n} /\ base' = n /\ n \in Nat
      BY <1>0, <2>1, <2>4, <3>0
    <3>2. /\ win'.start = Raw(n) /\ win'.end = Raw(n) /\ win'.have = {} /\ win'.armed
      BY <1>0, <2>1, <2>4 DEF push, Arm, Good, Window
    <3>3. Edges(n, n)'
      BY <1>0, <2>1, <3>1, <3>2 DEF Edges
    <3> QED
      BY <2>2, <3>1, <3>2, <3>3 DEF ExactInv
  <2> QED
    BY <2>3, <2>4
<1>4. CASE Reset
  BY <1>0, <1>4 DEF Reset, NewWindow, ExactInv
<1> QED
  BY <1>1, <1>2, <1>3, <1>4 DEF Next

\* The scan of missing() finds the packets that are lost: as many of them as precede one
\* of them there.
LEMMA LostAreHoles ==
  ASSUME LossInv, NEW t \in Nat, NEW e \in Nat, Edges(t, e), STALE + 2 <= MAX_STEPS
  PROVE  LET lost == (t + 1 .. e) \ got
         IN  /\ Holes(win) = {j \in 1 .. e - t : t + j \in lost}
             /\ \A j \in Holes(win) :
                  Cardinality({i \in Holes(win) : i <= j}) =
                    Cardinality({l \in lost : l <= t + j})
<1> DEFINE lost == (t + 1 .. e) \ got
           H == {j \in 1 .. e - t : t + j \in lost}
<1>0. /\ M \in Nat /\ STALE \in Nat /\ MAX_STEPS \in Nat /\ 2 * (STALE + 2) < M
      /\ t <= e /\ e <= t + STALE + 2 /\ e - t \in Nat
      /\ win.start = Raw(t) /\ win.end = Raw(e)
  BY RtxAssumption DEF Edges
<1>1. seq_ahead(win.end, win.start) = e - t
  BY <1>0, RawApart
<1>2. (IF e - t < MAX_STEPS THEN e - t ELSE MAX_STEPS) = e - t
  BY <1>0
<1>3. Holes(win) = {j \in 1 .. e - t : Plus(win.start, j) \notin win.have}
  BY <1>1, <1>2 DEF Holes
<1>4. ASSUME NEW j \in 1 .. e - t
      PROVE  Plus(win.start, j) \notin win.have <=> t + j \in lost
  <2>1. j \in 0 .. M /\ t + j \in t + 1 .. t + STALE + 3 /\ t + j \in t + 1 .. e
    BY <1>0
  <2>2. Plus(win.start, j) = Raw(t + j)
    BY <1>0, <2>1, RawPlus
  <2>3. Raw(t + j) \in win.have <=> t + j \in got
    BY <2>1, HeldAfter DEF LossInv
  <2> QED
    BY <2>1, <2>2, <2>3
<1>5. Holes(win) = H
  BY <1>3, <1>4
<1>6. ASSUME NEW j \in H
      PROVE  Cardinality({i \in H : i <= j}) = Cardinality({l \in lost : l <= t + j})
  <2> DEFINE A == {i \in H : i <= j}
             B == {l \in lost : l <= t + j}
             shift == [i \in A |-> t + i]
  <2>1. IsFiniteSet(A)
    <3>1. IsFiniteSet(1 .. e - t) /\ A \subseteq 1 .. e - t
      BY <1>0, FS_Interval
    <3> QED
      BY <3>1, FS_Subset
  <2>2. shift \in [A -> B]
    BY <1>0
  <2>3. \A x, y \in A : shift[x] = shift[y] => x = y
    BY <1>0
  <2>4. \A l \in B : \E i \in A : shift[i] = l
    <3> TAKE l \in B
    <3>1. l - t \in A /\ t + (l - t) = l
      BY <1>0
    <3> QED
      BY <3>1
  <2>5. shift \in Bijection(A, B)
    BY <2>2, <2>3, <2>4
       DEF Bijection, Injection, Surjection, IsInjective
  <2>6. ExistsBijection(A, B)
    BY <2>5 DEF ExistsBijection
  <2> QED
    BY <2>1, <2>6, FS_Bijection
<1> QED
  BY <1>5, <1>6

LEMMA ExactMissing ==
  ASSUME LossInv, NEW t \in Nat, NEW e \in Nat, Edges(t, e), win.armed,
         STALE + 2 <= MAX_STEPS
  PROVE  LET lost == (t + 1 .. e) \ got
         IN  missing(win) =
               {Raw(n) : n \in {l \in lost :
                                  Cardinality({i \in lost : i <= l}) <= MAX_RESEND}}
<1> DEFINE lost == (t + 1 .. e) \ got
           Early(l) == Cardinality({i \in lost : i <= l}) <= MAX_RESEND
           H == Holes(win)
<1>0. /\ M \in Nat /\ STALE \in Nat /\ 2 * (STALE + 2) < M
      /\ t <= e /\ e <= t + STALE + 2
      /\ win.start = Raw(t) /\ win.end = Raw(e)
  BY RtxAssumption DEF Edges
<1>1. H = {j \in 1 .. e - t : t + j \in lost}
  BY LostAreHoles
<1>2. \A j \in H : Cardinality({i \in H : i <= j}) <= MAX_RESEND <=> Early(t + j)
  BY LostAreHoles
<1>3. \A j \in 1 .. e - t : Plus(win.start, j) = Raw(t + j)
  BY <1>0, RawPlus
<1>4. \A l \in lost : l - t \in 1 .. e - t /\ t + (l - t) = l
  BY <1>0
<1> HIDE DEF lost, H, Early
<1>5. CASE win.start = win.end
  <2>0. e - t < M /\ Raw(e) = Raw(t)
    BY <1>0, <1>5
  <2>1. t = e
    BY <1>0, <2>0, RawApart
  <2>2. lost = {}
    BY <1>0, <2>1 DEF lost
  <2> QED
    BY <1>5, <2>2 DEF missing, lost
<1>6. CASE win.start # win.end
  <2>1. missing(win) = {Plus(win.start, j) :
                          j \in {h \in H : Cardinality({i \in H : i <= h}) <= MAX_RESEND}}
    BY <1>6 DEF missing, H
  <2>2. missing(win) = {Plus(win.start, j) : j \in {h \in H : Early(t + h)}}
    BY <1>2, <2>1
  <2>3. missing(win) = {Raw(l) : l \in {m \in lost : Early(m)}}
    BY <1>1, <1>3, <1>4, <2>2
  <2> QED
    BY <2>3 DEF Early, lost
<1> QED
  BY <1>5, <1>6

\* As long as no packet comes further than STALE + 2 past the oldest hole, and missing()
\* looks at least that far, the window is exact: for every field, however often the
\* numbers wrap, and for every loss, duplication and reordering.
THEOREM WindowKnowsAll ==
  ASSUME STALE + 2 <= MAX_STEPS
  PROVE  Spec => []WindowIsExact
<1>1. Init => ExactInv
  BY DEF Init, NewWindow, ExactInv
<1>2. LossInv /\ LossInv' /\ ExactInv /\ [Next]_vars => ExactInv'
  BY ExactStep
<1>3. LossInv /\ ExactInv => WindowIsExact
  <2> SUFFICES ASSUME LossInv, ExactInv, win.armed, ~far PROVE WindowIsExact
    BY DEF WindowIsExact
  <2>1. PICK t, e \in Nat : Edges(t, e)
    BY DEF ExactInv
  <2>2. TrueStart = t /\ TrueEnd = e
    BY <2>1, TrueEdges DEF LossInv
  <2>3. win.start = Raw(t) /\ win.end = Raw(e)
    BY <2>1 DEF Edges
  <2>4. LET lost == (t + 1 .. e) \ got
        IN  missing(win) =
              {Raw(n) : n \in {l \in lost :
                                 Cardinality({i \in lost : i <= l}) <= MAX_RESEND}}
    BY <2>1, ExactMissing
  <2> QED
    BY <2>2, <2>3, <2>4, Zenon DEF WindowIsExact
<1> QED
  BY <1>1, <1>2, <1>3, LossInvariance, PTL DEF Spec
-----------------------------------------------------------------------------
(* The window inside the session *)

\* The session's window is this one.
LEMMA SameWindow ==
  /\ \A w, s : S!Rtx!push(w, s) = push(w, s)
  /\ \A w : S!Rtx!missing(w) = missing(w)
  /\ S!Rtx!Window = Window /\ S!Rtx!Seqs = Seqs
  /\ \A s : S!Rtx!NewWindow(s) = NewWindow(s)
  /\ \A s, k : S!Rtx!Plus(s, k) = Plus(s, k)
<1>1. \A s, k : S!Rtx!Plus(s, k) = Plus(s, k)
  BY DEF S!Rtx!Plus, Plus
<1>2. S!Rtx!Window = Window /\ S!Rtx!Seqs = Seqs
  BY DEF S!Rtx!Window, Window, S!Rtx!Seqs, Seqs
<1>3. \A w : S!Rtx!missing(w) = missing(w)
  BY DEF S!Rtx!missing, missing, S!Rtx!Holes, Holes, S!Rtx!Plus, Plus, S!Rtx!seq_ahead,
     seq_ahead, S!Rtx!Cardinality, Cardinality
<1>4. \A w, s : S!Rtx!push(w, s) = push(w, s)
  BY DEF S!Rtx!push, push, S!Rtx!Arm, Arm, S!Rtx!PushArmed, PushArmed, S!Rtx!NewEnd,
     NewEnd, S!Rtx!Recent, Recent, S!Rtx!Taken, Taken, S!Rtx!RunLength, RunLength,
     S!Rtx!Plus, Plus, S!Rtx!seq_ahead, seq_ahead
<1>5. \A s : S!Rtx!NewWindow(s) = NewWindow(s)
  BY DEF S!Rtx!NewWindow, NewWindow
<1> QED
  BY <1>1, <1>2, <1>3, <1>4, <1>5

\* missing() returns numbers of the field.
LEMMA MissingType == ASSUME NEW w, Good(w) PROVE missing(w) \subseteq Seqs
<1>1. w.start \in Seqs /\ w.end \in Seqs
  BY DEF Good, Window
<1>2. seq_ahead(w.end, w.start) \in 0 .. M - 1
  BY <1>1, RtxAssumption DEF Seqs, seq_ahead
<1>3. \A j \in Holes(w) : j \in 1 .. M - 1
  BY <1>2, RtxAssumption DEF Holes
<1>4. \A j \in Holes(w) : Plus(w.start, j) \in Seqs
  BY <1>1, <1>3, PlusFacts
<1> QED
  BY <1>4 DEF missing

LEMMA RtxFacts ==
  /\ Good(S!Rtx!NewWindow(S!seed)) /\ ~S!Rtx!NewWindow(S!seed).armed
  /\ \A w, s : Good(w) /\ s \in S!Rtx!Seqs => Good(S!Rtx!push(w, s))
  /\ \A w : Good(w) =>
       /\ w \in S!Rtx!Window /\ S!Rtx!missing(w) \subseteq S!Rtx!Seqs
       /\ S!Rtx!missing(w) # {} =>
            w.armed /\ S!Rtx!Plus(w.start, 1) \in S!Rtx!missing(w)
  /\ 0 .. M - 1 = S!Rtx!Seqs
<1>1. Good(NewWindow(S!seed)) /\ ~NewWindow(S!seed).armed
  BY RtxAssumption DEF Good, NewWindow, Window, S!seed, Seqs
<1>2. \A w, s : Good(w) /\ s \in Seqs => Good(push(w, s))
  BY PushGood
<1>3. ASSUME NEW w, Good(w), missing(w) # {}
      PROVE  w.armed /\ Plus(w.start, 1) \in missing(w)
  <2>1. w.armed /\ w.start # w.end
    BY <1>3 DEF missing
  <2> QED
    BY <1>3, <2>1, MissingLeads
<1>4. \A w : Good(w) => w \in Window /\ missing(w) \subseteq Seqs
  BY MissingType DEF Good
<1> QED
  BY <1>1, <1>2, <1>3, <1>4, SameWindow DEF Seqs

\* The peers are those that are tried, and None is no peer.
SessionTypes == S!SessionTypeOK /\ Good(rtx)

LEMMA SeqsSent ==
  0 .. MaxVideo \subseteq S!Rtx!Seqs /\ None \notin S!Peers /\ MaxVideo \in Nat
<1>1. MaxVideo \in 1 .. M - 1 /\ M \in Nat
  BY RtxAssumption, ClientAssumption DEF S!SessionAssumption
<1> QED
  BY <1>1, RtxFacts, ClientAssumption DEF S!SessionAssumption

LEMMA SessionInit == S!Init => SessionTypes /\ S!StreamHasKeepalive
<1> SUFFICES ASSUME S!Init PROVE SessionTypes /\ S!StreamHasKeepalive
  OBVIOUS
<1>1. TIMEOUT \in Nat
  BY ClientAssumption DEF S!SessionAssumption
<1>2. videoAge \in 0 .. TIMEOUT + 1 /\ ctrlAge \in 0 .. TIMEOUT + 1
  BY <1>1 DEF S!Init
<1>3. Good(rtx) /\ rtx \in S!Rtx!Window
  BY RtxFacts DEF S!Init
<1> QED
  BY <1>2, <1>3 DEF S!Init, SessionTypes, S!SessionTypeOK, S!StreamHasKeepalive

\* Ages grow together.
LEMMA AgesTick ==
  ASSUME SessionTypes, S!Tick
  PROVE  /\ videoAge' \in 0 .. TIMEOUT + 1 /\ ctrlAge' \in 0 .. TIMEOUT + 1
         /\ ctrlAge <= videoAge => ctrlAge' <= videoAge'
<1>1. TIMEOUT \in Nat /\ videoAge \in 0 .. TIMEOUT + 1 /\ ctrlAge \in 0 .. TIMEOUT + 1
  BY ClientAssumption DEF S!SessionAssumption, SessionTypes, S!SessionTypeOK
<1> QED
  BY <1>1 DEF S!Tick, S!Cap

\* What of the session's types a step of the client's loop has to keep.
LEMMA SessionTypeStep ==
  ASSUME SessionTypes, S!StreamHasKeepalive, [S!Next]_(S!vars)
  PROVE  SessionTypes'
<1> USE DEF S!link, S!stream, S!loop, S!setup, S!ages, S!env
<1>0. S!SessionTypeOK /\ Good(rtx)
  BY DEF SessionTypes
<1>1. CASE UNCHANGED S!vars
  BY <1>0, <1>1 DEF S!vars, SessionTypes, S!SessionTypeOK
<1>2. CASE S!Bind \/ S!EndBatch
  BY <1>0, <1>2 DEF S!Bind, S!EndBatch, SessionTypes, S!SessionTypeOK
<1>3. CASE S!Expire
  <2>1. /\ joined' \in {joined, None} /\ linked' \in {linked, None}
        /\ rtx' \in {rtx, S!Rtx!NewWindow(S!seed)}
        /\ resend' \in {S!Rtx!missing(rtx'), {}}
        /\ pc = "expire" /\ pc' = "boost"
    BY <1>3 DEF S!Expire
  <2>2. Good(rtx')
    BY <1>0, <2>1, RtxFacts
  <2>3. rtx' \in S!Rtx!Window /\ resend' \subseteq S!Rtx!Seqs
    BY <2>1, <2>2, RtxFacts
  <2>4. UNCHANGED <<sock, batch, videoAge, ctrlAge, net, asked, flight>>
    BY <1>3 DEF S!Expire
  <2> QED
    BY <1>0, <2>1, <2>2, <2>3, <2>4 DEF SessionTypes, S!SessionTypeOK
<1>4. CASE S!BoostPython \/ S!BoostC
  <2>1. /\ UNCHANGED <<rtx, resend, batch, videoAge, ctrlAge, net>>
        /\ pc = "boost"
        /\ \/ pc' = "ack" /\ UNCHANGED <<sock, linked, joined, asked, flight>>
           \/ S!Unplugged
    BY <1>4 DEF S!BoostPython, S!BoostC
  <2> QED
    BY <1>0, <2>1 DEF S!Unplugged, S!CloseSocket, SessionTypes, S!SessionTypeOK
<1>5. CASE S!Keepalive
  <2>1. /\ UNCHANGED <<rtx, resend, batch, videoAge, ctrlAge, net>>
        /\ pc = "ack"
        /\ \/ pc' = "handshake" /\ UNCHANGED <<sock, linked, joined, asked, flight>>
           \/ S!Unplugged
    BY <1>5 DEF S!Keepalive
  <2> QED
    BY <1>0, <2>1 DEF S!Unplugged, S!CloseSocket, SessionTypes, S!SessionTypeOK
<1>6. CASE S!Handshake
  <2>1. /\ UNCHANGED <<linked, joined, rtx, resend, batch, videoAge, ctrlAge, net>>
        /\ pc = "handshake"
        /\ \/ pc' = "select" /\ UNCHANGED <<sock, flight>> /\ asked' \in {asked, S!Peers}
           \/ S!CloseSocket
    BY <1>6 DEF S!Handshake
  <2> QED
    BY <1>0, <2>1 DEF S!CloseSocket, SessionTypes, S!SessionTypeOK
<1>7. CASE S!Select
  BY <1>0, <1>7 DEF S!Select, S!Unplugged, S!CloseSocket, SessionTypes, S!SessionTypeOK
<1>8. ASSUME NEW d \in batch, S!RecvHandshake(d) \/ S!RecvData(d)
      PROVE  SessionTypes'
  <2>1. d.from \in S!Peers
    BY <1>0 DEF S!SessionTypeOK, S!Datagram
  <2>2. /\ UNCHANGED <<pc, sock, joined, rtx, resend, videoAge, net, asked, flight>>
        /\ linked' \in {linked, d.from} /\ ctrlAge' = 0 /\ batch' \subseteq batch
    BY <1>8 DEF S!RecvHandshake, S!RecvData
  <2>3. ctrlAge' \in 0 .. TIMEOUT + 1
    BY <2>2, ClientAssumption DEF S!SessionAssumption
  <2> QED
    BY <1>0, <2>1, <2>2, <2>3 DEF SessionTypes, S!SessionTypeOK
<1>9. ASSUME NEW d \in batch, S!RecvVideo(d) PROVE SessionTypes'
  <2>1. d.from \in S!Peers /\ d.seq \in S!Rtx!Seqs
    BY <1>0, SeqsSent DEF S!SessionTypeOK, S!Datagram
  <2>2. /\ UNCHANGED <<pc, sock, resend, net, asked, flight>>
        /\ linked' \in {linked, d.from} /\ joined' \in {joined, d.from}
        /\ ctrlAge' \in {ctrlAge, 0} /\ videoAge' \in {videoAge, 0} /\ batch' \subseteq batch
        /\ rtx' = S!Rtx!push(rtx, d.seq)
    BY <1>9 DEF S!RecvVideo
  <2>3. 0 \in 0 .. TIMEOUT + 1
    BY ClientAssumption DEF S!SessionAssumption
  <2>4. Good(rtx') /\ rtx' \in S!Rtx!Window
    BY <1>0, <2>1, <2>2, RtxFacts
  <2> QED
    BY <1>0, <2>1, <2>2, <2>3, <2>4 DEF SessionTypes, S!SessionTypeOK
<1>10. ASSUME NEW p \in S!Peers, S!GogglesAnswer(p) \/ S!GogglesData(p)
       PROVE  SessionTypes'
  <2>1. [type |-> "handshake", from |-> p, seq |-> 0] \in S!Datagram
        /\ [type |-> "data", from |-> p, seq |-> 0] \in S!Datagram
    BY SeqsSent DEF S!Datagram
  <2>2. flight' \subseteq S!Datagram /\ asked' \subseteq asked
    BY <1>0, <1>10, <2>1 DEF S!GogglesAnswer, S!GogglesData, S!Fly, S!SessionTypeOK
  <2>3. UNCHANGED <<pc, sock, linked, joined, rtx, resend, batch, videoAge, ctrlAge, net>>
    BY <1>10 DEF S!GogglesAnswer, S!GogglesData, S!Idle
  <2> QED
    BY <1>0, <2>2, <2>3 DEF SessionTypes, S!SessionTypeOK
<1>11. ASSUME NEW p \in S!Peers, NEW n \in 1 .. MaxVideo, S!GogglesVideo(p, n)
       PROVE  SessionTypes'
  <2>1. [type |-> "video", from |-> p, seq |-> n] \in S!Datagram
    BY SeqsSent DEF S!Datagram
  <2>2. flight' \subseteq S!Datagram
    BY <1>0, <1>11, <2>1 DEF S!GogglesVideo, S!Fly, S!SessionTypeOK
  <2>3. UNCHANGED <<pc, sock, linked, joined, rtx, resend, batch, videoAge, ctrlAge, net,
                    asked>>
    BY <1>11 DEF S!GogglesVideo, S!Idle
  <2> QED
    BY <1>0, <2>2, <2>3 DEF SessionTypes, S!SessionTypeOK
<1>12. ASSUME NEW d \in flight, S!Lose(d) PROVE SessionTypes'
  BY <1>0, <1>12 DEF S!Lose, S!Idle, SessionTypes, S!SessionTypeOK
<1>13. CASE S!Plug
  <2>1. net' \subseteq S!Peers /\ flight' \subseteq flight
    BY <1>0, <1>13 DEF S!Plug, S!SessionTypeOK
  <2>2. UNCHANGED <<pc, sock, linked, joined, rtx, resend, batch, videoAge, ctrlAge, asked>>
    BY <1>13 DEF S!Plug, S!Idle
  <2> QED
    BY <1>0, <2>1, <2>2 DEF SessionTypes, S!SessionTypeOK
<1>14. CASE S!Tick
  <2>1. UNCHANGED <<pc, sock, linked, joined, rtx, resend, batch, net, asked, flight>>
    BY <1>14 DEF S!Tick, S!Idle
  <2> QED
    BY <1>0, <1>14, <2>1, AgesTick DEF SessionTypes, S!SessionTypeOK
<1>15. CASE S!RunEnds
  <2>1. /\ pc' = "ended" /\ sock' = FALSE /\ linked' = None /\ joined' = None
        /\ rtx' = S!Rtx!NewWindow(S!seed) /\ resend' = {} /\ batch' = {}
        /\ asked' = {} /\ flight' = {} /\ UNCHANGED <<videoAge, ctrlAge, net>>
    BY <1>15 DEF S!RunEnds
  <2> QED
    BY <1>0, <2>1, RtxFacts DEF SessionTypes, S!SessionTypeOK
<1> QED
  BY <1>1, <1>2, <1>3, <1>4, <1>5, <1>6, <1>7, <1>8, <1>9, <1>10, <1>11, <1>12, <1>13,
     <1>14, <1>15 DEF S!Next, S!ClientStep

\* Whoever drops the link drops the stream; video refreshes both timestamps.
LEMMA KeepaliveStep ==
  ASSUME SessionTypes, S!StreamHasKeepalive, [S!Next]_(S!vars)
  PROVE  S!StreamHasKeepalive'
<1> USE DEF S!link, S!ages, S!Idle
<1>0. /\ videoAge \in 0 .. TIMEOUT + 1 /\ ctrlAge \in 0 .. TIMEOUT + 1 /\ TIMEOUT \in Nat
      /\ joined # None => linked # None /\ ctrlAge <= videoAge
      /\ \A d \in batch : d.from # None
  BY SeqsSent, ClientAssumption DEF SessionTypes, S!SessionTypeOK, S!SessionAssumption,
     S!StreamHasKeepalive,
     S!Datagram
<1>1. CASE UNCHANGED <<linked, joined, videoAge, ctrlAge>>
  BY <1>0, <1>1 DEF S!StreamHasKeepalive
<1>2. CASE S!Unplugged
  BY <1>2 DEF S!Unplugged, S!StreamHasKeepalive
<1>3. CASE S!Expire
  <2>1. /\ joined' = (IF joined # None /\ videoAge > TIMEOUT THEN None ELSE joined)
        /\ linked' = (IF linked # None /\ ctrlAge > TIMEOUT THEN None ELSE linked)
        /\ UNCHANGED <<videoAge, ctrlAge>>
    BY <1>3 DEF S!Expire
  <2> QED
    BY <1>0, <2>1 DEF S!StreamHasKeepalive
<1>4. ASSUME NEW d \in batch, S!RecvHandshake(d) \/ S!RecvData(d)
      PROVE  S!StreamHasKeepalive'
  <2>1. /\ linked' \in {linked, d.from} /\ (linked = None => linked' = d.from)
        /\ ctrlAge' = 0 /\ UNCHANGED <<joined, videoAge>>
    BY <1>4 DEF S!RecvHandshake, S!RecvData
  <2> QED
    BY <1>0, <2>1 DEF S!StreamHasKeepalive
<1>5. ASSUME NEW d \in batch, S!RecvVideo(d) PROVE S!StreamHasKeepalive'
  <2>1. CASE joined \notin {None, d.from}
    BY <1>0, <1>5, <2>1 DEF S!RecvVideo, S!StreamHasKeepalive
  <2>2. CASE joined \in {None, d.from}
    <3>1. /\ linked' = (IF joined = None THEN d.from ELSE linked)
          /\ videoAge' = 0 /\ ctrlAge' = 0
      BY <1>5, <2>2 DEF S!RecvVideo
    <3> QED
      BY <1>0, <3>1 DEF S!StreamHasKeepalive
  <2> QED
    BY <2>1, <2>2
<1>6. CASE S!Tick
  BY <1>0, <1>6, AgesTick DEF S!Tick, S!StreamHasKeepalive
<1>7. S!Select => UNCHANGED <<linked, joined, videoAge, ctrlAge>> \/ S!Unplugged
  BY DEF S!Select
<1>8. S!BoostPython \/ S!BoostC \/ S!Keepalive =>
        UNCHANGED <<linked, joined, videoAge, ctrlAge>> \/ S!Unplugged
  BY DEF S!BoostPython, S!BoostC, S!Keepalive
<1>9. CASE S!RunEnds
  BY <1>9 DEF S!RunEnds, S!StreamHasKeepalive
<1> QED
  BY <1>1, <1>2, <1>3, <1>4, <1>5, <1>6, <1>7, <1>8, <1>9
     DEF S!Next, S!ClientStep, S!vars, S!Bind, S!EndBatch, S!Handshake, S!GogglesAnswer,
     S!GogglesData, S!GogglesVideo, S!Lose, S!Plug

\* The session is well-typed whatever fails, and a stream always has a link that is
\* at least as fresh: for any peers, timeouts and field.
THEOREM SessionIsSafe == S!Spec => []SessionInv
<1>1. SessionTypes /\ S!StreamHasKeepalive /\ [S!Next]_(S!vars)
        => (SessionTypes /\ S!StreamHasKeepalive)'
  BY SessionTypeStep, KeepaliveStep
<1>2. SessionTypes /\ S!StreamHasKeepalive => SessionInv
  BY DEF SessionTypes, SessionInv, S!SessionInv
<1> QED
  BY <1>1, <1>2, SessionInit, PTL DEF S!Spec

\* The list of the top of the round fits the window of the top of the round.
LeadInv ==
  /\ resend # {} => S!Rtx!Plus(ackWin.start, 1) \in resend
  /\ S!AckLeadsWithItsHole

\* What is sent is nothing, an ACK without a list, or one whose list leads.
LEMMA SentLeads ==
  ASSUME NEW to, NEW start, NEW end, NEW list,
         list # {} => S!Rtx!Plus(start, 1) \in list,
         ack' \in {None, S!build_ack(to, start, end, list)}
  PROVE  S!AckLeadsWithItsHole'
<1>1. /\ S!build_ack(to, start, end, list).start = start
      /\ S!build_ack(to, start, end, list).resend = list
  BY DEF S!build_ack
<1> QED
  BY <1>1 DEF S!AckLeadsWithItsHole

LEMMA NothingLeads == S!NothingSent \/ ack' = None => S!AckLeadsWithItsHole'
  BY DEF S!NothingSent, S!AckLeadsWithItsHole

LEMMA LeadStep ==
  ASSUME SessionTypes, S!StreamHasKeepalive, LeadInv,
         [S!Next]_(S!vars)
  PROVE  LeadInv'
<1> USE DEF S!loop
<1>0. Good(rtx) /\ (resend # {} => S!Rtx!Plus(ackWin.start, 1) \in resend)
  BY DEF SessionTypes, LeadInv
<1>1. CASE UNCHANGED S!vars
  BY <1>1 DEF S!vars, LeadInv, S!AckLeadsWithItsHole
<1>2. CASE UNCHANGED <<resend, ackWin>> /\ (S!NothingSent \/ ack' = None)
  BY <1>0, <1>2, NothingLeads DEF LeadInv
<1>3. CASE S!Expire
  <2>1. Good(rtx')
    BY SessionTypeStep DEF SessionTypes
  <2>2. /\ resend' \in {S!Rtx!missing(rtx'), {}} /\ S!NothingSent
        /\ rtx'.armed => ackWin'.start = rtx'.start
    BY <1>3 DEF S!Expire
  <2>3. resend' # {} => S!Rtx!Plus(ackWin'.start, 1) \in resend'
    BY <2>1, <2>2, RtxFacts
  <2> QED
    BY <2>2, <2>3, NothingLeads DEF LeadInv
<1>4. CASE S!Keepalive
  <2>1. /\ UNCHANGED <<resend, ackWin>>
        /\ ack' \in {None, S!build_ack(linked, ackWin.start, ackWin.end, resend)}
    BY <1>4 DEF S!Keepalive, S!NothingSent
  <2>2. S!AckLeadsWithItsHole'
    BY <1>0, <2>1, SentLeads
  <2> QED
    BY <1>0, <2>1, <2>2 DEF LeadInv
<1>5. ASSUME NEW d \in batch, S!RecvHandshake(d) PROVE LeadInv'
  <2>1. /\ UNCHANGED <<resend, ackWin>>
        /\ ack' \in {None, S!build_ack(d.from, S!seed, S!seed, {})}
    BY <1>5 DEF S!RecvHandshake, S!Reply
  <2>2. S!AckLeadsWithItsHole'
    BY <2>1, SentLeads
  <2> QED
    BY <1>0, <2>1, <2>2 DEF LeadInv
<1>6. ASSUME NEW d \in batch, S!RecvData(d) PROVE LeadInv'
  <2>1. /\ UNCHANGED <<resend, ackWin>>
        /\ ack' \in {None, S!build_ack(d.from, ackWin.start, ackWin.end, resend)}
    BY <1>6 DEF S!RecvData, S!Reply
  <2>2. S!AckLeadsWithItsHole'
    BY <1>0, <2>1, SentLeads
  <2> QED
    BY <1>0, <2>1, <2>2 DEF LeadInv
<1>7. ASSUME NEW d \in batch, S!RecvVideo(d) PROVE LeadInv'
  <2>1. Good(rtx')
    <3>1. S!Next
      BY <1>7 DEF S!Next, S!ClientStep
    <3> QED
      BY <3>1, SessionTypeStep DEF SessionTypes
  <2>2. /\ UNCHANGED <<resend, ackWin>>
        /\ ack' \in {None, S!build_ack(d.from, rtx'.start, rtx'.end, S!Rtx!missing(rtx'))}
    BY <1>7 DEF S!RecvVideo, S!Reply, S!NothingSent
  <2>3. S!AckLeadsWithItsHole'
    BY <2>1, <2>2, RtxFacts, SentLeads
  <2> QED
    BY <1>0, <2>2, <2>3 DEF LeadInv
<1>8. S!BoostPython \/ S!BoostC =>
        UNCHANGED <<resend, ackWin>> /\ (S!NothingSent \/ ack' = None)
  BY DEF S!BoostPython, S!BoostC
<1>9. CASE S!RunEnds
  BY <1>9, NothingLeads DEF S!RunEnds, LeadInv
<1> QED
  BY <1>1, <1>2, <1>3, <1>4, <1>5, <1>6, <1>7, <1>8, <1>9
     DEF S!Next, S!ClientStep, S!Bind, S!EndBatch, S!Handshake, S!Select, S!GogglesAnswer,
     S!GogglesData, S!GogglesVideo, S!Lose, S!Plug, S!Tick, S!Idle

LEMMA LeadInit == S!Init => LeadInv
  BY DEF S!Init, LeadInv, S!AckLeadsWithItsHole

\* Every ACK on the wire, from the top of the round or from the middle of a burst,
\* leads with the hole behind the window start it carries: for any peers, timeouts
\* and field, and however often numbers wrap.
THEOREM AcksLead == S!Spec => []S!AckLeadsWithItsHole
<1>1. /\ SessionTypes /\ S!StreamHasKeepalive /\ LeadInv /\ [S!Next]_(S!vars)
           => (SessionTypes /\ S!StreamHasKeepalive /\ LeadInv)'
      /\ LeadInv => S!AckLeadsWithItsHole
  BY SessionTypeStep, KeepaliveStep, LeadStep DEF LeadInv
<1> QED
  BY <1>1, SessionInit, LeadInit, PTL DEF S!Spec
-----------------------------------------------------------------------------
(* What the session asks for *)

\* The window lies among the first N numbers of the field, which have been sent.
Near(w, N) ==
  w.armed => /\ w.start \in 1 .. N /\ w.end \in 1 .. N /\ w.start <= w.end
             /\ \A h \in w.have : h \in 1 .. w.end

\* As long as that is less than half of the field, push() keeps the window there: the
\* end moves to the newest number, and the run from start ends before the field does.
LEMMA NearPush ==
  ASSUME NEW w, Good(w), NEW N \in Nat, N <= M \div 2, Near(w, N), NEW seq \in 1 .. N
  PROVE  Near(push(w, seq), N)
<1>0. /\ w \in Window /\ M \in Nat /\ M \div 2 \in Nat /\ 2 * (M \div 2) <= M
      /\ M >= 4 /\ N < M
  BY RtxAssumption DEF Good
<1>1. CASE ~w.armed
  <2>1. push(w, seq) = [w EXCEPT !.start = seq, !.end = seq, !.armed = TRUE]
    BY <1>1 DEF push, Arm
  <2>2. w.have = {}
    BY <1>1 DEF Good
  <2>3. /\ push(w, seq).start = seq /\ push(w, seq).end = seq
        /\ push(w, seq).have = {}
    BY <1>0, <2>1, <2>2 DEF Window
  <2> QED
    BY <2>3 DEF Near
<1>2. CASE w.armed
  <2> DEFINE held == w.have \cup {seq}
             end == NewEnd(w, seq)
             k == RunLength(w.start, held)
             kept == Recent(held \ Taken(w.start, k), end)
  <2>1. push(w, seq) = [w EXCEPT !.start = Plus(w.start, k), !.end = end, !.have = kept]
    BY <1>2 DEF push, PushArmed
  <2>2. /\ push(w, seq).start = Plus(w.start, k) /\ push(w, seq).end = end
        /\ push(w, seq).have = kept
    BY <1>0, <2>1 DEF Window
  <2>3. /\ w.start \in 1 .. N /\ w.end \in 1 .. N /\ w.start <= w.end
        /\ \A h \in w.have : h \in 1 .. w.end
    BY <1>2 DEF Near
  <2>4. end = IF seq > w.end THEN seq ELSE w.end
    BY <1>0, <2>3 DEF NewEnd, seq_ahead
  <2>5. kept \subseteq held
    BY DEF Recent
  <2>6. \A h \in held : h \in 1 .. end
    BY <2>3, <2>4
  <2>7. seq \in Seqs
    BY <1>0 DEF Seqs
  <2>8. /\ k \in 0 .. M - 1
        /\ \A j \in 1 .. k : Plus(w.start, j) \in held
    BY <2>7, RunStops
  <2> HIDE DEF k, held, end, kept
  <2>9. w.start + k < M
    <3> SUFFICES ASSUME w.start + k >= M PROVE FALSE
      BY <1>0, <2>3, <2>8
    <3>1. M - w.start \in 1 .. k
      BY <1>0, <2>3, <2>8
    <3>2. Plus(w.start, M - w.start) = 0
      BY <1>0, <2>3 DEF Plus
    <3> QED
      BY <2>6, <2>8, <3>1, <3>2
  <2>10. Plus(w.start, k) = w.start + k
    BY <2>9 DEF Plus
  <2>11. end \in 1 .. N
    BY <2>3, <2>4
  <2>12. w.start + k <= end
    <3>1. CASE k = 0
      BY <2>3, <2>4, <2>11, <3>1
    <3>2. CASE k # 0
      <4>1. k \in 1 .. k
        BY <2>8, <3>2
      <4>2. w.start + k \in held
        BY <2>8, <2>10, <4>1
      <4> QED
        BY <2>6, <4>2
    <3> QED
      BY <3>1, <3>2
  <2>13. w.start + k \in 1 .. N
    BY <2>3, <2>8, <2>11, <2>12
  <2> QED
    BY <2>2, <2>5, <2>6, <2>10, <2>11, <2>12, <2>13 DEF Near
<1> QED
  BY <1>0, <1>1, <1>2 DEF Window

\* What is missing lies between start and end.
LEMMA NearMissing ==
  ASSUME NEW w, Good(w), NEW N \in Nat, N < M, Near(w, N)
  PROVE  missing(w) \subseteq 1 .. N
<1> SUFFICES ASSUME w.armed, w.start # w.end
             PROVE  missing(w) \subseteq 1 .. N
  BY DEF missing
<1>1. /\ w.start \in 1 .. N /\ w.end \in 1 .. N /\ w.start <= w.end /\ M \in Nat
  BY RtxAssumption DEF Near
<1>2. \A j \in Holes(w) : j \in Nat /\ j >= 1 /\ j <= w.end - w.start
  BY <1>1, RtxAssumption DEF Holes, seq_ahead
<1>3. \A j \in Holes(w) : Plus(w.start, j) \in 1 .. N
  BY <1>1, <1>2 DEF Plus
<1> QED
  BY <1>3 DEF missing

LEMMA NearFacts ==
  ASSUME MaxVideo <= M \div 2
  PROVE  /\ \A N \in Nat : Near(S!Rtx!NewWindow(S!seed), N)
         /\ \A N \in 0 .. MaxVideo : \A w :
              Good(w) /\ Near(w, N) =>
                /\ \A s \in 1 .. N : Near(S!Rtx!push(w, s), N)
                /\ S!Rtx!missing(w) \subseteq 1 .. N
         /\ \A N, K \in Nat : \A w : Near(w, N) /\ N <= K => Near(w, K)
<1>1. MaxVideo \in Nat /\ MaxVideo < M /\ M \in Nat /\ M \div 2 \in Nat
  BY RtxAssumption, ClientAssumption DEF S!SessionAssumption
<1>2. ~NewWindow(S!seed).armed
  BY DEF NewWindow
<1>3. ASSUME NEW N \in 0 .. MaxVideo, NEW w, Good(w), Near(w, N)
      PROVE  (\A s \in 1 .. N : Near(push(w, s), N)) /\ missing(w) \subseteq 1 .. N
  <2>1. N \in Nat /\ N <= M \div 2 /\ N < M
    BY <1>1
  <2> QED
    BY <1>3, <2>1, NearPush, NearMissing
<1>4. \A N, K \in Nat : \A w : Near(w, N) /\ N <= K => Near(w, K)
  BY DEF Near
<1> QED
  BY <1>2, <1>3, <1>4, SameWindow DEF Near

\* With one peer p: what it sent is in the window, on its way, and in the list.
SentInv(p) ==
  /\ newest \in [S!Peers -> 0 .. MaxVideo]
  /\ \A d \in flight \cup batch : d.type = "video" => d.seq \in 1 .. newest[p]
  /\ Near(rtx, newest[p])
  /\ resend \subseteq 1 .. newest[p]
  /\ S!ResendWasSent

LEMMA SentAsks ==
  ASSUME NEW p, NEW to, NEW start, NEW end, NEW list,
         to = p, list \subseteq 1 .. newest[p], newest' = newest,
         ack' \in {None, S!build_ack(to, start, end, list)}
  PROVE  S!ResendWasSent'
<1>1. /\ S!build_ack(to, start, end, list).to = p
      /\ S!build_ack(to, start, end, list).resend = list
  BY DEF S!build_ack
<1> QED
  BY <1>1 DEF S!ResendWasSent

LEMMA NothingAsked == S!NothingSent \/ ack' = None => S!ResendWasSent'
  BY DEF S!NothingSent, S!ResendWasSent

LEMMA SentInit ==
  ASSUME MaxVideo <= M \div 2, NEW p, S!Peers = {p}, S!Init
  PROVE  SentInv(p)
<1>1. newest \in [S!Peers -> 0 .. MaxVideo] /\ newest[p] \in Nat
  BY SeqsSent DEF S!Init
<1>2. Near(rtx, newest[p])
  BY <1>1, NearFacts DEF S!Init
<1> QED
  BY <1>1, <1>2 DEF S!Init, SentInv, S!ResendWasSent

LEMMA SentStep ==
  ASSUME MaxVideo <= M \div 2, NEW p, S!Peers = {p},
         SessionTypes, S!StreamHasKeepalive, SentInv(p), [S!Next]_(S!vars)
  PROVE  SentInv(p)'
<1> USE DEF S!loop, S!env, S!stream
<1>0. /\ newest \in [S!Peers -> 0 .. MaxVideo] /\ newest[p] \in 0 .. MaxVideo
      /\ newest[p] \in Nat /\ MaxVideo \in Nat
      /\ \A d \in flight \cup batch :
           d.from = p /\ (d.type = "video" => d.seq \in 1 .. newest[p])
      /\ Near(rtx, newest[p]) /\ Good(rtx) /\ resend \subseteq 1 .. newest[p]
      /\ linked \in {p, None}
  BY SeqsSent DEF SentInv, SessionTypes, S!SessionTypeOK, S!Datagram
<1>1. CASE UNCHANGED S!vars
  BY <1>1 DEF S!vars, SentInv, S!ResendWasSent
<1>2. CASE /\ UNCHANGED <<newest, rtx, resend>>
           /\ flight' \cup batch' \subseteq flight \cup batch
           /\ S!NothingSent \/ ack' = None
  BY <1>0, <1>2, NothingAsked DEF SentInv
<1>3. CASE S!Expire
  <2>1. /\ rtx' \in {rtx, S!Rtx!NewWindow(S!seed)} /\ S!NothingSent
        /\ resend' \in {S!Rtx!missing(rtx'), {}} /\ UNCHANGED <<newest, flight, batch>>
    BY <1>3 DEF S!Expire
  <2>2. Near(rtx', newest[p]) /\ Good(rtx')
    BY <1>0, <2>1, NearFacts, RtxFacts
  <2>3. resend' \subseteq 1 .. newest[p]
    BY <1>0, <2>1, <2>2, NearFacts
  <2> QED
    BY <1>0, <2>1, <2>2, <2>3, NothingAsked DEF SentInv
<1>4. CASE S!Keepalive
  <2>1. /\ UNCHANGED <<newest, rtx, resend, batch>> /\ flight' \subseteq flight
        /\ linked = None => ack' = None
        /\ ack' \in {None, S!build_ack(linked, ackWin.start, ackWin.end, resend)}
    BY <1>4 DEF S!Keepalive, S!NothingSent, S!Unplugged, S!CloseSocket
  <2>2. S!ResendWasSent'
    <3>1. CASE ack' = None
      BY <3>1, NothingAsked
    <3>2. CASE ack' # None
      <4>1. linked = p
        BY <1>0, <2>1, <3>2
      <4> QED
        BY <1>0, <2>1, <4>1, SentAsks
    <3> QED
      BY <3>1, <3>2
  <2> QED
    BY <1>0, <2>1, <2>2 DEF SentInv
<1>5. ASSUME NEW d \in batch, S!RecvHandshake(d) PROVE SentInv(p)'
  <2>1. /\ UNCHANGED <<newest, rtx, resend, flight>> /\ batch' \subseteq batch
        /\ ack' \in {None, S!build_ack(d.from, S!seed, S!seed, {})}
    BY <1>5 DEF S!RecvHandshake, S!Reply
  <2>2. S!ResendWasSent'
    BY <1>0, <2>1, SentAsks
  <2> QED
    BY <1>0, <2>1, <2>2 DEF SentInv
<1>6. ASSUME NEW d \in batch, S!RecvData(d) PROVE SentInv(p)'
  <2>1. /\ UNCHANGED <<newest, rtx, resend, flight>> /\ batch' \subseteq batch
        /\ ack' \in {None, S!build_ack(d.from, ackWin.start, ackWin.end, resend)}
    BY <1>6 DEF S!RecvData, S!Reply
  <2>2. S!ResendWasSent'
    BY <1>0, <2>1, SentAsks
  <2> QED
    BY <1>0, <2>1, <2>2 DEF SentInv
<1>7. ASSUME NEW d \in batch, S!RecvVideo(d) PROVE SentInv(p)'
  <2>1. /\ UNCHANGED <<newest, resend, flight>> /\ batch' \subseteq batch
        /\ rtx' = S!Rtx!push(rtx, d.seq) /\ d.type = "video"
        /\ ack' \in {None, S!build_ack(d.from, rtx'.start, rtx'.end, S!Rtx!missing(rtx'))}
    BY <1>7 DEF S!RecvVideo, S!Reply, S!NothingSent
  <2>2. d.seq \in 1 .. newest[p] /\ d.from = p
    BY <1>0, <2>1
  <2>3. d.seq \in S!Rtx!Seqs
    BY <1>0, <2>2, SeqsSent
  <2>4. Near(rtx', newest[p]) /\ Good(rtx')
    BY <1>0, <2>1, <2>2, <2>3, NearFacts, RtxFacts
  <2>5. S!ResendWasSent'
    BY <1>0, <2>1, <2>2, <2>4, NearFacts, SentAsks
  <2> QED
    BY <1>0, <2>1, <2>4, <2>5 DEF SentInv
<1>8. ASSUME NEW q \in S!Peers, S!GogglesAnswer(q) \/ S!GogglesData(q)
      PROVE  SentInv(p)'
  <2>1. /\ UNCHANGED <<newest, rtx, resend, batch>> /\ S!NothingSent
        /\ \A d \in flight' : d \in flight \/ d.type # "video"
    BY <1>8 DEF S!GogglesAnswer, S!GogglesData, S!Fly, S!Idle
  <2> QED
    BY <1>0, <2>1, NothingAsked DEF SentInv
<1>9. ASSUME NEW q \in S!Peers, NEW n \in 1 .. MaxVideo, S!GogglesVideo(q, n)
      PROVE  SentInv(p)'
  <2>1. /\ UNCHANGED <<rtx, resend, batch>> /\ S!NothingSent /\ q = p
        /\ flight' = flight \cup {[type |-> "video", from |-> q, seq |-> n]}
        /\ newest' = [newest EXCEPT ![q] = IF n > @ THEN n ELSE @]
    BY <1>9 DEF S!GogglesVideo, S!Fly, S!Idle
  <2>2. newest'[p] = IF n > newest[p] THEN n ELSE newest[p]
    BY <1>0, <2>1
  <2>3. newest' \in [S!Peers -> 0 .. MaxVideo] /\ newest'[p] \in Nat
        /\ newest[p] <= newest'[p] /\ n \in 1 .. newest'[p]
    BY <1>0, <2>1, <2>2
  <2>4. \A d \in flight' \cup batch' : d.type = "video" => d.seq \in 1 .. newest'[p]
    BY <1>0, <2>1, <2>3
  <2>5. Near(rtx', newest'[p]) /\ resend' \subseteq 1 .. newest'[p]
    BY <1>0, <2>1, <2>3, NearFacts
  <2> QED
    BY <2>1, <2>3, <2>4, <2>5, NothingAsked DEF SentInv
<1>10. S!BoostPython \/ S!BoostC =>
         /\ UNCHANGED <<newest, rtx, resend, batch>> /\ flight' \subseteq flight
         /\ S!NothingSent \/ ack' = None
  BY DEF S!BoostPython, S!BoostC, S!Unplugged, S!CloseSocket
<1>11. S!Handshake \/ S!Select =>
         /\ UNCHANGED <<newest, rtx, resend>> /\ S!NothingSent
         /\ flight' \cup batch' \subseteq flight \cup batch
  BY DEF S!Handshake, S!Select, S!Unplugged, S!CloseSocket
<1>12. S!Plug \/ (\E d \in flight : S!Lose(d)) =>
         /\ UNCHANGED <<newest, rtx, resend, batch>> /\ S!NothingSent
         /\ flight' \subseteq flight
  BY DEF S!Plug, S!Lose, S!Idle
<1>13. CASE S!RunEnds
  <2>1. /\ rtx' = S!Rtx!NewWindow(S!seed) /\ resend' = {} /\ batch' = {} /\ flight' = {}
        /\ S!NothingSent /\ UNCHANGED newest
    BY <1>13 DEF S!RunEnds
  <2> QED
    BY <1>0, <2>1, NearFacts, NothingAsked DEF SentInv
<1> QED
  BY <1>1, <1>2, <1>3, <1>4, <1>5, <1>6, <1>7, <1>8, <1>9, <1>10, <1>11, <1>12, <1>13
     DEF S!Next, S!ClientStep, S!Bind, S!EndBatch, S!Tick, S!Idle

\* With one peer, and as long as it is in the first half of the field, every ACK also
\* asks only for numbers that have been sent.
THEOREM AcksAreSound ==
  ASSUME MaxVideo <= M \div 2, NEW p, S!Peers = {p}
  PROVE  S!Spec => []AckInv
<1> DEFINE Inv == SessionTypes /\ S!StreamHasKeepalive /\ LeadInv /\ SentInv(p)
<1>1. S!Init => Inv
  BY SessionInit, LeadInit, SentInit
<1>2. Inv /\ [S!Next]_(S!vars) => Inv'
  BY SessionTypeStep, KeepaliveStep, LeadStep, SentStep
<1>3. Inv => AckInv
  BY DEF LeadInv, SentInv, AckInv, S!AckInv
<1> QED
  BY <1>1, <1>2, <1>3, PTL DEF S!Spec
===============================================================================
