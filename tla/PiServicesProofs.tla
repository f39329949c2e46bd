--------------------------- MODULE PiServicesProofs ---------------------------
(***************************************************************************)
(* Proofs about the services of the Pi endpoint, each on its own: camera   *)
(* commands and their replies, USB control, the preview encoder, and the   *)
(* output profile.                                                         *)
(***************************************************************************)
EXTENDS MCPiServices, SequenceTheorems, FiniteSetTheorems, TLAPS
-----------------------------------------------------------------------------
(* Sequence numbers *)

\* Division with remainder.
LEMMA Quotient ==
  ASSUME NEW N \in Nat, N > 0, NEW a \in Int
  PROVE  \E q \in Int : a = q * N + (a % N)
  BY SMT

\* Different multiples of N are at least N apart.
LEMMA Multiple ==
  ASSUME NEW N \in Nat, N > 0, NEW p \in Int, NEW q \in Int, p < q
  PROVE  p * N + N <= q * N /\ p * N \in Int /\ q * N \in Int
<1>1. (q - p) * N >= N
  OBVIOUS
<1> QED BY <1>1

\* Numbers less than N apart differ modulo N.
LEMMA SameField ==
  ASSUME NEW N \in Nat, N > 0, NEW a \in Nat, NEW b \in Nat
  PROVE  a % N = b % N /\ a < b + N /\ b < a + N => a = b
<1>1. PICK p \in Int : a = p * N + (a % N)
  BY Quotient
<1>2. PICK q \in Int : b = q * N + (b % N)
  BY Quotient
<1>3. HAVE a % N = b % N /\ a < b + N /\ b < a + N
<1>4. a % N \in Int
  OBVIOUS
<1>5. PICK r \in Int : a = p * N + r /\ b = q * N + r
  BY <1>1, <1>2, <1>3, <1>4
<1>6. ~(p < q)
  <2> SUFFICES ASSUME p < q PROVE FALSE
    OBVIOUS
  <2>1. p * N + N <= q * N /\ p * N \in Int /\ q * N \in Int
    BY Multiple
  <2> QED BY <2>1, <1>3, <1>5
<1>7. ~(q < p)
  <2> SUFFICES ASSUME q < p PROVE FALSE
    OBVIOUS
  <2>1. q * N + N <= p * N /\ p * N \in Int /\ q * N \in Int
    BY Multiple
  <2> QED BY <2>1, <1>3, <1>5
<1>8. p = q
  BY <1>6, <1>7
<1> QED BY <1>5, <1>8
LEMMA FirstSeqType == FirstSeq \in Nat
<1>1. 7 * Numbers \in Nat
  BY RepliesAssumption
<1>2. ASSUME NEW a \in Nat PROVE a \div 8 \in Nat
  OBVIOUS
<1> QED
  BY <1>1, <1>2 DEF FirstSeq

\* The field tells commands apart that are less than Numbers apart.
LEMMA FieldFacts ==
  /\ \A k \in Nat : SeqField(k) \in 0 .. Numbers - 1
  /\ \A k, l \in Nat :
       SeqField(k) = SeqField(l) /\ k < l + Numbers /\ l < k + Numbers => k = l
<1>1. Numbers \in Nat /\ Numbers > 0 /\ FirstSeq \in Nat
  BY FirstSeqType, RepliesAssumption
<1>2. ASSUME NEW k \in Nat PROVE SeqField(k) \in 0 .. Numbers - 1
  <2>1. FirstSeq + k \in Nat
    BY <1>1
  <2>2. ASSUME NEW a \in Nat PROVE a % Numbers \in 0 .. Numbers - 1
    BY <1>1
  <2> QED
    BY <2>1, <2>2 DEF SeqField
<1>3. ASSUME NEW k \in Nat, NEW l \in Nat, SeqField(k) = SeqField(l),
             k < l + Numbers, l < k + Numbers
      PROVE  k = l
  <2> DEFINE a == FirstSeq + k
             b == FirstSeq + l
  <2>1. a \in Nat /\ b \in Nat /\ a < b + Numbers /\ b < a + Numbers
    BY <1>1, <1>3
  <2>2. a % Numbers = b % Numbers
    BY <1>3 DEF SeqField
  <2> HIDE DEF a, b
  <2>3. a = b
    BY <1>1, <2>1, <2>2, SameField
  <2> QED
    BY <1>1, <2>3 DEF a, b
<1> QED
  BY <1>2, <1>3
-----------------------------------------------------------------------------
(* Camera commands and their replies *)

LEMMA EntryFacts ==
  /\ Out \in Entries
  /\ \A e \in Entries : e.n \in 0 .. MaxCalls /\ e.n \in Nat
  /\ \A k \in Nat, x \in Commands, m \in 0 .. MaxCalls :
       In(k, x, m) \in Entries /\ In(k, x, m).n = m /\ In(k, x, m).seq = SeqField(k)
  /\ Out.n = 0
<1>1. ASSUME NEW k \in Nat, NEW x \in Commands, NEW m \in 0 .. MaxCalls
      PROVE  In(k, x, m) \in Entries
  <2>1. SeqField(k) \in 0 .. Numbers - 1
    BY FieldFacts
  <2> QED
    BY <2>1 DEF In, Entries
<1>2. Out \in Entries /\ Out.n = 0
  BY DEF Out, Entries
<1>3. ASSUME NEW e \in Entries PROVE e.n \in 0 .. MaxCalls /\ e.n \in Nat
  BY <1>2, RepliesAssumption DEF Entries
<1> QED
  BY <1>1, <1>2, <1>3 DEF In

LEMMA OthersAreEntries ==
  \A e \in {Out} \cup {In(k, x, 0) : k \in 1 .. Numbers, x \in Commands} :
    e \in Entries /\ e.n = 0
  BY EntryFacts, RepliesAssumption

\* The history after a packet is recorded.
Kept(q, e) == LET h == Append(q, e) IN IF Len(h) > HISTORY THEN Tail(h) ELSE h

\* The last entry is the new one; any other was there, and one place younger.
LEMMA KeptFacts ==
  ASSUME NEW q \in Seq(Entries), NEW e \in Entries, Len(q) <= HISTORY
  PROVE  /\ Kept(q, e) \in Seq(Entries)
         /\ Len(Kept(q, e)) \in Nat /\ Len(Kept(q, e)) <= HISTORY
         /\ \A i \in 1 .. Len(Kept(q, e)) :
              \/ i = Len(Kept(q, e)) /\ Kept(q, e)[i] = e
              \/ \E j \in 1 .. Len(q) :
                   /\ Kept(q, e)[i] = q[j]
                   /\ Len(Kept(q, e)) - i = Len(q) - j + 1
<1> DEFINE h == Append(q, e)
<1>1. /\ h \in Seq(Entries) /\ Len(h) = Len(q) + 1 /\ Len(q) \in Nat
      /\ \A i \in 1 .. Len(q) : h[i] = q[i]
      /\ h[Len(q) + 1] = e
  BY AppendProperties, LenProperties
<1> HIDE DEF h
<1>2. h # <<>>
  BY <1>1, EmptySeq
<1>3. CASE Len(h) > HISTORY
  <2>1. Kept(q, e) = Tail(h)
    BY <1>3 DEF Kept, h
  <2>2. /\ Tail(h) \in Seq(Entries) /\ Len(Tail(h)) = Len(q)
        /\ \A i \in 1 .. Len(q) : Tail(h)[i] = h[i + 1]
    BY <1>1, <1>2, HeadTailProperties
  <2>3. ASSUME NEW i \in 1 .. Len(q), i # Len(q)
        PROVE  /\ i + 1 \in 1 .. Len(q) /\ Tail(h)[i] = q[i + 1]
               /\ Len(q) - i = Len(q) - (i + 1) + 1
    BY <1>1, <2>2, <2>3
  <2>4. Len(q) \in 1 .. Len(q) => Tail(h)[Len(q)] = e
    BY <1>1, <2>2
  <2> DEFINE t == Tail(h)
  <2>5. /\ Kept(q, e) = t /\ t \in Seq(Entries) /\ Len(t) = Len(q) /\ Len(t) \in Nat
    BY <1>1, <2>1, <2>2
  <2> HIDE DEF t
  <2>6. ASSUME NEW i \in 1 .. Len(t)
        PROVE  \/ i = Len(t) /\ t[i] = e
               \/ \E j \in 1 .. Len(q) : t[i] = q[j] /\ Len(t) - i = Len(q) - j + 1
    <3>1. CASE i = Len(q)
      BY <2>4, <2>5, <2>6, <3>1 DEF t
    <3>2. CASE i # Len(q)
      BY <2>3, <2>5, <2>6, <3>2 DEF t
    <3> QED
      BY <3>1, <3>2
  <2> QED
    BY <2>5, <2>6
<1>4. CASE ~(Len(h) > HISTORY)
  <2>1. Kept(q, e) = h
    BY <1>4 DEF Kept, h
  <2>2. HISTORY \in Nat /\ Len(h) <= HISTORY
    BY <1>1, <1>4, RepliesAssumption
  <2>3. ASSUME NEW i \in 1 .. Len(h), i # Len(h)
        PROVE  i \in 1 .. Len(q) /\ h[i] = q[i] /\ Len(h) - i = Len(q) - i + 1
    <3>1. Len(h) = Len(q) + 1 /\ Len(q) \in Nat
      BY <1>1
    <3>2. i \in 1 .. Len(q) /\ Len(h) - i = Len(q) - i + 1
      BY <2>3, <3>1
    <3> QED
      BY <1>1, <3>2
  <2> QED
    BY <1>1, <2>1, <2>2, <2>3, SMTT(30)
<1> QED
  BY <1>3, <1>4

\* Callers that have a number and have not recorded their command yet.
Recording == {c \in Callers : pc[c] = "record"}

HistoryOK == control_history \in Seq(Entries) /\ Len(control_history) <= HISTORY

\* Calls in progress have numbers of their own, of the last Pace commands.
CallsInv ==
  /\ \A c \in Callers : Calling(c) =>
       /\ n[c] \in 1 .. control_seq /\ control_seq < n[c] + Pace
       /\ cmd[c] \in Commands
  /\ \A c, d \in Callers : Calling(c) /\ Calling(d) /\ c # d => n[c] # n[d]
  /\ \A o \in owed : o.n <= control_seq /\ control_seq < o.n + Pace

\* A reply in the history was at most Pace commands old when it came, and every
\* command since then has recorded a packet after it, or is about to.
AgeInv ==
  \A i \in 1 .. Len(control_history) :
    LET e == control_history[i]
    IN  e.n # 0 =>
          /\ e.seq = SeqField(e.n) /\ e.n <= control_seq
          /\ control_seq - e.n < Pace + (Len(control_history) - i) + Cardinality(Recording)

ReplyInv ==
  RepliesTypeOK /\ HistoryOK /\ CallsInv /\ AgeInv /\ RepliesAreTheirs
    /\ NobodySleepsOverAReply

LEMMA RangeFacts ==
  ASSUME NEW q \in Seq(Entries)
  PROVE  /\ Range(q) \subseteq Entries
         /\ \A e \in Range(q) : \E i \in 1 .. Len(q) : q[i] = e
  BY LenProperties, ElementOfSeq DEF Range

\* A packet is appended to the history and wakes all who sleep.
LEMMA RecordFacts ==
  ASSUME NEW e \in Entries, NEW at \in [Callers -> InCall \cup {"off", "recv"}],
         Record(e, at), HistoryOK
  PROVE  /\ control_history' = Kept(control_history, e)
         /\ HistoryOK' /\ Range(control_history') \subseteq Entries
         /\ pc' \in [Callers -> InCall \cup {"off", "recv"}]
         /\ \A c \in Callers :
              /\ pc'[c] # "asleep"
              /\ pc'[c] = at[c] \/ (at[c] = "asleep" /\ pc'[c] = "scan")
<1>1. control_history' = Kept(control_history, e)
  BY DEF Record, Kept
<1>2. HistoryOK'
  BY <1>1, KeptFacts DEF HistoryOK
<1>3. Range(control_history') \subseteq Entries
  BY <1>2, RangeFacts DEF HistoryOK
<1>4. pc' = [c \in Callers |-> IF at[c] = "asleep" THEN "scan" ELSE at[c]]
  BY DEF Record
<1> QED
  BY <1>1, <1>2, <1>3, <1>4 DEF InCall

LEMMA MatchingType ==
  ASSUME RepliesTypeOK, NEW c \in Callers
  PROVE  Matching(c) \subseteq Entries
  BY DEF RepliesTypeOK, Matching

\* What a step does to the callers' places.
LEMMA RepliesTypeStep ==
  RepliesTypeOK /\ HistoryOK /\ CallsInv /\ [Next]_vars => (RepliesTypeOK /\ HistoryOK)'
<1> SUFFICES ASSUME RepliesTypeOK, HistoryOK, CallsInv, [Next]_vars
             PROVE  (RepliesTypeOK /\ HistoryOK)'
  OBVIOUS
<1> USE DEF RepliesTypeOK
<1>1. CASE Start
  BY <1>1 DEF Start, calls, HistoryOK
<1>2. CASE Close
  BY <1>2 DEF Close, calls, HistoryOK
<1>3. CASE Usb
  BY <1>3 DEF Usb, calls, HistoryOK
<1>4. ASSUME NEW c \in Callers, Accept(c) PROVE (RepliesTypeOK /\ HistoryOK)'
  BY <1>4 DEF Accept, HistoryOK, InCall
<1>5. ASSUME NEW c \in Callers, Hangup(c) PROVE (RepliesTypeOK /\ HistoryOK)'
  BY <1>5, RepliesAssumption DEF Hangup, HistoryOK, InCall
<1>6. ASSUME NEW c \in Callers, RecordOut(c) PROVE (RepliesTypeOK /\ HistoryOK)'
  <2> DEFINE at == [pc EXCEPT ![c] = "write"]
  <2>1. at \in [Callers -> InCall \cup {"off", "recv"}] /\ Record(Out, at) /\ Out \in Entries
    BY <1>6, EntryFacts DEF RecordOut, InCall
  <2> HIDE DEF at
  <2> QED
    BY <1>6, <2>1, RecordFacts DEF RecordOut
<1>7. ASSUME NEW c \in Callers, Scan(c) PROVE (RepliesTypeOK /\ HistoryOK)'
  BY <1>7, MatchingType DEF Scan, Return, HistoryOK, InCall
<1>8. ASSUME NEW c \in Callers, Expire(c) PROVE (RepliesTypeOK /\ HistoryOK)'
  BY <1>8 DEF Expire, HistoryOK
<1>9. ASSUME NEW c \in Callers, NEW x \in Commands, NEW allow \in BOOLEAN,
             Request(c, x, allow)
      PROVE  (RepliesTypeOK /\ HistoryOK)'
  <2>1. control_seq' = control_seq + 1 /\ control_seq' \in 0 .. MaxCalls
    BY <1>9, RepliesAssumption DEF Request
  <2> QED
    BY <1>9, <2>1 DEF Request, HistoryOK, InCall
<1>10. ASSUME NEW c \in Callers, NEW sent \in BOOLEAN, NEW waits \in BOOLEAN,
              Write(c, sent, waits)
       PROVE  (RepliesTypeOK /\ HistoryOK)'
  <2>1. configured' \in BOOLEAN
    BY <1>10 DEF Write
  <2>2. owed' \subseteq [n : 1 .. MaxCalls, cmd : Commands]
    <3>1. n[c] \in 1 .. MaxCalls /\ cmd[c] \in Commands
      BY <1>10, RepliesAssumption DEF Write, CallsInv, Calling, InCall
    <3> QED
      BY <1>10, <3>1 DEF Write
  <2>3. /\ pc' \in [Callers -> InCall \cup {"off", "recv"}]
        /\ expired' \in [Callers -> BOOLEAN] /\ replies' \in [Callers -> SUBSET Entries]
    BY <1>10 DEF Write, Return, InCall
  <2> QED
    BY <1>10, <2>1, <2>2, <2>3 DEF Write, HistoryOK
<1>11. ASSUME NEW o \in owed, Answer(o) PROVE (RepliesTypeOK /\ HistoryOK)'
  <2>1. In(o.n, o.cmd, o.n) \in Entries
    BY EntryFacts, RepliesAssumption
  <2> QED
    BY <1>11, <2>1, RecordFacts DEF Answer
<1>12. ASSUME NEW e \in {Out} \cup {In(k, x, 0) : k \in 1 .. Numbers, x \in Commands},
              Other(e)
       PROVE  (RepliesTypeOK /\ HistoryOK)'
  <2>1. e \in Entries
    BY OthersAreEntries
  <2> QED
    BY <1>12, <2>1, RecordFacts DEF Other
<1>13. CASE UNCHANGED vars
  BY <1>13 DEF vars, calls, HistoryOK
<1> QED
  BY <1>1, <1>2, <1>3, <1>4, <1>5, <1>6, <1>7, <1>8, <1>9, <1>10, <1>11, <1>12,
     <1>13 DEF Next

\* A step that gives out no number and brings nobody into a call keeps CallsInv.
LEMMA CallsApart ==
  ASSUME CallsInv, UNCHANGED control_seq, owed' \subseteq owed,
         \A c \in Callers : Calling(c)' => Calling(c) /\ n'[c] = n[c] /\ cmd'[c] = cmd[c]
  PROVE  CallsInv'
  BY DEF CallsInv

LEMMA CallsStep ==
  RepliesTypeOK /\ HistoryOK /\ CallsInv /\ [Next]_vars => CallsInv'
<1> SUFFICES ASSUME RepliesTypeOK, HistoryOK, CallsInv, [Next]_vars
             PROVE  CallsInv'
  OBVIOUS
<1>0. pc \in [Callers -> InCall \cup {"off", "recv"}]
  BY DEF RepliesTypeOK
<1>1. CASE Start
  BY <1>1, CallsApart DEF Start, calls, Calling
<1>2. CASE Close
  BY <1>2, CallsApart DEF Close, calls, Calling
<1>3. CASE Usb
  BY <1>3, CallsApart DEF Usb, calls, Calling
<1>4. ASSUME NEW c \in Callers, Accept(c) PROVE CallsInv'
  BY <1>0, <1>4, CallsApart DEF Accept, Calling, InCall
<1>5. ASSUME NEW c \in Callers, Hangup(c) PROVE CallsInv'
  <2>1. n \in [Callers -> 0 .. MaxCalls] /\ cmd \in [Callers -> Commands \cup {NoCommand}]
    BY DEF RepliesTypeOK
  <2> QED
    BY <1>0, <1>5, <2>1, CallsApart DEF Hangup, Calling, InCall
<1>6. ASSUME NEW c \in Callers, RecordOut(c) PROVE CallsInv'
  <2> DEFINE at == [pc EXCEPT ![c] = "write"]
  <2>1. at \in [Callers -> InCall \cup {"off", "recv"}] /\ Record(Out, at) /\ Out \in Entries
    BY <1>0, <1>6, EntryFacts DEF RecordOut, InCall
  <2>2. \A d \in Callers : at[d] \in InCall => pc[d] \in InCall
    BY <1>0, <1>6 DEF RecordOut, InCall
  <2> HIDE DEF at
  <2>3. \A d \in Callers : Calling(d)' => Calling(d)
    BY <2>1, <2>2, RecordFacts DEF Calling, InCall
  <2> QED
    BY <1>6, <2>3, CallsApart DEF RecordOut
<1>7. ASSUME NEW c \in Callers, Scan(c) PROVE CallsInv'
  <2>1. \A d \in Callers : Calling(d)' => Calling(d)
    BY <1>0, <1>7 DEF Scan, Return, Calling, InCall
  <2> QED
    BY <1>7, <2>1, CallsApart DEF Scan
<1>8. ASSUME NEW c \in Callers, Expire(c) PROVE CallsInv'
  BY <1>8, CallsApart DEF Expire, Calling
<1>9. ASSUME NEW c \in Callers, NEW x \in Commands, NEW allow \in BOOLEAN,
             Request(c, x, allow)
      PROVE  CallsInv'
  <2>1. /\ control_seq \in Nat /\ control_seq' = control_seq + 1
        /\ Pace \in Nat \ {0} /\ MaxCalls \in Nat
    BY <1>9, RepliesAssumption DEF Request, RepliesTypeOK
  <2>2. /\ n'[c] = control_seq + 1 /\ cmd'[c] = x
        /\ \A d \in Callers \ {c} : n'[d] = n[d] /\ cmd'[d] = cmd[d] /\ pc'[d] = pc[d]
    BY <1>9, <2>1 DEF Request, RepliesTypeOK
  <2>3. ASSUME NEW d \in Callers, Calling(d)', d # c
        PROVE  /\ n'[d] \in 1 .. control_seq /\ control_seq' < n'[d] + Pace
               /\ cmd'[d] \in Commands
    <3>1. Calling(d)
      BY <2>2, <2>3 DEF Calling
    <3>2. control_seq + 1 < n[d] + Pace
      BY <1>9, <3>1 DEF Request
    <3> QED
      BY <2>1, <2>2, <2>3, <3>1, <3>2 DEF CallsInv
  <2>4. \A d \in Callers : Calling(d)' =>
          /\ n'[d] \in 1 .. control_seq' /\ control_seq' < n'[d] + Pace
          /\ cmd'[d] \in Commands
    BY <2>1, <2>2, <2>3
  <2>5. \A d, f \in Callers : Calling(d)' /\ Calling(f)' /\ d # f => n'[d] # n'[f]
    <3> SUFFICES ASSUME NEW d \in Callers, NEW f \in Callers, Calling(d)', Calling(f)', d # f
                 PROVE  n'[d] # n'[f]
      OBVIOUS
    <3>1. CASE d # c /\ f # c
      BY <2>2, <3>1 DEF CallsInv, Calling
    <3>2. CASE d = c \/ f = c
      BY <2>1, <2>2, <2>3, <3>2
    <3> QED
      BY <3>1, <3>2
  <2>6. \A o \in owed' : o.n <= control_seq' /\ control_seq' < o.n + Pace
    <3> SUFFICES ASSUME NEW o \in owed'
                 PROVE  o.n <= control_seq' /\ control_seq' < o.n + Pace
      OBVIOUS
    <3>1. o \in owed /\ control_seq' < o.n + Pace
      BY <1>9 DEF Request
    <3>2. o.n \in Int /\ o.n <= control_seq
      BY <3>1, RepliesAssumption DEF CallsInv, RepliesTypeOK
    <3> QED
      BY <2>1, <3>1, <3>2
  <2> QED
    BY <2>4, <2>5, <2>6 DEF CallsInv
<1>10. ASSUME NEW c \in Callers, NEW sent \in BOOLEAN, NEW waits \in BOOLEAN,
              Write(c, sent, waits)
       PROVE  CallsInv'
  <2>1. \A d \in Callers : Calling(d)' => Calling(d)
    BY <1>0, <1>10 DEF Write, Return, Calling, InCall
  <2>2. UNCHANGED <<n, cmd, control_seq>> /\ Calling(c)
    BY <1>10 DEF Write, Calling, InCall
  <2>3. \A o \in owed' : o \in owed \/ o = [n |-> n[c], cmd |-> cmd[c]]
    BY <1>10 DEF Write
  <2>4. \A o \in owed' : o.n <= control_seq' /\ control_seq' < o.n + Pace
    <3>1. n[c] \in 1 .. control_seq /\ control_seq < n[c] + Pace
      BY <2>2 DEF CallsInv
    <3>2. control_seq \in Int
      BY RepliesAssumption DEF RepliesTypeOK
    <3> QED
      BY <2>2, <2>3, <3>1, <3>2 DEF CallsInv
  <2> QED
    BY <2>1, <2>2, <2>4 DEF CallsInv
<1>11. ASSUME NEW o \in owed, Answer(o) PROVE CallsInv'
  <2>1. In(o.n, o.cmd, o.n) \in Entries
    BY EntryFacts, RepliesAssumption DEF RepliesTypeOK
  <2>2. \A d \in Callers : Calling(d)' => Calling(d)
    BY <1>0, <1>11, <2>1, RecordFacts DEF Answer, Calling, InCall
  <2> QED
    BY <1>11, <2>2, CallsApart DEF Answer
<1>12. ASSUME NEW e \in {Out} \cup {In(k, x, 0) : k \in 1 .. Numbers, x \in Commands},
              Other(e)
       PROVE  CallsInv'
  <2>1. e \in Entries
    BY OthersAreEntries
  <2>2. \A d \in Callers : Calling(d)' => Calling(d)
    BY <1>0, <1>12, <2>1, RecordFacts DEF Other, Calling, InCall
  <2> QED
    BY <1>12, <2>2, CallsApart DEF Other
<1>13. CASE UNCHANGED vars
  BY <1>13, CallsApart DEF vars, calls, Calling
<1> QED
  BY <1>1, <1>2, <1>3, <1>4, <1>5, <1>6, <1>7, <1>8, <1>9, <1>10, <1>11, <1>12,
     <1>13 DEF Next

LEMMA RecordingFacts ==
  /\ IsFiniteSet(Recording) /\ Cardinality(Recording) \in Nat
  /\ Cardinality(Callers) \in Nat
  /\ \A c \in Callers \ Recording : Cardinality(Recording) + 1 <= Cardinality(Callers)
<1>1. IsFiniteSet(Callers) /\ Recording \subseteq Callers
  BY RepliesAssumption DEF Recording
<1>2. IsFiniteSet(Recording)
  BY <1>1, FS_Subset
<1>3. ASSUME NEW c \in Callers \ Recording
      PROVE  Cardinality(Recording) + 1 <= Cardinality(Callers)
  <2>1. Recording \cup {c} \subseteq Callers
    BY <1>1
  <2>2. Cardinality(Recording \cup {c}) <= Cardinality(Callers)
    BY <1>1, <2>1, FS_Subset
  <2>3. Cardinality(Recording \cup {c}) = Cardinality(Recording) + 1
    BY <1>2, <1>3, FS_AddElement
  <2> QED
    BY <2>2, <2>3
<1> QED
  BY <1>1, <1>2, <1>3, FS_CardinalityType

\* Entries grow no older while nothing happens to them, ...
LEMMA AgeRests ==
  ASSUME AgeInv, UNCHANGED <<control_seq, control_history>>, Recording' = Recording
  PROVE  AgeInv'
  BY DEF AgeInv

\* ... and the packet of a caller takes the place that was kept for it.
LEMMA AgeRecords ==
  ASSUME RepliesTypeOK, HistoryOK, AgeInv, UNCHANGED control_seq,
         NEW e \in Entries, control_history' = Kept(control_history, e),
         e.n # 0 => e.seq = SeqField(e.n) /\ e.n <= control_seq /\ control_seq < e.n + Pace,
         Cardinality(Recording)' \in Nat,
         Cardinality(Recording) <= Cardinality(Recording)' + 1
  PROVE  AgeInv'
<1> DEFINE q == control_history
           r == Kept(control_history, e)
           k == Cardinality(Recording)
           l == Cardinality(Recording)'
<1>1. /\ q \in Seq(Entries) /\ Len(q) <= HISTORY /\ Len(q) \in Nat
      /\ k \in Nat /\ l \in Nat /\ k <= l + 1 /\ control_seq \in Nat /\ Pace \in Nat
      /\ control_history' = r /\ control_seq' = control_seq
  BY RecordingFacts, RepliesAssumption, LenProperties DEF HistoryOK, RepliesTypeOK
<1>2. /\ r \in Seq(Entries) /\ Len(r) \in Nat
      /\ \A i \in 1 .. Len(r) :
           \/ i = Len(r) /\ r[i] = e
           \/ \E j \in 1 .. Len(q) : r[i] = q[j] /\ Len(r) - i = Len(q) - j + 1
  BY <1>1, KeptFacts
<1>3. \A j \in 1 .. Len(q) : q[j].n # 0 =>
        /\ q[j].seq = SeqField(q[j].n) /\ q[j].n <= control_seq
        /\ control_seq - q[j].n < Pace + (Len(q) - j) + k
  BY DEF AgeInv
<1>4. \A j \in 1 .. Len(q) : q[j].n \in Nat
  BY <1>1, EntryFacts, ElementOfSeq
<1>5. e.n \in Nat
  BY EntryFacts
<1> HIDE DEF q, r, k, l
<1>6. \A i \in 1 .. Len(r) : r[i].n # 0 =>
        /\ r[i].seq = SeqField(r[i].n) /\ r[i].n <= control_seq
        /\ control_seq - r[i].n < Pace + (Len(r) - i) + l
  <2> SUFFICES ASSUME NEW i \in 1 .. Len(r), r[i].n # 0
               PROVE  /\ r[i].seq = SeqField(r[i].n) /\ r[i].n <= control_seq
                      /\ control_seq - r[i].n < Pace + (Len(r) - i) + l
    OBVIOUS
  <2>1. CASE i = Len(r) /\ r[i] = e
    <3>1. e.seq = SeqField(e.n) /\ e.n <= control_seq /\ control_seq < e.n + Pace
      BY <2>1
    <3>2. control_seq - e.n < Pace + (Len(r) - i) + l
      BY <1>1, <1>2, <1>5, <2>1, <3>1
    <3> QED
      BY <2>1, <3>1, <3>2
  <2>2. ASSUME NEW j \in 1 .. Len(q), r[i] = q[j], Len(r) - i = Len(q) - j + 1
        PROVE  /\ r[i].seq = SeqField(r[i].n) /\ r[i].n <= control_seq
               /\ control_seq - r[i].n < Pace + (Len(r) - i) + l
    <3>1. control_seq - q[j].n < Pace + (Len(q) - j) + k
      BY <1>3, <2>2
    <3>2. control_seq - q[j].n < Pace + (Len(r) - i) + l
      BY <1>1, <1>2, <1>4, <2>2, <3>1
    <3> QED
      BY <1>3, <2>2, <3>2
  <2> QED
    BY <1>2, <2>1, <2>2
<1>7. Cardinality(Recording') = l
  BY DEF l
<1> QED
  BY <1>1, <1>6, <1>7 DEF AgeInv

LEMMA AgeStep ==
  RepliesTypeOK /\ HistoryOK /\ CallsInv /\ AgeInv /\ [Next]_vars => AgeInv'
<1> SUFFICES ASSUME RepliesTypeOK, HistoryOK, CallsInv, AgeInv, [Next]_vars
             PROVE  AgeInv'
  OBVIOUS
<1>0. pc \in [Callers -> InCall \cup {"off", "recv"}]
  BY DEF RepliesTypeOK
<1>1. CASE Start
  BY <1>1, AgeRests DEF Start, calls, Recording
<1>2. CASE Close
  BY <1>2, AgeRests DEF Close, calls, Recording
<1>3. CASE Usb
  BY <1>3, AgeRests DEF Usb, calls, Recording
<1>4. ASSUME NEW c \in Callers, Accept(c) PROVE AgeInv'
  BY <1>0, <1>4, AgeRests DEF Accept, Recording
<1>5. ASSUME NEW c \in Callers, Hangup(c) PROVE AgeInv'
  BY <1>0, <1>5, AgeRests DEF Hangup, Recording
<1>6. ASSUME NEW c \in Callers, RecordOut(c) PROVE AgeInv'
  <2> DEFINE at == [pc EXCEPT ![c] = "write"]
  <2>1. at \in [Callers -> InCall \cup {"off", "recv"}] /\ Record(Out, at) /\ Out \in Entries
    BY <1>0, <1>6, EntryFacts DEF RecordOut, InCall
  <2>2. \A d \in Callers : at[d] = IF d = c THEN "write" ELSE pc[d]
    BY <1>0
  <2> HIDE DEF at
  <2>3. Recording' = Recording \ {c} /\ c \in Recording
    BY <1>6, <2>1, <2>2, RecordFacts DEF RecordOut, Recording
  <2>4. /\ Cardinality(Recording \ {c}) = Cardinality(Recording) - 1
        /\ IsFiniteSet(Recording \ {c})
    BY <2>3, RecordingFacts, FS_RemoveElement
  <2>5. /\ Cardinality(Recording)' \in Nat
        /\ Cardinality(Recording) <= Cardinality(Recording)' + 1
    BY <2>3, <2>4, RecordingFacts, FS_CardinalityType
  <2> QED
    BY <1>6, <2>1, <2>5, RecordFacts, AgeRecords, EntryFacts DEF RecordOut
<1>7. ASSUME NEW c \in Callers, Scan(c) PROVE AgeInv'
  <2>1. Recording' = Recording
    BY <1>0, <1>7 DEF Scan, Return, Recording
  <2> QED
    BY <1>7, <2>1, AgeRests DEF Scan
<1>8. ASSUME NEW c \in Callers, Expire(c) PROVE AgeInv'
  BY <1>8, AgeRests DEF Expire, Recording
<1>9. ASSUME NEW c \in Callers, NEW x \in Commands, NEW allow \in BOOLEAN,
             Request(c, x, allow)
      PROVE  AgeInv'
  <2>1. /\ control_seq \in Nat /\ control_seq' = control_seq + 1
        /\ control_history' = control_history
    BY <1>9, RepliesAssumption DEF Request, RepliesTypeOK
  <2>2. Recording' = Recording \cup {c} /\ c \notin Recording
    BY <1>0, <1>9 DEF Request, Recording
  <2>3. Cardinality(Recording') = Cardinality(Recording) + 1
    BY <2>2, RecordingFacts, FS_AddElement
  <2>4. \A i \in 1 .. Len(control_history) :
          control_history[i].n \in Nat /\ Len(control_history) - i \in Int
    BY EntryFacts, ElementOfSeq, LenProperties DEF HistoryOK
  <2>5. Cardinality(Recording) \in Nat /\ Pace \in Nat
    BY RecordingFacts, RepliesAssumption
  <2>6. ASSUME NEW i \in 1 .. Len(control_history), control_history[i].n # 0
        PROVE  /\ control_history[i].seq = SeqField(control_history[i].n)
               /\ control_history[i].n <= control_seq + 1
               /\ (control_seq + 1) - control_history[i].n
                    < Pace + (Len(control_history) - i) + (Cardinality(Recording) + 1)
    <3>1. /\ control_history[i].seq = SeqField(control_history[i].n)
          /\ control_history[i].n <= control_seq
          /\ control_seq - control_history[i].n
               < Pace + (Len(control_history) - i) + Cardinality(Recording)
      BY <2>6 DEF AgeInv
    <3> QED
      BY <2>1, <2>4, <2>5, <3>1
  <2> QED
    BY <2>1, <2>3, <2>6 DEF AgeInv
<1>10. ASSUME NEW c \in Callers, NEW sent \in BOOLEAN, NEW waits \in BOOLEAN,
              Write(c, sent, waits)
       PROVE  AgeInv'
  <2>1. Recording' = Recording
    BY <1>0, <1>10 DEF Write, Return, Recording
  <2> QED
    BY <1>10, <2>1, AgeRests DEF Write
<1>11. ASSUME NEW o \in owed, Answer(o) PROVE AgeInv'
  <2> DEFINE e == In(o.n, o.cmd, o.n)
  <2>1. e \in Entries /\ e.n = o.n /\ e.seq = SeqField(o.n)
    BY EntryFacts, RepliesAssumption DEF RepliesTypeOK
  <2>2. e.n # 0 => e.seq = SeqField(e.n) /\ e.n <= control_seq /\ control_seq < e.n + Pace
    BY <2>1 DEF CallsInv
  <2>3. Record(e, pc) /\ UNCHANGED control_seq
    BY <1>11 DEF Answer
  <2> HIDE DEF e
  <2>4. Recording' = Recording
    BY <1>0, <2>1, <2>3, RecordFacts DEF Recording
  <2>5. /\ Cardinality(Recording)' \in Nat
        /\ Cardinality(Recording) <= Cardinality(Recording)' + 1
    BY <2>4, RecordingFacts
  <2> QED
    BY <1>0, <2>1, <2>2, <2>3, <2>5, RecordFacts, AgeRecords
<1>12. ASSUME NEW e \in {Out} \cup {In(k, x, 0) : k \in 1 .. Numbers, x \in Commands},
              Other(e)
       PROVE  AgeInv'
  <2>1. e \in Entries /\ e.n = 0
    BY OthersAreEntries
  <2>2. Record(e, pc) /\ UNCHANGED control_seq
    BY <1>12 DEF Other
  <2>3. Recording' = Recording
    BY <1>0, <2>1, <2>2, RecordFacts DEF Recording
  <2>4. /\ Cardinality(Recording)' \in Nat
        /\ Cardinality(Recording) <= Cardinality(Recording)' + 1
    BY <2>3, RecordingFacts
  <2> QED
    BY <1>0, <2>1, <2>2, <2>4, RecordFacts, AgeRecords
<1>13. CASE UNCHANGED vars
  BY <1>13, AgeRests DEF vars, calls, Recording
<1> QED
  BY <1>1, <1>2, <1>3, <1>4, <1>5, <1>6, <1>7, <1>8, <1>9, <1>10, <1>11, <1>12,
     <1>13 DEF Next

\* A packet that matches a call which has sent its command answers it, or no call:
\* the others of the same number are gone from the history.
LEMMA MatchingIsTheirs ==
  ASSUME RepliesTypeOK, HistoryOK, CallsInv, AgeInv, NEW c \in Callers,
         pc[c] \in {"scan", "asleep"}
  PROVE  \A e \in Matching(c) : e.dir = "in" /\ e.cmd = cmd[c] /\ e.n \in {0, n[c]}
<1> SUFFICES ASSUME NEW e \in Matching(c), e.n # 0
             PROVE  e.n = n[c]
  BY DEF Matching
<1> DEFINE q == control_history
           k == Cardinality(Recording)
<1>1. PICK i \in 1 .. Len(q) : q[i] = e
  BY RangeFacts DEF Matching, HistoryOK
<1>2. /\ e.seq = SeqField(e.n) /\ e.n <= control_seq
      /\ control_seq - e.n < Pace + (Len(q) - i) + k
  BY <1>1 DEF AgeInv
<1>3. k \in Nat /\ k + 1 <= Cardinality(Callers) /\ Cardinality(Callers) \in Nat
  BY RecordingFacts DEF Recording
<1>4. n[c] \in 1 .. control_seq /\ control_seq < n[c] + Pace
  BY DEF CallsInv, Calling, InCall
<1>5. e \in Entries /\ e.n \in Nat /\ Len(q) \in Nat /\ Len(q) <= HISTORY
  BY <1>1, EntryFacts, ElementOfSeq, LenProperties DEF HistoryOK
<1>6. control_seq \in Nat
  BY RepliesAssumption DEF RepliesTypeOK
<1> DEFINE m == e.n
           o == n[c]
           l == Len(q)
           size == Cardinality(Callers)
<1>7. m < o + Numbers /\ o < m + Numbers /\ o \in Nat /\ m \in Nat
  <2>1. /\ Pace \in Nat /\ HISTORY \in Nat /\ HISTORY >= 1 /\ Numbers \in Nat
        /\ Pace + HISTORY + size <= Numbers + 2
    BY RepliesAssumption
  <2>2. /\ m <= control_seq /\ control_seq - m < Pace + (l - i) + k
        /\ k \in Nat /\ k + 1 <= size /\ size \in Nat
        /\ o \in 1 .. control_seq /\ control_seq < o + Pace
        /\ m \in Nat /\ l \in Nat /\ l <= HISTORY /\ i \in 1 .. l
    BY <1>1, <1>2, <1>3, <1>4, <1>5
  <2> HIDE DEF q, k, m, o, l, size
  <2> QED
    BY <1>6, <2>1, <2>2
<1>8. SeqField(m) = SeqField(o)
  BY <1>2 DEF Matching
<1>9. m = o
  <2> HIDE DEF q, k, m, o, l, size
  <2> QED
    BY <1>7, <1>8, FieldFacts
<1> QED
  BY <1>9

LEMMA TheirsStep ==
  RepliesTypeOK /\ HistoryOK /\ CallsInv /\ AgeInv /\ RepliesAreTheirs /\ [Next]_vars
    => RepliesAreTheirs'
<1> SUFFICES ASSUME RepliesTypeOK, HistoryOK, CallsInv, AgeInv, RepliesAreTheirs,
                    [Next]_vars
             PROVE  RepliesAreTheirs'
  OBVIOUS
<1>0. /\ replies \in [Callers -> SUBSET Entries] /\ n \in [Callers -> 0 .. MaxCalls]
      /\ cmd \in [Callers -> Commands \cup {NoCommand}]
  BY DEF RepliesTypeOK
<1>1. ASSUME UNCHANGED <<n, cmd, replies>> PROVE RepliesAreTheirs'
  BY <1>1 DEF RepliesAreTheirs
<1>2. ASSUME NEW c \in Callers, replies'[c] = {},
             \A d \in Callers \ {c} :
               replies'[d] = replies[d] /\ n'[d] = n[d] /\ cmd'[d] = cmd[d]
      PROVE  RepliesAreTheirs'
  BY <1>2 DEF RepliesAreTheirs
<1>3. ASSUME NEW c \in Callers, Hangup(c) PROVE RepliesAreTheirs'
  BY <1>0, <1>2, <1>3 DEF Hangup
<1>4. ASSUME NEW c \in Callers, Scan(c) PROVE RepliesAreTheirs'
  <2>1. UNCHANGED <<n, cmd>> /\ pc[c] \in {"scan", "asleep"}
    BY <1>4 DEF Scan
  <2>2. /\ replies'[c] = replies[c] \/ replies'[c] = {} \/ replies'[c] = Matching(c)
        /\ \A d \in Callers \ {c} : replies'[d] = replies[d]
    BY <1>0, <1>4 DEF Scan, Return
  <2>3. \A e \in Matching(c) : e.dir = "in" /\ e.cmd = cmd[c] /\ e.n \in {0, n[c]}
    BY <2>1, MatchingIsTheirs
  <2> QED
    BY <2>1, <2>2, <2>3 DEF RepliesAreTheirs
<1>5. ASSUME NEW c \in Callers, NEW x \in Commands, NEW allow \in BOOLEAN,
             Request(c, x, allow)
      PROVE  RepliesAreTheirs'
  BY <1>0, <1>2, <1>5 DEF Request
<1>6. ASSUME NEW c \in Callers, NEW sent \in BOOLEAN, NEW waits \in BOOLEAN,
             Write(c, sent, waits)
      PROVE  RepliesAreTheirs'
  BY <1>0, <1>1, <1>2, <1>6 DEF Write, Return
<1>7. CASE Start \/ Close \/ Usb \/ UNCHANGED vars
  BY <1>1, <1>7 DEF Start, Close, Usb, vars, calls
<1>8. ASSUME NEW c \in Callers, Accept(c) \/ RecordOut(c) \/ Expire(c)
      PROVE  RepliesAreTheirs'
  BY <1>1, <1>8 DEF Accept, RecordOut, Expire
<1>9. ASSUME NEW o, Answer(o) PROVE RepliesAreTheirs'
  BY <1>1, <1>9 DEF Answer
<1>10. ASSUME NEW e, Other(e) PROVE RepliesAreTheirs'
  BY <1>1, <1>10 DEF Other
<1> QED
  BY <1>3, <1>4, <1>5, <1>6, <1>7, <1>8, <1>9, <1>10 DEF Next

LEMMA SleepStep ==
  RepliesTypeOK /\ HistoryOK /\ NobodySleepsOverAReply /\ [Next]_vars
    => NobodySleepsOverAReply'
<1> SUFFICES ASSUME RepliesTypeOK, HistoryOK, NobodySleepsOverAReply, [Next]_vars
             PROVE  NobodySleepsOverAReply'
  OBVIOUS
<1>0. /\ pc \in [Callers -> InCall \cup {"off", "recv"}]
      /\ n \in [Callers -> 0 .. MaxCalls]
      /\ cmd \in [Callers -> Commands \cup {NoCommand}]
  BY DEF RepliesTypeOK
<1>1. ASSUME UNCHANGED control_history,
             \A c \in Callers : pc'[c] = "asleep" =>
               pc[c] = "asleep" /\ n'[c] = n[c] /\ cmd'[c] = cmd[c]
      PROVE  NobodySleepsOverAReply'
  BY <1>1 DEF NobodySleepsOverAReply, Matching
<1>2. ASSUME \A c \in Callers : pc'[c] # "asleep"
      PROVE  NobodySleepsOverAReply'
  BY <1>2 DEF NobodySleepsOverAReply
<1>3. CASE Start \/ Close \/ Usb \/ UNCHANGED vars
  BY <1>1, <1>3 DEF Start, Close, Usb, vars, calls
<1>4. ASSUME NEW c \in Callers, Accept(c) PROVE NobodySleepsOverAReply'
  BY <1>0, <1>1, <1>4 DEF Accept
<1>5. ASSUME NEW c \in Callers, Hangup(c) PROVE NobodySleepsOverAReply'
  BY <1>0, <1>1, <1>5 DEF Hangup
<1>6. ASSUME NEW c \in Callers, RecordOut(c) PROVE NobodySleepsOverAReply'
  <2> DEFINE at == [pc EXCEPT ![c] = "write"]
  <2>1. at \in [Callers -> InCall \cup {"off", "recv"}] /\ Record(Out, at) /\ Out \in Entries
    BY <1>0, <1>6, EntryFacts DEF RecordOut, InCall
  <2> HIDE DEF at
  <2> QED
    BY <1>2, <2>1, RecordFacts
<1>7. ASSUME NEW c \in Callers, Scan(c) PROVE NobodySleepsOverAReply'
  <2>1. UNCHANGED <<control_history, n, cmd>>
    BY <1>7 DEF Scan
  <2>2. \A d \in Callers : Matching(d)' = Matching(d)
    BY <2>1 DEF Matching
  <2>3. /\ \A d \in Callers \ {c} : pc'[d] = pc[d]
        /\ pc'[c] = "asleep" => Matching(c) = {}
    BY <1>0, <1>7 DEF Scan, Return
  <2> QED
    BY <2>2, <2>3 DEF NobodySleepsOverAReply
<1>8. ASSUME NEW c \in Callers, Expire(c) PROVE NobodySleepsOverAReply'
  BY <1>1, <1>8 DEF Expire
<1>9. ASSUME NEW c \in Callers, NEW x \in Commands, NEW allow \in BOOLEAN,
             Request(c, x, allow)
      PROVE  NobodySleepsOverAReply'
  BY <1>0, <1>1, <1>9 DEF Request
<1>10. ASSUME NEW c \in Callers, NEW sent \in BOOLEAN, NEW waits \in BOOLEAN,
              Write(c, sent, waits)
       PROVE  NobodySleepsOverAReply'
  BY <1>0, <1>1, <1>10 DEF Write, Return
<1>11. ASSUME NEW o \in owed, Answer(o) PROVE NobodySleepsOverAReply'
  <2>1. In(o.n, o.cmd, o.n) \in Entries
    BY EntryFacts, RepliesAssumption DEF RepliesTypeOK
  <2> QED
    BY <1>0, <1>2, <1>11, <2>1, RecordFacts DEF Answer
<1>12. ASSUME NEW e \in {Out} \cup {In(k, x, 0) : k \in 1 .. Numbers, x \in Commands},
              Other(e)
       PROVE  NobodySleepsOverAReply'
  <2>1. e \in Entries
    BY OthersAreEntries
  <2> QED
    BY <1>0, <1>2, <1>12, <2>1, RecordFacts DEF Other
<1> QED
  BY <1>3, <1>4, <1>5, <1>6, <1>7, <1>8, <1>9, <1>10, <1>11, <1>12 DEF Next

\* Numbers of calls in progress differ in the field, too.
LEMMA CallsHaveFields == RepliesTypeOK /\ CallsInv => NumbersDiffer
<1> SUFFICES ASSUME RepliesTypeOK, CallsInv, NEW c \in Callers, NEW d \in Callers,
                    Calling(c), Calling(d), c # d
             PROVE  SeqField(n[c]) # SeqField(n[d])
  BY DEF NumbersDiffer
<1>1. /\ n[c] \in 1 .. control_seq /\ control_seq < n[c] + Pace
      /\ n[d] \in 1 .. control_seq /\ control_seq < n[d] + Pace
      /\ n[c] # n[d] /\ control_seq \in Nat
  BY RepliesAssumption DEF CallsInv, RepliesTypeOK
<1>2. Pace <= Numbers
  <2>1. Cardinality(Callers) >= 1
    BY RepliesAssumption, FS_EmptySet, FS_CardinalityType
  <2> QED
    BY <2>1, RepliesAssumption, FS_CardinalityType
<1>3. n[c] < n[d] + Numbers /\ n[d] < n[c] + Numbers
  BY <1>1, <1>2, RepliesAssumption
<1> QED
  BY <1>1, <1>3, FieldFacts

LEMMA ReplyInit == Init => ReplyInv
<1> SUFFICES ASSUME Init PROVE ReplyInv
  OBVIOUS
<1>1. HistoryOK /\ Range(control_history) = {} /\ Len(control_history) = 0
  <2>1. <<>> \in Seq(Entries) /\ Len(<<>>) = 0
    BY EmptySeq
  <2>2. Range(<<>>) = {}
    BY DEF Range
  <2> QED
    BY <2>1, <2>2, RepliesAssumption DEF Init, HistoryOK
<1>2. control_seq \in 0 .. MaxCalls /\ n \in [Callers -> 0 .. MaxCalls]
  BY RepliesAssumption DEF Init
<1>3. Range(control_history) \subseteq Entries
  BY <1>1
<1>4. RepliesTypeOK
  BY <1>2, <1>3 DEF Init, RepliesTypeOK, InCall
<1> QED
  BY <1>1, <1>4 DEF Init, ReplyInv, CallsInv, Calling, InCall, AgeInv, RepliesAreTheirs,
     NobodySleepsOverAReply

\* Every camera command gets replies to itself only, although the numbers wrap, for
\* any number of callers, any length of the history and any field that is as large
\* as RepliesAssumption says; and no caller sleeps over a reply that is there.
THEOREM RepliesAreSafe == Spec => []RepliesInv
<1>1. ReplyInv /\ [Next]_vars => ReplyInv'
  BY RepliesTypeStep, CallsStep, AgeStep, TheirsStep, SleepStep DEF ReplyInv
<1>2. ReplyInv => RepliesInv
  BY CallsHaveFields DEF ReplyInv, RepliesInv
<1> QED
  BY ReplyInit, <1>1, <1>2, PTL DEF Spec
-----------------------------------------------------------------------------
(* USB control *)

Events == U!Requests \cup U!Interruptions

\* No interruption is among the events of q.
Clear(q) == \A i \in 1 .. Len(q) : q[i] \notin U!Interruptions

LEMMA ClearFacts ==
  /\ <<>> \in Seq(Events) /\ Clear(<<>>)
  /\ \A q \in Seq(Events) : q # <<>> =>
       /\ Tail(q) \in Seq(Events)
       /\ Clear(q) => Clear(Tail(q)) /\ Head(q) \notin U!Interruptions
       /\ (\A i \in 2 .. Len(q) : q[i] \notin U!Interruptions) => Clear(Tail(q))
  /\ \A q \in Seq(Events), e \in Events :
       /\ Append(q, e) \in Seq(Events)
       /\ Clear(q) /\ e \notin U!Interruptions => Clear(Append(q, e))
<1>1. <<>> \in Seq(Events) /\ Clear(<<>>)
  BY EmptySeq DEF Clear
<1>2. ASSUME NEW q \in Seq(Events), q # <<>>
      PROVE  /\ Tail(q) \in Seq(Events) /\ Head(q) = q[1] /\ Len(q) \in Nat /\ Len(q) >= 1
             /\ Len(Tail(q)) = Len(q) - 1
             /\ \A i \in 1 .. Len(q) - 1 : Tail(q)[i] = q[i + 1]
  BY <1>2, HeadTailProperties, EmptySeq, LenProperties
<1>3. ASSUME NEW q \in Seq(Events), q # <<>>,
             \A i \in 2 .. Len(q) : q[i] \notin U!Interruptions
      PROVE  Clear(Tail(q))
  <2> SUFFICES ASSUME NEW i \in 1 .. Len(q) - 1
               PROVE  Tail(q)[i] \notin U!Interruptions
    BY <1>2, <1>3 DEF Clear
  <2>1. i + 1 \in 2 .. Len(q) /\ Tail(q)[i] = q[i + 1]
    BY <1>2, <1>3
  <2> QED
    BY <1>3, <2>1
<1>4. ASSUME NEW q \in Seq(Events), q # <<>>, Clear(q)
      PROVE  Clear(Tail(q)) /\ Head(q) \notin U!Interruptions
  <2>1. Len(q) \in Nat /\ Len(q) >= 1 /\ Head(q) = q[1]
    BY <1>2, <1>4
  <2>2. 1 \in 1 .. Len(q) /\ \A i \in 2 .. Len(q) : i \in 1 .. Len(q)
    BY <2>1
  <2> QED
    BY <1>3, <1>4, <2>1, <2>2 DEF Clear
<1>5. ASSUME NEW q \in Seq(Events), NEW e \in Events
      PROVE  /\ Append(q, e) \in Seq(Events)
             /\ Clear(q) /\ e \notin U!Interruptions => Clear(Append(q, e))
  <2>1. /\ Append(q, e) \in Seq(Events) /\ Len(q) \in Nat
        /\ Len(Append(q, e)) = Len(q) + 1 /\ Append(q, e)[Len(q) + 1] = e
        /\ \A i \in 1 .. Len(q) : Append(q, e)[i] = q[i]
    BY AppendProperties, LenProperties
  <2>2. \A i \in 1 .. Len(q) + 1 : i \in 1 .. Len(q) \/ i = Len(q) + 1
    BY <2>1
  <2> QED
    BY <2>1, <2>2 DEF Clear
<1> QED
  BY <1>1, <1>2, <1>3, <1>4, <1>5

UsbTypes ==
  /\ U!UsbTypeOK
  /\ events \in Seq(Events)
  /\ host \in {"away", "default", "normal", "aoa", "accessory", "configured"}

\* While endpoints are about to be enabled there are no handles; handles are
\* forgotten only when a SET_CONFIGURATION takes them away.
HandlesInv ==
  /\ U!EndpointsAreKnown
  /\ ep # {} => forgotten = {}
  /\ usbPc = "enable" => ep = {} /\ ~usbConfigured

\* What goggles were told, and what they have come to be, is the mode of the gadget
\* as long as no interruption is on its way: only one that is handled changes it.
ToldInv ==
  /\ told # {} => told = {mode} /\ Clear(events)
  /\ host \in {"accessory", "configured"} => mode = "accessory" /\ Clear(events)

ControlInv == UsbTypes /\ HandlesInv /\ ToldInv

\* What an answer leaves of ToldInv: told goggles know the mode.
LEMMA AnswerKeepsTold ==
  ASSUME ControlInv, NEW r \in U!Requests, U!Fetch(r), U!Heard(r),
         events' = Tail(events), mode' = mode
  PROVE  /\ ToldInv' /\ events' \in Seq(Events)
         /\ host' \in {"away", "default", "normal", "aoa", "accessory", "configured"}
         /\ asked' \in U!Requests \cup {"none"}
<1>1. /\ events \in Seq(Events) /\ events # <<>> /\ Head(events) = r
      /\ mode \in {"normal", "accessory"}
  BY DEF ControlInv, UsbTypes, U!Fetch, U!UsbTypeOK
<1>2. /\ events' \in Seq(Events)
      /\ Clear(events) => Clear(events)'
  BY <1>1, ClearFacts DEF Clear
<1>3. CASE U!Stale
  <2>1. UNCHANGED <<host, asked, told>>
    BY <1>3 DEF U!Heard, U!goggles
  <2> QED
    BY <1>2, <2>1 DEF ControlInv, ToldInv, UsbTypes, U!UsbTypeOK
<1>4. CASE ~U!Stale
  <2>1. Clear(events)'
    BY <1>1, <1>4, ClearFacts DEF U!Stale, Clear
  <2>2. U!Answered(r)
    BY <1>4 DEF U!Heard
  <2>3. (told # {} => told = {mode})'
    BY <2>2 DEF U!Answered, ControlInv, ToldInv
  <2>4. (host \in {"accessory", "configured"} => mode = "accessory")'
    BY <1>1, <2>2 DEF U!Answered, ControlInv, ToldInv
  <2>5. /\ host' \in {"away", "default", "normal", "aoa", "accessory", "configured"}
        /\ asked' = "none"
    BY <1>1, <2>2 DEF U!Answered, ControlInv, UsbTypes
  <2> QED
    BY <1>2, <2>1, <2>3, <2>4, <2>5 DEF ToldInv
<1> QED
  BY <1>3, <1>4

LEMMA BumpFact == ASSUME ControlInv, U!Bump \/ UNCHANGED bumps PROVE bumps' \in 0 .. Bumps
  BY ServicesAssumption DEF ControlInv, UsbTypes, U!UsbTypeOK, U!Bump, U!UsbAssumption

\* What ep_disable leaves enabled is forgotten.
LEMMA ResetFacts ==
  ASSUME ControlInv, NEW m, U!reset(m), usbPc = "fetch", usbPc' = usbPc
  PROVE  HandlesInv' /\ bumps' \in 0 .. Bumps /\ enabled' \subseteq U!Bulk
<1>1. PICK kept \in SUBSET ep :
        /\ enabled' = (enabled \ ep) \cup kept
        /\ forgotten' = forgotten \cup kept
        /\ U!Bump \/ UNCHANGED bumps
  BY DEF U!reset
<1>2. /\ ep' = {} /\ ~usbConfigured' /\ enabled = ep \cup forgotten /\ ep \subseteq U!Bulk
      /\ ep # {} => forgotten = {}
  BY DEF U!reset, ControlInv, HandlesInv, UsbTypes, U!EndpointsAreKnown, U!UsbTypeOK, U!Bulk
<1>3. kept \subseteq U!Bulk /\ enabled \subseteq U!Bulk
  BY <1>1, <1>2 DEF ControlInv, UsbTypes, U!UsbTypeOK
<1>4. enabled' \subseteq U!Bulk
  BY <1>1, <1>3
<1>5. enabled' = forgotten'
  BY <1>1, <1>2
<1>6. enabled' = ep' \cup forgotten'
  BY <1>2, <1>5
<1>7. bumps' \in 0 .. Bumps
  BY <1>1, BumpFact
<1>8. HandlesInv'
  BY <1>2, <1>6 DEF HandlesInv, U!EndpointsAreKnown
<1> QED
  BY <1>4, <1>7, <1>8

\* reset() with an interruption at the head of the queue: nobody is told anything.
LEMMA InterruptionKeepsControl ==
  ASSUME ControlInv, NEW e \in U!Interruptions, U!Fetch(e), NEW m \in {"normal", "accessory"},
         U!reset(m), events' = Tail(events), UNCHANGED <<usbPc, host, asked, told>>
  PROVE  ControlInv'
<1>1. events \in Seq(Events) /\ events # <<>> /\ Head(events) = e /\ usbPc = "fetch"
  BY DEF ControlInv, UsbTypes, U!Fetch
<1>2. events' \in Seq(Events) /\ ~Clear(events)
  BY <1>1, ClearFacts
<1>3. ToldInv'
  BY <1>2 DEF ControlInv, ToldInv
<1>4. HandlesInv' /\ bumps' \in 0 .. Bumps /\ enabled' \subseteq U!Bulk
  BY <1>1, ResetFacts
<1>5. UsbTypes'
  BY <1>2, <1>4 DEF ControlInv, UsbTypes, U!UsbTypeOK, U!reset
<1> QED
  BY <1>3, <1>4, <1>5 DEF ControlInv

\* Closing the descriptor: the goggles are away and nothing is enabled.
LEMMA ClosingKeepsControl ==
  ASSUME ControlInv, U!FdCloses, usbConfigured' = FALSE, ep' = {},
         mode' \in {"normal", "accessory"}, usbPc' \in {"reopen", "ended"},
         bumps' \in 0 .. Bumps
  PROVE  ControlInv'
<1>1. UsbTypes'
  BY ClearFacts DEF UsbTypes, U!UsbTypeOK, U!FdCloses
<1>2. HandlesInv' /\ ToldInv'
  BY DEF HandlesInv, ToldInv, U!EndpointsAreKnown, U!FdCloses
<1> QED
  BY <1>1, <1>2 DEF ControlInv

LEMMA ControlInit == U!Init => ControlInv
<1>1. <<>> \in Seq(Events) /\ 0 \in 0 .. Bumps
  BY ClearFacts, ServicesAssumption DEF U!UsbAssumption
<1>2. U!Init => UsbTypes
  BY <1>1 DEF U!Init, U!InitAt, UsbTypes, U!UsbTypeOK
<1>3. U!Init => HandlesInv /\ ToldInv
  BY DEF U!Init, U!InitAt, HandlesInv, ToldInv, U!EndpointsAreKnown
<1> QED
  BY <1>2, <1>3 DEF ControlInv

\* What the goggles do by themselves: a request, or an interruption after which they
\* know nothing.
LEMMA GogglesKeepControl ==
  ASSUME ControlInv, NEW e \in Events, U!Happens(e), UNCHANGED U!device,
         bumps' \in 0 .. Bumps, asked' \in U!Requests \cup {"none"},
         \/ e \in U!Requests /\ UNCHANGED <<host, told>>
         \/ host' \in {"away", "default"} /\ told' = {}
  PROVE  ControlInv'
<1>1. events' \in Seq(Events) /\ (Clear(events) /\ e \notin U!Interruptions => Clear(events)')
  BY ClearFacts DEF U!Happens, ControlInv, UsbTypes, Clear
<1>2. e \in U!Requests => e \notin U!Interruptions
  BY DEF U!Requests, U!Interruptions
<1>3. UsbTypes'
  BY <1>1 DEF ControlInv, UsbTypes, U!UsbTypeOK, U!device
<1>4. HandlesInv'
  BY DEF ControlInv, HandlesInv, U!EndpointsAreKnown, U!device
<1>5. ToldInv'
  BY <1>1, <1>2 DEF ControlInv, ToldInv, U!device
<1> QED
  BY <1>3, <1>4, <1>5 DEF ControlInv

LEMMA ControlStep == ControlInv /\ [U!Next]_U!vars => ControlInv'
<1> SUFFICES ASSUME ControlInv, [U!Next]_U!vars PROVE ControlInv'
  OBVIOUS
<1>0. \A r \in U!Requests \cup U!Interruptions : r \in Events
  BY DEF Events
<1>1. CASE UNCHANGED U!vars
  BY <1>1 DEF U!vars, U!device, U!goggles, ControlInv, UsbTypes, U!UsbTypeOK, HandlesInv,
     U!EndpointsAreKnown, ToldInv, Clear
<1>2. ASSUME NEW ok \in BOOLEAN, U!Open(ok) PROVE ControlInv'
  <2>1. bumps' \in 0 .. Bumps
    BY <1>2, BumpFact DEF U!Open
  <2> QED
    BY <1>2, <2>1 DEF U!Open, U!goggles, ControlInv, UsbTypes, U!UsbTypeOK, HandlesInv,
       U!EndpointsAreKnown, ToldInv, Clear
<1>3. ASSUME NEW ok \in BOOLEAN, U!Reopen(ok) PROVE ControlInv'
  <2>1. CASE ok
    BY <1>3, <2>1 DEF U!Reopen, U!goggles, ControlInv, UsbTypes, U!UsbTypeOK, HandlesInv,
       U!EndpointsAreKnown, ToldInv, Clear
  <2>2. CASE ~ok
    <3>1. U!Bump /\ U!Die
      BY <1>3, <2>2 DEF U!Reopen
    <3> QED
      BY <3>1, BumpFact, ClosingKeepsControl
         DEF U!Die, ControlInv, UsbTypes, U!UsbTypeOK
  <2> QED
    BY <2>1, <2>2
<1>4. ASSUME NEW r \in U!Requests, U!Reply(r) PROVE ControlInv'
  <2>1. /\ U!Fetch(r) /\ U!Heard(r) /\ events' = Tail(events)
        /\ UNCHANGED <<usbPc, mode, usbConfigured, ep, enabled, forgotten, bumps>>
    BY <1>4 DEF U!Reply, U!device
  <2>2. /\ ToldInv' /\ events' \in Seq(Events)
        /\ host' \in {"away", "default", "normal", "aoa", "accessory", "configured"}
        /\ asked' \in U!Requests \cup {"none"}
    BY <2>1, AnswerKeepsTold
  <2> QED
    BY <2>1, <2>2 DEF ControlInv, UsbTypes, U!UsbTypeOK, HandlesInv, U!EndpointsAreKnown
<1>5. ASSUME NEW r \in U!Requests, U!ReplyFails(r) PROVE ControlInv'
  BY <1>5, BumpFact, ClosingKeepsControl
     DEF U!ReplyFails, U!Die, ControlInv, UsbTypes, U!UsbTypeOK
<1>6. ASSUME NEW r \in U!Requests, U!Ask(r) PROVE ControlInv'
  <2>1. bumps' \in 0 .. Bumps
    BY <1>6, BumpFact DEF U!Ask
  <2> QED
    BY <1>0, <1>6, <2>1, GogglesKeepControl DEF U!Ask
<1>7. CASE U!Start
  BY <1>7, BumpFact, ClosingKeepsControl DEF U!Start, U!Fetch
<1>8. CASE U!SetConfiguration
  <2>1. /\ U!Fetch("set_configuration") /\ U!Heard("set_configuration")
        /\ events' = Tail(events) /\ UNCHANGED <<mode, bumps>>
        /\ "set_configuration" \in U!Requests
    BY <1>8 DEF U!SetConfiguration, U!Fetch, U!device, U!Requests
  <2>2. /\ ToldInv' /\ events' \in Seq(Events)
        /\ host' \in {"away", "default", "normal", "aoa", "accessory", "configured"}
        /\ asked' \in U!Requests \cup {"none"}
    BY <2>1, AnswerKeepsTold
  <2>3. CASE usbConfigured
    <3>1. UNCHANGED <<usbPc, mode, usbConfigured, ep, enabled, forgotten, bumps>>
      BY <1>8, <2>1, <2>3 DEF U!SetConfiguration, U!device
    <3> QED
      BY <2>2, <3>1 DEF ControlInv, UsbTypes, U!UsbTypeOK, HandlesInv, U!EndpointsAreKnown
  <2>4. CASE ~usbConfigured
    <3>1. /\ usbPc' = "enable" /\ ep' = {} /\ forgotten' = forgotten \cup ep
          /\ UNCHANGED <<mode, usbConfigured, enabled>>
      BY <1>8, <2>4 DEF U!SetConfiguration
    <3>2. HandlesInv'
      BY <2>4, <3>1 DEF ControlInv, HandlesInv, U!EndpointsAreKnown
    <3> QED
      BY <2>1, <2>2, <3>1, <3>2 DEF ControlInv, UsbTypes, U!UsbTypeOK
  <2> QED
    BY <2>3, <2>4
<1>9. CASE U!Unconfigure
  <2>1. /\ U!Fetch("set_configuration_0") /\ U!Heard("set_configuration_0")
        /\ events' = Tail(events) /\ U!reset(mode) /\ UNCHANGED usbPc
        /\ "set_configuration_0" \in U!Requests /\ mode' = mode /\ usbPc = "fetch"
    BY <1>9 DEF U!Unconfigure, U!Fetch, U!Requests, U!reset
  <2>2. /\ ToldInv' /\ events' \in Seq(Events)
        /\ host' \in {"away", "default", "normal", "aoa", "accessory", "configured"}
        /\ asked' \in U!Requests \cup {"none"}
    BY <2>1, AnswerKeepsTold
  <2>3. HandlesInv' /\ bumps' \in 0 .. Bumps /\ enabled' \subseteq U!Bulk
    BY <2>1, ResetFacts
  <2> QED
    BY <2>1, <2>2, <2>3 DEF ControlInv, UsbTypes, U!UsbTypeOK, U!reset
<1>10. CASE U!Reset
  <2>1. "reset" \in U!Interruptions /\ mode \in {"normal", "accessory"}
    BY DEF U!Interruptions, ControlInv, UsbTypes, U!UsbTypeOK
  <2> QED
    BY <1>10, <2>1, InterruptionKeepsControl DEF U!Reset, U!goggles
<1>11. CASE U!Disconnect
  <2>1. "disconnect" \in U!Interruptions
    BY DEF U!Interruptions
  <2> QED
    BY <1>11, <2>1, InterruptionKeepsControl DEF U!Disconnect, U!goggles
<1>12. ASSUME NEW ok \in SUBSET U!Bulk, U!Enable(ok) PROVE ControlInv'
  <2>1. bumps' \in 0 .. Bumps
    BY <1>12, BumpFact DEF U!Enable
  <2>2. HandlesInv' /\ enabled' \subseteq U!Bulk
    BY <1>12 DEF U!Enable, U!Bulk, ControlInv, HandlesInv, UsbTypes, U!UsbTypeOK,
       U!EndpointsAreKnown
  <2> QED
    BY <1>12, <2>1, <2>2
       DEF U!Enable, U!goggles, ControlInv, UsbTypes, U!UsbTypeOK, ToldInv, Clear
<1>13. CASE U!TransportLost
  <2>1. bumps' \in 0 .. Bumps
    BY <1>13, BumpFact DEF U!TransportLost
  <2> QED
    BY <1>13, <2>1 DEF U!TransportLost, U!goggles, ControlInv, UsbTypes, U!UsbTypeOK,
       HandlesInv, U!EndpointsAreKnown, ToldInv, Clear
<1>14. CASE U!Attach
  <2>1. "reset" \in Events /\ bumps' \in 0 .. Bumps
    BY <1>14, BumpFact DEF Events, U!Interruptions, U!Attach
  <2> QED
    BY <1>14, <2>1, GogglesKeepControl DEF U!Attach
<1>15. CASE U!BusReset
  <2>1. "reset" \in Events /\ bumps' \in 0 .. Bumps
    BY <1>15, BumpFact DEF Events, U!Interruptions, U!BusReset
  <2> QED
    BY <1>15, <2>1, GogglesKeepControl DEF U!BusReset
<1>16. CASE U!Unplug \/ U!GiveUp
  <2>1. "disconnect" \in Events /\ bumps' \in 0 .. Bumps /\ U!Leave
    BY <1>16, BumpFact DEF Events, U!Interruptions, U!Unplug, U!GiveUp
  <2> QED
    BY <2>1, GogglesKeepControl DEF U!Leave
<1> QED
  BY <1>1, <1>2, <1>3, <1>4, <1>5, <1>6, <1>7, <1>8, <1>9, <1>10, <1>11, <1>12, <1>13,
     <1>14, <1>15, <1>16 DEF U!Next

\* Whatever mix of requests, resets, replugs and errors there is, however far the
\* main thread is behind: the session knows every endpoint that is enabled but those
\* it lost by a SET_CONFIGURATION or a failed ep_disable, goggles get one product id
\* per enumeration, and configured goggles talk to an accessory.
THEOREM UsbIsSafe == U!Spec => []UsbInv
<1>1. ControlInv => UsbInv
  <2> SUFFICES ASSUME ControlInv PROVE UsbInv
    OBVIOUS
  <2>1. U!UsbTypeOK /\ U!EndpointsAreKnown
    BY DEF ControlInv, UsbTypes, HandlesInv
  <2>2. U!ProductIdIsStable
    BY DEF ControlInv, UsbTypes, U!UsbTypeOK, ToldInv, U!ProductIdIsStable
  <2>3. U!HostAndDeviceAgree
    BY DEF ControlInv, ToldInv, U!HostAndDeviceAgree
  <2> QED
    BY <2>1, <2>2, <2>3 DEF UsbInv, U!UsbInv
<1> QED
  BY ControlInit, ControlStep, <1>1, PTL DEF U!Spec
-----------------------------------------------------------------------------
(* Preview *)

\* A thread that uses a process has one; one that found the end of its stream is
\* right about that.
ThreadsInv ==
  /\ V!PreviewTypeOK
  /\ state \in [Procs -> {"runs", "hung", "deaf", "dead"}]
  /\ late \in BOOLEAN /\ overdue \in BOOLEAN
  /\ writer \in {"write", "broken", "kill"} => wproc \in Procs
  /\ reader \in {"read", "empty"} => rproc \in Procs
  /\ reader = "empty" => state[rproc] = "dead"
  /\ closing \in {"stdin", "end"} => cproc \in Procs

\* close() has taken the process, and a late one is the only one that comes after;
\* threads that ended in time stay so.
ClosingInv ==
  /\ closing \in {"stdin", "end", "join", "closed"} /\ ~late => process = None
  /\ closing = "closed" /\ ~overdue => writer = "done" /\ reader = "done"

EncoderInv == ThreadsInv /\ ClosingInv /\ V!OneEncoder /\ V!ClosedIsClean

LEMMA NoneIsNoProcess == None \notin Procs /\ QueueSize \in Nat \ {0}
  BY ServicesAssumption DEF V!PreviewAssumption

\* What _ensure_process does for either thread.
LEMMA EnsuredFacts ==
  ASSUME EncoderInv, NEW p \in Procs \cup {None}, V!Ensured(p)
  PROVE  /\ late' \in BOOLEAN /\ (late => late')
         /\ state' \in [Procs -> {"runs", "hung", "deaf", "dead"}]
         /\ process' \in Procs \cup {None}
         /\ process' # process => /\ p \in Procs /\ process' = p
                                  /\ ~late' => closing \in {"no", "take"}
         /\ \A r \in Procs : V!Up(r)' => V!Up(r) \/ r = process'
         /\ ~V!Up(process) \/ process' = process
         /\ reader = "empty" => state'[rproc] = "dead"
<1> USE NoneIsNoProcess DEF V!Up
<1>0. /\ state \in [Procs -> {"runs", "hung", "deaf", "dead"}]
      /\ late \in BOOLEAN /\ process \in Procs \cup {None}
      /\ reader = "empty" => rproc \in Procs /\ state[rproc] = "dead"
  BY DEF EncoderInv, ThreadsInv, V!PreviewTypeOK
<1>1. CASE UNCHANGED <<process, state, late>>
  BY <1>0, <1>1
<1>2. CASE /\ ~V!Up(process) /\ p # None /\ V!Unused(p)
           /\ process' = p /\ state' = [state EXCEPT ![p] = "runs"]
           /\ late' = (late \/ closing \notin {"no", "take"})
  <2>1. p \in Procs /\ p # rproc
    BY <1>2 DEF V!Unused
  <2>2. \A r \in Procs : r # p => state'[r] = state[r]
    BY <1>0, <1>2
  <2>3. state' \in [Procs -> {"runs", "hung", "deaf", "dead"}]
    BY <1>0, <1>2
  <2>4. late' \in BOOLEAN /\ (late => late') /\ (~late' => closing \in {"no", "take"})
    BY <1>0, <1>2
  <2> QED
    BY <1>0, <1>2, <2>1, <2>2, <2>3, <2>4
<1> QED
  BY <1>1, <1>2 DEF V!Ensured, V!ext

LEMMA EncoderInit == V!Init => EncoderInv
<1> SUFFICES ASSUME V!Init PROVE EncoderInv
  OBVIOUS
<1>1. ThreadsInv
  <2>1. queue \in 0 .. QueueSize
    BY NoneIsNoProcess DEF V!Init, V!InitAt
  <2>2. state \in [Procs -> {"runs", "hung", "deaf", "dead"}]
    BY DEF V!Init, V!InitAt
  <2>3. {process, wproc, rproc, cproc} \subseteq Procs \cup {None}
    BY DEF V!Init, V!InitAt
  <2> QED
    BY <2>1, <2>2, <2>3 DEF V!Init, V!InitAt, ThreadsInv, V!PreviewTypeOK
<1>2. ClosingInv /\ V!OneEncoder /\ V!ClosedIsClean
  BY DEF V!Init, V!InitAt, ClosingInv, V!OneEncoder, V!ClosedIsClean, V!Up
<1> QED
  BY <1>1, <1>2 DEF EncoderInv

LEMMA ThreadsStep == EncoderInv /\ [V!Next]_V!vars => ThreadsInv'
<1> SUFFICES ASSUME EncoderInv, [V!Next]_V!vars PROVE ThreadsInv'
  OBVIOUS
<1>0. ThreadsInv
  BY DEF EncoderInv
<1> USE NoneIsNoProcess, <1>0 DEF ThreadsInv, V!PreviewTypeOK, V!threads, V!ends, V!ext
<1>1. CASE UNCHANGED V!vars
  BY <1>1 DEF V!vars
<1>2. CASE V!push \/ V!reset
  <2>1. queue' \in 0 .. QueueSize
    BY <1>2 DEF V!push, V!reset
  <2>2. /\ UNCHANGED <<process, writer, wproc, reader, rproc, closing, cproc, overdue>>
        /\ UNCHANGED <<state, late>> /\ picture' \in BOOLEAN
    BY <1>2 DEF V!push, V!reset
  <2> QED
    BY <2>1, <2>2
<1>3. CASE V!WriterGets
  <2>1. queue' \in 0 .. QueueSize
    BY <1>3 DEF V!WriterGets
  <2> QED
    BY <1>3, <2>1 DEF V!WriterGets
<1>4. CASE V!WriterEnsures
  <2>1. PICK p \in Procs \cup {None} :
          /\ V!Ensured(p) /\ wproc' = p
          /\ writer' = IF p = None THEN "get" ELSE "write"
    BY <1>4 DEF V!WriterEnsures
  <2>2. UNCHANGED <<queue, reader, rproc, stop_event, closing, cproc, overdue, picture>>
    BY <1>4 DEF V!WriterEnsures
  <2> QED
    BY <2>1, <2>2, EnsuredFacts
<1>5. CASE V!Write \/ V!Forget \/ V!ReaderForgets \/ V!Read
  BY <1>5, ZenonT(40) DEF V!Write, V!Forget, V!ReaderForgets, V!Read
<1>6. CASE V!Kill
  BY <1>6 DEF V!Kill
<1>7. CASE V!ReaderEnsures
  <2>0. UNCHANGED <<queue, writer, wproc, stop_event, closing, cproc, overdue, picture>>
    BY <1>7 DEF V!ReaderEnsures
  <2>1. CASE stop_event
    BY <1>7, <2>0, <2>1 DEF V!ReaderEnsures
  <2>2. CASE ~stop_event
    <3>1. PICK p \in Procs \cup {None} :
            /\ V!Ensured(p) /\ rproc' = p
            /\ reader' = IF p = None THEN "top" ELSE "read"
      BY <1>7, <2>2 DEF V!ReaderEnsures
    <3> QED
      BY <2>0, <3>1, EnsuredFacts
  <2> QED
    BY <2>1, <2>2
<1>8. CASE V!Close \/ V!Take \/ V!CloseStdin
  BY <1>8 DEF V!Close, V!Take, V!CloseStdin
<1>9. CASE V!JoinThreads
  <2>1. queue' \in 0 .. QueueSize /\ overdue' \in BOOLEAN
    BY <1>9 DEF V!JoinThreads
  <2> QED
    BY <1>9, <2>1 DEF V!JoinThreads
<1>10. CASE V!Terminate
  BY <1>10 DEF V!Terminate
<1>11. ASSUME NEW p \in Procs, V!Fail(p) PROVE ThreadsInv'
  BY <1>11 DEF V!Fail, V!Up
<1> QED
  BY <1>1, <1>2, <1>3, <1>4, <1>5, <1>6, <1>7, <1>8, <1>9, <1>10, <1>11
     DEF V!Next, V!Writer, V!Reader, V!Closer

LEMMA ClosingStep == EncoderInv /\ [V!Next]_V!vars => ClosingInv'
<1> SUFFICES ASSUME EncoderInv, [V!Next]_V!vars PROVE ClosingInv'
  OBVIOUS
<1>0. ClosingInv /\ ThreadsInv
  BY DEF EncoderInv
<1> USE <1>0 DEF ClosingInv, V!threads, V!ends, V!ext
<1>1. CASE UNCHANGED V!vars
  BY <1>1 DEF V!vars
<1>2. CASE V!push \/ V!reset \/ V!WriterGets \/ V!Write \/ V!Forget \/ V!Kill
  BY <1>2 DEF V!push, V!reset, V!WriterGets, V!Write, V!Forget, V!Kill
<1>3. CASE V!WriterEnsures
  <2>1. PICK p \in Procs \cup {None} : V!Ensured(p)
    BY <1>3 DEF V!WriterEnsures
  <2>2. UNCHANGED <<reader, closing, overdue>> /\ writer = "ensure"
    BY <1>3 DEF V!WriterEnsures
  <2> QED
    BY <2>1, <2>2, EnsuredFacts DEF ThreadsInv
<1>4. CASE V!ReaderEnsures
  <2>0. UNCHANGED <<writer, closing, overdue>> /\ reader = "top"
    BY <1>4 DEF V!ReaderEnsures
  <2>1. CASE stop_event
    BY <1>4, <2>0, <2>1 DEF V!ReaderEnsures
  <2>2. CASE ~stop_event
    <3>1. PICK p \in Procs \cup {None} : V!Ensured(p)
      BY <1>4, <2>2 DEF V!ReaderEnsures
    <3> QED
      BY <2>0, <3>1, EnsuredFacts DEF ThreadsInv
  <2> QED
    BY <2>1, <2>2
<1>5. CASE V!Read \/ V!ReaderForgets
  BY <1>5 DEF V!Read, V!ReaderForgets
<1>6. CASE V!Close \/ V!Take \/ V!CloseStdin \/ V!Terminate \/ V!JoinThreads
  BY <1>6 DEF V!Close, V!Take, V!CloseStdin, V!Terminate, V!JoinThreads
<1>7. ASSUME NEW p \in Procs, V!Fail(p) PROVE ClosingInv'
  BY <1>7 DEF V!Fail
<1> QED
  BY <1>1, <1>2, <1>3, <1>4, <1>5, <1>6, <1>7 DEF V!Next, V!Writer, V!Reader, V!Closer

\* A running encoder has an owner: the preview, the writer about to kill it, close().
Owned(p) ==
  \/ p = process
  \/ p = wproc /\ writer = "kill"
  \/ p = cproc /\ closing \in {"stdin", "end"}

\* Starting one gives none away: the preview's own is gone.
LEMMA EnsuringKeepsOwners ==
  ASSUME EncoderInv, NEW p \in Procs \cup {None}, V!Ensured(p), writer # "kill",
         UNCHANGED <<closing, cproc>>
  PROVE  V!OneEncoder'
<1> SUFFICES ASSUME ~late', NEW r \in Procs, V!Up(r)' PROVE Owned(r)'
  BY DEF V!OneEncoder, Owned
<1>1. ~late /\ (V!Up(r) \/ r = process')
  BY EnsuredFacts
<1>2. V!Up(r) => Owned(r)
  BY <1>1 DEF EncoderInv, V!OneEncoder, Owned
<1>3. CASE V!Up(process)
  BY <1>1, <1>2, <1>3, EnsuredFacts DEF Owned
<1>4. CASE ~V!Up(process)
  BY <1>1, <1>2, <1>4 DEF Owned
<1> QED
  BY <1>3, <1>4

LEMMA OwnersStep == EncoderInv /\ [V!Next]_V!vars => V!OneEncoder'
<1> SUFFICES ASSUME EncoderInv, [V!Next]_V!vars PROVE V!OneEncoder'
  OBVIOUS
<1>0. ThreadsInv /\ V!OneEncoder
  BY DEF EncoderInv
<1> USE NoneIsNoProcess, <1>0 DEF V!OneEncoder, V!Up, V!threads, V!ends, V!ext
<1>1. CASE UNCHANGED V!vars
  BY <1>1 DEF V!vars
<1>2. CASE V!push \/ V!reset \/ V!WriterGets \/ V!Write \/ V!Forget
  BY <1>2 DEF V!push, V!reset, V!WriterGets, V!Write, V!Forget
<1>3. CASE V!Kill
  <2>1. wproc \in Procs /\ state \in [Procs -> {"runs", "hung", "deaf", "dead"}]
    BY <1>3 DEF V!Kill, ThreadsInv
  <2> QED
    BY <1>3, <2>1 DEF V!Kill
<1>4. CASE V!WriterEnsures
  <2>1. PICK p \in Procs \cup {None} : V!Ensured(p)
    BY <1>4 DEF V!WriterEnsures
  <2> QED
    BY <1>4, <2>1, EnsuringKeepsOwners DEF V!WriterEnsures
<1>5. CASE V!ReaderEnsures
  <2>1. CASE stop_event
    BY <1>5, <2>1 DEF V!ReaderEnsures
  <2>2. CASE ~stop_event
    <3>1. PICK p \in Procs \cup {None} : V!Ensured(p)
      BY <1>5, <2>2 DEF V!ReaderEnsures
    <3>2. CASE V!Up(process)
      BY <1>5, <3>1, <3>2, EnsuredFacts DEF V!ReaderEnsures
    <3>3. CASE ~V!Up(process)
      <4> SUFFICES ASSUME ~late', NEW r \in Procs, V!Up(r)' PROVE Owned(r)'
        BY DEF Owned
      <4>1. ~late /\ (V!Up(r) \/ r = process')
        BY <3>1, EnsuredFacts
      <4>2. UNCHANGED <<writer, wproc, closing, cproc>>
        BY <1>5 DEF V!ReaderEnsures
      <4> QED
        BY <3>3, <4>1, <4>2 DEF Owned
    <3> QED
      BY <3>2, <3>3
  <2> QED
    BY <2>1, <2>2
<1>6. CASE V!Read
  BY <1>6 DEF V!Read
<1>7. CASE V!ReaderForgets
  <2>1. rproc \in Procs /\ state[rproc] = "dead"
    BY <1>7 DEF V!ReaderForgets, ThreadsInv
  <2> QED
    BY <1>7, <2>1 DEF V!ReaderForgets
<1>8. CASE V!Close \/ V!Take \/ V!CloseStdin \/ V!JoinThreads
  BY <1>8 DEF V!Close, V!Take, V!CloseStdin, V!JoinThreads
<1>9. CASE V!Terminate
  <2>1. cproc \in Procs /\ state \in [Procs -> {"runs", "hung", "deaf", "dead"}]
    BY <1>9 DEF V!Terminate, ThreadsInv
  <2> QED
    BY <1>9, <2>1 DEF V!Terminate
<1>10. ASSUME NEW p \in Procs, V!Fail(p) PROVE V!OneEncoder'
  <2>1. state \in [Procs -> {"runs", "hung", "deaf", "dead"}]
    BY DEF ThreadsInv
  <2>2. \A r \in Procs : V!Up(r)' => V!Up(r)
    BY <1>10, <2>1 DEF V!Fail
  <2> QED
    BY <1>10, <2>2 DEF V!Fail
<1> QED
  BY <1>1, <1>2, <1>3, <1>4, <1>5, <1>6, <1>7, <1>8, <1>9, <1>10
     DEF V!Next, V!Writer, V!Reader, V!Closer

LEMMA CleanStep == EncoderInv /\ [V!Next]_V!vars => V!ClosedIsClean'
<1> SUFFICES ASSUME EncoderInv, [V!Next]_V!vars, (closing = "closed" /\ ~overdue /\ ~late)'
             PROVE  ~picture' /\ \A p \in Procs : ~V!Up(p)'
  BY DEF V!ClosedIsClean
<1> USE DEF V!threads, V!ends, V!ext
<1>1. CASE closing = "closed"
  <2>1. overdue' = overdue /\ ~late
    <3>1. CASE V!WriterEnsures
      BY <3>1, EnsuredFacts DEF V!WriterEnsures
    <3>2. CASE V!ReaderEnsures
      BY <3>2, EnsuredFacts DEF V!ReaderEnsures
    <3>3. CASE ~V!WriterEnsures /\ ~V!ReaderEnsures
      BY <1>1, <3>3 DEF V!Next, V!Writer, V!Reader, V!Closer, V!vars, V!push, V!reset,
         V!WriterGets, V!Write, V!Forget, V!Kill, V!Read, V!ReaderForgets, V!Close,
         V!Take, V!CloseStdin, V!Terminate, V!JoinThreads, V!Fail
    <3> QED
      BY <3>1, <3>2, <3>3
  <2>2. /\ ~picture /\ \A p \in Procs : ~V!Up(p)
        /\ writer = "done" /\ reader = "done"
    BY <1>1, <2>1 DEF EncoderInv, ClosingInv, V!ClosedIsClean
  <2> QED
    BY <1>1, <2>2 DEF V!Next, V!Writer, V!Reader, V!Closer, V!vars, V!push, V!reset, V!Up,
       V!WriterGets, V!WriterEnsures, V!Write, V!Forget, V!Kill, V!ReaderEnsures, V!Read,
       V!ReaderForgets, V!Close, V!Take, V!CloseStdin, V!Terminate, V!JoinThreads, V!Fail
<1>2. CASE closing # "closed"
  <2>1. V!JoinThreads
    BY <1>2 DEF V!Next, V!Writer, V!Reader, V!Closer, V!vars, V!push, V!reset,
       V!WriterGets, V!WriterEnsures, V!Write, V!Forget, V!Kill, V!ReaderEnsures, V!Read,
       V!ReaderForgets, V!Close, V!Take, V!CloseStdin, V!Terminate, V!Fail
  <2>2. /\ closing = "join" /\ writer = "done" /\ ~late /\ ~picture'
        /\ UNCHANGED <<process, state>>
    BY <2>1 DEF V!JoinThreads
  <2>3. process = None /\ \A p \in Procs : V!Up(p) => p = process
    BY <2>2 DEF EncoderInv, ClosingInv, V!OneEncoder
  <2> QED
    BY <2>2, <2>3 DEF V!Up
<1> QED
  BY <1>1, <1>2

\* Two threads that start the encoder, three places that forget it and encoders that
\* fail at any moment: one of them runs at most, and close() leaves none, except
\* for one that was started while close() was under way.
THEOREM PreviewIsSafe == V!Spec => []PreviewInv
<1>1. EncoderInv /\ [V!Next]_V!vars => EncoderInv'
  BY ThreadsStep, ClosingStep, OwnersStep, CleanStep DEF EncoderInv
<1>2. EncoderInv => PreviewInv
  BY DEF EncoderInv, ThreadsInv, PreviewInv, V!PreviewInv
<1> QED
  BY EncoderInit, <1>1, <1>2, PTL DEF V!Spec
-----------------------------------------------------------------------------
(* Output profile *)

\* What build_command returns, at any moment.
Built == [version : Nat, settings : O!Settings, live : SUBSET O!Connectors,
          sinks : SUBSET {0, 1, 2}, applied : BOOLEAN]

\* AppliedIsShown of one command.
Shown(c) ==
  c # O!NoPlayer /\ c.applied =>
    CASE c.settings.out = "all" -> c.sinks = c.live /\ c.live # {}
      [] c.settings.out = "1" -> c.sinks = {1} /\ 1 \in c.live
      [] c.settings.out = "2" -> 2 \in c.live => c.sinks = {2}

\* A command that was built from settings that had been written, and shows what it
\* says.
Fine(c) == c \in Built /\ c.version <= saves /\ Shown(c)

CommandsInv ==
  /\ O!ProfileTypeOK /\ overtaken \in BOOLEAN
  /\ Fine(profile)
  /\ player = O!NoPlayer \/ Fine(player)
  /\ thread = "spawn" => Fine(built)
  /\ fresh \in [Callers -> Built \cup {O!NoPlayer}]
  /\ \A c \in Callers : api[c] # "idle" => Fine(fresh[c])
  /\ promised <= saves

\* The newest settings that were promised are, or will be, those of the player,
\* unless the reload was overtaken: also while the player is being started.
PromiseInv ==
  /\ O!ReloadTakesEffect
  /\ thread = "spawn" /\ built.version < promised => overtaken

LEMMA LiveFacts == CommandsInv => O!Live \subseteq {1, 2}
  BY ServicesAssumption DEF O!ProfileAssumption, O!Live, O!Connectors

LEMMA LoadFacts == O!ProfileTypeOK => O!load(file) \in O!Settings
<1> SUFFICES ASSUME O!ProfileTypeOK PROVE O!load(file) \in O!Settings
  OBVIOUS
<1>1. O!Default \in O!Settings
  BY DEF O!Default, O!Settings
<1>2. file.settings \in O!Settings
  BY DEF O!ProfileTypeOK, O!Files
<1> QED
  BY <1>1, <1>2 DEF O!load

\* A command without pending parts shows on what was live.
LEMMA AppliedChoice ==
  ASSUME NEW s \in O!Settings, O!Pending(s) = {}
  PROVE  /\ s.out = "all" => O!Chosen(s) = O!Live /\ O!Live # {}
         /\ s.out = "1" => O!Chosen(s) = {1} /\ 1 \in O!Live
         /\ s.out = "2" => (2 \in O!Live => O!Chosen(s) = {2})
<1>1. /\ s.out = "all" => O!Live # {}
      /\ s.out = "1" => 1 \in O!Live
  BY DEF O!Pending
<1>2. CASE s.out = "all"
  BY <1>1, <1>2 DEF O!Chosen
<1>3. CASE s.out = "1"
  BY <1>1, <1>3 DEF O!Chosen
<1>4. CASE s.out = "2"
  BY <1>4 DEF O!Chosen, O!Live
<1> QED
  BY <1>2, <1>3, <1>4 DEF O!Settings

LEMMA BuildFacts ==
  ASSUME O!ProfileTypeOK
  PROVE  Fine(O!build_command) /\ O!build_command.version = saves
<1> DEFINE s == O!load(file)
<1>0. s \in O!Settings /\ s.out \in {"all", "1", "2"}
  BY LoadFacts DEF O!Settings
<1>1. O!Live \subseteq O!Connectors
  BY ServicesAssumption DEF O!ProfileAssumption, O!Live
<1>2. O!Chosen(s) \subseteq {0, 1, 2}
  <2>1. O!Live \subseteq {0, 1, 2}
    BY <1>1 DEF O!Connectors
  <2>2. CASE s.out = "all"
    BY <2>1, <2>2 DEF O!Chosen
  <2>3. CASE s.out = "1"
    BY <2>1, <2>3 DEF O!Chosen
  <2>4. CASE s.out = "2"
    BY <2>1, <2>4 DEF O!Chosen
  <2> QED
    BY <1>0, <2>2, <2>3, <2>4
<1>3. saves \in Nat
  BY ServicesAssumption DEF O!ProfileTypeOK, O!ProfileAssumption
<1> DEFINE sinks == IF O!Chosen(s) = {} THEN {O!Placeholder} ELSE O!Chosen(s)
           b == [version |-> saves, settings |-> s, live |-> O!Live, sinks |-> sinks,
                 applied |-> O!Pending(s) = {}]
<1>4. O!build_command = b
  BY DEF O!build_command
<1>5. sinks \subseteq {0, 1, 2}
  BY <1>2 DEF O!Placeholder
<1>6. b \in Built
  <2>1. (O!Pending(s) = {}) \in BOOLEAN
    OBVIOUS
  <2> HIDE DEF s, sinks
  <2> QED
    BY <1>0, <1>1, <1>3, <1>5, <2>1 DEF Built
<1>7. Shown(b)
  <2> SUFFICES ASSUME b.applied
               PROVE  CASE b.settings.out = "all" -> b.sinks = b.live /\ b.live # {}
                        [] b.settings.out = "1" -> b.sinks = {1} /\ 1 \in b.live
                        [] b.settings.out = "2" -> 2 \in b.live => b.sinks = {2}
    BY DEF Shown
  <2>1. /\ b.settings = s /\ b.sinks = sinks /\ b.live = O!Live
        /\ O!Pending(s) = {}
    OBVIOUS
  <2>2. /\ s.out = "all" => O!Chosen(s) = O!Live /\ O!Live # {}
        /\ s.out = "1" => O!Chosen(s) = {1} /\ 1 \in O!Live
        /\ s.out = "2" => (2 \in O!Live => O!Chosen(s) = {2})
    BY <1>0, <2>1, AppliedChoice
  <2>3. /\ s.out = "all" => sinks = O!Live /\ O!Live # {}
        /\ s.out = "1" => sinks = {1} /\ 1 \in O!Live
        /\ s.out = "2" => (2 \in O!Live => sinks = {2})
    BY <2>2
  <2> HIDE DEF s, sinks, b
  <2> QED
    BY <1>0, <2>1, <2>3
<1>8. b.version = saves
  OBVIOUS
<1> HIDE DEF b
<1> QED
  BY <1>3, <1>4, <1>6, <1>7, <1>8 DEF Fine

\* Commands stay fine when settings are written again.
LEMMA StillFine ==
  ASSUME saves \in Nat, saves' \in Nat, saves <= saves', NEW c, Fine(c)
  PROVE  c \in Built /\ c.version <= saves' /\ Shown(c)
<1>1. c \in Built /\ c.version \in Nat /\ c.version <= saves /\ Shown(c)
  BY DEF Fine, Built
<1> QED
  BY <1>1

LEMMA CommandsInit == O!Init => CommandsInv /\ PromiseInv
<1> SUFFICES ASSUME O!Init PROVE CommandsInv /\ PromiseInv
  OBVIOUS
<1>1. O!ProfileTypeOK
  <2>1. file \in O!Files
    <3>1. O!Default \in O!Settings
      BY DEF O!Default, O!Settings
    <3>2. /\ file = [form |-> file.form, settings |-> file.settings]
          /\ file.form = "json" /\ file.settings = O!Default
      BY DEF O!Init, O!InitAt
    <3> QED
      BY <3>1, <3>2 DEF O!Files
  <2>2. drm \in [O!Connectors -> O!Statuses]
    BY DEF O!Init, O!InitAt, O!Statuses
  <2>3. 0 \in 0 .. MaxSaves /\ 0 \in 0 .. MaxPlugs
    BY ServicesAssumption DEF O!ProfileAssumption
  <2>4. api \in [Callers -> {"idle", "set", "stop"}]
    BY DEF O!Init, O!InitAt
  <2> QED
    BY <2>1, <2>2, <2>3, <2>4 DEF O!Init, O!InitAt, O!ProfileTypeOK
<1>2. Fine(profile)
  BY <1>1, BuildFacts DEF O!Init, O!InitAt
<1>3. fresh \in [Callers -> Built \cup {O!NoPlayer}] /\ \A c \in Callers : api[c] = "idle"
  BY DEF O!Init, O!InitAt
<1>4. player = O!NoPlayer /\ thread = "look" /\ promised <= saves /\ overtaken = FALSE
  BY DEF O!Init, O!InitAt
<1> QED
  BY <1>1, <1>2, <1>3, <1>4 DEF CommandsInv, PromiseInv, O!ReloadTakesEffect

\* Numbers of settings.
LEMMA VersionTypes ==
  ASSUME CommandsInv
  PROVE  /\ saves \in Nat /\ promised \in Nat /\ promised <= saves
         /\ \A c : Fine(c) => c.version \in Nat /\ c.version <= saves
         /\ MaxSaves \in Nat /\ saves <= MaxSaves
<1>1. MaxSaves \in Nat /\ saves \in 0 .. MaxSaves /\ promised \in 0 .. MaxSaves
  BY ServicesAssumption DEF O!ProfileAssumption, CommandsInv, O!ProfileTypeOK
<1>2. \A c : Fine(c) => c.version \in Nat /\ c.version <= saves
  BY DEF Fine, Built
<1> QED
  BY <1>1, <1>2 DEF CommandsInv

\* A step of the profile: commands that are there stay fine.
LEMMA CommandsStep == CommandsInv /\ [O!Next]_O!vars => CommandsInv'
<1> SUFFICES ASSUME CommandsInv, [O!Next]_O!vars PROVE CommandsInv'
  OBVIOUS
<1>0. /\ O!ProfileTypeOK /\ overtaken \in BOOLEAN /\ Fine(profile)
      /\ player = O!NoPlayer \/ Fine(player)
      /\ thread = "spawn" => Fine(built)
      /\ fresh \in [Callers -> Built \cup {O!NoPlayer}]
      /\ \A c \in Callers : api[c] # "idle" => Fine(fresh[c])
      /\ saves \in Nat /\ promised \in Nat /\ promised <= saves
  BY VersionTypes DEF CommandsInv
<1>1. ASSUME saves' = saves, NEW c, Fine(c)
      PROVE  c \in Built /\ c.version <= saves' /\ Shown(c)
  BY <1>1 DEF Fine
<1>2. CASE UNCHANGED O!vars
  BY <1>0, <1>2 DEF CommandsInv, O!ProfileTypeOK, Fine, O!vars, O!dash, O!loop
<1>3. ASSUME NEW f \in Saved, O!Save(f) PROVE CommandsInv'
  <2>1. /\ saves' \in Nat /\ saves <= saves' /\ saves' \in 0 .. MaxSaves
        /\ promised <= saves' /\ promised' = promised
    BY <1>0, <1>3, VersionTypes DEF O!Save
  <2>2. /\ file' \in O!Files
        /\ UNCHANGED <<drm, plugs, profile, thread, built, player, api, fresh, overtaken>>
    BY <1>3, ServicesAssumption DEF O!Save, O!ProfileAssumption, O!loop
  <2>3. \A c : Fine(c) => c \in Built /\ c.version <= saves' /\ Shown(c)
    BY <1>0, <2>1, StillFine
  <2>4. O!ProfileTypeOK'
    BY <1>0, <2>1, <2>2 DEF O!ProfileTypeOK
  <2> QED
    BY <1>0, <2>1, <2>2, <2>3, <2>4 DEF CommandsInv, Fine
<1>4. ASSUME NEW i \in O!Connectors, NEW status \in O!Statuses, O!Plug(i, status)
      PROVE  CommandsInv'
  <2>1. plugs' \in 0 .. MaxPlugs
    BY <1>0, <1>4, ServicesAssumption DEF O!Plug, O!ProfileTypeOK, O!ProfileAssumption
  <2>2. drm' \in [O!Connectors -> O!Statuses]
    BY <1>0, <1>4 DEF O!Plug, O!ProfileTypeOK
  <2>3. UNCHANGED <<file, saves, profile, thread, built, player, api, fresh, promised,
                    overtaken>>
    BY <1>4 DEF O!Plug, O!loop
  <2> QED
    BY <1>0, <2>1, <2>2, <2>3 DEF CommandsInv, O!ProfileTypeOK, Fine
<1>5. CASE O!Starts
  <2>1. UNCHANGED <<file, saves, drm, plugs, profile, player, api, fresh, promised, overtaken>>
    BY <1>5 DEF O!Starts, O!dash
  <2>2. /\ thread' \in {"look", "start", "spawn", "dead"}
        /\ thread' = "spawn" => built' = O!build_command
    BY <1>5 DEF O!Starts, O!Raises, O!ProfileTypeOK, O!Files
  <2>3. Fine(O!build_command)
    BY <1>0, BuildFacts
  <2> QED
    BY <1>0, <2>1, <2>2, <2>3 DEF CommandsInv, O!ProfileTypeOK, Fine
<1>6. ASSUME NEW ok \in BOOLEAN, O!Spawn(ok) PROVE CommandsInv'
  BY <1>0, <1>6 DEF O!Spawn, CommandsInv, O!ProfileTypeOK, Fine, O!dash
<1>7. CASE O!PlayerExits
  BY <1>0, <1>7 DEF O!PlayerExits, CommandsInv, O!ProfileTypeOK, Fine, O!dash
<1>8. ASSUME NEW c \in Callers, O!ReloadBuilds(c) PROVE CommandsInv'
  <2>1. Fine(O!build_command)
    BY <1>0, BuildFacts
  <2>2. UNCHANGED <<file, saves, drm, plugs, profile, thread, built, player, promised,
                    overtaken>>
    BY <1>8 DEF O!ReloadBuilds, O!dash, O!loop
  <2>3. /\ api' \in [Callers -> {"idle", "set", "stop"}]
        /\ fresh' = [fresh EXCEPT ![c] = O!build_command]
        /\ \A d \in Callers : d # c => api'[d] = api[d]
    BY <1>0, <1>8 DEF O!ReloadBuilds, O!ProfileTypeOK
  <2>4. /\ fresh' \in [Callers -> Built \cup {O!NoPlayer}]
        /\ \A d \in Callers : api'[d] # "idle" => Fine(fresh'[d])
    BY <1>0, <2>1, <2>3 DEF Fine
  <2> QED
    BY <1>0, <2>2, <2>3, <2>4 DEF CommandsInv, O!ProfileTypeOK, Fine
<1>9. ASSUME NEW c \in Callers, O!ReloadSets(c) PROVE CommandsInv'
  <2>1. UNCHANGED <<file, saves, drm, plugs, thread, built, player, fresh, promised,
                    overtaken>>
    BY <1>9 DEF O!ReloadSets, O!dash, O!loop
  <2>2. /\ api' \in [Callers -> {"idle", "set", "stop"}]
        /\ Fine(profile') /\ \A d \in Callers : api'[d] # "idle" => api[d] # "idle"
    BY <1>0, <1>9 DEF O!ReloadSets, O!ProfileTypeOK
  <2> QED
    BY <1>0, <2>1, <2>2 DEF CommandsInv, O!ProfileTypeOK, Fine
<1>10. ASSUME NEW c \in Callers, NEW stuck \in BOOLEAN, O!ReloadStops(c, stuck)
       PROVE  CommandsInv'
  <2>1. UNCHANGED <<file, saves, drm, plugs, profile, thread, built>>
    BY <1>10 DEF O!ReloadStops, O!Returns, O!dash
  <2>2. /\ api' \in [Callers -> {"idle", "set", "stop"}]
        /\ fresh' \in [Callers -> Built \cup {O!NoPlayer}]
        /\ \A d \in Callers : api'[d] # "idle" => api[d] # "idle" /\ fresh'[d] = fresh[d]
    BY <1>0, <1>10 DEF O!ReloadStops, O!Returns, O!ProfileTypeOK
  <2>3. player' \in {player, O!NoPlayer}
    BY <1>10 DEF O!ReloadStops
  <2>4. promised' \in 0 .. MaxSaves /\ promised' <= saves /\ overtaken' \in BOOLEAN
    <3>1. fresh[c].version \in Nat /\ fresh[c].version <= saves /\ saves <= MaxSaves
          /\ MaxSaves \in Nat
      BY <1>0, <1>10, VersionTypes DEF O!ReloadStops
    <3>2. CASE stuck
      BY <1>0, <1>10, <3>2 DEF O!ReloadStops, O!ProfileTypeOK
    <3>3. CASE ~stuck
      <4>1. O!Promise(c)
        BY <1>10, <3>3 DEF O!ReloadStops
      <4>2. promised' \in {promised, fresh[c].version}
        BY <4>1 DEF O!Promise
      <4>3. overtaken' \in BOOLEAN
        BY <1>0, <4>1 DEF O!Promise
      <4> QED
        BY <1>0, <3>1, <4>2, <4>3
    <3> QED
      BY <3>2, <3>3
  <2> QED
    BY <1>0, <2>1, <2>2, <2>3, <2>4 DEF CommandsInv, O!ProfileTypeOK, Fine
<1>11. CASE O!Looks
  BY <1>0, <1>11 DEF O!Looks, CommandsInv, O!ProfileTypeOK, Fine, O!dash
<1> QED
  BY <1>2, <1>3, <1>4, <1>5, <1>6, <1>7, <1>8, <1>9, <1>10, <1>11 DEF O!Next

LEMMA PromiseStep == CommandsInv /\ PromiseInv /\ [O!Next]_O!vars => PromiseInv'
<1> SUFFICES ASSUME CommandsInv, PromiseInv, [O!Next]_O!vars PROVE PromiseInv'
  OBVIOUS
<1>0. /\ player # O!NoPlayer /\ player.version < promised => overtaken
      /\ thread = "spawn" /\ built.version < promised => overtaken
      /\ saves \in Nat /\ promised \in Nat /\ promised <= saves
  BY VersionTypes DEF PromiseInv, O!ReloadTakesEffect
<1> USE DEF PromiseInv, O!ReloadTakesEffect
<1>1. CASE UNCHANGED <<thread, built, player, promised, overtaken>>
  BY <1>0, <1>1
<1>2. CASE O!Starts
  <2>1. /\ UNCHANGED <<player, promised, overtaken>>
        /\ thread' = "spawn" => built' = O!build_command
    BY <1>2 DEF O!Starts, O!Raises, CommandsInv, O!ProfileTypeOK, O!Files
  <2>2. O!build_command.version = saves
    BY BuildFacts DEF CommandsInv
  <2> QED
    BY <1>0, <2>1, <2>2
<1>3. ASSUME NEW ok \in BOOLEAN, O!Spawn(ok) PROVE PromiseInv'
  BY <1>0, <1>3 DEF O!Spawn
<1>4. CASE O!PlayerExits
  BY <1>0, <1>4 DEF O!PlayerExits
<1>5. ASSUME NEW c \in Callers, NEW stuck \in BOOLEAN, O!ReloadStops(c, stuck)
      PROVE  PromiseInv'
  <2>1. UNCHANGED <<thread, built>>
    BY <1>5 DEF O!ReloadStops, O!Returns
  <2>2. CASE stuck
    BY <1>0, <1>5, <2>1, <2>2 DEF O!ReloadStops
  <2>3. CASE ~stuck
    <3>1. O!Promise(c) /\ player' = O!NoPlayer
      BY <1>5, <2>3 DEF O!ReloadStops
    <3>2. fresh[c].version \in Nat
      BY <1>5, VersionTypes DEF O!ReloadStops, CommandsInv
    <3>3. thread = "spawn" => built.version \in Nat
      BY VersionTypes DEF CommandsInv
    <3>4. CASE fresh[c].version < promised
      <4>1. promised' = promised /\ overtaken' = overtaken
        BY <1>0, <3>1, <3>2, <3>4 DEF O!Promise
      <4> QED
        BY <1>0, <2>1, <3>1, <4>1
    <3>5. CASE ~(fresh[c].version < promised)
      <4>1. /\ promised' = fresh[c].version
            /\ overtaken' = (thread = "spawn" /\ built.version < fresh[c].version)
        BY <1>0, <3>1, <3>2, <3>5 DEF O!Promise
      <4> QED
        BY <2>1, <3>1, <4>1
    <3> QED
      BY <3>4, <3>5
  <2> QED
    BY <2>2, <2>3
<1>6. CASE O!Looks
  BY <1>0, <1>6 DEF O!Looks
<1> QED
  BY <1>1, <1>2, <1>3, <1>4, <1>5, <1>6
     DEF O!Next, O!vars, O!loop, O!Save, O!Plug, O!ReloadBuilds, O!ReloadSets

\* However settings are written, displays come and go and reloads overlap with each
\* other and with starts of the player: what is called applied shows on what was
\* live, and the player has the settings of the last reload that stopped one, or
\* newer ones, unless that reload was overtaken.
THEOREM ProfileIsSafe == O!Spec => []ProfileInv
<1>1. CommandsInv /\ PromiseInv => ProfileInv
  <2> SUFFICES ASSUME CommandsInv, PromiseInv PROVE ProfileInv
    OBVIOUS
  <2>1. O!AppliedIsShown
    <3>1. ASSUME NEW c \in {profile, player}, c # O!NoPlayer PROVE Shown(c)
      BY <3>1 DEF CommandsInv, Fine
    <3> QED
      BY <3>1 DEF Shown, O!AppliedIsShown
  <2> QED
    BY <2>1 DEF CommandsInv, PromiseInv, ProfileInv, O!ProfileInv
<1> QED
  BY CommandsInit, CommandsStep, PromiseStep, <1>1, PTL DEF O!Spec
=============================================================================
