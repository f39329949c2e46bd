------------------------- MODULE LiveStreamHubProofs -------------------------
(***************************************************************************)
(* Proofs about LiveStreamHub, for any number of viewers, any length of    *)
(* the queues and any number of units: no viewer sees a hole in the        *)
(* stream, or a fragment its init segment does not describe.               *)
(*                                                                         *)
(* The argument follows the numbers of the access units from the source to *)
(* the viewer: through the input queue (Fed), the unit the parser holds    *)
(* back, the GOP and the fragment that is handed out, to the queue of a    *)
(* viewer (Run).                                                           *)
(***************************************************************************)
EXTENDS LiveStreamHub, SequenceTheorems, FiniteSetTheorems, TLAPS

Units == [n : Nat \ {0}, key : BOOLEAN, ps : 1 .. MaxParameters]
Items == Units \cup {End}

\* Up to its end marker, q holds the units that follow number b, all with
\* parameter set p.
Run(q, b, p) ==
  \A i \in DOMAIN q :
    (\A j \in 1 .. i : q[j] # End) => q[i].n = b + i /\ q[i].ps = p

\* A queue without end marker.
Live(q) == \A i \in DOMAIN q : q[i] # End

\* New parameter sets come with a key frame.
Follows(u, w) == w.n = u.n + 1 /\ (w.key \/ w.ps = u.ps)

\* The queue q leads without a hole from h, if there is one, to unit m of the source,
\* whose parameter set is p.
Fed(q, h, m, p) ==
  /\ \A i \in DOMAIN q : q[i].n = m - Len(q) + i
  /\ \A i \in DOMAIN q : i > 1 => Follows(q[i - 1], q[i])
  /\ q # <<>> => q[Len(q)].ps = p
  /\ h # NoUnit =>
       /\ h.n = m - Len(q)
       /\ q = <<>> => h.ps = p
       /\ q # <<>> => Follows(h, q[1])
-----------------------------------------------------------------------------
(* The inductive invariant *)

InputTypes ==
  /\ input_queue \in Seq(Units) /\ Len(input_queue) <= InputQueue
  /\ reset_pending \in BOOLEAN /\ stop_event \in BOOLEAN /\ swallowed \in BOOLEAN
  /\ n \in Nat /\ ps \in 1 .. MaxParameters

WorkerTypes ==
  /\ wpc \in {"top", "drain", "clear", "get", "change", "put"}
  /\ held \in Units \cup {NoUnit} /\ fragment \in Units \cup {NoUnit}
  /\ targets \subseteq Viewers /\ ending \subseteq Viewers
  /\ wpc \in {"put", "change"} => fragment \in Units

HubTypes ==
  /\ init \in 0 .. MaxParameters
  /\ gop \in Seq(Units) /\ Len(gop) <= MAX_GOP_FRAGMENTS
  /\ clients \subseteq Viewers
  /\ IsFiniteSet(clients) /\ Cardinality(clients) <= MAX_CLIENTS

ViewerTypes ==
  /\ st \in [Viewers -> {"off", "wait", "startup", "stream", "closed"}]
  /\ startup \in [Viewers -> Seq(Units)]
  /\ pending \in [Viewers -> Seq(Items)]
  /\ \A v \in Viewers : Len(pending[v]) <= CLIENT_QUEUE
  /\ last \in [Viewers -> Nat] /\ vps \in [Viewers -> 0 .. MaxParameters]
  /\ gap \in [Viewers -> BOOLEAN]

Types == InputTypes /\ WorkerTypes /\ HubTypes /\ ViewerTypes

\* A viewer whose stream is over, or about to be ended.
Over(v) == v \in ending \/ ~Live(pending[v])

\* What the worker has while it has nothing in hand, ...
IdleInv ==
  /\ wpc # "put" => targets = {}
  /\ ~Free => wpc \in {"drain", "change", "put"}
  /\ wpc \in {"drain", "clear"} => held = NoUnit
  /\ wpc = "drain" => reset_pending
  /\ wpc = "change" => init # 0
  /\ held = NoUnit =>
       gop = <<>> /\ wpc \notin {"change", "put"} /\ \A v \in clients : Over(v)
  /\ init = 0 => gop = <<>> /\ clients = {}

\* ... and between the end of the viewers of old parameter sets and the new GOP.
ChangeInv ==
  wpc = "change" =>
    /\ gop = <<>> /\ fragment.ps = init /\ fragment.key
    /\ \A v \in clients : Over(v)
    /\ ~reset_pending => Follows(fragment, held)

\* The input queue has no hole unless a reset is pending that will empty it.
SourceInv ==
  (~reset_pending \/ wpc = "clear") => Fed(input_queue, held, n, ps)

\* The unit held back follows what was handed out, until the worker has taken it
\* from behind a hole; then a reset is pending.
Connected == reset_pending => wpc = "get"

\* What a viewer starts from begins with a key frame and leads to the unit held.
GopInv ==
  gop # <<>> =>
    /\ gop[1].key /\ Run(gop, gop[1].n - 1, init)
    /\ held # NoUnit /\ Connected =>
         held.n = gop[1].n + Len(gop) /\ (held.key \/ held.ps = init)

\* The number before the first unit viewer v is still to be sent from startup, and
\* the one before the first of its queue.
Base(v) == IF startup[v] # <<>> THEN startup[v][1].n - 1 ELSE last[v]
Sent(v) == Base(v) + Len(startup[v])

\* A viewer that is not served has nothing.
RestInv(v) ==
  /\ st[v] \notin {"startup", "stream"} =>
       /\ startup[v] = <<>> /\ pending[v] = <<>> /\ last[v] = 0
       /\ v \notin clients /\ v \notin targets /\ v \notin ending
  /\ st[v] = "stream" => startup[v] = <<>>
  /\ v \in clients => vps[v] = init \/ wpc = "change"

\* Nothing but the end is left for a viewer.
AtEnd(v) == v \in ending \/ (pending[v] # <<>> /\ Head(pending[v]) = End)

\* What was sent to a viewer, what it has in its queues, unless the worker is
\* emptying them, ...
QueueInv(v) ==
  /\ gap[v] => AtEnd(v)
  /\ Run(startup[v], Base(v), vps[v])
  /\ v \notin ending => Run(pending[v], Sent(v), vps[v])
  /\ last[v] # 0 => last[v] = Base(v)
  /\ startup[v] # <<>> /\ last[v] = 0 => startup[v][1].key

\* ... what the worker hands it and what it will hand it next follow each other.
NextInv(v) ==
  ~Over(v) =>
    /\ v \in targets =>
         fragment.n = Sent(v) + Len(pending[v]) + 1 /\ fragment.ps = vps[v]
    /\ v \in clients /\ Connected =>
         /\ held.n = Sent(v) + Len(pending[v]) + (IF v \in targets THEN 2 ELSE 1)
         /\ held.key \/ held.ps = init

ChainInv ==
  ~swallowed =>
    /\ SourceInv /\ ChangeInv /\ GopInv
    /\ \A v \in Viewers : RestInv(v) /\ QueueInv(v) /\ NextInv(v)

StreamInv == Types /\ IdleInv /\ ChainInv
-----------------------------------------------------------------------------
(* The operators: what appending and taking does to Run, Live and Fed *)

LEMMA RunEmpty == \A b, p : Run(<<>>, b, p)
BY DEF Run

LEMMA RunEnd == (\A b, p : Run(<<End>>, b, p)) /\ ~Live(<<End>>)
BY DEF Run, Live

\* A queue that is still live takes the unit that follows; an ended one, anything.
LEMMA RunAppend ==
  ASSUME NEW q \in Seq(Items), NEW u \in Items, NEW b, NEW p, Run(q, b, p),
         Live(q) => u.n = b + Len(q) + 1 /\ u.ps = p, b \in Int
  PROVE  Run(Append(q, u), b, p)
<1> DEFINE r == Append(q, u)
<1>1. /\ Len(q) \in Nat /\ DOMAIN q = 1 .. Len(q) /\ DOMAIN r = 1 .. Len(q) + 1
      /\ \A i \in 1 .. Len(q) : r[i] = q[i]
      /\ r[Len(q) + 1] = u
  BY AppendProperties, LenProperties
<1> HIDE DEF r
<1> SUFFICES ASSUME NEW i \in 1 .. Len(q) + 1, \A j \in 1 .. i : r[j] # End
             PROVE  r[i].n = b + i /\ r[i].ps = p
  BY <1>1 DEF Run, r
<1>2. CASE i = Len(q) + 1
  <2>1. Live(q)
    BY <1>1, <1>2 DEF Live
  <2> QED
    BY <1>1, <1>2, <2>1
<1>3. CASE i \in 1 .. Len(q)
  <2>1. \A j \in 1 .. i : q[j] # End
    BY <1>1, <1>3
  <2> QED
    BY <1>1, <1>3, <2>1 DEF Run
<1> QED
  BY <1>1, <1>2, <1>3

\* The end marker can be appended to every queue, and nothing revives a queue.
LEMMA LiveAppend ==
  ASSUME NEW q \in Seq(Items), NEW u \in Items, Live(Append(q, u))
  PROVE  Live(q) /\ u # End
<1>1. /\ Len(q) \in Nat /\ DOMAIN q = 1 .. Len(q) /\ DOMAIN Append(q, u) = 1 .. Len(q) + 1
      /\ \A i \in 1 .. Len(q) : Append(q, u)[i] = q[i]
      /\ Append(q, u)[Len(q) + 1] = u
  BY AppendProperties, LenProperties
<1> QED
  BY <1>1 DEF Live

LEMMA RunAppendEnd ==
  ASSUME NEW q \in Seq(Items), NEW b, NEW p, Run(q, b, p)
  PROVE  Run(Append(q, End), b, p) /\ ~Live(Append(q, End))
<1> DEFINE r == Append(q, End)
<1>1. /\ Len(q) \in Nat /\ DOMAIN q = 1 .. Len(q) /\ DOMAIN r = 1 .. Len(q) + 1
      /\ \A i \in 1 .. Len(q) : r[i] = q[i]
      /\ r[Len(q) + 1] = End
  BY AppendProperties, LenProperties DEF Items
<1> HIDE DEF r
<1>2. ~Live(r)
  BY <1>1 DEF Live
<1>3. ASSUME NEW i \in 1 .. Len(q) + 1, \A j \in 1 .. i : r[j] # End
      PROVE  r[i].n = b + i /\ r[i].ps = p
  <2>1. i \in 1 .. Len(q)
    BY <1>1, <1>3
  <2>2. \A j \in 1 .. i : q[j] # End
    BY <1>1, <1>3, <2>1
  <2> QED
    BY <1>1, <2>1, <2>2 DEF Run
<1> QED
  BY <1>1, <1>2, <1>3 DEF Run, r

LEMMA LiveTail ==
  ASSUME NEW q \in Seq(Items), q # <<>>, Head(q) # End, Live(Tail(q))
  PROVE  Live(q)
<1>1. /\ Len(q) \in Nat \ {0} /\ DOMAIN q = 1 .. Len(q)
      /\ DOMAIN Tail(q) = 1 .. Len(q) - 1
      /\ \A i \in 1 .. Len(q) - 1 : Tail(q)[i] = q[i + 1]
      /\ Head(q) = q[1]
  BY HeadTailProperties, LenProperties, EmptySeq
<1>2. ASSUME NEW i \in 1 .. Len(q), i # 1 PROVE q[i] # End
  <2>1. i - 1 \in 1 .. Len(q) - 1 /\ Tail(q)[i - 1] = q[i]
    BY <1>1, <1>2
  <2> QED
    BY <1>1, <2>1 DEF Live
<1> QED
  BY <1>1, <1>2 DEF Live

LEMMA HeadStays ==
  ASSUME NEW q \in Seq(Items), NEW u \in Items, q # <<>>
  PROVE  Append(q, u) # <<>> /\ Head(Append(q, u)) = Head(q)
<1>1. Len(q) \in Nat \ {0}
  BY EmptySeq
<1>2. /\ Append(q, u) \in Seq(Items) /\ Len(Append(q, u)) = Len(q) + 1
      /\ Append(q, u)[1] = q[1]
  BY <1>1, AppendProperties
<1>3. Append(q, u) # <<>>
  BY <1>1, <1>2, EmptySeq
<1> QED
  BY <1>2, <1>3, HeadTailProperties

\* Taking the first of a queue.
LEMMA RunTail ==
  ASSUME NEW q \in Seq(Items), q # <<>>, Head(q) # End, NEW b \in Int, NEW p, Run(q, b, p)
  PROVE  /\ Head(q).n = b + 1 /\ Head(q).ps = p
         /\ Run(Tail(q), b + 1, p)
         /\ Live(Tail(q)) => Live(q)
<1> DEFINE r == Tail(q)
<1>1. /\ Len(q) \in Nat \ {0} /\ DOMAIN q = 1 .. Len(q) /\ DOMAIN r = 1 .. Len(q) - 1
      /\ \A i \in 1 .. Len(q) - 1 : r[i] = q[i + 1]
      /\ Head(q) = q[1]
  BY HeadTailProperties, LenProperties, EmptySeq
<1> HIDE DEF r
<1>2. Head(q).n = b + 1 /\ Head(q).ps = p
  BY <1>1 DEF Run
<1>3. ASSUME NEW i \in 1 .. Len(q) - 1, \A j \in 1 .. i : r[j] # End
      PROVE  r[i].n = b + 1 + i /\ r[i].ps = p
  <2>1. i + 1 \in 1 .. Len(q) /\ r[i] = q[i + 1]
    BY <1>1
  <2>2. ASSUME NEW j \in 1 .. i + 1 PROVE q[j] # End
    <3>1. CASE j = 1
      BY <1>1, <3>1
    <3>2. CASE j # 1
      <4>1. j - 1 \in 1 .. i /\ r[j - 1] = q[j]
        BY <1>1, <3>2
      <4> QED
        BY <1>3, <4>1
    <3> QED
      BY <3>1, <3>2
  <2>3. q[i + 1].n = b + (i + 1) /\ q[i + 1].ps = p
    BY <1>1, <2>1, <2>2 DEF Run
  <2> QED
    BY <2>1, <2>3
<1>4. Run(r, b + 1, p)
  BY <1>1, <1>3 DEF Run
<1> QED
  BY <1>2, <1>4, LiveTail DEF r

\* The source adds a unit.
LEMMA FedPush ==
  ASSUME NEW q \in Seq(Units), NEW h, NEW m \in Int, NEW p, NEW u \in Units,
         Fed(q, h, m, p), u.n = m + 1, u.key \/ u.ps = p
  PROVE  Fed(Append(q, u), h, m + 1, u.ps)
<1> DEFINE r == Append(q, u)
<1>1. /\ Len(q) \in Nat /\ DOMAIN q = 1 .. Len(q)
      /\ Len(r) = Len(q) + 1 /\ DOMAIN r = 1 .. Len(q) + 1
      /\ \A i \in 1 .. Len(q) : r[i] = q[i]
      /\ r[Len(q) + 1] = u
      /\ r # <<>>
  BY AppendProperties, LenProperties, EmptySeq
<1> HIDE DEF r
<1>2. \A i \in 1 .. Len(q) + 1 : r[i].n = (m + 1) - Len(r) + i
  BY <1>1 DEF Fed
<1>3. ASSUME NEW i \in 1 .. Len(q) + 1, i > 1 PROVE Follows(r[i - 1], r[i])
  <2>1. CASE i \in 1 .. Len(q)
    <3>1. r[i] = q[i] /\ r[i - 1] = q[i - 1]
      BY <1>1, <1>3, <2>1
    <3>2. Follows(q[i - 1], q[i])
      BY <1>1, <1>3, <2>1 DEF Fed
    <3> QED
      BY <3>1, <3>2
  <2>2. CASE i = Len(q) + 1
    <3>1. Len(q) \in 1 .. Len(q) /\ q # <<>>
      BY <1>1, <1>3, <2>2, EmptySeq
    <3>2. q[Len(q)].n = m /\ q[Len(q)].ps = p
      BY <1>1, <3>1 DEF Fed
    <3> QED
      BY <1>1, <2>2, <3>1, <3>2 DEF Follows
  <2> QED
    BY <1>1, <2>1, <2>2
<1>4. ASSUME h # NoUnit PROVE h.n = (m + 1) - Len(r) /\ Follows(h, r[1])
  <2>1. h.n = m - Len(q)
    BY <1>4 DEF Fed
  <2>2. CASE q = <<>>
    BY <1>1, <1>4, <2>1, <2>2, EmptySeq DEF Fed, Follows
  <2>3. CASE q # <<>>
    BY <1>1, <1>4, <2>1, <2>3, EmptySeq DEF Fed
  <2> QED
    BY <1>1, <2>1, <2>2, <2>3
<1> QED
  BY <1>1, <1>2, <1>3, <1>4 DEF Fed, r

\* The worker takes one: it follows the unit held so far.
LEMMA FedTail ==
  ASSUME NEW q \in Seq(Units), q # <<>>, NEW h, NEW m \in Int, NEW p, Fed(q, h, m, p)
  PROVE  Fed(Tail(q), Head(q), m, p) /\ (h # NoUnit => Follows(h, Head(q)))
<1> DEFINE r == Tail(q)
<1>1. /\ Len(q) \in Nat \ {0} /\ DOMAIN q = 1 .. Len(q)
      /\ Len(r) = Len(q) - 1 /\ DOMAIN r = 1 .. Len(q) - 1
      /\ \A i \in 1 .. Len(q) - 1 : r[i] = q[i + 1]
      /\ Head(q) = q[1]
  BY HeadTailProperties, LenProperties, EmptySeq
<1>0. r = <<>> <=> Len(q) = 1
  <2>1. r \in Seq(Units)
    BY HeadTailProperties
  <2>2. r = <<>> => Len(r) = 0
    BY EmptySeq
  <2>3. r # <<>> => Len(r) # 0
    BY <2>1, EmptySeq
  <2> QED
    BY <1>1, <2>2, <2>3
<1> HIDE DEF r
<1>2. h # NoUnit => Follows(h, Head(q))
  BY <1>1 DEF Fed, Follows
<1>3. ASSUME NEW i \in 1 .. Len(q) - 1 PROVE r[i].n = m - Len(r) + i
  <2>1. i + 1 \in DOMAIN q /\ r[i] = q[i + 1]
    BY <1>1
  <2>2. q[i + 1].n = m - Len(q) + (i + 1)
    BY <2>1 DEF Fed
  <2> QED
    BY <1>1, <2>1, <2>2
<1>4. ASSUME NEW i \in 1 .. Len(q) - 1, i > 1 PROVE Follows(r[i - 1], r[i])
  <2>1. /\ i - 1 \in 1 .. Len(q) - 1 /\ i + 1 \in DOMAIN q
        /\ r[i - 1] = q[i] /\ r[i] = q[i + 1]
    BY <1>1, <1>4
  <2>2. \A k \in DOMAIN q : k > 1 => Follows(q[k - 1], q[k])
    BY DEF Fed
  <2>3. (i + 1) - 1 = i /\ i + 1 > 1
    BY <1>4
  <2>4. Follows(q[(i + 1) - 1], q[i + 1])
    BY <2>1, <2>2, <2>3
  <2> QED
    BY <2>1, <2>3, <2>4
<1>5. ASSUME r # <<>> PROVE r[Len(r)].ps = p /\ Follows(Head(q), r[1])
  <2>1. 1 \in 1 .. Len(q) - 1 /\ Len(r) \in 1 .. Len(q) - 1 /\ 2 \in DOMAIN q /\ 2 > 1
    BY <1>0, <1>1, <1>5
  <2>2. Follows(q[2 - 1], q[2]) /\ q[Len(q)].ps = p
    BY <2>1 DEF Fed
  <2>3. r[1] = q[2] /\ r[Len(r)] = q[Len(q)] /\ 2 - 1 = 1
    BY <1>1, <2>1
  <2> QED
    BY <1>1, <2>2, <2>3
<1>6. Head(q).n = m - Len(r) /\ (r = <<>> => Head(q).ps = p)
  BY <1>0, <1>1 DEF Fed
<1> QED
  BY <1>1, <1>2, <1>3, <1>4, <1>5, <1>6 DEF Fed, r
-----------------------------------------------------------------------------
(* Types *)

LEMMA LimitsArePositive ==
  /\ InputQueue \in Nat /\ InputQueue > 0 /\ CLIENT_QUEUE \in Nat /\ CLIENT_QUEUE > 0
  /\ MAX_CLIENTS \in Nat /\ MAX_GOP_FRAGMENTS \in Nat /\ MAX_GOP_FRAGMENTS > 0
  /\ MaxParameters \in Nat /\ MaxParameters > 0
BY HubAssumption

LEMMA UnitFacts ==
  End \notin Units /\ NoUnit \notin Units /\ End \in Items /\ Units \subseteq Items
BY DEF Units, Items, End, NoUnit

\* A sequence with one element more.
LEMMA Longer ==
  \A S : \A q \in Seq(S), u \in S :
    /\ Append(q, u) \in Seq(S) /\ Len(Append(q, u)) = Len(q) + 1 /\ Len(q) \in Nat
    /\ <<u>> \in Seq(S) /\ Len(<<u>>) = 1 /\ <<>> \in Seq(S) /\ Len(<<>>) = 0
BY AppendProperties, LenProperties, EmptySeq

\* ... and one less.
LEMMA Shorter ==
  \A S : \A q \in Seq(S) : q # <<>> =>
    /\ Head(q) \in S /\ Tail(q) \in Seq(S)
    /\ Len(q) \in Nat \ {0} /\ Len(Tail(q)) = Len(q) - 1
BY HeadTailProperties, EmptySeq

LEMMA NextGopType ==
  ASSUME NEW u \in Units, NEW g \in Seq(Units), Len(g) <= MAX_GOP_FRAGMENTS
  PROVE  NextGop(u, g) \in Seq(Units) /\ Len(NextGop(u, g)) <= MAX_GOP_FRAGMENTS
BY LimitsArePositive, Longer DEF NextGop

\* The steps on the queue of a client.
LEMMA PendingTypes ==
  ASSUME ViewerTypes, NEW p \in [Viewers -> Seq(Items)],
         \A v \in Viewers :
           \/ p[v] = pending[v] \/ p[v] = <<End>> \/ p[v] = <<>>
           \/ Len(pending[v]) < CLIENT_QUEUE /\ \E u \in Items : p[v] = Append(pending[v], u)
           \/ pending[v] # <<>> /\ p[v] = Tail(pending[v])
  PROVE  \A v \in Viewers : Len(p[v]) <= CLIENT_QUEUE
<1> SUFFICES ASSUME NEW v \in Viewers PROVE Len(p[v]) <= CLIENT_QUEUE
  OBVIOUS
<1>1. pending[v] \in Seq(Items) /\ Len(pending[v]) <= CLIENT_QUEUE /\ Len(pending[v]) \in Nat
  BY LenProperties DEF ViewerTypes
<1>2. CASE p[v] = <<End>> \/ p[v] = <<>>
  <2>1. Len(<<End>>) = 1 /\ Len(<<>>) = 0
    BY Longer, UnitFacts, EmptySeq
  <2>2. Len(p[v]) = 1 \/ Len(p[v]) = 0
    BY <1>2, <2>1
  <2>3. 1 <= CLIENT_QUEUE /\ 0 <= CLIENT_QUEUE
    BY LimitsArePositive
  <2> QED
    BY <2>2, <2>3
<1>3. CASE Len(pending[v]) < CLIENT_QUEUE /\ \E u \in Items : p[v] = Append(pending[v], u)
  BY <1>1, <1>3, Longer, LimitsArePositive
<1>4. CASE pending[v] # <<>> /\ p[v] = Tail(pending[v])
  BY <1>1, <1>4, Shorter, LimitsArePositive
<1> QED
  BY <1>1, <1>2, <1>3, <1>4

LEMMA InputTypeStep == WorkerTypes /\ InputTypes /\ [Next]_vars => InputTypes'
<1> SUFFICES ASSUME WorkerTypes, InputTypes, [Next]_vars PROVE InputTypes'
  OBVIOUS
<1> USE LimitsArePositive DEF InputTypes, input, worker, hub, viewer, source, seen
<1>1. CASE Push
  <2> PICK key \in BOOLEAN : push([n |-> n', key |-> key, ps |-> ps'])
    BY <1>1 DEF Push
  <2>1. ps' \in 1 .. MaxParameters /\ n' \in Nat \ {0} /\ swallowed' \in BOOLEAN
    BY <1>1 DEF Push
  <2>2. [n |-> n', key |-> key, ps |-> ps'] \in Units
    BY <2>1 DEF Units
  <2>3. input_queue' \in Seq(Units) /\ Len(input_queue') <= InputQueue
    BY <2>2, Longer, SMTT(30) DEF push
  <2> QED
    BY <1>1, <2>1, <2>3 DEF push
<1>2. CASE Reset
  BY <1>2 DEF Reset
<1>3. CASE ConsumeTop
  BY <1>3 DEF ConsumeTop
<1>4. CASE ConsumeReset
  BY <1>4 DEF ConsumeReset
<1>5. CASE ConsumeDrain
  BY <1>5 DEF ConsumeDrain
<1>6. CASE ConsumeClear
  BY <1>6 DEF ConsumeClear
<1>7. CASE ConsumeGet
  BY <1>7 DEF ConsumeGet, on_access_unit
<1>8. CASE PutFragment
  BY <1>8 DEF PutFragment
<1>9. CASE Close
  BY <1>9 DEF Close
<1>10. ASSUME NEW v \in Viewers, Connect(v) PROVE InputTypes'
  BY <1>10 DEF Connect
<1>11. ASSUME NEW v \in Viewers, Register(v) PROVE InputTypes'
  BY <1>11 DEF Register
<1>12. ASSUME NEW v \in Viewers, SendStartup(v) PROVE InputTypes'
  BY <1>12 DEF SendStartup, See
<1>13. ASSUME NEW v \in Viewers, SendPending(v) PROVE InputTypes'
  BY <1>13 DEF SendPending, See
<1>14. ASSUME NEW v \in Viewers, Leave(v) PROVE InputTypes'
  BY <1>14 DEF Leave
<1>15. CASE UNCHANGED vars
  BY <1>15 DEF vars
<1>16. CASE NewParameters
  BY <1>16 DEF NewParameters
<1>17. ASSUME NEW v \in Viewers, EndViewer(v) PROVE InputTypes'
  BY <1>17 DEF EndViewer
<1> QED
  BY <1>1, <1>2, <1>3, <1>4, <1>5, <1>6, <1>7, <1>8, <1>9, <1>10, <1>11,
     <1>12, <1>13, <1>14, <1>15, <1>16, <1>17 DEF Next, Worker, ViewerStep

LEMMA WorkerTypeStep == InputTypes /\ HubTypes /\ WorkerTypes /\ [Next]_vars => WorkerTypes'
<1> SUFFICES ASSUME InputTypes, HubTypes, WorkerTypes, [Next]_vars PROVE WorkerTypes'
  OBVIOUS
<1> USE DEF InputTypes, HubTypes, WorkerTypes, input, worker, hub, viewer, source, seen
<1>1. CASE Push
  BY <1>1 DEF Push, push
<1>2. CASE Reset
  BY <1>2 DEF Reset
<1>3. CASE ConsumeTop
  BY <1>3 DEF ConsumeTop
<1>4. CASE ConsumeReset
  BY <1>4 DEF ConsumeReset
<1>5. CASE ConsumeDrain
  BY <1>5 DEF ConsumeDrain
<1>6. CASE ConsumeClear
  BY <1>6 DEF ConsumeClear
<1>7. CASE ConsumeGet
  BY <1>7 DEF ConsumeGet, on_access_unit
<1>8. CASE PutFragment
  BY <1>8 DEF PutFragment
<1>9. CASE Close
  BY <1>9 DEF Close
<1>10. ASSUME NEW v \in Viewers, Connect(v) PROVE WorkerTypes'
  BY <1>10 DEF Connect
<1>11. ASSUME NEW v \in Viewers, Register(v) PROVE WorkerTypes'
  BY <1>11 DEF Register
<1>12. ASSUME NEW v \in Viewers, SendStartup(v) PROVE WorkerTypes'
  BY <1>12 DEF SendStartup, See
<1>13. ASSUME NEW v \in Viewers, SendPending(v) PROVE WorkerTypes'
  BY <1>13 DEF SendPending, See
<1>14. ASSUME NEW v \in Viewers, Leave(v) PROVE WorkerTypes'
  BY <1>14 DEF Leave
<1>15. CASE UNCHANGED vars
  BY <1>15 DEF vars
<1>16. CASE NewParameters
  BY <1>16 DEF NewParameters
<1>17. ASSUME NEW v \in Viewers, EndViewer(v) PROVE WorkerTypes'
  BY <1>17 DEF EndViewer
<1> QED
  BY <1>1, <1>2, <1>3, <1>4, <1>5, <1>6, <1>7, <1>8, <1>9, <1>10, <1>11,
     <1>12, <1>13, <1>14, <1>15, <1>16, <1>17 DEF Next, Worker, ViewerStep

LEMMA HubTypeStep == WorkerTypes /\ InputTypes /\ HubTypes /\ [Next]_vars => HubTypes'
<1> SUFFICES ASSUME WorkerTypes, InputTypes, HubTypes, [Next]_vars PROVE HubTypes'
  OBVIOUS
<1> USE LimitsArePositive DEF InputTypes, HubTypes, WorkerTypes, input, worker, hub,
        viewer, source, seen
<1>1. CASE Push
  BY <1>1 DEF Push, push
<1>2. CASE Reset
  BY <1>2 DEF Reset
<1>3. CASE ConsumeTop
  BY <1>3 DEF ConsumeTop
<1>4. CASE ConsumeReset
  BY <1>4 DEF ConsumeReset
<1>5. CASE ConsumeDrain
  BY <1>5 DEF ConsumeDrain
<1>6. CASE ConsumeClear
  BY <1>6 DEF ConsumeClear
<1>7. CASE ConsumeGet
  <2>1. CASE input_queue = <<>> \/ held = NoUnit
    BY <1>7, <2>1 DEF ConsumeGet
  <2>2. CASE input_queue # <<>> /\ held # NoUnit
    <3>1. held \in Units /\ on_access_unit(held)
      BY <1>7, <2>2 DEF ConsumeGet
    <3>2. init' \in 0 .. MaxParameters /\ UNCHANGED clients
      BY <3>1 DEF on_access_unit, Units
    <3>3. gop' = gop \/ gop' = <<>> \/ gop' = NextGop(held, gop)
      BY <3>1 DEF on_access_unit
    <3>4. NextGop(held, gop) \in Seq(Units) /\ Len(NextGop(held, gop)) <= MAX_GOP_FRAGMENTS
      BY <3>1, NextGopType
    <3>5. <<>> \in Seq(Units) /\ Len(<<>>) <= MAX_GOP_FRAGMENTS
      BY EmptySeq
    <3>6. gop' \in Seq(Units) /\ Len(gop') <= MAX_GOP_FRAGMENTS
      BY <3>3, <3>4, <3>5
    <3> QED
      BY <3>2, <3>6
  <2> QED
    BY <2>1, <2>2
<1>8. CASE PutFragment
  BY <1>8 DEF PutFragment
<1>9. CASE Close
  BY <1>9, FS_EmptySet DEF Close
<1>10. ASSUME NEW v \in Viewers, Connect(v) PROVE HubTypes'
  BY <1>10 DEF Connect
<1>11. ASSUME NEW v \in Viewers, Register(v) PROVE HubTypes'
  <2>1. CASE clients' = clients
    BY <1>11, <2>1 DEF Register
  <2>2. CASE Cardinality(clients) < MAX_CLIENTS /\ clients' = clients \cup {v}
    <3>0. Cardinality(clients) \in Nat
      BY FS_CardinalityType
    <3>1. IsFiniteSet(clients') /\ Cardinality(clients') <= Cardinality(clients) + 1
      <4>1. /\ IsFiniteSet(clients \cup {v})
            /\ Cardinality(clients \cup {v}) =
                 IF v \in clients THEN Cardinality(clients) ELSE Cardinality(clients) + 1
        BY FS_AddElement
      <4> QED
        BY <2>2, <3>0, <4>1
    <3> QED
      BY <1>11, <2>2, <3>0, <3>1, FS_CardinalityType DEF Register
  <2> QED
    BY <1>11, <2>1, <2>2, FS_CardinalityType DEF Register
<1>12. ASSUME NEW v \in Viewers, SendStartup(v) PROVE HubTypes'
  BY <1>12 DEF SendStartup, See
<1>13. ASSUME NEW v \in Viewers, SendPending(v) PROVE HubTypes'
  BY <1>13 DEF SendPending, See
<1>14. ASSUME NEW v \in Viewers, Leave(v) PROVE HubTypes'
  <2>1. IsFiniteSet(clients') /\ Cardinality(clients') <= Cardinality(clients)
    BY <1>14, FS_Subset DEF Leave
  <2> QED
    BY <1>14, <2>1, FS_CardinalityType DEF Leave
<1>15. CASE UNCHANGED vars
  BY <1>15 DEF vars
<1>16. CASE NewParameters
  <2>1. <<>> \in Seq(Units) /\ Len(<<>>) <= MAX_GOP_FRAGMENTS
    BY EmptySeq
  <2>2. fragment \in Units /\ gop' = NextGop(fragment, gop) /\ clients' = {} /\ UNCHANGED init
    BY <1>16 DEF NewParameters
  <2>3. gop' \in Seq(Units) /\ Len(gop') <= MAX_GOP_FRAGMENTS
    BY <2>2, NextGopType
  <2> QED
    BY <2>2, <2>3, FS_EmptySet
<1>17. ASSUME NEW v \in Viewers, EndViewer(v) PROVE HubTypes'
  BY <1>17 DEF EndViewer
<1> QED
  BY <1>1, <1>2, <1>3, <1>4, <1>5, <1>6, <1>7, <1>8, <1>9, <1>10, <1>11,
     <1>12, <1>13, <1>14, <1>15, <1>16, <1>17 DEF Next, Worker, ViewerStep

LEMMA ViewerTypeStep == WorkerTypes /\ HubTypes /\ ViewerTypes /\ [Next]_vars => ViewerTypes'
<1> SUFFICES ASSUME WorkerTypes, HubTypes, ViewerTypes, [Next]_vars PROVE ViewerTypes'
  OBVIOUS
<1> USE LimitsArePositive DEF WorkerTypes, HubTypes, ViewerTypes, input, worker, hub,
        viewer, source, seen
<1>1. CASE Push
  BY <1>1 DEF Push, push
<1>2. CASE Reset
  BY <1>2 DEF Reset
<1>3. CASE ConsumeTop
  BY <1>3 DEF ConsumeTop
<1>4. CASE ConsumeReset
  BY <1>4 DEF ConsumeReset
<1>5. CASE ConsumeDrain
  BY <1>5 DEF ConsumeDrain
<1>6. CASE ConsumeClear
  BY <1>6 DEF ConsumeClear
<1>7. CASE ConsumeGet
  BY <1>7 DEF ConsumeGet
<1>8. CASE PutFragment
  <2>1. pending' \in [Viewers -> Seq(Items)]
    <3>1. fragment \in Items
      BY <1>8, UnitFacts DEF PutFragment
    <3>2. \A v \in Viewers : Append(pending[v], fragment) \in Seq(Items)
      BY <3>1, Longer
    <3>3. \A v \in Viewers : [pending EXCEPT ![v] = Append(@, fragment)] \in [Viewers -> Seq(Items)]
      BY <3>2
    <3>4. CASE pending' # pending
      <4>1. PICK v \in targets : pending' = [pending EXCEPT ![v] = Append(@, fragment)]
        BY <1>8, <3>4 DEF PutFragment
      <4> QED
        BY <3>3, <4>1
    <3> QED
      BY <3>4
  <2>2. \A v \in Viewers : Len(pending'[v]) <= CLIENT_QUEUE
    <3>1. fragment \in Items
      BY <1>8, UnitFacts DEF PutFragment
    <3> QED
      BY <1>8, <2>1, <3>1, PendingTypes DEF PutFragment
  <2> QED
    BY <1>8, <2>1, <2>2 DEF PutFragment
<1>9. CASE Close
  <2>1. pending' \in [Viewers -> Seq(Items)]
    BY <1>9, UnitFacts, Longer DEF Close
  <2>2. \A v \in Viewers : Len(pending'[v]) <= CLIENT_QUEUE
    BY <1>9, <2>1, PendingTypes, UnitFacts DEF Close
  <2> QED
    BY <1>9, <2>1, <2>2 DEF Close
<1>10. ASSUME NEW v \in Viewers, Connect(v) PROVE ViewerTypes'
  BY <1>10 DEF Connect
<1>11. ASSUME NEW v \in Viewers, Register(v) PROVE ViewerTypes'
  BY <1>11 DEF Register
<1>12. ASSUME NEW v \in Viewers, SendStartup(v) PROVE ViewerTypes'
  <2>1. CASE startup[v] = <<>>
    BY <1>12, <2>1 DEF SendStartup
  <2>2. CASE startup[v] # <<>>
    <3>1. Head(startup[v]) \in Units /\ Tail(startup[v]) \in Seq(Units)
      BY <2>2, Shorter
    <3>2. Head(startup[v]).n \in Nat
      BY <3>1 DEF Units
    <3>3. startup' \in [Viewers -> Seq(Units)] /\ UNCHANGED <<st, pending, vps>>
      BY <1>12, <2>2, <3>1 DEF SendStartup, See
    <3>4. last' \in [Viewers -> Nat] /\ gap' \in [Viewers -> BOOLEAN]
      BY <1>12, <2>2, <3>2 DEF SendStartup, See
    <3> QED
      BY <3>3, <3>4
  <2> QED
    BY <2>1, <2>2
<1>13. ASSUME NEW v \in Viewers, SendPending(v) PROVE ViewerTypes'
  <2>1. Head(pending[v]) \in Units /\ Tail(pending[v]) \in Seq(Items)
    BY <1>13, Shorter DEF SendPending, Items
  <2>2. Head(pending[v]).n \in Nat
    BY <2>1 DEF Units
  <2>3. pending' \in [Viewers -> Seq(Items)] /\ UNCHANGED <<st, startup, vps>>
    BY <1>13, <2>1 DEF SendPending, See
  <2>4. last' \in [Viewers -> Nat] /\ gap' \in [Viewers -> BOOLEAN]
    BY <1>13, <2>2 DEF SendPending, See
  <2>5. \A w \in Viewers : Len(pending'[w]) <= CLIENT_QUEUE
    BY <1>13, <2>3, PendingTypes DEF SendPending
  <2> QED
    BY <2>3, <2>4, <2>5
<1>14. ASSUME NEW v \in Viewers, Leave(v) PROVE ViewerTypes'
  BY <1>14 DEF Leave
<1>15. CASE UNCHANGED vars
  BY <1>15 DEF vars
<1>16. CASE NewParameters
  BY <1>16 DEF NewParameters
<1>17. ASSUME NEW v \in Viewers, EndViewer(v) PROVE ViewerTypes'
  <2>1. pending' \in [Viewers -> Seq(Items)]
    <3>1. <<End>> \in Seq(Items)
      BY UnitFacts, Longer
    <3>2. pending[v] # <<>> => Tail(pending[v]) \in Seq(Items)
      BY Shorter
    <3> QED
      BY <1>17, <3>1, <3>2 DEF EndViewer
  <2>2. \A w \in Viewers : Len(pending'[w]) <= CLIENT_QUEUE
    BY <1>17, <2>1, PendingTypes DEF EndViewer
  <2> QED
    BY <1>17, <2>1, <2>2 DEF EndViewer
<1> QED
  BY <1>1, <1>2, <1>3, <1>4, <1>5, <1>6, <1>7, <1>8, <1>9, <1>10, <1>11,
     <1>12, <1>13, <1>14, <1>15, <1>16, <1>17 DEF Next, Worker, ViewerStep
-----------------------------------------------------------------------------
(* The invariant *)

\* A viewer whose stream is over stays so while it is served.
LEMMA OverStays ==
  ASSUME [Next]_vars, Types, IdleInv, NEW w \in Viewers, Over(w), ~Leave(w)
  PROVE  Over(w)'
<1> DEFINE q == pending[w]
<1>0. q \in Seq(Items) /\ Free => ~Live(q)
  BY DEF Types, ViewerTypes, Over, Free
<1>t. q \in Seq(Items) /\ pending \in [Viewers -> Seq(Items)] /\ ending \subseteq Viewers
  BY DEF Types, ViewerTypes, WorkerTypes
<1> HIDE DEF q
<1>a. ASSUME pending'[w] = pending[w], ending' = ending \/ ending = {} PROVE Over(w)'
  BY <1>a DEF Over
<1>b. ASSUME NEW u \in Items, pending'[w] = Append(pending[w], u), ending' = ending
      PROVE  Over(w)'
  BY <1>b, <1>t, LiveAppend DEF Over, q
<1> USE DEF input, worker, hub, viewer, source, seen
<1>1. CASE Push
  BY <1>1, <1>a DEF Push, push
<1>2. CASE Reset
  BY <1>2, <1>a DEF Reset
<1>3. CASE ConsumeTop
  BY <1>3, <1>a DEF ConsumeTop
<1>4. CASE ConsumeReset
  BY <1>4, <1>a DEF ConsumeReset, IdleInv, Free
<1>5. CASE ConsumeDrain
  BY <1>5, <1>a DEF ConsumeDrain
<1>6. CASE ConsumeClear
  BY <1>6, <1>a DEF ConsumeClear
<1>7. CASE ConsumeGet
  BY <1>7, <1>a DEF ConsumeGet, IdleInv, Free
<1>8. CASE PutFragment
  <2>1. CASE pending' = pending
    BY <1>8, <2>1, <1>a DEF PutFragment, Free
  <2>2. CASE pending' # pending
    <3>1. wpc = "put" /\ ending' = ending
      BY <1>8, <2>2 DEF PutFragment
    <3>2. PICK v \in targets : pending' = [pending EXCEPT ![v] = Append(@, fragment)]
      BY <1>8, <2>2 DEF PutFragment
    <3>3. fragment \in Items
      BY <3>1, UnitFacts DEF Types, WorkerTypes
    <3>4. pending'[w] = pending[w] \/ pending'[w] = Append(pending[w], fragment)
      BY <3>2, <1>t
    <3> QED
      BY <3>1, <3>3, <3>4, <1>a, <1>b
  <2> QED
    BY <2>1, <2>2
<1>9. CASE Close
  <2>1. pending'[w] = pending[w] \/ pending'[w] = Append(pending[w], End)
    BY <1>9 DEF Close
  <2>2. ending' = ending
    BY <1>9 DEF Close
  <2> QED
    BY <2>1, <2>2, <1>a, <1>b, UnitFacts
<1>10. ASSUME NEW v \in Viewers, Connect(v) PROVE Over(w)'
  BY <1>10, <1>a DEF Connect
<1>11. ASSUME NEW v \in Viewers, Register(v) PROVE Over(w)'
  BY <1>11, <1>a DEF Register
<1>12. ASSUME NEW v \in Viewers, SendStartup(v) PROVE Over(w)'
  BY <1>12, <1>a DEF SendStartup
<1>13. ASSUME NEW v \in Viewers, SendPending(v) PROVE Over(w)'
  <2>1. ending' = ending
    BY <1>13 DEF SendPending
  <2>2. CASE w # v
    <3>1. pending'[w] = pending[w]
      BY <1>13, <1>t, <2>2 DEF SendPending
    <3> QED
      BY <2>1, <3>1, <1>a
  <2>3. CASE w = v
    <3>1. /\ q # <<>> /\ Head(q) # End /\ pending'[w] = Tail(q)
      BY <1>13, <1>t, <2>3 DEF SendPending, q
    <3>2. Live(Tail(q)) => Live(q)
      BY <1>t, <3>1, LiveTail
    <3> QED
      BY <2>1, <3>1, <3>2 DEF Over, q
  <2> QED
    BY <2>2, <2>3
<1>14. ASSUME NEW v \in Viewers, Leave(v) PROVE Over(w)'
  <2>1. w # v
    BY <1>14
  <2>2. pending'[w] = pending[w] /\ (w \in ending' <=> w \in ending)
    BY <1>14, <1>t, <2>1 DEF Leave
  <2> QED
    BY <2>2 DEF Over
<1>15. CASE UNCHANGED vars
  BY <1>15, <1>a DEF vars
<1>16. CASE NewParameters
  BY <1>16, <1>a DEF NewParameters
<1>17. ASSUME NEW v \in Viewers, EndViewer(v) PROVE Over(w)'
  <2>1. CASE w # v
    <3>1. pending'[w] = pending[w] /\ (w \in ending' <=> w \in ending)
      BY <1>17, <1>t, <2>1 DEF EndViewer
    <3> QED
      BY <3>1 DEF Over
  <2>2. CASE w = v /\ pending[v] # <<>>
    BY <1>17, <2>2 DEF EndViewer, Over
  <2>3. CASE w = v /\ pending[v] = <<>>
    <3>1. pending'[w] = <<End>>
      BY <1>17, <1>t, <2>3 DEF EndViewer
    <3> QED
      BY <3>1, RunEnd DEF Over
  <2> QED
    BY <2>1, <2>2, <2>3
<1> QED
  BY <1>1, <1>2, <1>3, <1>4, <1>5, <1>6, <1>7, <1>8, <1>9, <1>10, <1>11,
     <1>12, <1>13, <1>14, <1>15, <1>16, <1>17 DEF Next, Worker, ViewerStep

\* A viewer that is registered was not over, and one that leaves is no client.
LEMMA OverClients ==
  ASSUME [Next]_vars, Types, IdleInv, \A v \in clients : Over(v), gop = <<>>
  PROVE  \A v \in clients' : Over(v)'
<1>1. ASSUME NEW v \in Viewers, Register(v) PROVE clients' = clients
  BY <1>1 DEF Register
<1>2. clients' \subseteq clients
  BY <1>1 DEF Next, Worker, ViewerStep, vars, input, worker, hub, viewer, source, seen, Push,
         Reset, ConsumeTop, ConsumeReset, ConsumeDrain, ConsumeClear, ConsumeGet,
         on_access_unit, NewParameters, PutFragment, EndViewer, Close, Connect,
         SendStartup, SendPending, Leave
<1>3. SUFFICES ASSUME NEW v \in clients' PROVE Over(v)'
  OBVIOUS
<1>4. v \in Viewers /\ Over(v)
  BY <1>2 DEF Types, HubTypes
<1>5. ~Leave(v)
  BY DEF Leave
<1> QED
  BY <1>4, <1>5, OverStays

LEMMA IdleStep ==
  ASSUME [Next]_vars, Types, IdleInv
  PROVE  IdleInv'
<1>0. ASSUME gop = <<>>, \A v \in clients : Over(v) PROVE \A v \in clients' : Over(v)'
  BY <1>0, OverClients
<1> USE DEF IdleInv, Free, input, worker, hub, viewer, source, seen
<1>1. CASE Push
  BY <1>0, <1>1 DEF Push, push
<1>2. CASE Reset
  BY <1>0, <1>2 DEF Reset
<1>3. CASE ConsumeTop
  BY <1>0, <1>3 DEF ConsumeTop
<1>4. CASE ConsumeReset
  BY <1>4 DEF ConsumeReset, Over
<1>5. CASE ConsumeDrain
  BY <1>0, <1>5 DEF ConsumeDrain
<1>6. CASE ConsumeClear
  BY <1>0, <1>6 DEF ConsumeClear
<1>7. CASE ConsumeGet
  <2>1. CASE input_queue = <<>>
    BY <1>0, <1>7, <2>1 DEF ConsumeGet
  <2>2. CASE input_queue # <<>>
    <3>1. held' # NoUnit
      BY <1>7, <2>2, Shorter, UnitFacts DEF ConsumeGet, Types, InputTypes
    <3>2. CASE held = NoUnit
      BY <1>7, <2>2, <3>1, <3>2 DEF ConsumeGet
    <3>3. CASE held # NoUnit
      <4>1. on_access_unit(held) /\ held \in Units /\ wpc = "get"
        BY <1>7, <2>2, <3>3 DEF ConsumeGet, Types, WorkerTypes
      <4>2. held.ps # 0
        BY <4>1 DEF Units
      <4>3. init' = 0 => gop' = <<>> /\ clients' = {}
        BY <4>1, <4>2 DEF on_access_unit
      <4>4. wpc' # "put" => targets' = {}
        BY <4>1 DEF on_access_unit
      <4>5. wpc' \in {"top", "put", "change"} /\ (ending' # {} => wpc' = "change")
        BY <4>1 DEF on_access_unit
      <4>6. UNCHANGED reset_pending /\ (wpc' = "change" => init' # 0)
        BY <1>7, <4>1, <4>2 DEF on_access_unit, ConsumeGet
      <4> QED
        BY <3>1, <4>3, <4>4, <4>5, <4>6
    <3> QED
      BY <3>2, <3>3
  <2> QED
    BY <2>1, <2>2
<1>8. CASE PutFragment
  <2>1. held # NoUnit /\ UNCHANGED <<held, gop, init, clients, reset_pending>>
    BY <1>8 DEF PutFragment
  <2>2. wpc' \in {"put", "top"} /\ (wpc' = "top" => targets' = {} /\ ending' = {})
    BY <1>8 DEF PutFragment
  <2> QED
    BY <2>1, <2>2
<1>9. CASE Close
  BY <1>0, <1>9 DEF Close
<1>10. ASSUME NEW v \in Viewers, Connect(v) PROVE IdleInv'
  BY <1>0, <1>10 DEF Connect
<1>11. ASSUME NEW v \in Viewers, Register(v) PROVE IdleInv'
  BY <1>0, <1>11 DEF Register
<1>12. ASSUME NEW v \in Viewers, SendStartup(v) PROVE IdleInv'
  BY <1>0, <1>12 DEF SendStartup
<1>13. ASSUME NEW v \in Viewers, SendPending(v) PROVE IdleInv'
  BY <1>0, <1>13 DEF SendPending
<1>14. ASSUME NEW v \in Viewers, Leave(v) PROVE IdleInv'
  BY <1>0, <1>14 DEF Leave
<1>15. CASE UNCHANGED vars
  BY <1>0, <1>15 DEF vars
<1>16. CASE NewParameters
  <2>1. held # NoUnit /\ init # 0 /\ targets = {}
    BY <1>16 DEF NewParameters
  <2> QED
    BY <1>16, <2>1 DEF NewParameters
<1>17. ASSUME NEW v \in Viewers, EndViewer(v) PROVE IdleInv'
  BY <1>0, <1>17 DEF EndViewer
<1> QED
  BY <1>1, <1>2, <1>3, <1>4, <1>5, <1>6, <1>7, <1>8, <1>9, <1>10, <1>11,
     <1>12, <1>13, <1>14, <1>15, <1>16, <1>17 DEF Next, Worker, ViewerStep

LEMMA SourceStep ==
  ASSUME [Next]_vars, Types, IdleInv, SourceInv, ~swallowed'
  PROVE  SourceInv'
<1> USE DEF SourceInv, input, worker, hub, viewer, source, seen
<1>1. CASE Push
  <2> PICK key \in BOOLEAN :
         (ps' # ps => key) /\ push([n |-> n', key |-> key, ps |-> ps'])
    BY <1>1 DEF Push
  <2> DEFINE u == [n |-> n', key |-> key, ps |-> ps']
  <2>1. u \in Units /\ u.n = n + 1 /\ (u.key \/ u.ps = ps) /\ u.ps = ps'
    BY <1>1 DEF Push, Types, InputTypes, Units
  <2>2. CASE Len(input_queue) < InputQueue
    <3>1. input_queue' = Append(input_queue, u) /\ UNCHANGED <<reset_pending, wpc, held>>
      BY <1>1, <2>2 DEF Push, push
    <3>2. n \in Int /\ input_queue \in Seq(Units) /\ n' = n + 1
      BY <1>1 DEF Push, Types, InputTypes
    <3>3. Fed(input_queue, held, n, ps) => Fed(input_queue', held, n + 1, ps')
      BY <2>1, <3>1, <3>2, FedPush
    <3> QED
      BY <3>1, <3>2, <3>3
  <2>3. CASE ~(Len(input_queue) < InputQueue)
    BY <1>1, <2>3 DEF Push, push
  <2> QED
    BY <2>2, <2>3
<1>2. CASE Reset
  BY <1>2 DEF Reset
<1>3. CASE ConsumeTop
  BY <1>3 DEF ConsumeTop
<1>4. CASE ConsumeReset
  BY <1>4 DEF ConsumeReset
<1>5. CASE ConsumeDrain
  <2>1. held' = NoUnit /\ reset_pending'
    BY <1>5 DEF ConsumeDrain, IdleInv
  <2>2. wpc' = "clear" => input_queue' = <<>>
    BY <1>5 DEF ConsumeDrain
  <2> QED
    BY <2>1, <2>2 DEF Fed
<1>6. CASE ConsumeClear
  BY <1>6 DEF ConsumeClear
<1>7. CASE ConsumeGet
  <2>1. wpc = "get" /\ wpc' \in {"top", "put", "change"} /\ UNCHANGED <<reset_pending, n, ps>>
    BY <1>7 DEF ConsumeGet, on_access_unit
  <2>2. CASE input_queue = <<>>
    BY <1>7, <2>1, <2>2 DEF ConsumeGet
  <2>3. CASE input_queue # <<>>
    <3>1. input_queue' = Tail(input_queue) /\ held' = Head(input_queue)
      BY <1>7, <2>3 DEF ConsumeGet
    <3>2. n \in Int /\ input_queue \in Seq(Units)
      BY DEF Types, InputTypes
    <3>3. Fed(input_queue, held, n, ps) => Fed(Tail(input_queue), Head(input_queue), n, ps)
      BY <2>3, <3>2, FedTail
    <3> QED
      BY <2>1, <3>1, <3>3
  <2> QED
    BY <2>2, <2>3
<1>8. CASE PutFragment
  BY <1>8 DEF PutFragment
<1>9. CASE Close
  BY <1>9 DEF Close
<1>10. ASSUME NEW v \in Viewers, Connect(v) PROVE SourceInv'
  BY <1>10 DEF Connect
<1>11. ASSUME NEW v \in Viewers, Register(v) PROVE SourceInv'
  BY <1>11 DEF Register
<1>12. ASSUME NEW v \in Viewers, SendStartup(v) PROVE SourceInv'
  BY <1>12 DEF SendStartup, See
<1>13. ASSUME NEW v \in Viewers, SendPending(v) PROVE SourceInv'
  BY <1>13 DEF SendPending, See
<1>14. ASSUME NEW v \in Viewers, Leave(v) PROVE SourceInv'
  BY <1>14 DEF Leave
<1>15. CASE UNCHANGED vars
  BY <1>15 DEF vars
<1>16. CASE NewParameters
  BY <1>16 DEF NewParameters
<1>17. ASSUME NEW v \in Viewers, EndViewer(v) PROVE SourceInv'
  BY <1>17 DEF EndViewer
<1> QED
  BY <1>1, <1>2, <1>3, <1>4, <1>5, <1>6, <1>7, <1>8, <1>9, <1>10, <1>11,
     <1>12, <1>13, <1>14, <1>15, <1>16, <1>17 DEF Next, Worker, ViewerStep

\* What becomes of the GOP with the next fragment.
LEMMA NextGopRun ==
  ASSUME NEW u \in Units, NEW g \in Seq(Units), NEW p,
         g # <<>> => g[1].key /\ Run(g, g[1].n - 1, p) /\ u.n = g[1].n + Len(g),
         u.key \/ g # <<>> => u.ps = p,
         NextGop(u, g) # <<>>
  PROVE  LET r == NextGop(u, g)
         IN  r[1].key /\ Run(r, r[1].n - 1, p) /\ u.n + 1 = r[1].n + Len(r)
<1> DEFINE r == NextGop(u, g)
<1>0. u.n \in Int /\ u \in Items /\ g \in Seq(Items) /\ <<>> \in Seq(Items)
  <2>1. u.n \in Int /\ u \in Items
    BY UnitFacts DEF Units
  <2>2. g \in Seq(Items)
    BY UnitFacts, SeqMonotonic
  <2> QED
    BY <2>1, <2>2, EmptySeq
<1>1. CASE u.key
  <2>1. r = <<u>> /\ r = Append(<<>>, u) /\ r[1] = u /\ Len(r) = 1
    BY <1>1 DEF NextGop
  <2>2. Run(<<>>, u.n - 1, p) /\ u.n - 1 \in Int /\ Len(<<>>) = 0
    BY <1>0, RunEmpty, EmptySeq
  <2>3. u.ps = p /\ u.n = (u.n - 1) + Len(<<>>) + 1
    BY <1>0, <1>1, <2>2
  <2>4. Run(Append(<<>>, u), u.n - 1, p)
    BY <1>0, <2>2, <2>3, RunAppend
  <2> QED
    BY <1>0, <1>1, <2>1, <2>4
<1>2. CASE ~u.key
  <2>1. r = Append(g, u) /\ g # <<>>
    BY <1>2 DEF NextGop
  <2>2. g[1] \in Units /\ g[1].n \in Int /\ Len(g) \in Nat \ {0}
    <3>1. Len(g) \in Nat \ {0}
      BY <2>1, EmptySeq
    <3>2. g[1] \in Units
      BY <3>1, ElementOfSeq
    <3> QED
      BY <3>1, <3>2 DEF Units
  <2>3. r[1] = g[1] /\ Len(r) = Len(g) + 1
    BY <2>1, <2>2, AppendProperties
  <2>4. u.n = (g[1].n - 1) + Len(g) + 1 /\ g[1].n - 1 \in Int
    BY <2>1, <2>2
  <2>5. Run(Append(g, u), g[1].n - 1, p)
    BY <1>0, <2>1, <2>4, RunAppend
  <2>6. u.n + 1 = r[1].n + Len(r)
    BY <1>0, <2>2, <2>3, <2>4, SMTT(30)
  <2>7. r[1].key /\ Run(r, r[1].n - 1, p)
    BY <2>1, <2>3, <2>5
  <2> QED
    BY <2>6, <2>7
<1> QED
  BY <1>1, <1>2

\* Most steps leave the worker's unit, its GOP and its connection alone.
LEMMA WorkerApart ==
  ASSUME [Next]_vars, ~ConsumeReset, ~ConsumeClear, ~ConsumeGet, ~NewParameters
  PROVE  UNCHANGED <<held, gop, init>> /\ (Connected' => Connected)
<1> USE DEF Connected, input, worker, hub, viewer, source, seen
<1>1. CASE Push
  BY <1>1 DEF Push, push
<1>2. CASE Reset
  BY <1>2 DEF Reset
<1>3. CASE ConsumeTop
  BY <1>3 DEF ConsumeTop
<1>5. CASE ConsumeDrain
  BY <1>5 DEF ConsumeDrain
<1>8. CASE PutFragment
  BY <1>8 DEF PutFragment
<1>9. CASE Close
  BY <1>9 DEF Close
<1>10. ASSUME NEW v \in Viewers, Connect(v)
       PROVE  UNCHANGED <<held, gop, init>> /\ (Connected' => Connected)
  BY <1>10 DEF Connect
<1>11. ASSUME NEW v \in Viewers, Register(v)
       PROVE  UNCHANGED <<held, gop, init>> /\ (Connected' => Connected)
  BY <1>11 DEF Register
<1>12. ASSUME NEW v \in Viewers, SendStartup(v)
       PROVE  UNCHANGED <<held, gop, init>> /\ (Connected' => Connected)
  BY <1>12 DEF SendStartup, See
<1>13. ASSUME NEW v \in Viewers, SendPending(v)
       PROVE  UNCHANGED <<held, gop, init>> /\ (Connected' => Connected)
  BY <1>13 DEF SendPending, See
<1>14. ASSUME NEW v \in Viewers, Leave(v)
       PROVE  UNCHANGED <<held, gop, init>> /\ (Connected' => Connected)
  BY <1>14 DEF Leave
<1>15. CASE UNCHANGED vars
  BY <1>15 DEF vars
<1>17. ASSUME NEW v \in Viewers, EndViewer(v)
       PROVE  UNCHANGED <<held, gop, init>> /\ (Connected' => Connected)
  BY <1>17 DEF EndViewer
<1> QED
  BY <1>1, <1>2, <1>3, <1>5, <1>8, <1>9, <1>10, <1>11,
     <1>12, <1>13, <1>14, <1>15, <1>17 DEF Next, Worker, ViewerStep

\* The unit taken from the queue, if no reset is pending, follows the one before.
LEMMA GetFollows ==
  ASSUME Types, SourceInv, ConsumeGet, input_queue # <<>>, held # NoUnit, Connected'
  PROVE  Follows(held, held')
<1>1. ~reset_pending /\ held' = Head(input_queue)
  BY DEF ConsumeGet, on_access_unit, Connected
<1>2. n \in Int /\ input_queue \in Seq(Units) /\ Fed(input_queue, held, n, ps)
  BY <1>1 DEF Types, InputTypes, SourceInv
<1> QED
  BY <1>1, <1>2, FedTail

LEMMA ChangeStep ==
  ASSUME [Next]_vars, Types, IdleInv, SourceInv, ChangeInv
  PROVE  ChangeInv'
<1>1. CASE ConsumeGet /\ wpc' = "change"
  <2>1. input_queue # <<>> /\ held # NoUnit
    BY <1>1 DEF ConsumeGet
  <2>2. held \in Units /\ on_access_unit(held) /\ UNCHANGED reset_pending
    BY <1>1, <2>1 DEF ConsumeGet, Types, WorkerTypes
  <2>3. /\ held.key /\ init' = held.ps /\ gop' = <<>> /\ fragment' = held
        /\ ending' = clients /\ clients' = clients
    BY <1>1, <2>2 DEF on_access_unit
  <2>4. ~reset_pending' => Follows(held, held')
    BY <1>1, <2>1, GetFollows DEF Connected
  <2> QED
    BY <2>3, <2>4 DEF ChangeInv, Over
<1>2. CASE wpc' # "change"
  BY <1>2 DEF ChangeInv
<1>3. CASE wpc' = "change" /\ ~ConsumeGet
  <2>1. wpc = "change" /\ UNCHANGED <<gop, fragment, init, held>> /\ (reset_pending => reset_pending')
    <3> USE <1>3 DEF input, worker, hub, viewer, source, seen
    <3>1. CASE Push \/ Reset \/ Close \/ UNCHANGED vars
      <4>1. CASE Push
        BY <4>1 DEF Push, push
      <4>2. CASE Reset \/ Close
        BY <4>2 DEF Reset, Close
      <4>3. CASE UNCHANGED vars
        BY <4>3 DEF vars
      <4> QED
        BY <3>1, <4>1, <4>2, <4>3
    <3>2. CASE Worker
      BY <3>2 DEF Worker, ConsumeTop, ConsumeReset, ConsumeDrain, ConsumeClear, NewParameters,
             PutFragment, EndViewer
    <3>3. ASSUME NEW v \in Viewers, Connect(v) \/ ViewerStep(v) \/ Leave(v)
          PROVE  UNCHANGED <<wpc, gop, fragment, init, held, reset_pending>>
      BY <3>3 DEF ViewerStep, Connect, Register, SendStartup, SendPending, Leave
    <3> QED
      BY <3>1, <3>2, <3>3 DEF Next
  <2>2. \A v \in clients' : Over(v)'
    BY <2>1, OverClients DEF ChangeInv
  <2> QED
    BY <2>1, <2>2 DEF ChangeInv
<1> QED
  BY <1>1, <1>2, <1>3

LEMMA GopStep ==
  ASSUME [Next]_vars, Types, IdleInv, SourceInv, ChangeInv, GopInv
  PROVE  GopInv'
<1>1. CASE ConsumeReset
  BY <1>1 DEF ConsumeReset, GopInv
<1>2. CASE ConsumeClear
  BY <1>2 DEF ConsumeClear, IdleInv, GopInv, hub
<1>3. CASE ConsumeGet
  <2>1. Connected
    BY <1>3 DEF ConsumeGet, Connected
  <2>2. CASE input_queue = <<>>
    BY <1>3, <2>1, <2>2 DEF ConsumeGet, GopInv, hub
  <2>3. CASE input_queue # <<>> /\ held = NoUnit
    BY <1>3, <2>3 DEF ConsumeGet, GopInv, IdleInv, hub
  <2>4. CASE input_queue # <<>> /\ held # NoUnit
    <3>1. held \in Units /\ on_access_unit(held) /\ gop \in Seq(Units)
      BY <1>3, <2>4 DEF ConsumeGet, Types, WorkerTypes, HubTypes
    <3>2. Connected' => held'.n = held.n + 1 /\ (held'.key \/ held'.ps = held.ps)
      BY <1>3, <2>4, GetFollows DEF Follows
    <3>3. gop # <<>> => /\ gop[1].key /\ Run(gop, gop[1].n - 1, init)
                       /\ held.n = gop[1].n + Len(gop) /\ (held.key \/ held.ps = init)
      BY <2>1, <2>4 DEF GopInv
    <3>4. CASE held.key /\ held.ps # init
      BY <3>1, <3>4 DEF on_access_unit, GopInv
    <3>5. CASE ~(held.key /\ held.ps # init) /\ init = 0
      BY <3>1, <3>5 DEF on_access_unit, IdleInv, GopInv
    <3>6. CASE ~(held.key /\ held.ps # init) /\ init # 0
      <4>1. init' = init /\ gop' = NextGop(held, gop)
        BY <3>1, <3>6 DEF on_access_unit
      <4>2. held.key \/ gop # <<>> => held.ps = init
        BY <3>3, <3>6
      <4>3. gop' # <<>> =>
              /\ gop'[1].key /\ Run(gop', gop'[1].n - 1, init')
              /\ held.n + 1 = gop'[1].n + Len(gop')
        BY <3>1, <3>3, <4>1, <4>2, NextGopRun
      <4>4. gop' # <<>> => held.ps = init
        BY <4>1, <4>2 DEF NextGop
      <4> QED
        BY <3>2, <4>1, <4>3, <4>4 DEF GopInv
    <3> QED
      BY <3>4, <3>5, <3>6
  <2> QED
    BY <2>2, <2>3, <2>4
<1>5. CASE NewParameters
  <2>1. /\ wpc = "change" /\ fragment \in Units /\ gop = <<>> /\ fragment.key /\ fragment.ps = init
        /\ gop' = NextGop(fragment, <<>>) /\ UNCHANGED <<held, init, reset_pending>>
    BY <1>5 DEF NewParameters, ChangeInv, Types, WorkerTypes, input
  <2>2. gop' # <<>> =>
          /\ gop'[1].key /\ Run(gop', gop'[1].n - 1, init)
          /\ fragment.n + 1 = gop'[1].n + Len(gop')
    BY <2>1, NextGopRun, EmptySeq
  <2>3. Connected' => held.n = fragment.n + 1 /\ (held.key \/ held.ps = init)
    BY <1>5, <2>1 DEF NewParameters, Connected, ChangeInv, Follows
  <2> QED
    BY <2>1, <2>2, <2>3 DEF GopInv
<1>4. CASE ~ConsumeReset /\ ~ConsumeClear /\ ~ConsumeGet /\ ~NewParameters
  BY <1>4, WorkerApart DEF GopInv
<1> QED
  BY <1>1, <1>2, <1>3, <1>4, <1>5

\* The rest of the proof is about one viewer, w.
LEMMA ViewerFacts ==
  ASSUME Types, NEW w \in Viewers
  PROVE  /\ startup[w] \in Seq(Units) /\ startup[w] \in Seq(Items)
         /\ pending[w] \in Seq(Items) /\ Len(pending[w]) \in Nat /\ Len(startup[w]) \in Nat
         /\ last[w] \in Nat /\ Base(w) \in Int /\ Sent(w) \in Int
<1>1. startup[w] \in Seq(Units) /\ pending[w] \in Seq(Items) /\ last[w] \in Nat
  BY DEF Types, ViewerTypes
<1>2. Len(startup[w]) \in Nat /\ Len(pending[w]) \in Nat
  BY <1>1, LenProperties
<1>3. startup[w] \in Seq(Items)
  BY <1>1, UnitFacts, SeqMonotonic
<1>4. ASSUME startup[w] # <<>> PROVE startup[w][1].n \in Int
  <2>1. Len(startup[w]) \in Nat \ {0}
    BY <1>1, <1>4, EmptySeq
  <2>2. startup[w][1] \in Units
    BY <1>1, <2>1, ElementOfSeq
  <2> QED
    BY <2>2 DEF Units
<1>5. Base(w) \in Int
  BY <1>1, <1>4 DEF Base
<1> QED
  BY <1>1, <1>2, <1>3, <1>5 DEF Sent

\* Most steps leave what viewer w has and what it is handed alone.
LEMMA ViewerApart ==
  ASSUME [Next]_vars, Types, NEW w \in Viewers,
         ~PutFragment, ~ConsumeReset, ~ConsumeGet, ~Close, ~NewParameters, ~EndViewer(w),
         ~Register(w), ~SendStartup(w), ~SendPending(w), ~Leave(w)
  PROVE  /\ startup'[w] = startup[w] /\ pending'[w] = pending[w] /\ last'[w] = last[w]
         /\ vps'[w] = vps[w] /\ gap'[w] = gap[w] /\ fragment' = fragment /\ (w \in ending' <=> w \in ending)
         /\ (w \in targets' <=> w \in targets) /\ (w \in clients' <=> w \in clients)
<1> DEFINE Same ==
      /\ startup'[w] = startup[w] /\ pending'[w] = pending[w] /\ last'[w] = last[w]
      /\ vps'[w] = vps[w] /\ gap'[w] = gap[w] /\ fragment' = fragment /\ (w \in ending' <=> w \in ending)
      /\ (w \in targets' <=> w \in targets) /\ (w \in clients' <=> w \in clients)
<1> USE DEF Types, ViewerTypes, input, worker, hub, viewer, source, seen
<1>1. CASE Push
  BY <1>1 DEF Push, push
<1>2. CASE Reset
  BY <1>2 DEF Reset
<1>3. CASE ConsumeTop
  BY <1>3 DEF ConsumeTop
<1>4. CASE ConsumeDrain
  BY <1>4 DEF ConsumeDrain
<1>5. CASE ConsumeClear
  BY <1>5 DEF ConsumeClear
<1>6. ASSUME NEW v \in Viewers, Connect(v) PROVE Same
  BY <1>6 DEF Connect
<1>7. ASSUME NEW v \in Viewers, Register(v) PROVE Same
  BY <1>7 DEF Register
<1>8. ASSUME NEW v \in Viewers, SendStartup(v) PROVE Same
  BY <1>8 DEF SendStartup, See
<1>9. ASSUME NEW v \in Viewers, SendPending(v) PROVE Same
  BY <1>9 DEF SendPending, See
<1>10. ASSUME NEW v \in Viewers, Leave(v) PROVE Same
  BY <1>10 DEF Leave
<1>11. CASE UNCHANGED vars
  BY <1>11 DEF vars
<1>12. ASSUME NEW v \in Viewers, EndViewer(v) PROVE Same
  BY <1>12 DEF EndViewer
<1> QED
  BY <1>1, <1>2, <1>3, <1>4, <1>5, <1>6, <1>7, <1>8, <1>9, <1>10, <1>11, <1>12
     DEF Next, Worker, ViewerStep

LEMMA RestStep ==
  ASSUME [Next]_vars, Types, IdleInv, NEW w \in Viewers, RestInv(w)
  PROVE  RestInv(w)'
<1> USE DEF RestInv, input, worker, hub, viewer, source, seen
<1>1. CASE Push
  BY <1>1 DEF Push, push
<1>2. CASE Reset
  BY <1>2 DEF Reset
<1>3. CASE ConsumeTop
  BY <1>3 DEF ConsumeTop
<1>4. CASE ConsumeReset
  BY <1>4 DEF ConsumeReset
<1>5. CASE ConsumeDrain
  BY <1>5 DEF ConsumeDrain
<1>6. CASE ConsumeClear
  BY <1>6 DEF ConsumeClear
<1>7. CASE ConsumeGet
  BY <1>7 DEF ConsumeGet, on_access_unit, IdleInv, Free
<1>8. CASE PutFragment
  <2>1. UNCHANGED <<st, startup, last, clients, vps, init>> /\ wpc = "put"
    BY <1>8 DEF PutFragment, hub, seen
  <2>2. w \notin targets /\ w \notin ending =>
          pending'[w] = pending[w] /\ w \notin targets' /\ w \notin ending'
    BY <1>8 DEF PutFragment, Types, ViewerTypes
  <2> QED
    BY <2>1, <2>2
<1>9. CASE Close
  BY <1>9 DEF Close
<1>10. ASSUME NEW v \in Viewers, Connect(v) PROVE RestInv(w)'
  BY <1>10 DEF Connect
<1>11. ASSUME NEW v \in Viewers, Register(v) PROVE RestInv(w)'
  BY <1>11 DEF Register, Types, ViewerTypes
<1>12. ASSUME NEW v \in Viewers, SendStartup(v) PROVE RestInv(w)'
  BY <1>12 DEF SendStartup, See, Types, ViewerTypes
<1>13. ASSUME NEW v \in Viewers, SendPending(v) PROVE RestInv(w)'
  BY <1>13 DEF SendPending, See
<1>14. ASSUME NEW v \in Viewers, Leave(v) PROVE RestInv(w)'
  BY <1>14 DEF Leave, Types, ViewerTypes
<1>15. CASE UNCHANGED vars
  BY <1>15 DEF vars
<1>16. CASE NewParameters
  BY <1>16 DEF NewParameters
<1>17. ASSUME NEW v \in Viewers, EndViewer(v) PROVE RestInv(w)'
  <2>1. UNCHANGED <<st, startup, last, clients, targets, vps, init, wpc>>
    BY <1>17 DEF EndViewer, hub, seen
  <2>2. w \notin ending => pending'[w] = pending[w] /\ w \notin ending'
    BY <1>17 DEF EndViewer, Types, ViewerTypes
  <2> QED
    BY <2>1, <2>2
<1> QED
  BY <1>1, <1>2, <1>3, <1>4, <1>5, <1>6, <1>7, <1>8, <1>9, <1>10, <1>11, <1>12, <1>13,
     <1>14, <1>15, <1>16, <1>17
     DEF Next, Worker, ViewerStep

\* A viewer whose queue alone changes.
LEMMA QueueKept ==
  ASSUME NEW w \in Viewers, QueueInv(w),
         startup'[w] = startup[w], last'[w] = last[w], vps'[w] = vps[w], gap'[w] = gap[w],
         AtEnd(w) => AtEnd(w)',
         w \notin ending' => Run(pending'[w], Sent(w), vps[w])
  PROVE  QueueInv(w)' /\ Sent(w)' = Sent(w)
<1>1. Base(w)' = Base(w) /\ Sent(w)' = Sent(w)
  BY DEF Base, Sent
<1> QED
  BY <1>1 DEF QueueInv

\* A viewer sends the first of its startup fragments.
LEMMA StartupSent ==
  ASSUME Types, NEW w \in Viewers, QueueInv(w), SendStartup(w)
  PROVE  QueueInv(w)' /\ Sent(w)' = Sent(w)
<1>1. CASE startup[w] = <<>>
  BY <1>1, QueueKept DEF SendStartup, QueueInv, AtEnd, seen, worker
<1>2. CASE startup[w] # <<>>
  <2> DEFINE q == startup[w]
  <2>1. q \in Seq(Units) /\ q \in Seq(Items) /\ Base(w) \in Int /\ Len(q) \in Nat
    BY ViewerFacts
  <2>2. Head(q) \in Units /\ Tail(q) \in Seq(Units) /\ Len(Tail(q)) = Len(q) - 1
    BY <1>2, <2>1, Shorter
  <2>3. Head(q) # End /\ Head(q).n > 0 /\ Head(q).n \in Nat
    BY <2>2, UnitFacts DEF Units
  <2>4. Run(q, Base(w), vps[w])
    BY DEF QueueInv
  <2>5. Head(q).n = Base(w) + 1 /\ Run(Tail(q), Base(w) + 1, vps[w])
    BY <1>2, <2>1, <2>3, <2>4, RunTail
  <2>6. /\ startup'[w] = Tail(q) /\ last'[w] = Head(q).n /\ pending'[w] = pending[w]
        /\ vps'[w] = vps[w] /\ gap'[w] = (gap[w] \/ (last[w] # 0 /\ Head(q).n # last[w] + 1))
    BY <1>2 DEF SendStartup, See, Types, ViewerTypes
  <2>7. gap'[w] => AtEnd(w)'
    <3>1. last[w] # 0 => Head(q).n = last[w] + 1
      BY <2>5 DEF QueueInv
    <3>2. gap'[w] => gap[w]
      BY <2>6, <3>1
    <3>3. AtEnd(w) => AtEnd(w)'
      BY <2>6 DEF SendStartup, worker, AtEnd
    <3> QED
      BY <3>2, <3>3 DEF QueueInv
  <2>8. Base(w)' = Base(w) + 1
    <3>1. CASE Tail(q) = <<>>
      BY <2>5, <2>6, <3>1 DEF Base
    <3>2. CASE Tail(q) # <<>>
      <4>1. Tail(q) \in Seq(Items) /\ Head(Tail(q)) \in Units
        BY <2>2, <3>2, Shorter, UnitFacts, SeqMonotonic
      <4>2. Head(Tail(q)).n = (Base(w) + 1) + 1
        <5>1. Head(Tail(q)) # End
          BY <4>1, UnitFacts
        <5>2. Base(w) + 1 \in Int
          BY <2>1
        <5> QED
          BY <2>5, <3>2, <4>1, <5>1, <5>2, RunTail
      <4>3. Head(Tail(q)) = Tail(q)[1]
        BY <2>2, <3>2, HeadTailProperties
      <4> QED
        BY <2>1, <2>6, <3>2, <4>2, <4>3 DEF Base
    <3> QED
      BY <3>1, <3>2
  <2>9. Sent(w)' = Sent(w)
    BY <2>1, <2>2, <2>6, <2>8 DEF Sent
  <2>10. ending' = ending
    BY DEF SendStartup, worker
  <2> QED
    BY <2>3, <2>5, <2>6, <2>7, <2>8, <2>9, <2>10 DEF QueueInv
<1> QED
  BY <1>1, <1>2

\* ... or of its queue.

LEMMA PendingSent ==
  ASSUME Types, NEW w \in Viewers, RestInv(w), QueueInv(w), SendPending(w)
  PROVE  /\ QueueInv(w)'
         /\ ~Over(w)' => Sent(w)' + Len(pending'[w]) = Sent(w) + Len(pending[w])
         /\ Over(w) => Over(w)'
<1> DEFINE q == pending[w]
<1>1. /\ q \in Seq(Items) /\ q # <<>> /\ Head(q) # End /\ Base(w) \in Int /\ Len(q) \in Nat
      /\ startup[w] = <<>> /\ Sent(w) = Base(w) /\ Base(w) = last[w] /\ Len(startup[w]) = 0
  <2>1. /\ q \in Seq(Items) /\ Len(q) \in Nat /\ Base(w) \in Int
    BY ViewerFacts
  <2>2. startup[w] = <<>> /\ q # <<>> /\ Head(q) # End
    BY DEF SendPending, RestInv
  <2>3. Len(startup[w]) = 0
    BY <2>2, EmptySeq
  <2> QED
    BY <2>1, <2>2, <2>3 DEF Base, Sent
<1>2. w \notin ending => Run(q, Base(w), vps[w])
  BY <1>1 DEF QueueInv
<1>3. /\ w \notin ending => Head(q).n = Base(w) + 1 /\ Run(Tail(q), Base(w) + 1, vps[w])
      /\ Live(Tail(q)) => Live(q)
  BY <1>1, <1>2, RunTail, LiveTail
<1>4. Len(Tail(q)) = Len(q) - 1
  BY <1>1, Shorter
<1>5. /\ pending'[w] = Tail(q) /\ last'[w] = Head(q).n /\ startup'[w] = startup[w]
      /\ vps'[w] = vps[w] /\ gap'[w] = (gap[w] \/ (last[w] # 0 /\ Head(q).n # last[w] + 1))
      /\ ending' = ending
  BY DEF SendPending, See, Types, ViewerTypes, worker
<1>6. gap'[w] => AtEnd(w)'
  <2>1. AtEnd(w) => w \in ending
    BY <1>1 DEF AtEnd
  <2>2. w \notin ending => ~gap'[w]
    BY <1>1, <1>3, <1>5, <2>1 DEF QueueInv
  <2> QED
    BY <1>5, <2>2 DEF AtEnd
<1>7. Base(w)' = Head(q).n /\ Sent(w)' = Head(q).n
  <2>1. Base(w)' = Head(q).n
    BY <1>1, <1>5 DEF Base
  <2>2. Head(q).n \in Int
    <3>1. Head(q) \in Units
      BY <1>1, Shorter DEF Items
    <3> QED
      BY <3>1 DEF Units
  <2> QED
    BY <1>1, <1>5, <2>1, <2>2 DEF Sent
<1>8. QueueInv(w)'
  <2>4. startup'[w] = <<>>
    BY <1>1, <1>5
  <2>5. Run(startup'[w], Base(w)', vps'[w])
    BY <2>4, RunEmpty
  <2>2. w \notin ending' => Run(pending'[w], Sent(w)', vps'[w])
    BY <1>3, <1>5, <1>7
  <2>3. last'[w] = Base(w)'
    BY <1>5, <1>7
  <2> QED
    <3>1. (last[w] # 0 => last[w] = Base(w))'
      BY <2>3
    <3>2. (startup[w] # <<>> /\ last[w] = 0 => startup[w][1].key)'
      BY <2>4
    <3>3. (w \notin ending => Run(pending[w], Sent(w), vps[w]))'
      BY <2>2
    <3> QED
      BY <1>6, <2>5, <3>1, <3>2, <3>3, Zenon DEF QueueInv
<1>9. ~Over(w)' => Sent(w)' + Len(pending'[w]) = Sent(w) + Len(pending[w])
  <2>1. ASSUME ~Over(w)' PROVE w \notin ending
    BY <1>5, <2>1 DEF Over
  <2>2. w \notin ending => Sent(w)' = Sent(w) + 1
    BY <1>1, <1>3, <1>7
  <2>3. Len(pending'[w]) = Len(q) - 1 /\ Sent(w) \in Int /\ Len(q) \in Nat
    BY <1>1, <1>4, <1>5
  <2> QED
    BY <2>1, <2>2, <2>3
<1>10. Over(w) => Over(w)'
  BY <1>3, <1>5 DEF Over
<1> QED
  BY <1>8, <1>9, <1>10

LEMMA QueueStep ==
  ASSUME [Next]_vars, Types, IdleInv, GopInv, NEW w \in Viewers,
         RestInv(w), QueueInv(w), NextInv(w)
  PROVE  QueueInv(w)'
<1>0. /\ pending[w] \in Seq(Items) /\ Sent(w) \in Int /\ Len(pending[w]) \in Nat
      /\ w \notin ending => Run(pending[w], Sent(w), vps[w])
  BY ViewerFacts DEF QueueInv
<1>f. pending \in [Viewers -> Seq(Items)]
  BY DEF Types, ViewerTypes
<1>a. ASSUME NEW u \in Items, pending'[w] = Append(pending[w], u), ending' = ending
      PROVE  AtEnd(w) => AtEnd(w)'
  BY <1>0, <1>a, HeadStays DEF AtEnd
<1>1. CASE PutFragment
  <2>1. UNCHANGED <<startup, last, vps, gap>> /\ Free /\ wpc = "put"
    BY <1>1 DEF PutFragment, seen
  <2>2. CASE pending' = pending
    <3>1. (AtEnd(w) => AtEnd(w)') /\ (w \notin ending' => w \notin ending)
      BY <2>1, <2>2 DEF AtEnd, Free
    <3> QED
      BY <1>0, <2>1, <2>2, <3>1, QueueKept
  <2>3. CASE pending' # pending
    <3>1. PICK v \in targets :
            pending' = [pending EXCEPT ![v] = Append(@, fragment)] /\ ending' = ending
      BY <1>1, <2>3 DEF PutFragment
    <3>2. fragment \in Items
      BY <2>1, UnitFacts DEF Types, WorkerTypes
    <3>3. CASE v # w
      <4>1. pending'[w] = pending[w]
        BY <1>f, <3>1, <3>3
      <4> QED
        BY <1>0, <2>1, <3>1, <4>1, QueueKept DEF AtEnd
    <3>4. CASE v = w
      <4>1. pending'[w] = Append(pending[w], fragment)
        BY <1>f, <3>1, <3>4
      <4>2. Live(pending[w]) =>
              fragment.n = Sent(w) + Len(pending[w]) + 1 /\ fragment.ps = vps[w]
        BY <2>1, <3>4 DEF NextInv, Over, Free
      <4>3. Run(pending'[w], Sent(w), vps[w])
        BY <1>0, <2>1, <3>2, <4>1, <4>2, RunAppend DEF Free
      <4> QED
        BY <1>a, <2>1, <3>1, <3>2, <4>1, <4>3, QueueKept
    <3> QED
      BY <3>3, <3>4
  <2> QED
    BY <2>2, <2>3
<1>2. CASE ConsumeReset
  <2>1. UNCHANGED <<pending, startup, last, vps, gap>> /\ ending = {}
    BY <1>2 DEF ConsumeReset, viewer, seen, IdleInv, Free
  <2> QED
    BY <1>0, <2>1, QueueKept DEF AtEnd
<1>3. CASE ConsumeGet
  <2>1. UNCHANGED <<pending, startup, last, vps, gap>> /\ ending = {}
    BY <1>3 DEF ConsumeGet, viewer, seen, IdleInv, Free
  <2> QED
    BY <1>0, <2>1, QueueKept DEF AtEnd
<1>10. CASE NewParameters
  <2>1. UNCHANGED <<pending, startup, last, vps, gap, ending>>
    BY <1>10 DEF NewParameters, viewer, seen
  <2> QED
    BY <1>0, <2>1, QueueKept DEF AtEnd
<1>11. CASE EndViewer(w)
  <2>1. UNCHANGED <<startup, last, vps, gap>>
    BY <1>11 DEF EndViewer, seen
  <2>2. CASE pending[w] # <<>>
    <3>1. w \in ending'
      BY <1>11, <2>2 DEF EndViewer
    <3> QED
      BY <2>1, <3>1, QueueKept DEF AtEnd
  <2>3. CASE pending[w] = <<>>
    <3>1. pending'[w] = <<End>>
      BY <1>f, <1>11, <2>3 DEF EndViewer
    <3>2. <<End>> # <<>> /\ Head(<<End>>) = End
      OBVIOUS
    <3> QED
      BY <2>1, <3>1, <3>2, RunEnd, QueueKept DEF AtEnd
  <2> QED
    BY <2>2, <2>3
<1>4. CASE Close
  <2>1. /\ pending'[w] \in {pending[w], Append(pending[w], End)}
        /\ UNCHANGED <<startup, last, vps, gap, ending>>
    BY <1>4 DEF Close, seen, worker
  <2>2. CASE pending'[w] = pending[w]
    BY <1>0, <2>1, <2>2, QueueKept DEF AtEnd
  <2>3. CASE pending'[w] = Append(pending[w], End)
    <3>1. AtEnd(w) => AtEnd(w)'
      BY <1>a, <2>1, <2>3, UnitFacts
    <3>2. w \notin ending' => Run(pending'[w], Sent(w), vps[w])
      BY <1>0, <2>1, <2>3, RunAppendEnd
    <3> QED
      BY <2>1, <3>1, <3>2, QueueKept
  <2> QED
    BY <2>1, <2>2, <2>3
<1>5. CASE Register(w)
  <2>1. /\ UNCHANGED <<pending, last, gap, ending>> /\ last[w] = 0 /\ pending[w] = <<>>
        /\ w \notin ending /\ ~gap[w]
    BY <1>5 DEF Register, RestInv, worker, QueueInv, AtEnd
  <2>2. CASE st'[w] = "closed"
    BY <1>0, <1>5, <2>1, <2>2, QueueKept DEF Register, Types, ViewerTypes, AtEnd
  <2>3. CASE st'[w] # "closed"
    <3>1. gop # <<>> /\ startup'[w] = gop /\ vps'[w] = init
      BY <1>5, <2>3 DEF Register, Types, ViewerTypes
    <3>2. Base(w)' = gop[1].n - 1
      BY <3>1 DEF Base
    <3> QED
      BY <2>1, <3>1, <3>2, RunEmpty DEF GopInv, QueueInv
  <2> QED
    BY <2>2, <2>3
<1>6. CASE SendStartup(w)
  BY <1>6, StartupSent
<1>7. CASE SendPending(w)
  BY <1>7, PendingSent
<1>8. CASE Leave(w)
  <2>1. /\ startup'[w] = <<>> /\ pending'[w] = <<>> /\ last'[w] = 0 /\ gap'[w] = FALSE
    BY <1>8 DEF Leave, Types, ViewerTypes
  <2> QED
    BY <2>1, RunEmpty DEF QueueInv
<1>9. CASE /\ ~PutFragment /\ ~ConsumeReset /\ ~ConsumeGet /\ ~Close /\ ~NewParameters
           /\ ~EndViewer(w)
           /\ ~Register(w) /\ ~SendStartup(w) /\ ~SendPending(w) /\ ~Leave(w)
  <2>1. /\ startup'[w] = startup[w] /\ pending'[w] = pending[w] /\ last'[w] = last[w]
        /\ vps'[w] = vps[w] /\ gap'[w] = gap[w] /\ (w \in ending' <=> w \in ending)
    BY <1>9, ViewerApart
  <2> QED
    BY <1>0, <2>1, QueueKept DEF AtEnd
<1> QED
  BY <1>1, <1>2, <1>3, <1>4, <1>5, <1>6, <1>7, <1>8, <1>9, <1>10, <1>11

LEMMA NextStep ==
  ASSUME [Next]_vars, Types, IdleInv, SourceInv, ChangeInv, GopInv, NEW w \in Viewers,
         RestInv(w), QueueInv(w), NextInv(w)
  PROVE  NextInv(w)'
<1>0. /\ pending[w] \in Seq(Items) /\ Sent(w) \in Int /\ Len(pending[w]) \in Nat
  BY ViewerFacts
<1>f. pending \in [Viewers -> Seq(Items)]
  BY DEF Types, ViewerTypes
<1>1. CASE PutFragment
  <2>1. /\ UNCHANGED <<startup, last, vps, gap, clients, held, init>>
        /\ Connected' => Connected
        /\ Free
    BY <1>1 DEF PutFragment, seen, hub, Connected, input
  <2>2. Sent(w)' = Sent(w)
    BY <2>1 DEF Sent, Base
  <2>3. CASE targets = {}
    <3>1. UNCHANGED <<targets, ending, pending>>
      BY <1>1, <2>3 DEF PutFragment
    <3> QED
      BY <2>1, <2>2, <2>3, <3>1 DEF NextInv, Over
  <2>4. CASE targets # {}
    <3>1. PICK v \in targets :
             /\ targets' = targets \ {v} /\ fragment' = fragment
             /\ IF Len(pending[v]) < CLIENT_QUEUE
                  THEN pending' = [pending EXCEPT ![v] = Append(@, fragment)] /\ ending' = ending
                  ELSE ending' = {v} /\ pending' = pending
      BY <1>1, <2>4 DEF PutFragment
    <3>2. CASE v # w
      <4>1. pending'[w] = pending[w] /\ w \notin ending' /\ (w \in targets' <=> w \in targets)
        BY <1>f, <2>1, <3>1, <3>2 DEF Free
      <4> QED
        BY <2>1, <2>2, <3>1, <4>1 DEF NextInv, Over, Free
    <3>3. CASE v = w /\ Len(pending[w]) < CLIENT_QUEUE
      <4>1. fragment \in Items /\ pending'[w] = Append(pending[w], fragment)
        BY <1>1, <1>f, <3>1, <3>3, UnitFacts DEF PutFragment, Types, WorkerTypes
      <4>2. Len(pending'[w]) = Len(pending[w]) + 1
        BY <1>0, <4>1, Longer
      <4>3. ~Over(w)' => ~Over(w)
        BY <1>0, <2>1, <4>1, LiveAppend DEF Over, Free
      <4>4. w \in targets /\ w \notin targets'
        BY <3>1, <3>3
      <4> QED
        BY <1>0, <2>1, <2>2, <4>2, <4>3, <4>4 DEF NextInv
    <3>4. CASE v = w /\ ~(Len(pending[w]) < CLIENT_QUEUE)
      BY <3>1, <3>4 DEF NextInv, Over
    <3> QED
      BY <3>2, <3>3, <3>4
  <2> QED
    BY <2>3, <2>4
<1>2. CASE ConsumeReset
  <2>1. UNCHANGED <<targets, clients>> /\ targets = {} /\ ending' = clients
    BY <1>2 DEF ConsumeReset, IdleInv
  <2> QED
    BY <2>1 DEF NextInv, Over
<1>3. CASE ConsumeClear
  <2>1. UNCHANGED <<targets, clients, pending, ending>> /\ targets = {} /\ held = NoUnit
    BY <1>3 DEF ConsumeClear, IdleInv, hub, viewer
  <2>2. w \in clients => Over(w)
    BY <2>1 DEF IdleInv
  <2> QED
    BY <2>1, <2>2 DEF NextInv, Over
<1>11. CASE NewParameters
  <2>1. clients' = {} /\ targets' = {}
    BY <1>11 DEF NewParameters, IdleInv
  <2> QED
    BY <2>1 DEF NextInv
<1>12. CASE EndViewer(w)
  <2>1. Over(w)'
    <3>1. CASE pending[w] # <<>>
      BY <1>12, <3>1 DEF EndViewer, Over
    <3>2. CASE pending[w] = <<>>
      <4>1. pending'[w] = <<End>>
        BY <1>f, <1>12, <3>2 DEF EndViewer
      <4> QED
        BY <4>1, RunEnd DEF Over
    <3> QED
      BY <3>1, <3>2
  <2> QED
    BY <2>1 DEF NextInv
<1>4. CASE ConsumeGet
  <2>0. /\ UNCHANGED <<startup, pending, last, vps, gap>> /\ targets = {} /\ Connected
        /\ Sent(w)' = Sent(w) /\ ending = {} /\ wpc = "get"
    BY <1>4 DEF ConsumeGet, seen, viewer, IdleInv, Free, Connected, Sent, Base
  <2>1. CASE input_queue = <<>>
    <3>1. UNCHANGED <<targets, fragment, clients, init, held, ending>>
      BY <1>4, <2>1 DEF ConsumeGet, hub
    <3> QED
      BY <2>0, <3>1 DEF NextInv, Over
  <2>2. CASE input_queue # <<>> /\ held = NoUnit
    <3>1. UNCHANGED <<targets, clients, ending>>
      BY <1>4, <2>2 DEF ConsumeGet, hub
    <3> QED
      BY <2>0, <2>2, <3>1 DEF NextInv, IdleInv, Over
  <2>3. CASE input_queue # <<>> /\ held # NoUnit
    <3>1. held \in Units /\ on_access_unit(held)
      BY <1>4, <2>3 DEF ConsumeGet, Types, WorkerTypes
    <3>2. Connected' => held'.n = held.n + 1 /\ (held'.key \/ held'.ps = held.ps)
      BY <1>4, <2>3, GetFollows DEF Follows
    <3>3. CASE held.key /\ held.ps # init
      <4>1. targets' = {} /\ clients' = clients /\ ending' = clients
        BY <2>0, <3>1, <3>3 DEF on_access_unit
      <4> QED
        BY <4>1 DEF NextInv, Over
    <3>4. CASE ~(held.key /\ held.ps # init) /\ init = 0
      <4>1. clients' = {} /\ targets' = {}
        BY <2>0, <3>1, <3>4 DEF on_access_unit, IdleInv
      <4> QED
        BY <4>1 DEF NextInv
    <3>5. CASE ~(held.key /\ held.ps # init) /\ init # 0
      <4>1. /\ init' = init /\ UNCHANGED <<clients, ending>>
            /\ fragment' = held /\ targets' = clients
        BY <3>1, <3>5 DEF on_access_unit
      <4>2. w \in clients /\ ~Over(w) =>
              /\ held.n = Sent(w) + Len(pending[w]) + 1 /\ held.ps = init
              /\ vps[w] = init
        BY <2>0, <3>5 DEF NextInv, RestInv
      <4>3. w \in clients /\ ~Over(w) /\ Connected' =>
              held'.n = Sent(w) + Len(pending[w]) + 2 /\ (held'.key \/ held'.ps = init)
        BY <1>0, <3>2, <4>2
      <4> QED
        BY <2>0, <4>1, <4>2, <4>3 DEF NextInv, Over
    <3> QED
      BY <3>3, <3>4, <3>5
  <2> QED
    BY <2>1, <2>2, <2>3
<1>5. CASE Close
  <2>1. /\ UNCHANGED <<startup, last, vps, fragment, targets, ending>> /\ clients' = {}
        /\ pending'[w] \in {pending[w], Append(pending[w], End)}
        /\ Sent(w)' = Sent(w)
    BY <1>5 DEF Close, seen, worker, Sent, Base
  <2>2. ~Live(Append(pending[w], End))
    BY <1>0, LiveAppend, UnitFacts
  <2> QED
    BY <2>1, <2>2 DEF NextInv, Over
<1>6. CASE Register(w)
  <2>0. /\ UNCHANGED <<held, gop, init, pending, last, targets, ending>> /\ last[w] = 0
        /\ w \notin targets /\ w \notin clients /\ pending[w] = <<>> /\ (Connected' => Connected)
    BY <1>6 DEF Register, RestInv, worker, input, Connected
  <2>1. CASE st'[w] = "closed"
    <3>1. clients' = clients
      BY <1>6, <2>1 DEF Register, Types, ViewerTypes
    <3> QED
      BY <2>0, <3>1 DEF NextInv, Over
  <2>2. CASE st'[w] # "closed"
    <3>1. gop # <<>> /\ startup'[w] = gop
      BY <1>6, <2>2 DEF Register, Types, ViewerTypes
    <3>2. held # NoUnit
      BY <3>1 DEF IdleInv
    <3>3. gop[1].n \in Int /\ Len(gop) \in Nat
      <4>1. gop \in Seq(Units)
        BY DEF Types, HubTypes
      <4>2. Len(gop) \in Nat \ {0}
        BY <3>1, <4>1, EmptySeq
      <4>3. gop[1] \in Units
        BY <4>1, <4>2, ElementOfSeq
      <4> QED
        BY <4>2, <4>3 DEF Units
    <3>4. Sent(w)' = gop[1].n - 1 + Len(gop)
      BY <3>1 DEF Sent, Base
    <3>5. Connected => held.n = gop[1].n + Len(gop) /\ (held.key \/ held.ps = init)
      BY <3>1, <3>2 DEF GopInv
    <3>6. Len(pending'[w]) = 0
      BY <2>0, EmptySeq
    <3> QED
      BY <2>0, <3>3, <3>4, <3>5, <3>6 DEF NextInv
  <2> QED
    BY <2>1, <2>2
<1>7. CASE SendStartup(w)
  <2>1. /\ UNCHANGED <<vps, pending, held, fragment, targets, ending, clients, init>>
        /\ Connected' => Connected
    BY <1>7 DEF SendStartup, See, seen, worker, hub, input, Connected
  <2>2. Sent(w)' = Sent(w)
    BY <1>7, StartupSent
  <2> QED
    BY <2>1, <2>2 DEF NextInv, Over
<1>8. CASE SendPending(w)
  <2>1. /\ UNCHANGED <<vps, held, fragment, targets, clients, init>>
        /\ Connected' => Connected
    BY <1>8 DEF SendPending, See, worker, hub, input, Connected
  <2>2. /\ ~Over(w)' => Sent(w)' + Len(pending'[w]) = Sent(w) + Len(pending[w])
        /\ Over(w) => Over(w)'
    BY <1>8, PendingSent
  <2> QED
    BY <2>1, <2>2 DEF NextInv
<1>9. CASE Leave(w)
  <2>1. w \notin clients' /\ w \notin targets'
    BY <1>9 DEF Leave
  <2> QED
    BY <2>1 DEF NextInv
<1>10. CASE /\ ~PutFragment /\ ~ConsumeReset /\ ~ConsumeClear /\ ~ConsumeGet /\ ~Close
            /\ ~NewParameters /\ ~EndViewer(w)
            /\ ~Register(w) /\ ~SendStartup(w) /\ ~SendPending(w) /\ ~Leave(w)
  <2>1. /\ startup'[w] = startup[w] /\ pending'[w] = pending[w] /\ last'[w] = last[w]
        /\ vps'[w] = vps[w] /\ fragment' = fragment
        /\ (w \in ending' <=> w \in ending)
        /\ (w \in targets' <=> w \in targets) /\ (w \in clients' <=> w \in clients)
    BY <1>10, ViewerApart
  <2>2. UNCHANGED <<held, init>> /\ (Connected' => Connected)
    BY <1>10, WorkerApart
  <2>3. Sent(w)' = Sent(w)
    BY <2>1 DEF Sent, Base
  <2> QED
    BY <2>1, <2>2, <2>3 DEF NextInv, Over
<1> QED
  BY <1>1, <1>2, <1>3, <1>4, <1>5, <1>6, <1>7, <1>8, <1>9, <1>10, <1>11, <1>12
-----------------------------------------------------------------------------
(* The theorem *)

LEMMA StreamInit == Init => StreamInv
<1> SUFFICES ASSUME Init PROVE StreamInv
  OBVIOUS
<1>1. InputTypes /\ WorkerTypes
  <2>1. input_queue \in Seq(Units) /\ Len(input_queue) <= InputQueue
    BY LimitsArePositive, EmptySeq DEF Init
  <2>2. 1 \in 1 .. MaxParameters
    BY LimitsArePositive
  <2> QED
    BY <2>1, <2>2 DEF Init, InputTypes, WorkerTypes
<1>2. HubTypes
  BY LimitsArePositive, EmptySeq, FS_EmptySet DEF Init, HubTypes
<1>3. ViewerTypes
  BY LimitsArePositive, EmptySeq DEF Init, ViewerTypes
<1>4. IdleInv
  BY DEF Init, IdleInv, Free
<1>5. SourceInv /\ ChangeInv
  BY DEF Init, SourceInv, Fed, ChangeInv
<1>6. \A v \in Viewers : RestInv(v) /\ QueueInv(v) /\ NextInv(v)
  BY RunEmpty DEF Init, RestInv, QueueInv, NextInv
<1> QED
  BY <1>1, <1>2, <1>3, <1>4, <1>5, <1>6 DEF Init, GopInv, ChainInv, StreamInv, Types

LEMMA StreamStep == StreamInv /\ [Next]_vars => StreamInv'
<1> SUFFICES ASSUME StreamInv, [Next]_vars PROVE StreamInv'
  OBVIOUS
<1>1. Types /\ IdleInv /\ ChainInv
  BY DEF StreamInv
<1>2. Types'
  BY <1>1, InputTypeStep, WorkerTypeStep, HubTypeStep, ViewerTypeStep DEF Types
<1>3. IdleInv'
  BY <1>1, IdleStep
<1>4. swallowed => swallowed'
  BY DEF Next, Worker, ViewerStep, vars, source, Push, Reset, ConsumeTop, ConsumeReset,
         ConsumeDrain, ConsumeClear, ConsumeGet, NewParameters, PutFragment, EndViewer, Close, Connect, Register,
         SendStartup, SendPending, Leave
<1>5. ASSUME ~swallowed'
      PROVE  /\ SourceInv' /\ ChangeInv' /\ GopInv'
             /\ \A v \in Viewers : (RestInv(v) /\ QueueInv(v) /\ NextInv(v))'
  <2>1. /\ SourceInv /\ ChangeInv /\ GopInv
        /\ \A v \in Viewers : RestInv(v) /\ QueueInv(v) /\ NextInv(v)
    BY <1>1, <1>4, <1>5 DEF ChainInv
  <2>2. SourceInv' /\ ChangeInv' /\ GopInv'
    BY <1>1, <1>5, <2>1, SourceStep, ChangeStep, GopStep
  <2>3. ASSUME NEW v \in Viewers PROVE (RestInv(v) /\ QueueInv(v) /\ NextInv(v))'
    BY <1>1, <2>1, RestStep, QueueStep, NextStep
  <2> QED
    BY <2>2, <2>3
<1> QED
  BY <1>2, <1>3, <1>5 DEF ChainInv, StreamInv

LEMMA StreamIsSafe == StreamInv => HubInv
<1> SUFFICES ASSUME StreamInv PROVE HubInv
  OBVIOUS
<1>1. HubTypeOK
  BY DEF StreamInv, Types, InputTypes, WorkerTypes, HubTypes, ViewerTypes, HubTypeOK
<1>2. ViewersSeeNoGap
  BY DEF StreamInv, ChainInv, QueueInv, AtEnd, ViewersSeeNoGap
<1>3. FragmentsMatchInit
  <2> SUFFICES ASSUME ~swallowed, NEW v \in Viewers
               PROVE  /\ \A i \in DOMAIN startup[v] : startup[v][i].ps = vps[v]
                      /\ (startup[v] # <<>> /\ last[v] = 0) => startup[v][1].key
                      /\ \A i \in DOMAIN pending[v] :
                             \/ v \in ending
                             \/ pending[v][i] = End
                             \/ pending[v][i].ps = vps[v]
                             \/ \E j \in 1 .. i - 1 : pending[v][j] = End
    BY DEF FragmentsMatchInit
  <2>0. QueueInv(v) /\ Types
    BY DEF StreamInv, ChainInv
  <2>1. ASSUME NEW i \in DOMAIN startup[v] PROVE startup[v][i].ps = vps[v]
    <3>1. startup[v] \in Seq(Units) /\ i \in 1 .. Len(startup[v])
      BY <2>0, ViewerFacts, LenProperties
    <3>2. \A j \in 1 .. i : j \in 1 .. Len(startup[v])
      BY <3>1, LenProperties
    <3>3. \A j \in 1 .. i : startup[v][j] # End
      BY <3>1, <3>2, ElementOfSeq, UnitFacts
    <3> QED
      BY <2>0, <3>3 DEF QueueInv, Run
  <2>2. ASSUME NEW i \in DOMAIN pending[v], v \notin ending, pending[v][i] # End,
               \A j \in 1 .. i - 1 : pending[v][j] # End
        PROVE  pending[v][i].ps = vps[v]
    <3>1. i \in Nat
      BY <2>0, ViewerFacts, LenProperties
    <3>2. \A j \in 1 .. i : pending[v][j] # End
      BY <2>2, <3>1
    <3> QED
      BY <2>0, <2>2, <3>2 DEF QueueInv, Run
  <2> QED
    BY <2>0, <2>1, <2>2 DEF QueueInv
<1> QED
  BY <1>1, <1>2, <1>3 DEF HubInv

\* LiveStreamHub keeps its limits, and shows every viewer consecutive access units
\* of one parameter set from a key frame on, whatever is dropped, reset, closed or
\* too slow; the exception is a reset asked for while the worker clears the flag.
THEOREM HubIsSafe == Spec => []HubInv
<1>1. Spec => []StreamInv
  BY StreamInit, StreamStep, PTL DEF Spec
<1> QED
  BY <1>1, StreamIsSafe, PTL
=============================================================================
