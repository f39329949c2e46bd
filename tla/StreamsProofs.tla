----------------------------- MODULE StreamsProofs -----------------------------
(***************************************************************************)
(* FramingInv and AnnexInv of MCStreams, proved for every payload, length, *)
(* transfer and chunk size.                                                *)
(***************************************************************************)
EXTENDS MCStreams, WellFoundedInduction, TLAPS

(* Sequences, element by element *)

LEMMA ConcatIs ==
  ASSUME NEW S, NEW s \in Seq(S), NEW t \in Seq(S)
  PROVE  /\ s \o t \in Seq(S)
         /\ Len(s \o t) = Len(s) + Len(t)
         /\ \A i \in 1 .. Len(s) : (s \o t)[i] = s[i]
         /\ \A i \in 1 .. Len(t) : (s \o t)[Len(s) + i] = t[i]
OBVIOUS

LEMMA IntConcatIs ==
  ASSUME NEW s \in Seq(Int), NEW t \in Seq(Int)
  PROVE  /\ s \o t \in Seq(Int)
         /\ Len(s \o t) = Len(s) + Len(t)
         /\ \A i \in 1 .. Len(s) : (s \o t)[i] = s[i]
         /\ \A i \in 1 .. Len(t) : (s \o t)[Len(s) + i] = t[i]
BY ConcatIs

LEMMA SubSeqIs ==
  ASSUME NEW S, NEW s \in Seq(S), NEW i \in 1 .. Len(s) + 1, NEW j \in Int,
         i - 1 <= j, j <= Len(s)
  PROVE  /\ SubSeq(s, i, j) \in Seq(S)
         /\ Len(SubSeq(s, i, j)) = j - i + 1
         /\ \A k \in 1 .. j - i + 1 : SubSeq(s, i, j)[k] = s[i - 1 + k]
<1>1. Len(s) \in Nat /\ \A k \in 1 .. Len(s) : s[k] \in S
  OBVIOUS
<1>2. CASE i <= j
  BY <1>1, <1>2
<1>3. CASE i = j + 1
  BY <1>1, <1>3
<1> QED
  BY <1>2, <1>3

\* The first j elements.
LEMMA HeadIs ==
  ASSUME NEW s \in Seq(Int), NEW j \in 0 .. Len(s)
  PROVE  /\ SubSeq(s, 1, j) \in Seq(Int)
         /\ Len(SubSeq(s, 1, j)) = j
         /\ \A k \in 1 .. j : SubSeq(s, 1, j)[k] = s[k]
<1>1. 1 \in 1 .. Len(s) + 1 /\ j \in Int /\ 1 - 1 <= j /\ j <= Len(s)
  OBVIOUS
<1>2. /\ SubSeq(s, 1, j) \in Seq(Int)
      /\ Len(SubSeq(s, 1, j)) = j - 1 + 1
      /\ \A k \in 1 .. j - 1 + 1 : SubSeq(s, 1, j)[k] = s[1 - 1 + k]
  BY <1>1, SubSeqIs
<1>3. j - 1 + 1 = j /\ \A k \in 1 .. j : 1 - 1 + k = k
  OBVIOUS
<1> QED
  BY <1>2, <1>3

LEMMA AppendIs ==
  ASSUME NEW S, NEW s \in Seq(S), NEW e \in S
  PROVE  /\ Append(s, e) \in Seq(S)
         /\ Len(Append(s, e)) = Len(s) + 1
         /\ \A i \in 1 .. Len(s) : Append(s, e)[i] = s[i]
         /\ Append(s, e)[Len(s) + 1] = e
OBVIOUS

LEMMA SeqFacts ==
  ASSUME NEW S, NEW s \in Seq(S)
  PROVE  Len(s) \in Nat /\ DOMAIN s = 1 .. Len(s) /\ \A i \in 1 .. Len(s) : s[i] \in S
OBVIOUS

LEMMA SeqEqual ==
  ASSUME NEW S, NEW s \in Seq(S), NEW t \in Seq(S), Len(s) = Len(t),
         \A i \in 1 .. Len(s) : s[i] = t[i]
  PROVE  s = t
OBVIOUS

LEMMA WrapIs ==
  ASSUME NEW channel \in Int, NEW p \in Seq(Int)
  PROVE  /\ wrap(channel, p) \in Seq(Int)
         /\ Len(wrap(channel, p)) = HEADER + Len(p)
         /\ wrap(channel, p)[1] = S55 /\ wrap(channel, p)[2] = SCC
         /\ wrap(channel, p)[3] = channel /\ wrap(channel, p)[4] = Len(p)
         /\ \A k \in 1 .. Len(p) : wrap(channel, p)[HEADER + k] = p[k]
<1> DEFINE h == <<S55, SCC, channel, Len(p)>>
<1>1. h \in Seq(Int) /\ Len(h) = 4 /\ h[1] = S55 /\ h[2] = SCC /\ h[3] = channel
      /\ h[4] = Len(p)
  BY DEF S55, SCC
<1> QED
  BY <1>1, ConcatIs DEF wrap, HEADER

LEMMA MatchIs ==
  ASSUME NEW b \in Seq(Int), NEW channel \in Int, NEW i
  PROVE  i \in Matches(b, <<S55, SCC, channel>>) <=>
           /\ i \in 1 .. Len(b) - 2
           /\ b[i] = S55 /\ b[i + 1] = SCC /\ b[i + 2] = channel
<1> DEFINE m == <<S55, SCC, channel>>
<1>1. Len(m) = 3 /\ m[1] = S55 /\ m[2] = SCC /\ m[3] = channel
  OBVIOUS
<1>2. Len(b) - Len(m) + 1 = Len(b) - 2
  BY <1>1
<1>3. ASSUME i \in 1 .. Len(b) - 2
      PROVE  (\A j \in 1 .. 3 : b[i + j - 1] = m[j])
               <=> b[i] = S55 /\ b[i + 1] = SCC /\ b[i + 2] = channel
  <2>1. i + 1 - 1 = i /\ i + 2 - 1 = i + 1 /\ i + 3 - 1 = i + 2
    BY <1>3
  <2>2. \A j \in 1 .. 3 : j = 1 \/ j = 2 \/ j = 3
    OBVIOUS
  <2> HIDE DEF m
  <2> QED
    BY <1>1, <2>1, <2>2
<1>4. Matches(b, m) = {k \in 1 .. Len(b) - 2 : \A j \in 1 .. 3 : b[k + j - 1] = m[j]}
  BY <1>1, <1>2 DEF Matches
<1> HIDE DEF m
<1>5. i \in Matches(b, m) <=> 
        /\ i \in 1 .. Len(b) - 2
        /\ b[i] = S55 /\ b[i + 1] = SCC /\ b[i + 2] = channel
  BY <1>3, <1>4
<1> QED
  BY <1>5 DEF m
-----------------------------------------------------------------------------
(* The inductive invariant of the bulk pipe *)

Frame == [at : Nat, body : Seq(Int)]

\* A frame is in the stream, where it says.
FrameIn(s, f, channel) ==
  /\ End(f) <= Len(s)
  /\ s[f.at + 1] = S55 /\ s[f.at + 2] = SCC /\ s[f.at + 3] = channel
  /\ s[f.at + 4] = Len(f.body)
  /\ \A k \in 1 .. Len(f.body) : s[f.at + HEADER + k] = f.body[k]

Ordered(frames) ==
  \A i, j \in 1 .. Len(frames) : i < j => End(frames[i]) <= frames[j].at

Apart(vs, cs) ==
  \A i \in 1 .. Len(vs), j \in 1 .. Len(cs) :
    End(vs[i]) <= cs[j].at \/ End(cs[j]) <= vs[i].at

\* Where a frame begins, or will begin.
Boundary(s, vs, cs, p) ==
  \/ p = Len(s)
  \/ \E i \in 1 .. Len(vs) : vs[i].at = p
  \/ \E i \in 1 .. Len(cs) : cs[i].at = p

MagicAt(s, p, channel) ==
  /\ p + 3 <= Len(s)
  /\ s[p + 1] = S55 /\ s[p + 2] = SCC /\ s[p + 3] = channel

\* A magic is nowhere but in frames of its channel.
OnlyIn(s, frames, channel) ==
  \A p \in 0 .. Len(s) : MagicAt(s, p, channel) =>
    \E i \in 1 .. Len(frames) : frames[i].at <= p /\ p < End(frames[i])

Frames(s, frames, channel, payloads) ==
  /\ frames \in Seq(Frame)
  /\ \A i \in 1 .. Len(frames) :
       FrameIn(s, frames[i], channel) /\ frames[i].body \in payloads
  /\ Ordered(frames)

\* The stream s is what precedes the first frame, then frame after frame: vs, cs.
Sent(s, vs, cs) ==
  /\ s \in Seq(Int)
  /\ Frames(s, vs, CH_VIDEO, VideoPayloads) /\ Frames(s, cs, CH_AOA, ControlPayloads)
  /\ Apart(vs, cs)
  /\ \A i \in 1 .. Len(vs) : Boundary(s, vs, cs, End(vs[i]))
  /\ \A i \in 1 .. Len(cs) : Boundary(s, vs, cs, End(cs[i]))
  /\ OnlyIn(s, vs, CH_VIDEO)

StreamInv ==
  /\ taken \in 0 .. Len(stream)
  /\ Sent(stream, videos, controls)
  /\ start = <<>> => /\ Boundary(stream, videos, controls, 0)
                     /\ OnlyIn(stream, controls, CH_AOA)

\* A buffer holds the last of n tokens of a stream.
Window(s, n, b) ==
  /\ b \in Seq(Int) /\ Len(b) <= n
  /\ \A x \in 1 .. Len(b) : b[x] = s[n - Len(b) + x]

\* Where in the stream it begins.
Base(n, b) == n - Len(b)

\* The frames before p have come out, and p is not inside of one.
HandedOut(out, frames, p) ==
  /\ out \in Seq(Seq(Int)) /\ Len(out) <= Len(frames)
  /\ \A i \in 1 .. Len(out) : out[i] = frames[i].body /\ End(frames[i]) <= p
  /\ \A i \in Len(out) + 1 .. Len(frames) : p <= frames[i].at

\* None of the others is whole in the first n tokens.
Waiting(out, frames, n) ==
  \A i \in Len(out) + 1 .. Len(frames) : n < End(frames[i])

FeedInv ==
  /\ Window(stream, taken, buffer) /\ HandedOut(video, videos, Base(taken, buffer))
  /\ pc # "video" => Waiting(video, videos, taken) /\ Len(buffer) < HEADER + MAX_PAYLOAD

LinkInv ==
  start = <<>> =>
    /\ Window(stream, taken, g_rx) /\ Boundary(stream, videos, controls, Base(taken, g_rx))
    /\ HandedOut(linkVideo, videos, Base(taken, g_rx))
    /\ HandedOut(linkControl, controls, Base(taken, g_rx))
    /\ pc = "read" => /\ Waiting(linkVideo, videos, taken) /\ Waiting(linkControl, controls, taken)
                      /\ Len(g_rx) < HEADER + MAX_PAYLOAD

\* p is not inside of a control frame.
Clear(cs, p) ==
  \A i \in 1 .. Len(cs) : p <= cs[i].at \/ End(cs[i]) <= p

\* j tokens of junk and then the last of n tokens of the stream.
Holds(s, n, b, j) ==
  /\ b \in Seq(Int) /\ j \in 0 .. Len(b) /\ Len(b) - j <= n
  /\ \A x \in 1 .. Len(b) - j : b[j + x] = s[n - (Len(b) - j) + x]

\* So does the control buffer b in transfer d: junk of an earlier transfer comes
\* right before this one.
Spliced(s, n, d, b, fs, out, j) ==
  /\ Holds(s, n, b, j) /\ HandedOut(out, fs, n - (Len(b) - j))
  /\ Base(n, d) <= n - (Len(b) - j)
  /\ j > 0 => Base(n, d) = n - (Len(b) - j)

\* A transfer does not begin with what could be the rest of a control magic.
Clean(d) ==
  /\ Len(d) > 0 => d[1] # CH_AOA
  /\ Len(d) > 1 => ~(d[1] = SCC /\ d[2] = CH_AOA)

ControlInv ==
  start = <<>> /\ ~cut =>
    /\ Window(stream, taken, data) /\ Clear(controls, taken) /\ Clear(controls, Base(taken, data))
    /\ Clean(data)
    /\ pc \in {"read", "link"} => HandedOut(control, controls, taken)
    /\ pc = "video" => HandedOut(control, controls, Base(taken, data))
    /\ pc # "control" => Len(control_buffer) <= 2
    /\ pc = "control" =>
         \E j \in 0 .. 2 : Spliced(stream, taken, data, control_buffer, controls, control, j)

\* The types, and the bounds that hold whatever precedes the first frame.
BulkTypes ==
  /\ pc \in {"read", "video", "control", "link"} /\ cut \in BOOLEAN
  /\ data \in Seq(Int) /\ control_buffer \in Seq(Int) /\ g_rx \in Seq(Int)
  /\ pc # "control" => Len(control_buffer) < HEADER + MaxControl
  /\ Len(g_rx) <= RxSize

BulkInv == StreamInv /\ BulkTypes /\ FeedInv /\ LinkInv /\ ControlInv
-----------------------------------------------------------------------------
(* Sending *)

\* The tokens are told apart, and none is a length.
LEMMA Tokens ==
  /\ S55 \in Int /\ SCC \in Int /\ CH_VIDEO \in Int /\ CH_AOA \in Int
  /\ S55 # SCC /\ S55 # CH_VIDEO /\ S55 # CH_AOA
  /\ SCC # CH_VIDEO /\ SCC # CH_AOA /\ CH_VIDEO # CH_AOA
  /\ \A n \in Nat : n # S55 /\ n # SCC /\ n # CH_VIDEO /\ n # CH_AOA
BY DEF S55, SCC, CH_VIDEO, CH_AOA

Grown(s, c, p, t) == t = s \o wrap(c, p)
FrameOf(s, p) == [at |-> Len(s), body |-> p]
Listed(fs, s, p, gs) == gs = Append(fs, FrameOf(s, p))

\* t is s and a frame behind it.
Extended(s, channel, p, t) ==
  /\ t \in Seq(Int) /\ Len(s) \in Nat /\ Len(p) \in Nat
  /\ Len(t) = Len(s) + 4 + Len(p)
  /\ \A i \in 1 .. Len(s) : t[i] = s[i]
  /\ t[Len(s) + 1] = S55 /\ t[Len(s) + 2] = SCC
  /\ t[Len(s) + 3] = channel /\ t[Len(s) + 4] = Len(p)
  /\ \A k \in 1 .. Len(p) : t[Len(s) + 4 + k] = p[k]

LEMMA GrowsTo ==
  ASSUME NEW s \in Seq(Int), NEW channel \in Int, NEW p \in Seq(Int),
         NEW t, Grown(s, channel, p, t)
  PROVE  Extended(s, channel, p, t)
<1> DEFINE w == wrap(channel, p)
<1>1. /\ w \in Seq(Int) /\ Len(w) = 4 + Len(p) /\ Len(p) \in Nat
      /\ w[1] = S55 /\ w[2] = SCC /\ w[3] = channel /\ w[4] = Len(p)
      /\ \A k \in 1 .. Len(p) : w[4 + k] = p[k]
  BY WrapIs DEF HEADER
<1>2. t = s \o w /\ Len(s) \in Nat
  BY DEF Grown
<1> HIDE DEF w
<1>3. /\ s \o w \in Seq(Int) /\ Len(s \o w) = Len(s) + Len(w)
      /\ \A i \in 1 .. Len(s) : (s \o w)[i] = s[i]
      /\ \A i \in 1 .. Len(w) : (s \o w)[Len(s) + i] = w[i]
  BY <1>1, IntConcatIs
<1>4. t \in Seq(Int) /\ Len(t) = Len(s) + 4 + Len(p)
      /\ \A i \in 1 .. Len(s) : t[i] = s[i]
  BY <1>1, <1>2, <1>3
<1>5. \A i \in 1 .. Len(w) : t[Len(s) + i] = w[i]
  BY <1>2, <1>3
<1>6. 1 \in 1 .. Len(w) /\ 2 \in 1 .. Len(w) /\ 3 \in 1 .. Len(w) /\ 4 \in 1 .. Len(w)
  BY <1>1
<1>7. /\ t[Len(s) + 1] = S55 /\ t[Len(s) + 2] = SCC
      /\ t[Len(s) + 3] = channel /\ t[Len(s) + 4] = Len(p)
  BY <1>1, <1>5, <1>6
<1>8. ASSUME NEW k \in 1 .. Len(p) PROVE t[Len(s) + 4 + k] = p[k]
  <2>1. 4 + k \in 1 .. Len(w) /\ Len(s) + (4 + k) = Len(s) + 4 + k
    BY <1>1, <1>2
  <2> QED
    BY <1>1, <1>5, <2>1
<1> QED
  BY <1>1, <1>2, <1>4, <1>7, <1>8 DEF Extended

\* A sent frame is behind all the others.
LEMMA GrowsIs ==
  ASSUME NEW s \in Seq(Int), NEW channel \in Int, NEW p \in Seq(Int),
         NEW t, Grown(s, channel, p, t)
  PROVE  /\ t \in Seq(Int) /\ Len(s) \in Nat /\ Len(p) \in Nat
         /\ Len(t) = Len(s) + 4 + Len(p)
         /\ \A i \in 1 .. Len(s) : t[i] = s[i]
         /\ t[Len(s) + 1] = S55 /\ t[Len(s) + 2] = SCC
         /\ t[Len(s) + 3] = channel /\ t[Len(s) + 4] = Len(p)
         /\ \A k \in 1 .. Len(p) : t[Len(s) + 4 + k] = p[k]
<1>1. Extended(s, channel, p, t)
  BY GrowsTo
<1> QED
  BY <1>1 DEF Extended

LEMMA FrameStays ==
  ASSUME NEW s \in Seq(Int), NEW c \in Int, NEW p \in Seq(Int),
         NEW t, Grown(s, c, p, t),
         NEW f \in Frame, NEW d \in Int, FrameIn(s, f, d)
  PROVE  FrameIn(t, f, d) /\ End(f) <= Len(s)
<1>1. /\ Len(s) \in Nat /\ Len(p) \in Nat /\ Len(t) = Len(s) + 4 + Len(p)
      /\ \A i \in 1 .. Len(s) : t[i] = s[i]
  BY GrowsIs
<1>2. f.at \in Nat /\ f.body \in Seq(Int)
  BY DEF Frame
<1>3. Len(f.body) \in Nat
  BY <1>2
<1>4. f.at + 4 + Len(f.body) <= Len(s)
  BY DEF FrameIn, End, HEADER
<1> DEFINE a == f.at
           n == Len(f.body)
<1>5. a \in Nat /\ n \in Nat /\ a + 4 + n <= Len(s)
  BY <1>2, <1>3, <1>4
<1> HIDE DEF a, n
<1>6. /\ a + 1 \in 1 .. Len(s) /\ a + 2 \in 1 .. Len(s)
      /\ a + 3 \in 1 .. Len(s) /\ a + 4 \in 1 .. Len(s)
      /\ a + 4 + n <= Len(t)
  BY <1>1, <1>5
<1>7. ASSUME NEW k \in 1 .. n PROVE a + 4 + k \in 1 .. Len(s)
  BY <1>1, <1>5
<1>8. /\ t[a + 1] = s[a + 1] /\ t[a + 2] = s[a + 2] /\ t[a + 3] = s[a + 3]
      /\ t[a + 4] = s[a + 4] /\ \A k \in 1 .. n : t[a + 4 + k] = s[a + 4 + k]
  BY <1>1, <1>6, <1>7
<1>9. /\ s[a + 1] = S55 /\ s[a + 2] = SCC /\ s[a + 3] = d /\ s[a + 4] = n
      /\ \A k \in 1 .. n : s[a + 4 + k] = f.body[k]
  BY DEF FrameIn, HEADER, a, n
<1>10. /\ t[a + 1] = S55 /\ t[a + 2] = SCC /\ t[a + 3] = d /\ t[a + 4] = n
       /\ \A k \in 1 .. n : t[a + 4 + k] = f.body[k]
  BY <1>8, <1>9
<1>11. End(f) <= Len(t) /\ End(f) <= Len(s)
  BY <1>5, <1>6 DEF End, HEADER, a, n
<1> QED
  BY <1>10, <1>11 DEF FrameIn, HEADER, a, n

\* Magics of another channel are not new.
LEMMA NoNewMagic ==
  ASSUME NEW s \in Seq(Int), NEW c \in Int, NEW p \in Seq(Int),
         NEW t, Grown(s, c, p, t),
         NEW d \in Int, d # c, d # S55, Matches(p, <<S55, SCC, d>>) = {},
         NEW x \in 0 .. Len(t), MagicAt(t, x, d)
  PROVE  x \in 0 .. Len(s) /\ MagicAt(s, x, d)
<1> DEFINE L == Len(s)
<1>1. /\ L \in Nat /\ Len(p) \in Nat /\ Len(t) = L + 4 + Len(p)
      /\ \A i \in 1 .. L : t[i] = s[i]
      /\ t[L + 1] = S55 /\ t[L + 2] = SCC /\ t[L + 3] = c /\ t[L + 4] = Len(p)
      /\ \A k \in 1 .. Len(p) : t[L + 4 + k] = p[k]
  <2>1. Extended(s, c, p, t)
    BY GrowsTo
  <2> QED
    BY <2>1 DEF Extended
<1>2. x + 3 <= Len(t) /\ t[x + 1] = S55 /\ t[x + 2] = SCC /\ t[x + 3] = d
  BY DEF MagicAt
<1> HIDE DEF L
<1>3. CASE x + 3 <= L
  <2>1. x + 1 \in 1 .. L /\ x + 2 \in 1 .. L /\ x + 3 \in 1 .. L
    BY <1>1, <1>3
  <2>2. s[x + 1] = S55 /\ s[x + 2] = SCC /\ s[x + 3] = d
    BY <1>1, <1>2, <2>1
  <2> QED
    BY <1>1, <1>3, <2>2 DEF MagicAt, L
<1>4. CASE ~(x + 3 <= L)
  <2> SUFFICES FALSE
    OBVIOUS
  <2>1. ASSUME x = L - 2 PROVE FALSE
    <3>1. x + 3 = L + 1
      BY <1>1, <2>1
    <3> QED
      BY <1>1, <1>2, <3>1
  <2>2. ASSUME x = L - 1 PROVE FALSE
    <3>1. x + 2 = L + 1
      BY <1>1, <2>2
    <3> QED
      BY <1>1, <1>2, <3>1, Tokens
  <2>3. ASSUME x = L PROVE FALSE
    <3>1. x + 3 = L + 3
      BY <1>1, <2>3
    <3> QED
      BY <1>1, <1>2, <3>1
  <2>4. ASSUME x = L + 1 PROVE FALSE
    <3>1. x + 1 = L + 2
      BY <1>1, <2>4
    <3> QED
      BY <1>1, <1>2, <3>1, Tokens
  <2>5. ASSUME x = L + 2 PROVE FALSE
    <3>1. x + 2 = L + 4
      BY <1>1, <2>5
    <3>2. Len(p) # SCC
      BY <1>1, Tokens
    <3> QED
      BY <1>1, <1>2, <3>1, <3>2
  <2>6. ASSUME x = L + 3 PROVE FALSE
    <3>1. x + 1 = L + 4
      BY <1>1, <2>6
    <3>2. Len(p) # S55
      BY <1>1, Tokens
    <3> QED
      BY <1>1, <1>2, <3>1, <3>2
  <2>7. x - L - 3 \in 1 .. Len(p) - 2
    BY <1>1, <1>2, <1>4, <2>1, <2>2, <2>3, <2>4, <2>5, <2>6
  <2> DEFINE i == x - L - 3
  <2>8. /\ x + 1 = L + 4 + i /\ x + 2 = L + 4 + (i + 1) /\ x + 3 = L + 4 + (i + 2)
        /\ i \in 1 .. Len(p) /\ i + 1 \in 1 .. Len(p) /\ i + 2 \in 1 .. Len(p)
        /\ i \in 1 .. Len(p) - 2
    <3>1. L \in Nat /\ Len(p) \in Nat /\ x \in Nat
      BY <1>1
    <3> QED
      BY <2>7, <3>1
  <2> HIDE DEF i
  <2>9. p[i] = S55 /\ p[i + 1] = SCC /\ p[i + 2] = d
    BY <1>1, <1>2, <2>8
  <2>10. i \in Matches(p, <<S55, SCC, d>>)
    BY <2>8, <2>9, MatchIs
  <2> QED
    BY <2>10
<1> QED
  BY <1>3, <1>4

\* Magics of the channel are old ones, or in the new frame.
LEMMA NewMagic ==
  ASSUME NEW s \in Seq(Int), NEW c \in Int, NEW p \in Seq(Int),
         NEW t, Grown(s, c, p, t), c # S55,
         NEW x \in 0 .. Len(t), MagicAt(t, x, c)
  PROVE  \/ x \in 0 .. Len(s) /\ MagicAt(s, x, c)
         \/ Len(s) <= x /\ x < Len(s) + 4 + Len(p)
<1> DEFINE L == Len(s)
<1>1. /\ L \in Nat /\ Len(p) \in Nat /\ Len(t) = L + 4 + Len(p)
      /\ \A i \in 1 .. L : t[i] = s[i]
      /\ t[L + 1] = S55
  BY GrowsIs
<1>2. x + 3 <= Len(t) /\ t[x + 1] = S55 /\ t[x + 2] = SCC /\ t[x + 3] = c
  BY DEF MagicAt
<1> HIDE DEF L
<1>3. CASE x + 3 <= L
  <2>1. x + 1 \in 1 .. L /\ x + 2 \in 1 .. L /\ x + 3 \in 1 .. L
    BY <1>1, <1>3
  <2>2. s[x + 1] = S55 /\ s[x + 2] = SCC /\ s[x + 3] = c
    BY <1>1, <1>2, <2>1
  <2> QED
    BY <1>1, <1>3, <2>2 DEF MagicAt, L
<1>4. CASE ~(x + 3 <= L)
  <2>1. ASSUME x = L - 2 PROVE FALSE
    <3>1. x + 3 = L + 1
      BY <1>1, <2>1
    <3> QED
      BY <1>1, <1>2, <3>1
  <2>2. ASSUME x = L - 1 PROVE FALSE
    <3>1. x + 2 = L + 1
      BY <1>1, <2>2
    <3> QED
      BY <1>1, <1>2, <3>1, Tokens
  <2>3. L <= x /\ x < L + 4 + Len(p)
    BY <1>1, <1>2, <1>4, <2>1, <2>2
  <2> QED
    BY <2>3 DEF L
<1> QED
  BY <1>3, <1>4

LEMMA EndIs ==
  ASSUME NEW f \in Frame
  PROVE  f.at \in Nat /\ End(f) \in Nat /\ f.at < End(f) /\ f.body \in Seq(Int)
<1>1. f.at \in Nat /\ Len(f.body) \in Nat /\ f.body \in Seq(Int)
  BY DEF Frame
<1> QED
  BY <1>1 DEF End, HEADER

\* The frames of a channel after a frame has been sent on another, and on theirs.
LEMMA FramesStay ==
  ASSUME NEW s \in Seq(Int), NEW c \in Int, NEW p \in Seq(Int),
         NEW t, Grown(s, c, p, t),
         NEW fs, NEW d \in Int, NEW P, Frames(s, fs, d, P)
  PROVE  /\ Frames(t, fs, d, P)
         /\ \A i \in 1 .. Len(fs) : End(fs[i]) <= Len(s)
<1>1. fs \in Seq(Frame) /\ \A i \in 1 .. Len(fs) : fs[i] \in Frame
  BY DEF Frames
<1>2. ASSUME NEW i \in 1 .. Len(fs)
      PROVE  FrameIn(t, fs[i], d) /\ End(fs[i]) <= Len(s)
  BY <1>1, FrameStays DEF Frames
<1> QED
  BY <1>1, <1>2 DEF Frames

LEMMA FramesGrow ==
  ASSUME NEW s \in Seq(Int), NEW c \in Int, NEW p \in Seq(Int),
         NEW t, Grown(s, c, p, t),
         NEW fs, NEW P, p \in P, Frames(s, fs, c, P),
         NEW f, f = FrameOf(s, p), NEW gs, Listed(fs, s, p, gs)
  PROVE  /\ Frames(t, gs, c, P)
         /\ f \in Frame /\ f.at = Len(s) /\ End(f) = Len(t)
         /\ Len(gs) = Len(fs) + 1 /\ gs[Len(gs)] = f
         /\ \A i \in 1 .. Len(fs) : gs[i] = fs[i] /\ End(fs[i]) <= Len(s)
<1>1. /\ t \in Seq(Int) /\ Len(s) \in Nat /\ Len(p) \in Nat
      /\ Len(t) = Len(s) + 4 + Len(p)
      /\ t[Len(s) + 1] = S55 /\ t[Len(s) + 2] = SCC
      /\ t[Len(s) + 3] = c /\ t[Len(s) + 4] = Len(p)
      /\ \A k \in 1 .. Len(p) : t[Len(s) + 4 + k] = p[k]
  BY GrowsIs
<1>2. f \in Frame /\ f.at = Len(s) /\ f.body = p /\ End(f) = Len(t)
  BY <1>1 DEF FrameOf, Frame, End, HEADER
<1>3. FrameIn(t, f, c)
  BY <1>1, <1>2 DEF FrameIn, HEADER
<1>4. fs \in Seq(Frame) /\ Len(fs) \in Nat
  BY DEF Frames
<1>5. /\ gs \in Seq(Frame) /\ Len(gs) = Len(fs) + 1
      /\ \A i \in 1 .. Len(fs) : gs[i] = fs[i]
      /\ gs[Len(fs) + 1] = f
  BY <1>2, <1>4 DEF Listed
<1>6. Frames(t, fs, c, P) /\ \A i \in 1 .. Len(fs) : End(fs[i]) <= Len(s)
  BY FramesStay
<1>7. ASSUME NEW i \in 1 .. Len(gs)
      PROVE  FrameIn(t, gs[i], c) /\ gs[i].body \in P
  <2>1. CASE i = Len(fs) + 1
    BY <1>2, <1>3, <1>5, <2>1
  <2>2. CASE i \in 1 .. Len(fs)
    BY <1>5, <1>6, <2>2 DEF Frames
  <2> QED
    BY <1>4, <1>5, <2>1, <2>2
<1>8. ASSUME NEW i \in 1 .. Len(gs), NEW j \in 1 .. Len(gs), i < j
      PROVE  End(gs[i]) <= gs[j].at
  <2>1. i \in 1 .. Len(fs) /\ gs[i] = fs[i]
    BY <1>4, <1>5, <1>8
  <2>2. CASE j = Len(fs) + 1
    BY <1>2, <1>5, <1>6, <2>1, <2>2
  <2>3. CASE j \in 1 .. Len(fs)
    <3>1. End(fs[i]) <= fs[j].at
      BY <1>8, <2>1, <2>3 DEF Frames, Ordered
    <3> QED
      BY <1>5, <2>1, <2>3, <3>1
  <2> QED
    BY <1>4, <1>5, <2>2, <2>3
<1> QED
  BY <1>2, <1>4, <1>5, <1>6, <1>7, <1>8 DEF Frames, Ordered

LEMMA SendVideoKeeps ==
  ASSUME FramingAssumption, NEW s, NEW vs, NEW cs, Sent(s, vs, cs),
         NEW p \in VideoPayloads, NEW t, Grown(s, CH_VIDEO, p, t),
         NEW gs, Listed(vs, s, p, gs)
  PROVE  /\ Sent(t, gs, cs) /\ Len(s) <= Len(t)
         /\ Len(gs) = Len(vs) + 1 /\ gs[Len(gs)].at = Len(s)
         /\ \A i \in 1 .. Len(vs) : gs[i] = vs[i]
         /\ \A x \in Nat : Boundary(s, vs, cs, x) => Boundary(t, gs, cs, x)
         /\ OnlyIn(s, cs, CH_AOA) => OnlyIn(t, cs, CH_AOA)
<1> DEFINE f == FrameOf(s, p)
<1>1. /\ s \in Seq(Int) /\ p \in Seq(Int) /\ CH_VIDEO \in Int /\ CH_AOA \in Int
      /\ Matches(p, <<S55, SCC, CH_AOA>>) = {} /\ CH_VIDEO # CH_AOA
      /\ CH_VIDEO # S55 /\ CH_AOA # S55
  BY Tokens DEF FramingAssumption, Sent, AOA_MAGIC
<1>2. /\ t \in Seq(Int) /\ Len(s) \in Nat /\ Len(p) \in Nat
      /\ Len(t) = Len(s) + 4 + Len(p)
      /\ \A i \in 1 .. Len(s) : t[i] = s[i]
  BY <1>1, GrowsIs
<1>3. Frames(s, vs, CH_VIDEO, VideoPayloads) /\ Frames(s, cs, CH_AOA, ControlPayloads)
  BY DEF Sent
<1>4. /\ Frames(t, gs, CH_VIDEO, VideoPayloads)
      /\ f \in Frame /\ f.at = Len(s) /\ End(f) = Len(t)
      /\ Len(gs) = Len(vs) + 1 /\ gs[Len(gs)] = f
      /\ \A i \in 1 .. Len(vs) : gs[i] = vs[i] /\ End(vs[i]) <= Len(s)
  BY <1>1, <1>3, FramesGrow
<1>5. /\ Frames(t, cs, CH_AOA, ControlPayloads)
      /\ \A i \in 1 .. Len(cs) : End(cs[i]) <= Len(s)
  BY <1>1, <1>3, FramesStay
<1>6. vs \in Seq(Frame) /\ cs \in Seq(Frame) /\ Len(vs) \in Nat /\ Len(cs) \in Nat
  BY <1>3 DEF Frames
<1> HIDE DEF f
<1>7. \A i \in 1 .. Len(gs) : \/ i \in 1 .. Len(vs) /\ gs[i] = vs[i]
                              \/ i = Len(gs) /\ gs[i] = f
  BY <1>4, <1>6
<1>8. ASSUME NEW x, Boundary(s, vs, cs, x)
      PROVE  Boundary(t, gs, cs, x)
  <2>1. CASE x = Len(s)
    <3>1. Len(gs) \in 1 .. Len(gs) /\ gs[Len(gs)].at = x
      BY <1>4, <1>6, <2>1
    <3> QED
      BY <3>1 DEF Boundary
  <2>2. ASSUME NEW i \in 1 .. Len(vs), vs[i].at = x
        PROVE  Boundary(t, gs, cs, x)
    <3>1. i \in 1 .. Len(gs) /\ gs[i].at = x
      BY <1>4, <1>6, <2>2
    <3> QED
      BY <3>1 DEF Boundary
  <2>3. ASSUME NEW i \in 1 .. Len(cs), cs[i].at = x
        PROVE  Boundary(t, gs, cs, x)
    BY <2>3 DEF Boundary
  <2> QED
    BY <1>8, <2>1, <2>2, <2>3 DEF Boundary
<1>9. \A i \in 1 .. Len(gs) : Boundary(t, gs, cs, End(gs[i]))
  <2> SUFFICES ASSUME NEW i \in 1 .. Len(gs)
               PROVE  Boundary(t, gs, cs, End(gs[i]))
    OBVIOUS
  <2>1. CASE i \in 1 .. Len(vs) /\ gs[i] = vs[i]
    BY <1>8, <2>1 DEF Sent
  <2>2. CASE i = Len(gs) /\ gs[i] = f
    BY <1>4, <2>2 DEF Boundary
  <2> QED
    BY <1>7, <2>1, <2>2
<1>10. \A i \in 1 .. Len(cs) : Boundary(t, gs, cs, End(cs[i]))
  BY <1>8 DEF Sent
<1>11. Apart(gs, cs)
  <2> SUFFICES ASSUME NEW i \in 1 .. Len(gs), NEW j \in 1 .. Len(cs)
               PROVE  End(gs[i]) <= cs[j].at \/ End(cs[j]) <= gs[i].at
    BY DEF Apart
  <2>1. CASE i \in 1 .. Len(vs) /\ gs[i] = vs[i]
    BY <2>1 DEF Sent, Apart
  <2>2. CASE i = Len(gs) /\ gs[i] = f
    BY <1>4, <1>5, <2>2
  <2> QED
    BY <1>7, <2>1, <2>2
<1>12. OnlyIn(s, vs, CH_VIDEO) => OnlyIn(t, gs, CH_VIDEO)
  <2> SUFFICES ASSUME OnlyIn(s, vs, CH_VIDEO),
                      NEW x \in 0 .. Len(t), MagicAt(t, x, CH_VIDEO)
               PROVE  \E i \in 1 .. Len(gs) : gs[i].at <= x /\ x < End(gs[i])
    BY DEF OnlyIn
  <2>1. CASE x \in 0 .. Len(s) /\ MagicAt(s, x, CH_VIDEO)
    <3>1. PICK i \in 1 .. Len(vs) : vs[i].at <= x /\ x < End(vs[i])
      BY <2>1 DEF OnlyIn
    <3>2. i \in 1 .. Len(gs) /\ gs[i] = vs[i]
      BY <1>4, <1>6
    <3> QED
      BY <3>1, <3>2
  <2>2. CASE Len(s) <= x /\ x < Len(s) + 4 + Len(p)
    <3>1. Len(gs) \in 1 .. Len(gs)
      BY <1>4, <1>6
    <3>2. gs[Len(gs)].at <= x /\ x < End(gs[Len(gs)])
      BY <1>2, <1>4, <2>2
    <3> QED
      BY <3>1, <3>2
  <2> QED
    BY <1>1, <2>1, <2>2, NewMagic
<1>13. OnlyIn(s, cs, CH_AOA) => OnlyIn(t, cs, CH_AOA)
  <2> SUFFICES ASSUME OnlyIn(s, cs, CH_AOA),
                      NEW x \in 0 .. Len(t), MagicAt(t, x, CH_AOA)
               PROVE  \E i \in 1 .. Len(cs) : cs[i].at <= x /\ x < End(cs[i])
    BY DEF OnlyIn
  <2>1. x \in 0 .. Len(s) /\ MagicAt(s, x, CH_AOA)
    BY <1>1, NoNewMagic
  <2> QED
    BY <2>1 DEF OnlyIn
<1>14. Sent(t, gs, cs)
  BY <1>2, <1>4, <1>5, <1>9, <1>10, <1>11, <1>12, <1>13 DEF Sent
<1> QED
  BY <1>2, <1>4, <1>8, <1>12, <1>13, <1>14

LEMMA SendControlKeeps ==
  ASSUME FramingAssumption, NEW s, NEW vs, NEW cs, Sent(s, vs, cs),
         NEW p \in ControlPayloads, NEW t, Grown(s, CH_AOA, p, t),
         NEW gs, Listed(cs, s, p, gs)
  PROVE  /\ Sent(t, vs, gs) /\ Len(s) <= Len(t)
         /\ Len(gs) = Len(cs) + 1 /\ gs[Len(gs)].at = Len(s)
         /\ \A i \in 1 .. Len(cs) : gs[i] = cs[i]
         /\ \A x \in Nat : Boundary(s, vs, cs, x) => Boundary(t, vs, gs, x)
         /\ OnlyIn(s, cs, CH_AOA) => OnlyIn(t, gs, CH_AOA)
<1> DEFINE f == FrameOf(s, p)
<1>1. /\ s \in Seq(Int) /\ p \in Seq(Int) /\ CH_AOA \in Int /\ CH_VIDEO \in Int
      /\ Matches(p, <<S55, SCC, CH_VIDEO>>) = {} /\ CH_AOA # CH_VIDEO
      /\ CH_AOA # S55 /\ CH_VIDEO # S55
  BY Tokens DEF FramingAssumption, Sent, VIDEO_MAGIC
<1>2. /\ t \in Seq(Int) /\ Len(s) \in Nat /\ Len(p) \in Nat
      /\ Len(t) = Len(s) + 4 + Len(p)
      /\ \A i \in 1 .. Len(s) : t[i] = s[i]
  BY <1>1, GrowsIs
<1>3. Frames(s, cs, CH_AOA, ControlPayloads) /\ Frames(s, vs, CH_VIDEO, VideoPayloads)
  BY DEF Sent
<1>4. /\ Frames(t, gs, CH_AOA, ControlPayloads)
      /\ f \in Frame /\ f.at = Len(s) /\ End(f) = Len(t)
      /\ Len(gs) = Len(cs) + 1 /\ gs[Len(gs)] = f
      /\ \A i \in 1 .. Len(cs) : gs[i] = cs[i] /\ End(cs[i]) <= Len(s)
  BY <1>1, <1>3, FramesGrow
<1>5. /\ Frames(t, vs, CH_VIDEO, VideoPayloads)
      /\ \A i \in 1 .. Len(vs) : End(vs[i]) <= Len(s)
  BY <1>1, <1>3, FramesStay
<1>6. cs \in Seq(Frame) /\ vs \in Seq(Frame) /\ Len(cs) \in Nat /\ Len(vs) \in Nat
  BY <1>3 DEF Frames
<1> HIDE DEF f
<1>7. \A i \in 1 .. Len(gs) : \/ i \in 1 .. Len(cs) /\ gs[i] = cs[i]
                              \/ i = Len(gs) /\ gs[i] = f
  BY <1>4, <1>6
<1>8. ASSUME NEW x, Boundary(s, vs, cs, x)
      PROVE  Boundary(t, vs, gs, x)
  <2>1. CASE x = Len(s)
    <3>1. Len(gs) \in 1 .. Len(gs) /\ gs[Len(gs)].at = x
      BY <1>4, <1>6, <2>1
    <3> QED
      BY <3>1 DEF Boundary
  <2>2. ASSUME NEW i \in 1 .. Len(cs), cs[i].at = x
        PROVE  Boundary(t, vs, gs, x)
    <3>1. i \in 1 .. Len(gs) /\ gs[i].at = x
      BY <1>4, <1>6, <2>2
    <3> QED
      BY <3>1 DEF Boundary
  <2>3. ASSUME NEW i \in 1 .. Len(vs), vs[i].at = x
        PROVE  Boundary(t, vs, gs, x)
    BY <2>3 DEF Boundary
  <2> QED
    BY <1>8, <2>1, <2>2, <2>3 DEF Boundary
<1>9. \A i \in 1 .. Len(gs) : Boundary(t, vs, gs, End(gs[i]))
  <2> SUFFICES ASSUME NEW i \in 1 .. Len(gs)
               PROVE  Boundary(t, vs, gs, End(gs[i]))
    OBVIOUS
  <2>1. CASE i \in 1 .. Len(cs) /\ gs[i] = cs[i]
    BY <1>8, <2>1 DEF Sent
  <2>2. CASE i = Len(gs) /\ gs[i] = f
    BY <1>4, <2>2 DEF Boundary
  <2> QED
    BY <1>7, <2>1, <2>2
<1>10. \A i \in 1 .. Len(vs) : Boundary(t, vs, gs, End(vs[i]))
  BY <1>8 DEF Sent
<1>11. Apart(vs, gs)
  <2> SUFFICES ASSUME NEW i \in 1 .. Len(gs), NEW j \in 1 .. Len(vs)
               PROVE  End(gs[i]) <= vs[j].at \/ End(vs[j]) <= gs[i].at
    BY DEF Apart
  <2>1. CASE i \in 1 .. Len(cs) /\ gs[i] = cs[i]
    BY <2>1 DEF Sent, Apart
  <2>2. CASE i = Len(gs) /\ gs[i] = f
    BY <1>4, <1>5, <2>2
  <2> QED
    BY <1>7, <2>1, <2>2
<1>12. OnlyIn(s, cs, CH_AOA) => OnlyIn(t, gs, CH_AOA)
  <2> SUFFICES ASSUME OnlyIn(s, cs, CH_AOA),
                      NEW x \in 0 .. Len(t), MagicAt(t, x, CH_AOA)
               PROVE  \E i \in 1 .. Len(gs) : gs[i].at <= x /\ x < End(gs[i])
    BY DEF OnlyIn
  <2>1. CASE x \in 0 .. Len(s) /\ MagicAt(s, x, CH_AOA)
    <3>1. PICK i \in 1 .. Len(cs) : cs[i].at <= x /\ x < End(cs[i])
      BY <2>1 DEF OnlyIn
    <3>2. i \in 1 .. Len(gs) /\ gs[i] = cs[i]
      BY <1>4, <1>6
    <3> QED
      BY <3>1, <3>2
  <2>2. CASE Len(s) <= x /\ x < Len(s) + 4 + Len(p)
    <3>1. Len(gs) \in 1 .. Len(gs)
      BY <1>4, <1>6
    <3>2. gs[Len(gs)].at <= x /\ x < End(gs[Len(gs)])
      BY <1>2, <1>4, <2>2
    <3> QED
      BY <3>1, <3>2
  <2> QED
    BY <1>1, <2>1, <2>2, NewMagic
<1>13. OnlyIn(s, vs, CH_VIDEO) => OnlyIn(t, vs, CH_VIDEO)
  <2> SUFFICES ASSUME OnlyIn(s, vs, CH_VIDEO),
                      NEW x \in 0 .. Len(t), MagicAt(t, x, CH_VIDEO)
               PROVE  \E i \in 1 .. Len(vs) : vs[i].at <= x /\ x < End(vs[i])
    BY DEF OnlyIn
  <2>1. x \in 0 .. Len(s) /\ MagicAt(s, x, CH_VIDEO)
    BY <1>1, NoNewMagic
  <2> QED
    BY <2>1 DEF OnlyIn
<1>14. Sent(t, vs, gs)
  BY <1>2, <1>4, <1>5, <1>9, <1>10, <1>11, <1>12, <1>13 DEF Sent
<1> QED
  BY <1>2, <1>4, <1>8, <1>12, <1>13, <1>14
-----------------------------------------------------------------------------
(* Taking frames out *)

\* The end of a window is a window.
LEMMA WindowEnds ==
  ASSUME NEW s, NEW n \in Nat, NEW b, Window(s, n, b), NEW i \in 1 .. Len(b) + 1
  PROVE  /\ Window(s, n, SubSeq(b, i, Len(b)))
         /\ Len(SubSeq(b, i, Len(b))) = Len(b) - i + 1
<1> DEFINE c == SubSeq(b, i, Len(b))
<1>1. b \in Seq(Int) /\ Len(b) \in Nat /\ Len(b) <= n
      /\ \A x \in 1 .. Len(b) : b[x] = s[n - Len(b) + x]
  BY DEF Window
<1>2. i - 1 <= Len(b) /\ Len(b) \in Int /\ i \in Int
  BY <1>1
<1>3. /\ c \in Seq(Int) /\ Len(c) = Len(b) - i + 1
      /\ \A k \in 1 .. Len(b) - i + 1 : c[k] = b[i - 1 + k]
  BY <1>1, <1>2, SubSeqIs
<1> HIDE DEF c
<1>4. ASSUME NEW x \in 1 .. Len(c)
      PROVE  c[x] = s[n - Len(c) + x]
  <2>1. i - 1 + x \in 1 .. Len(b) /\ n - Len(b) + (i - 1 + x) = n - Len(c) + x
    BY <1>1, <1>2, <1>3
  <2>2. c[x] = b[i - 1 + x]
    BY <1>3
  <2>3. b[i - 1 + x] = s[n - Len(b) + (i - 1 + x)]
    BY <1>1, <2>1
  <2> QED
    BY <2>1, <2>2, <2>3
<1>5. Len(c) <= n
  BY <1>1, <1>2, <1>3
<1> QED
  BY <1>3, <1>4, <1>5 DEF Window, c

\* A frame f at the beginning of c is not whole in the first n tokens, or it is.
Partial(n, c, f, r) ==
  /\ n < End(f) /\ Len(c) < HEADER + Len(f.body)
  /\ r.left = c /\ r.out = <<>> /\ r.more = FALSE

Complete(s, n, f, channel, r) ==
  /\ End(f) <= n
  /\ r.more = TRUE /\ Window(s, n, r.left) /\ n - Len(r.left) = End(f)
  /\ \E g : r.out = <<g>> /\ Body(g) = f.body /\ g[3] = channel

\* TakeFrame on a window that begins with a frame: the whole frame, or nothing yet.
LEMMA TakeFrameIs ==
  ASSUME NEW s \in Seq(Int), NEW n \in 0 .. Len(s), NEW c, Window(s, n, c),
         NEW f \in Frame, NEW channel \in Int, FrameIn(s, f, channel),
         n - Len(c) = f.at,
         NEW lengths, Len(f.body) \in lengths, NEW r, r = TakeFrame(c, lengths)
  PROVE  Partial(n, c, f, r) \/ Complete(s, n, f, channel, r)
<1> DEFINE a == f.at
           l == Len(f.body)
<1>1. /\ c \in Seq(Int) /\ Len(c) \in Nat /\ n \in Nat /\ Len(c) <= n
      /\ \A x \in 1 .. Len(c) : c[x] = s[n - Len(c) + x]
  <2>1. /\ c \in Seq(Int) /\ Len(c) <= n
        /\ \A x \in 1 .. Len(c) : c[x] = s[n - Len(c) + x]
    BY Zenon DEF Window
  <2>2. Len(c) \in Nat /\ n \in Nat
    BY <2>1
  <2> QED
    BY <2>1, <2>2
<1>2. /\ a \in Nat /\ l \in Nat /\ f.body \in Seq(Int)
      /\ End(f) = a + 4 + l /\ n = a + Len(c)
  BY <1>1, EndIs DEF End, HEADER, Frame
<1>3. \A x \in 1 .. Len(c) : c[x] = s[a + x]
  <2>1. n - Len(c) = a
    BY <1>1, <1>2
  <2> QED
    BY <1>1, <2>1
<1>4. /\ s[a + 3] = channel /\ s[a + 4] = l
      /\ \A k \in 1 .. l : s[a + 4 + k] = f.body[k]
  BY DEF FrameIn, HEADER
<1>5. l \in lengths
  OBVIOUS
<1> HIDE DEF a, l
<1>6. CASE Len(c) < 4
  <2>1. TakeFrame(c, lengths) = [left |-> c, out |-> <<>>, more |-> FALSE]
    BY <1>6 DEF TakeFrame, HEADER
  <2>2. n < End(f) /\ Len(c) < 4 + l
    BY <1>1, <1>2, <1>6
  <2> QED
    BY <2>1, <2>2 DEF HEADER, l, Partial
<1>7. CASE ~(Len(c) < 4)
  <2>1. c[4] = l /\ c[3] = channel
    <3>1. 4 \in 1 .. Len(c) /\ 3 \in 1 .. Len(c)
      BY <1>1, <1>7
    <3> QED
      BY <1>3, <1>4, <3>1
  <2>2. CASE Len(c) < 4 + l
    <3>1. TakeFrame(c, lengths) = [left |-> c, out |-> <<>>, more |-> FALSE]
      BY <1>5, <1>7, <2>1, <2>2 DEF TakeFrame, HEADER
    <3>2. n < End(f) /\ Len(c) < 4 + l
      BY <1>1, <1>2, <2>2
    <3> QED
      BY <3>1, <3>2 DEF HEADER, l, Partial
  <2>3. CASE ~(Len(c) < 4 + l)
    <3> DEFINE m == Len(c)
    <3>0. m \in Nat /\ l \in Nat /\ 4 + l <= m /\ n = a + m /\ a \in Nat
          /\ End(f) = a + 4 + l
      BY <1>1, <1>2, <2>3
    <3> HIDE DEF m
    <3>2. 4 + l + 1 \in 1 .. m + 1
      BY <3>0
    <3>7. 4 + l \in 0 .. m
      BY <3>0
    <3> DEFINE left == SubSeq(c, 4 + l + 1, Len(c))
               g == SubSeq(c, 1, 4 + l)
    <3>1. TakeFrame(c, lengths) = [left |-> left, out |-> <<g>>, more |-> TRUE]
      BY <1>5, <1>7, <2>1, <2>3 DEF TakeFrame, HEADER
    <3>3. Window(s, n, left) /\ Len(left) = Len(c) - (4 + l + 1) + 1
      <4>1. 4 + l + 1 \in 1 .. Len(c) + 1 /\ n \in Nat
        BY <1>1, <3>2 DEF m
      <4> QED
        BY <4>1, WindowEnds
    <3>6. /\ g \in Seq(Int) /\ Len(g) = 4 + l /\ \A k \in 1 .. 4 + l : g[k] = c[k]
      BY <1>1, <3>7, HeadIs DEF m
    <3> HIDE DEF left, g
    <3>4. n - Len(left) = End(f) /\ End(f) <= n
      <4>1. Len(left) = m - (4 + l + 1) + 1
        BY <3>3 DEF m
      <4> QED
        BY <3>0, <4>1
    <3>8. 5 \in 1 .. Len(g) + 1 /\ Len(g) \in Int /\ 5 - 1 <= Len(g) /\ Len(g) <= Len(g)
      BY <1>2, <3>6
    <3> DEFINE h == SubSeq(g, 5, Len(g))
    <3>9. /\ h \in Seq(Int) /\ Len(h) = Len(g) - 5 + 1
          /\ \A k \in 1 .. Len(g) - 5 + 1 : h[k] = g[5 - 1 + k]
      BY <3>6, <3>8, SubSeqIs
    <3>10. Body(g) = h
      BY DEF Body, HEADER
    <3> HIDE DEF h
    <3>11. Len(h) = l /\ \A k \in 1 .. l : h[k] = g[4 + k]
      <4>1. Len(g) - 5 + 1 = l /\ \A k \in 1 .. l : 5 - 1 + k = 4 + k
        BY <1>2, <3>6
      <4> QED
        BY <3>9, <4>1
    <3>12. \A k \in 1 .. l : h[k] = f.body[k]
      <4> SUFFICES ASSUME NEW k \in 1 .. l PROVE h[k] = f.body[k]
        OBVIOUS
      <4>1. 4 + k \in 1 .. 4 + l /\ 4 + k \in 1 .. Len(c) /\ a + (4 + k) = a + 4 + k
        BY <1>1, <1>2, <2>3
      <4>2. h[k] = c[4 + k]
        BY <3>6, <3>11, <4>1
      <4>3. c[4 + k] = s[a + 4 + k]
        BY <1>3, <4>1
      <4> QED
        BY <1>4, <4>2, <4>3
    <3>13. h = f.body
      BY <1>2, <3>9, <3>11, <3>12, SeqEqual DEF l
    <3>14. g[3] = channel
      <4>1. 3 \in 1 .. 4 + l
        BY <1>2
      <4> QED
        BY <2>1, <3>6, <4>1
    <3>15. r.left = left /\ r.out = <<g>> /\ r.more = TRUE
      BY <3>1
    <3> QED
      BY <3>3, <3>4, <3>10, <3>13, <3>14, <3>15 DEF Complete
  <2> QED
    BY <2>2, <2>3
<1> QED
  BY <1>6, <1>7

\* A nonempty set of naturals has a least member.
LEMMA LeastNat ==
  ASSUME NEW T \in SUBSET Nat, T # {}
  PROVE  \E x \in T : \A y \in T : x <= y
<1> DEFINE R == OpToRel(<, Nat)
<1>1. IsWellFoundedOn(R, Nat)
  BY NatLessThanWellFounded
<1>2. \A x, y \in T : y < x => <<y, x>> \in R
  BY DEF OpToRel
<1> HIDE DEF R
<1>3. PICK x \in T : \A y \in T : ~(<<y, x>> \in R)
  BY <1>1, WFMin
<1>4. \A y \in T : ~(y < x)
  BY <1>2, <1>3
<1> QED
  BY <1>4

LEMMA FirstMatchIs ==
  ASSUME NEW b, NEW magic, Matches(b, magic) # {}, Matches(b, magic) \subseteq Nat
  PROVE  /\ FirstMatch(b, magic) \in Matches(b, magic)
         /\ \A j \in Matches(b, magic) : FirstMatch(b, magic) <= j
<1> DEFINE T == Matches(b, magic)
<1>1. T \in SUBSET Nat /\ T # {}
  OBVIOUS
<1> HIDE DEF T
<1>2. \E x \in T : \A y \in T : x <= y
  BY <1>1, LeastNat
<1> QED
  BY <1>2 DEF FirstMatch, T

Magic(channel) == <<S55, SCC, channel>>

\* What a loop knows of its buffer b before a round: the frames fs of its channel,
\* out what it has taken, and that no magic begins in the junk.
Synced(s, n, b, j, channel, P, fs, out) ==
  /\ s \in Seq(Int) /\ n \in 0 .. Len(s) /\ channel \in Int
  /\ Frames(s, fs, channel, P) /\ OnlyIn(s, fs, channel)
  /\ Holds(s, n, b, j) /\ HandedOut(out, fs, n - (Len(b) - j))
  /\ \A i \in Matches(b, Magic(channel)) : j < i

\* A frame that has not been taken and whose magic is there is a match.
LEMMA FramesMatch ==
  ASSUME NEW s, NEW n, NEW b, NEW j, NEW channel, NEW P, NEW fs, NEW out,
         Synced(s, n, b, j, channel, P, fs, out),
         NEW i \in Len(out) + 1 .. Len(fs), fs[i].at + 3 <= n
  PROVE  fs[i].at - (n - Len(b)) + 1 \in Matches(b, Magic(channel))
<1>1. /\ s \in Seq(Int) /\ n \in 0 .. Len(s) /\ channel \in Int /\ Len(s) \in Nat
      /\ b \in Seq(Int) /\ Len(b) \in Nat /\ j \in 0 .. Len(b)
      /\ \A x \in 1 .. Len(b) - j : b[j + x] = s[n - (Len(b) - j) + x]
  BY DEF Synced, Holds
<1>2. /\ fs \in Seq(Frame) /\ Len(fs) \in Nat /\ Len(out) \in Nat
      /\ n - (Len(b) - j) <= fs[i].at
  BY DEF Synced, Frames, HandedOut
<1>3. i \in 1 .. Len(fs)
  BY <1>2
<1>4. fs[i] \in Frame /\ FrameIn(s, fs[i], channel)
  BY <1>2, <1>3 DEF Synced, Frames
<1> DEFINE a == fs[i].at
           l == Len(b)
           y == a - (n - (l - j))
<1>5. /\ a \in Nat /\ n - (l - j) <= a /\ a + 3 <= n /\ l \in Nat /\ n \in Nat
      /\ j \in Nat /\ j <= l
  BY <1>1, <1>2, <1>4, EndIs
<1>6. s[a + 1] = S55 /\ s[a + 2] = SCC /\ s[a + 3] = channel
  BY <1>4 DEF FrameIn
<1>7. \A x \in 1 .. l - j : b[j + x] = s[n - (l - j) + x]
  BY <1>1
<1> HIDE DEF a, l
<1>8. y + 1 \in 1 .. l - j /\ y + 2 \in 1 .. l - j /\ y + 3 \in 1 .. l - j
  BY <1>5
<1>9. n - (l - j) + (y + 1) = a + 1 /\ n - (l - j) + (y + 2) = a + 2
      /\ n - (l - j) + (y + 3) = a + 3
  BY <1>5
<1> HIDE DEF y
<1>10. b[j + (y + 1)] = S55 /\ b[j + (y + 2)] = SCC /\ b[j + (y + 3)] = channel
  BY <1>6, <1>7, <1>8, <1>9
<1> DEFINE z == j + (y + 1)
<1>11. /\ j + (y + 2) = z + 1 /\ j + (y + 3) = z + 2 /\ z = a - (n - l) + 1
       /\ z \in 1 .. l - 2
  BY <1>5, <1>8 DEF y
<1> HIDE DEF z
<1>12. b[z] = S55 /\ b[z + 1] = SCC /\ b[z + 2] = channel
  BY <1>10, <1>11 DEF z
<1>13. z \in Matches(b, Magic(channel))
  BY <1>1, <1>11, <1>12, MatchIs DEF l, Magic
<1> QED
  BY <1>11, <1>13 DEF a, l

\* The first match is the next frame of the channel.
LEMMA MatchIsNext ==
  ASSUME NEW s, NEW n, NEW b, NEW j, NEW channel, NEW P, NEW fs, NEW out,
         Synced(s, n, b, j, channel, P, fs, out),
         NEW m \in Matches(b, Magic(channel)),
         \A k \in Matches(b, Magic(channel)) : m <= k
  PROVE  /\ Len(out) + 1 \in 1 .. Len(fs)
         /\ fs[Len(out) + 1].at = n - (Len(b) - m + 1)
         /\ m \in 1 .. Len(b) - 2
         /\ Window(s, n, SubSeq(b, m, Len(b)))
         /\ Len(SubSeq(b, m, Len(b))) = Len(b) - m + 1
<1> DEFINE l == Len(b)
           o == Len(out)
           p == n - (l - m + 1)
           M == Matches(b, Magic(channel))
<1>1. /\ s \in Seq(Int) /\ n \in 0 .. Len(s) /\ channel \in Int /\ Len(s) \in Nat
      /\ b \in Seq(Int) /\ l \in Nat /\ j \in 0 .. l /\ l - j <= n
      /\ \A x \in 1 .. l - j : b[j + x] = s[n - (l - j) + x]
  <2>1. Holds(s, n, b, j) /\ s \in Seq(Int) /\ n \in 0 .. Len(s) /\ channel \in Int
    BY DEF Synced
  <2> QED
    <3>1. /\ b \in Seq(Int) /\ j \in 0 .. Len(b) /\ Len(b) - j <= n
          /\ \A x \in 1 .. Len(b) - j : b[j + x] = s[n - (Len(b) - j) + x]
      BY <2>1 DEF Holds
    <3>2. Len(b) \in Nat /\ Len(s) \in Nat
      BY <2>1, <3>1
    <3> QED
      BY <2>1, <3>1, <3>2
<1>0. j < m
  BY DEF Synced
<1>2. /\ fs \in Seq(Frame) /\ Len(fs) \in Nat /\ o \in Nat
      /\ \A i \in 1 .. Len(fs) : fs[i] \in Frame
      /\ \A i \in 1 .. o : End(fs[i]) <= n - (l - j)
      /\ \A i \in o + 1 .. Len(fs) : n - (l - j) <= fs[i].at
      /\ \A i, k \in 1 .. Len(fs) : i < k => End(fs[i]) <= fs[k].at
  BY DEF Synced, Frames, HandedOut, Ordered
<1>3. m \in 1 .. l - 2 /\ b[m] = S55 /\ b[m + 1] = SCC /\ b[m + 2] = channel
  BY <1>1, MatchIs DEF Magic
<1>8. \A k \in o + 1 .. Len(fs) : fs[k].at + 3 <= n => fs[k].at - (n - l) + 1 \in M
  BY FramesMatch
<1> HIDE DEF l, o
<1>n. /\ n \in Nat /\ l \in Nat /\ j \in Nat /\ m \in Nat /\ j < m /\ m <= l - 2 /\ 1 <= m
      /\ l - j <= n /\ n <= Len(s) /\ Len(s) \in Nat /\ j <= l
  BY <1>0, <1>1, <1>3
<1>4. ASSUME NEW x \in {0, 1, 2}
      PROVE  b[m + x] = s[p + (x + 1)]
  <2>1. m + x - j \in 1 .. l - j
    BY <1>0, <1>1, <1>3
  <2>2. j + (m + x - j) = m + x /\ n - (l - j) + (m + x - j) = p + (x + 1)
    BY <1>0, <1>1, <1>3
  <2> HIDE DEF p
  <2> QED
    BY <1>1, <2>1, <2>2
<1>5. s[p + 1] = S55 /\ s[p + 2] = SCC /\ s[p + 3] = channel
  <2>1. m + 0 = m
    BY <1>3
  <2> HIDE DEF p
  <2> QED
    BY <1>3, <1>4, <2>1
<1>6. p \in 0 .. Len(s) /\ p + 3 <= Len(s) /\ p + 3 <= n /\ n - (l - j) <= p
  BY <1>n
<1>7. PICK i \in 1 .. Len(fs) : fs[i].at <= p /\ p < End(fs[i])
  <2> HIDE DEF p
  <2>1. MagicAt(s, p, channel)
    BY <1>5, <1>6 DEF MagicAt
  <2> QED
    BY <1>6, <2>1 DEF Synced, OnlyIn
<1>9. \A k \in 1 .. Len(fs) : fs[k].at \in Nat /\ End(fs[k]) \in Nat /\ fs[k].at < End(fs[k])
  BY <1>2, EndIs
<1>10. \A k \in M : m <= k
  OBVIOUS
<1> HIDE DEF M
<1>11. ASSUME NEW k \in o + 1 .. Len(fs), fs[k].at + 3 <= n
       PROVE  p <= fs[k].at
  <2>1. m <= fs[k].at - (n - l) + 1
    BY <1>8, <1>10, <1>11
  <2>2. fs[k].at \in Nat
    BY <1>2, <1>9
  <2> QED
    BY <1>n, <2>1, <2>2
<1> HIDE DEF p
<1>12. p \in Nat /\ n \in Nat
  BY <1>1, <1>6
<1>13. i \in o + 1 .. Len(fs)
  <2>1. ~(i \in 1 .. o)
    <3> SUFFICES ASSUME i \in 1 .. o PROVE FALSE
      OBVIOUS
    <3>1. End(fs[i]) <= n - (l - j)
      BY <1>2
    <3>2. End(fs[i]) \in Nat /\ n - (l - j) \in Int
      BY <1>1, <1>9, <1>12
    <3> QED
      BY <1>6, <1>7, <1>12, <3>1, <3>2
  <2> QED
    BY <1>2, <2>1
<1>14. fs[i].at = p
  <2>1. fs[i].at \in Nat /\ fs[i].at + 3 <= n
    BY <1>6, <1>7, <1>9, <1>12
  <2>2. p <= fs[i].at
    BY <1>11, <1>13, <2>1
  <2> QED
    BY <1>7, <1>12, <2>1, <2>2
<1>15. i = o + 1
  <2> SUFFICES ASSUME i # o + 1 PROVE FALSE
    OBVIOUS
  <2>1. o + 1 \in o + 1 .. Len(fs) /\ o + 1 \in 1 .. Len(fs) /\ o + 1 < i
    BY <1>2, <1>13
  <2>2. End(fs[o + 1]) <= p /\ fs[o + 1].at < End(fs[o + 1])
        /\ fs[o + 1].at \in Nat /\ End(fs[o + 1]) \in Nat
    BY <1>2, <1>9, <1>14, <2>1
  <2>3. fs[o + 1].at + 3 <= n
    BY <1>6, <1>12, <2>2
  <2>4. p <= fs[o + 1].at
    BY <1>11, <2>1, <2>3
  <2> QED
    BY <1>12, <2>2, <2>4
<1>16. /\ Window(s, n, SubSeq(b, m, Len(b)))
       /\ Len(SubSeq(b, m, Len(b))) = Len(b) - m + 1
  <2>1. m \in 1 .. Len(b) + 1 /\ m - 1 <= Len(b) /\ Len(b) \in Int
    BY <1>1, <1>3 DEF l
  <2> DEFINE c == SubSeq(b, m, Len(b))
  <2>2. /\ c \in Seq(Int) /\ Len(c) = l - m + 1
        /\ \A k \in 1 .. l - m + 1 : c[k] = b[m - 1 + k]
    BY <1>1, <2>1, SubSeqIs DEF l
  <2> HIDE DEF c
  <2>3. ASSUME NEW k \in 1 .. l - m + 1
        PROVE  c[k] = s[n - (l - m + 1) + k]
    <3>1. m - 1 + k - j \in 1 .. l - j
      BY <1>0, <1>1, <1>3
    <3>2. j + (m - 1 + k - j) = m - 1 + k
          /\ n - (l - j) + (m - 1 + k - j) = n - (l - m + 1) + k
      BY <1>0, <1>1, <1>3, <1>12
    <3>3. b[j + (m - 1 + k - j)] = s[n - (l - j) + (m - 1 + k - j)]
      BY <1>1, <3>1
    <3>4. c[k] = b[m - 1 + k]
      BY <2>2
    <3> QED
      BY <3>2, <3>3, <3>4
  <2>4. l - m + 1 <= n
    BY <1>0, <1>1, <1>3
  <2>5. Window(s, n, c)
    BY <2>2, <2>3, <2>4 DEF Window
  <2> QED
    BY <2>2, <2>5 DEF c, l
<1> QED
  BY <1>3, <1>13, <1>14, <1>15, <1>16, <1>2 DEF p, l, o

\* The three ends of a round.  There is no magic, ...
NoMagic(s, n, j, fs, out, r) ==
  /\ r.out = <<>> /\ r.more = FALSE /\ Waiting(out, fs, n)
  /\ r.left \in Seq(Int) /\ Len(r.left) <= 2
  /\ j = 0 => Window(s, n, r.left) /\ HandedOut(out, fs, n - Len(r.left))

\* ... or a frame that is not whole yet, ...
Unfinished(s, n, P, fs, out, r) ==
  /\ r.out = <<>> /\ r.more = FALSE /\ Waiting(out, fs, n)
  /\ Window(s, n, r.left) /\ HandedOut(out, fs, n - Len(r.left))
  /\ \E i \in 1 .. Len(fs) :
       /\ fs[i].at < n /\ n < End(fs[i]) /\ fs[i].body \in P
       /\ Len(r.left) < HEADER + Len(fs[i].body)

\* ... or the next frame.
TakesNext(s, n, fs, out, r) ==
  /\ r.more = TRUE /\ Len(out) + 1 \in 1 .. Len(fs)
  /\ \E g : r.out = <<g>> /\ Body(g) = fs[Len(out) + 1].body
  /\ Window(s, n, r.left)
  /\ HandedOut(Append(out, fs[Len(out) + 1].body), fs, n - Len(r.left))

LEMMA NextHandedOut ==
  ASSUME NEW fs \in Seq(Frame), Ordered(fs), NEW out, NEW p \in Int, HandedOut(out, fs, p),
         Len(out) + 1 \in 1 .. Len(fs)
  PROVE  /\ HandedOut(out, fs, fs[Len(out) + 1].at)
         /\ HandedOut(Append(out, fs[Len(out) + 1].body), fs, End(fs[Len(out) + 1]))
         /\ \A n \in Int : n < End(fs[Len(out) + 1]) => Waiting(out, fs, n)
<1> DEFINE o == Len(out)
           f == fs[o + 1]
           q == Append(out, f.body)
<1>1. /\ out \in Seq(Seq(Int)) /\ o \in Nat /\ Len(fs) \in Nat /\ o + 1 \in 1 .. Len(fs)
      /\ \A i \in 1 .. o : out[i] = fs[i].body /\ End(fs[i]) <= p
      /\ \A i \in o + 1 .. Len(fs) : p <= fs[i].at
      /\ \A i \in 1 .. Len(fs) : fs[i] \in Frame
  BY DEF HandedOut
<1>2. \A i \in 1 .. Len(fs) : /\ fs[i].at \in Nat /\ End(fs[i]) \in Nat
                              /\ fs[i].at < End(fs[i]) /\ fs[i].body \in Seq(Int)
  BY <1>1, EndIs
<1>3. \A i \in o + 1 .. Len(fs) : i = o + 1 \/ (i \in o + 2 .. Len(fs) /\ o + 1 < i)
  BY <1>1
<1>4. \A i \in o + 2 .. Len(fs) : End(f) <= fs[i].at
  BY <1>1 DEF Ordered
<1>5. /\ f.at \in Nat /\ End(f) \in Nat /\ f.at < End(f) /\ f.body \in Seq(Int)
      /\ p <= f.at
  BY <1>1, <1>2
<1>6. \A i \in o + 1 .. Len(fs) : f.at <= fs[i].at /\ End(f) <= End(fs[i])
  <2> SUFFICES ASSUME NEW i \in o + 1 .. Len(fs)
               PROVE  f.at <= fs[i].at /\ End(f) <= End(fs[i])
    OBVIOUS
  <2>1. CASE i = o + 1
    BY <1>5, <2>1
  <2>2. CASE i \in o + 2 .. Len(fs)
    <3>1. End(f) <= fs[i].at
      BY <1>4, <2>2
    <3>2. fs[i].at \in Nat /\ End(fs[i]) \in Nat /\ fs[i].at < End(fs[i])
      BY <1>1, <1>2, <2>2
    <3> HIDE DEF f
    <3> QED
      BY <1>5, <3>1, <3>2
  <2> QED
    BY <1>3, <2>1, <2>2
<1> HIDE DEF f, o
<1>7. \A i \in 1 .. o : End(fs[i]) <= f.at /\ End(fs[i]) <= End(f)
  <2> SUFFICES ASSUME NEW i \in 1 .. o
               PROVE  End(fs[i]) <= f.at /\ End(fs[i]) <= End(f)
    OBVIOUS
  <2>1. End(fs[i]) <= p /\ End(fs[i]) \in Nat
    BY <1>1, <1>2
  <2> QED
    BY <1>5, <2>1
<1>8. HandedOut(out, fs, f.at)
  BY <1>1, <1>6, <1>7 DEF HandedOut, o
<1>9. /\ q \in Seq(Seq(Int)) /\ Len(q) = o + 1 /\ q[o + 1] = f.body
      /\ \A i \in 1 .. o : q[i] = out[i]
  BY <1>1, <1>5, AppendIs DEF o
<1> HIDE DEF q
<1>10. HandedOut(q, fs, End(f))
  <2>1. Len(q) <= Len(fs)
    BY <1>1, <1>9
  <2>2. ASSUME NEW i \in 1 .. Len(q)
        PROVE  q[i] = fs[i].body /\ End(fs[i]) <= End(f)
    <3>1. CASE i = o + 1
      BY <1>5, <1>9, <3>1 DEF f
    <3>2. CASE i \in 1 .. o
      BY <1>1, <1>7, <1>9, <3>2
    <3> QED
      BY <1>1, <1>9, <3>1, <3>2
  <2>3. ASSUME NEW i \in Len(q) + 1 .. Len(fs)
        PROVE  End(f) <= fs[i].at
    <3>1. i \in o + 2 .. Len(fs)
      BY <1>1, <1>9
    <3> QED
      BY <1>4, <3>1
  <2> QED
    BY <1>9, <2>1, <2>2, <2>3 DEF HandedOut
<1>11. ASSUME NEW n \in Int, n < End(f)
       PROVE  Waiting(out, fs, n)
  <2> SUFFICES ASSUME NEW i \in o + 1 .. Len(fs) PROVE n < End(fs[i])
    BY DEF Waiting, o
  <2>1. End(f) <= End(fs[i]) /\ End(fs[i]) \in Nat
    BY <1>1, <1>2, <1>6
  <2> QED
    BY <1>5, <1>11, <2>1
<1> QED
  BY <1>8, <1>10, <1>11 DEF q, f, o

LEMMA ResyncIs ==
  ASSUME NEW s, NEW n, NEW b, NEW j, NEW channel, NEW P, NEW fs, NEW out,
         Synced(s, n, b, j, channel, P, fs, out),
         NEW lengths, \A p \in P : Len(p) \in lengths,
         NEW r, r = Resync(b, Magic(channel), lengths)
  PROVE  \/ NoMagic(s, n, j, fs, out, r)
         \/ Unfinished(s, n, P, fs, out, r)
         \/ TakesNext(s, n, fs, out, r)
<1> DEFINE magic == Magic(channel)
           l == Len(b)
           o == Len(out)
<1>1. /\ s \in Seq(Int) /\ n \in 0 .. Len(s) /\ channel \in Int /\ Len(s) \in Nat
      /\ b \in Seq(Int) /\ l \in Nat /\ j \in 0 .. l /\ l - j <= n
      /\ \A x \in 1 .. l - j : b[j + x] = s[n - (l - j) + x]
  BY DEF Synced, Holds
<1>2. /\ fs \in Seq(Frame) /\ Len(fs) \in Nat /\ o \in Nat /\ Ordered(fs)
      /\ \A i \in 1 .. Len(fs) :
           fs[i] \in Frame /\ FrameIn(s, fs[i], channel) /\ fs[i].body \in P
  BY DEF Synced, Frames, HandedOut
<1>3. HandedOut(out, fs, n - (l - j))
  BY DEF Synced
<1>4. CASE Matches(b, magic) # {}
  <2> DEFINE m == FirstMatch(b, magic)
             c == SubSeq(b, m, l)
             f == fs[o + 1]
  <2>1. Matches(b, magic) \subseteq Nat
    <3> SUFFICES ASSUME NEW i \in Matches(b, magic) PROVE i \in Nat
      OBVIOUS
    <3>1. i \in 1 .. Len(b) - 2
      BY <1>1, MatchIs DEF Magic
    <3> QED
      BY <3>1
  <2>2. m \in Matches(b, magic) /\ \A k \in Matches(b, magic) : m <= k
    BY <1>4, <2>1, FirstMatchIs
  <2>3. r = TakeFrame(c, lengths)
    BY <1>4 DEF Resync
  <2> HIDE DEF m
  <2>4. /\ o + 1 \in 1 .. Len(fs) /\ f.at = n - (l - m + 1)
        /\ m \in 1 .. l - 2 /\ Window(s, n, c) /\ Len(c) = l - m + 1
    <3> HIDE DEF f, c, l, o
    <3>1. /\ Len(out) + 1 \in 1 .. Len(fs)
          /\ fs[Len(out) + 1].at = n - (Len(b) - m + 1)
          /\ m \in 1 .. Len(b) - 2
          /\ Window(s, n, SubSeq(b, m, Len(b)))
          /\ Len(SubSeq(b, m, Len(b))) = Len(b) - m + 1
      BY <2>2, MatchIsNext
    <3> QED
      BY <3>1 DEF f, c, l, o
  <2> HIDE DEF c
  <2>5. /\ f \in Frame /\ FrameIn(s, f, channel) /\ f.body \in P /\ Len(f.body) \in lengths
        /\ n - Len(c) = f.at
    BY <1>2, <2>4
  <2>6. f.at \in Nat /\ End(f) \in Nat /\ f.at < n /\ n \in Nat
    <3>1. f.at \in Nat /\ End(f) \in Nat /\ n \in Nat
      BY <1>1, <2>5, EndIs
    <3>2. l - m + 1 >= 3
      BY <1>1, <2>4
    <3> HIDE DEF f, l
    <3> QED
      BY <1>1, <2>4, <3>1, <3>2
  <2>7. n - (l - j) \in Int
    BY <1>1
  <2> HIDE DEF f, l
  <2>8. /\ HandedOut(out, fs, f.at)
        /\ HandedOut(Append(out, f.body), fs, End(f))
        /\ n < End(f) => Waiting(out, fs, n)
    <3>1. Len(out) + 1 \in 1 .. Len(fs)
      BY <2>4
    <3>2. n \in Int
      BY <2>6
    <3> QED
      BY <1>2, <1>3, <2>7, <3>1, <3>2, NextHandedOut DEF f
  <2>9. CASE Partial(n, c, f, r)
    <3>1. n < End(f) /\ Len(c) < HEADER + Len(f.body)
          /\ r.left = c /\ r.out = <<>> /\ r.more = FALSE
      BY <2>9 DEF Partial
    <3>2. Unfinished(s, n, P, fs, out, r)
      BY <2>4, <2>5, <2>6, <2>8, <3>1 DEF Unfinished, f
    <3> QED
      BY <3>2
  <2>10. CASE Complete(s, n, f, channel, r)
    <3>1. /\ \E g : r.out = <<g>> /\ Body(g) = f.body
          /\ r.more = TRUE /\ Window(s, n, r.left) /\ n - Len(r.left) = End(f)
      BY <2>10 DEF Complete
    <3>2. TakesNext(s, n, fs, out, r)
      BY <2>4, <2>8, <3>1 DEF TakesNext, f, o
    <3> QED
      BY <3>2
  <2>11. Partial(n, c, f, r) \/ Complete(s, n, f, channel, r)
    BY <1>1, <2>3, <2>4, <2>5, TakeFrameIs
  <2> QED
    BY <2>9, <2>10, <2>11
<1>5. CASE Matches(b, magic) = {}
  <2>1. r = [left |-> IF l > 2 THEN LastTokens(b, 2) ELSE b, out |-> <<>>, more |-> FALSE]
    <3>1. Len(magic) - 1 = 2
      BY DEF Magic
    <3> HIDE DEF magic
    <3>2. r = Resync(b, magic, lengths)
      BY DEF magic
    <3> QED
      BY <1>5, <3>1, <3>2 DEF Resync
  <2>2. r.out = <<>> /\ r.more = FALSE
        /\ r.left = IF l > 2 THEN LastTokens(b, 2) ELSE b
    BY <2>1
  <2>3. LastTokens(b, 2) = SubSeq(b, l - 1, Len(b))
    <3>1. l - 2 + 1 = l - 1
      BY <1>1
    <3> QED
      BY <3>1 DEF LastTokens
  <2>4. ASSUME NEW i \in o + 1 .. Len(fs)
        PROVE  n - 2 <= fs[i].at /\ n < End(fs[i]) /\ fs[i].at \in Nat
    <3>1. ~(fs[i].at + 3 <= n)
      BY <1>5, FramesMatch
    <3>2. i \in 1 .. Len(fs)
      BY <1>2
    <3>3. fs[i].at \in Nat /\ Len(fs[i].body) \in Nat
      BY <1>2, <3>2, EndIs
    <3>4. End(fs[i]) = fs[i].at + 4 + Len(fs[i].body)
      BY DEF End, HEADER
    <3> DEFINE a == fs[i].at
               k == Len(fs[i].body)
    <3>5. n \in Int /\ a \in Nat /\ k \in Nat /\ ~(a + 3 <= n) /\ End(fs[i]) = a + 4 + k
      BY <1>1, <3>1, <3>3, <3>4
    <3> HIDE DEF a, k
    <3>6. n - 2 <= a /\ n < End(fs[i])
      BY <3>5
    <3> QED
      BY <3>3, <3>6 DEF a
  <2>5. Waiting(out, fs, n)
    BY <2>4 DEF Waiting
  <2>6. r.left \in Seq(Int) /\ Len(r.left) <= 2
    <3>1. CASE l > 2
      <4>1. l - 1 \in 1 .. l + 1 /\ l \in Int /\ l - 1 - 1 <= l /\ l <= l
        BY <1>1, <3>1
      <4> DEFINE c == SubSeq(b, l - 1, l)
      <4>2. c \in Seq(Int) /\ Len(c) = l - (l - 1) + 1
        BY <1>1, <4>1, SubSeqIs
      <4>3. l - (l - 1) + 1 = 2
        BY <1>1
      <4>4. r.left = c
        BY <2>2, <2>3, <3>1
      <4> HIDE DEF c
      <4>5. c \in Seq(Int) /\ Len(c) <= 2
        BY <4>2, <4>3
      <4> QED
        BY <4>4, <4>5
    <3>2. CASE ~(l > 2)
      BY <1>1, <2>2, <3>2
    <3> QED
      BY <3>1, <3>2
  <2>7. ASSUME j = 0
        PROVE  Window(s, n, r.left) /\ HandedOut(out, fs, n - Len(r.left))
    <3>1. Window(s, n, b)
      <4>1. l - j = l /\ \A x \in 1 .. l : j + x = x
        BY <1>1, <2>7
      <4> QED
        BY <1>1, <4>1 DEF Window
    <3>2. CASE l > 2
      <4>1. l - 1 \in 1 .. Len(b) + 1 /\ n \in Nat
        BY <1>1, <3>2
      <4>2. /\ Window(s, n, SubSeq(b, l - 1, Len(b)))
            /\ Len(SubSeq(b, l - 1, Len(b))) = Len(b) - (l - 1) + 1
        BY <3>1, <4>1, WindowEnds
      <4>3. Len(b) - (l - 1) + 1 = 2
        BY <1>1
      <4>4. HandedOut(out, fs, n - 2)
        <5>1. ASSUME NEW i \in 1 .. o
              PROVE  out[i] = fs[i].body /\ End(fs[i]) <= n - 2
          <6>1. out[i] = fs[i].body /\ End(fs[i]) <= n - (l - j)
            BY <1>3 DEF HandedOut
          <6>2. i \in 1 .. Len(fs)
            BY <1>2, <1>3 DEF HandedOut
          <6>3. End(fs[i]) \in Nat
            BY <1>2, <6>2, EndIs
          <6> QED
            BY <1>1, <3>2, <6>1, <6>3, <2>7
        <5> QED
          BY <1>3, <2>4, <5>1 DEF HandedOut
      <4>5. r.left = SubSeq(b, l - 1, Len(b))
        BY <2>2, <2>3, <3>2
      <4> QED
        BY <4>2, <4>3, <4>4, <4>5
    <3>3. CASE ~(l > 2)
      <4>1. r.left = b
        BY <2>2, <3>3
      <4>2. n - (l - j) = n - Len(b)
        BY <1>1, <2>7
      <4> QED
        BY <1>3, <3>1, <4>1, <4>2
    <3> QED
      BY <3>2, <3>3
  <2>8. NoMagic(s, n, j, fs, out, r)
    BY <2>2, <2>5, <2>6, <2>7 DEF NoMagic
  <2> QED
    BY <2>8
<1> QED
  BY <1>4, <1>5

\* A round of handle_frames on a buffer that begins with a frame.
LEMMA HandleIs ==
  ASSUME NEW s \in Seq(Int), NEW n \in 0 .. Len(s), NEW b, Window(s, n, b),
         NEW f \in Frame, NEW channel \in Int, FrameIn(s, f, channel),
         n - Len(b) = f.at, Len(f.body) \in 1 .. MaxLink, NEW r, r = handle_frames(b)
  PROVE  Partial(n, b, f, r) \/ Complete(s, n, f, channel, r)
<1>1. /\ b \in Seq(Int) /\ Len(b) \in Nat /\ n \in Nat
      /\ \A x \in 1 .. Len(b) : b[x] = s[n - Len(b) + x]
  <2>1. /\ b \in Seq(Int) /\ Len(b) <= n
        /\ \A x \in 1 .. Len(b) : b[x] = s[n - Len(b) + x]
    BY Zenon DEF Window
  <2>2. Len(b) \in Nat /\ n \in Nat
    BY <2>1
  <2> QED
    BY <2>1, <2>2
<1>2. f.at \in Nat /\ End(f) = f.at + 4 + Len(f.body) /\ Len(f.body) \in Nat
  BY EndIs DEF End, HEADER
<1>3. CASE Len(b) < 4
  <2>1. r = [left |-> b, out |-> <<>>, more |-> FALSE]
    BY <1>3 DEF handle_frames, HEADER
  <2>2. r.left = b /\ r.out = <<>> /\ r.more = FALSE
    BY <2>1
  <2> DEFINE a == f.at
             k == Len(f.body)
             l == Len(b)
  <2>3. a \in Nat /\ k \in Nat /\ l \in Nat /\ n - l = a /\ End(f) = a + 4 + k /\ l < 4
    BY <1>1, <1>2, <1>3
  <2> HIDE DEF a, k, l
  <2>4. n < End(f) /\ l < 4 + k
    BY <1>1, <2>3
  <2> QED
    BY <2>2, <2>4 DEF Partial, HEADER, k, l
<1>4. CASE ~(Len(b) < 4)
  <2> DEFINE magic == <<S55, SCC>>
  <2>1. b[1] = S55 /\ b[2] = SCC
    <3>1. 1 \in 1 .. Len(b) /\ 2 \in 1 .. Len(b)
      BY <1>1, <1>4
    <3>2. b[1] = s[f.at + 1] /\ b[2] = s[f.at + 2]
      BY <1>1, <3>1
    <3> QED
      BY <3>2 DEF FrameIn
  <2>2. Len(magic) = 2 /\ magic[1] = S55 /\ magic[2] = SCC
    OBVIOUS
  <2> HIDE DEF magic
  <2>3. 1 \in Matches(b, magic)
    <3>1. 1 \in 1 .. Len(b) - Len(magic) + 1
      BY <1>1, <1>4, <2>2
    <3>2. ASSUME NEW j \in 1 .. Len(magic) PROVE b[1 + j - 1] = magic[j]
      <4>1. j \in 1 .. 2
        BY <2>2
      <4>2. j = 1 \/ j = 2
        BY <4>1
      <4> QED
        BY <2>1, <2>2, <4>2
    <3> QED
      BY <3>1, <3>2 DEF Matches
  <2>4. Matches(b, magic) \subseteq Nat /\ \A k \in Matches(b, magic) : 1 <= k
    BY <1>1, <2>2 DEF Matches
  <2>5. FirstMatch(b, magic) = 1
    <3>1. /\ FirstMatch(b, magic) \in Matches(b, magic)
          /\ \A j \in Matches(b, magic) : FirstMatch(b, magic) <= j
      BY <2>3, <2>4, FirstMatchIs
    <3> DEFINE m == FirstMatch(b, magic)
    <3>2. m \in Nat /\ m <= 1 /\ 1 <= m
      BY <2>3, <2>4, <3>1
    <3> HIDE DEF m
    <3>3. m = 1
      BY <3>2
    <3> QED
      BY <3>3 DEF m
  <2>6. SubSeq(b, 1, Len(b)) = b
    <3> DEFINE c == SubSeq(b, 1, Len(b))
    <3>1. Len(b) \in 0 .. Len(b)
      BY <1>1
    <3>2. c \in Seq(Int) /\ Len(c) = Len(b) /\ \A k \in 1 .. Len(b) : c[k] = b[k]
      BY <1>1, <3>1, HeadIs
    <3> HIDE DEF c
    <3>3. c = b
      BY <1>1, <3>2, SeqEqual
    <3> QED
      BY <3>3 DEF c
  <2>7. r = TakeFrame(b, 1 .. MaxLink)
    <3>1. Matches(b, magic) # {}
      BY <2>3
    <3>2. r = TakeFrame(SubSeq(b, FirstMatch(b, magic), Len(b)), 1 .. MaxLink)
      BY <1>4, <3>1 DEF handle_frames, HEADER, magic
    <3> QED
      BY <2>5, <2>6, <3>2
  <2> DEFINE lengths == 1 .. MaxLink
  <2>8. Len(f.body) \in lengths /\ r = TakeFrame(b, lengths)
    BY <2>7
  <2> HIDE DEF lengths
  <2> QED
    BY <2>8, TakeFrameIs
<1> QED
  BY <1>3, <1>4

LEMMA HandleNothing ==
  ASSUME NEW b \in Seq(Int), Len(b) = 0
  PROVE  handle_frames(b) = [left |-> b, out |-> <<>>, more |-> FALSE]
BY DEF handle_frames, HEADER

-----------------------------------------------------------------------------
(* What sending and reading leave of it *)

\* gs is fs and one more frame, from p on or later.
Longer(fs, gs, p) ==
  /\ fs \in Seq(Frame) /\ gs \in Seq(Frame) /\ Len(gs) = Len(fs) + 1
  /\ \A i \in 1 .. Len(fs) : gs[i] = fs[i]
  /\ p <= gs[Len(gs)].at

LEMMA LongerIs ==
  ASSUME NEW fs, NEW gs, NEW p \in Int, Longer(fs, gs, p)
  PROVE  /\ Len(fs) \in Nat
         /\ \A i \in 1 .. Len(gs) : \/ i \in 1 .. Len(fs) /\ gs[i] = fs[i]
                                    \/ i = Len(gs) /\ p <= gs[i].at /\ p < End(gs[i])
<1>1. /\ Len(fs) \in Nat /\ Len(gs) = Len(fs) + 1 /\ Len(gs) \in 1 .. Len(gs)
      /\ gs[Len(gs)] \in Frame /\ p <= gs[Len(gs)].at
  BY DEF Longer
<1> DEFINE f == gs[Len(gs)]
<1>2. f.at \in Nat /\ End(f) \in Nat /\ f.at < End(f)
  BY <1>1, EndIs
<1>3. p <= f.at
  BY <1>1
<1> HIDE DEF f
<1>4. p < End(f)
  BY <1>2, <1>3
<1>5. ASSUME NEW i \in 1 .. Len(gs)
      PROVE  \/ i \in 1 .. Len(fs) /\ gs[i] = fs[i]
             \/ i = Len(gs) /\ p <= gs[i].at /\ p < End(gs[i])
  <2>1. i \in 1 .. Len(fs) \/ i = Len(gs)
    BY <1>1
  <2>2. CASE i \in 1 .. Len(fs)
    BY <2>2 DEF Longer
  <2>3. CASE i = Len(gs)
    BY <1>3, <1>4, <2>3 DEF f
  <2> QED
    BY <2>1, <2>2, <2>3
<1>6. Len(fs) \in Nat
  BY <1>1
<1> QED
  BY <1>5, <1>6

LEMMA HandedOutGrows ==
  ASSUME NEW fs, NEW gs, NEW p \in Int, Longer(fs, gs, p), NEW out, HandedOut(out, fs, p)
  PROVE  HandedOut(out, gs, p)
<1>1. /\ Len(fs) \in Nat /\ Len(gs) = Len(fs) + 1
      /\ \A i \in 1 .. Len(gs) : \/ i \in 1 .. Len(fs) /\ gs[i] = fs[i]
                                 \/ i = Len(gs) /\ p <= gs[i].at /\ p < End(gs[i])
  BY LongerIs DEF Longer
<1>2. /\ out \in Seq(Seq(Int)) /\ Len(out) \in Nat /\ Len(out) <= Len(fs)
      /\ \A i \in 1 .. Len(out) : out[i] = fs[i].body /\ End(fs[i]) <= p
      /\ \A i \in Len(out) + 1 .. Len(fs) : p <= fs[i].at
  BY DEF HandedOut
<1>3. ASSUME NEW i \in 1 .. Len(out)
      PROVE  out[i] = gs[i].body /\ End(gs[i]) <= p
  <2>1. i \in 1 .. Len(fs) /\ gs[i] = fs[i]
    BY <1>1, <1>2
  <2> QED
    BY <1>2, <2>1
<1>4. ASSUME NEW i \in Len(out) + 1 .. Len(gs)
      PROVE  p <= gs[i].at
  <2>1. i \in 1 .. Len(gs)
    BY <1>1, <1>2
  <2>2. CASE i \in 1 .. Len(fs) /\ gs[i] = fs[i]
    <3>1. i \in Len(out) + 1 .. Len(fs)
      BY <1>1, <1>2, <2>2
    <3> QED
      BY <1>2, <2>2, <3>1
  <2> QED
    BY <1>1, <2>1, <2>2
<1>5. Len(out) <= Len(gs)
  BY <1>1, <1>2
<1> QED
  BY <1>2, <1>3, <1>4, <1>5 DEF HandedOut

LEMMA WaitingGrows ==
  ASSUME NEW fs, NEW gs, NEW p \in Int, Longer(fs, gs, p),
         NEW out \in Seq(Seq(Int)), Waiting(out, fs, p)
  PROVE  Waiting(out, gs, p)
<1>1. /\ Len(fs) \in Nat /\ Len(gs) = Len(fs) + 1
      /\ \A i \in 1 .. Len(gs) : \/ i \in 1 .. Len(fs) /\ gs[i] = fs[i]
                                 \/ i = Len(gs) /\ p <= gs[i].at /\ p < End(gs[i])
  BY LongerIs DEF Longer
<1>o. Len(out) \in Nat
  OBVIOUS
<1> SUFFICES ASSUME NEW i \in Len(out) + 1 .. Len(gs)
             PROVE  p < End(gs[i])
  BY DEF Waiting
<1>2. i \in 1 .. Len(gs)
  BY <1>o, <1>1
<1>3. CASE i \in 1 .. Len(fs) /\ gs[i] = fs[i]
  <2>1. i \in Len(out) + 1 .. Len(fs)
    BY <1>o, <1>1, <1>3
  <2> QED
    BY <1>3, <2>1 DEF Waiting
<1> QED
  BY <1>1, <1>2, <1>3

LEMMA ClearGrows ==
  ASSUME NEW fs, NEW gs, NEW p \in Int, Longer(fs, gs, p), Clear(fs, p)
  PROVE  Clear(gs, p)
BY LongerIs DEF Clear

LEMMA WindowGrows ==
  ASSUME NEW s \in Seq(Int), NEW t, NEW n \in 0 .. Len(s), NEW b, Window(s, n, b),
         \A i \in 1 .. Len(s) : t[i] = s[i]
  PROVE  Window(t, n, b)
<1>1. /\ b \in Seq(Int) /\ Len(b) \in Nat /\ Len(b) <= n /\ Len(s) \in Nat
      /\ \A x \in 1 .. Len(b) : b[x] = s[n - Len(b) + x]
  BY DEF Window
<1>2. ASSUME NEW x \in 1 .. Len(b)
      PROVE  b[x] = t[n - Len(b) + x]
  <2>1. n - Len(b) + x \in 1 .. Len(s)
    BY <1>1
  <2> QED
    BY <1>1, <2>1
<1> QED
  BY <1>1, <1>2 DEF Window

\* Both are a longer stream of frames in which nothing else has changed.
LEMMA SendKeeps ==
  ASSUME BulkInv, pc = "read",
         NEW t, NEW vs, NEW cs, Sent(t, vs, cs), Len(stream) <= Len(t),
         \A i \in 1 .. Len(stream) : t[i] = stream[i],
         \/ vs = videos \/ Longer(videos, vs, Len(stream)),
         \/ cs = controls \/ Longer(controls, cs, Len(stream)),
         \A x \in Nat : Boundary(stream, videos, controls, x) => Boundary(t, vs, cs, x),
         OnlyIn(stream, controls, CH_AOA) => OnlyIn(t, cs, CH_AOA),
         stream' = t, videos' = vs, controls' = cs,
         UNCHANGED <<start, taken, pc, data, pi, link, cut>>
  PROVE  BulkInv'
<1>1. /\ taken \in Nat /\ Len(stream) \in Nat /\ taken <= Len(stream) /\ stream \in Seq(Int)
      /\ taken \in 0 .. Len(stream) /\ Len(t) \in Nat /\ t \in Seq(Int)
  BY DEF BulkInv, StreamInv, Sent
<1>2. UNCHANGED <<start, taken, pc, data, buffer, control_buffer, video, control, g_rx,
                  replied, linkVideo, linkControl, linkReplies, cut>>
  BY DEF pi, link
<1>3. StreamInv'
  <2>1. taken' \in 0 .. Len(stream')
    BY <1>1, <1>2
  <2>2. start = <<>> => Boundary(t, vs, cs, 0) /\ OnlyIn(t, cs, CH_AOA)
    BY DEF BulkInv, StreamInv
  <2> QED
    BY <1>2, <2>1, <2>2 DEF StreamInv
<1>4. BulkTypes'
  BY <1>2 DEF BulkInv, BulkTypes
<1>5. \A p \in Int : p <= Len(stream) =>
        /\ vs = videos \/ Longer(videos, vs, p)
        /\ cs = controls \/ Longer(controls, cs, p)
  <2> SUFFICES ASSUME NEW p \in Int, p <= Len(stream)
               PROVE  /\ vs = videos \/ Longer(videos, vs, p)
                      /\ cs = controls \/ Longer(controls, cs, p)
    OBVIOUS
  <2>1. ASSUME NEW fs, NEW gs, Longer(fs, gs, Len(stream)) PROVE Longer(fs, gs, p)
    <3>1. /\ fs \in Seq(Frame) /\ gs \in Seq(Frame) /\ Len(gs) = Len(fs) + 1
          /\ \A i \in 1 .. Len(fs) : gs[i] = fs[i]
          /\ Len(stream) <= gs[Len(gs)].at
      BY <2>1 DEF Longer
    <3>2. Len(gs) \in 1 .. Len(gs)
      BY <3>1
    <3>3. gs[Len(gs)] \in Frame
      BY <3>1, <3>2
    <3>4. gs[Len(gs)].at \in Nat
      BY <3>3, EndIs
    <3>5. p <= gs[Len(gs)].at
      BY <1>1, <3>1, <3>4
    <3> QED
      BY <3>1, <3>5 DEF Longer
  <2> QED
    BY <2>1
<1>6. ASSUME NEW b, Window(stream, taken, b) PROVE Window(t, taken, b)
  BY <1>1, <1>6, WindowGrows
<1>7. ASSUME NEW out, NEW p \in Int, p <= Len(stream), HandedOut(out, videos, p)
      PROVE  HandedOut(out, vs, p)
  BY <1>5, <1>7, HandedOutGrows
<1>8. ASSUME NEW out, NEW p \in Int, p <= Len(stream), HandedOut(out, controls, p)
      PROVE  HandedOut(out, cs, p)
  BY <1>5, <1>8, HandedOutGrows
<1>9. ASSUME NEW out \in Seq(Seq(Int)), Waiting(out, videos, taken) PROVE Waiting(out, vs, taken)
  BY <1>1, <1>5, <1>9, WaitingGrows
<1>10. ASSUME NEW out \in Seq(Seq(Int)), Waiting(out, controls, taken)
       PROVE  Waiting(out, cs, taken)
  BY <1>1, <1>5, <1>10, WaitingGrows
<1>11. ASSUME NEW b, Window(stream, taken, b)
       PROVE  Base(taken, b) \in Nat /\ Base(taken, b) <= Len(stream)
  BY <1>1, <1>11 DEF Window, Base
<1>12. FeedInv'
  <2>1. /\ Window(stream, taken, buffer) /\ HandedOut(video, videos, Base(taken, buffer))
        /\ Waiting(video, videos, taken) /\ Len(buffer) < HEADER + MAX_PAYLOAD
    BY DEF BulkInv, FeedInv
  <2>2. video \in Seq(Seq(Int))
    BY <2>1 DEF HandedOut
  <2>3. Base(taken, buffer) \in Nat /\ Base(taken, buffer) <= Len(stream)
    BY <1>11, <2>1
  <2>4. HandedOut(video, vs, Base(taken, buffer))
    BY <1>7, <2>1, <2>3
  <2> QED
    BY <1>2, <1>6, <1>9, <2>1, <2>2, <2>4 DEF FeedInv
<1>13. LinkInv'
  <2> SUFFICES ASSUME start = <<>> PROVE LinkInv'
    BY <1>2 DEF LinkInv
  <2>1. /\ Window(stream, taken, g_rx)
        /\ Boundary(stream, videos, controls, Base(taken, g_rx))
        /\ HandedOut(linkVideo, videos, Base(taken, g_rx))
        /\ HandedOut(linkControl, controls, Base(taken, g_rx))
        /\ Waiting(linkVideo, videos, taken) /\ Waiting(linkControl, controls, taken)
        /\ Len(g_rx) < HEADER + MAX_PAYLOAD
    BY DEF BulkInv, LinkInv
  <2>2. linkVideo \in Seq(Seq(Int)) /\ linkControl \in Seq(Seq(Int))
    BY <2>1 DEF HandedOut
  <2>3. Base(taken, g_rx) \in Nat /\ Base(taken, g_rx) <= Len(stream)
    BY <1>11, <2>1
  <2>4. HandedOut(linkVideo, vs, Base(taken, g_rx))
        /\ HandedOut(linkControl, cs, Base(taken, g_rx))
    BY <1>7, <1>8, <2>1, <2>3
  <2> QED
    BY <1>2, <1>6, <1>9, <1>10, <2>1, <2>2, <2>3, <2>4 DEF LinkInv
<1>14. ControlInv'
  <2> SUFFICES ASSUME start = <<>>, ~cut PROVE ControlInv'
    BY <1>2 DEF ControlInv
  <2>1. /\ Window(stream, taken, data) /\ Clear(controls, taken)
        /\ Clear(controls, Base(taken, data))
        /\ Clean(data)
        /\ HandedOut(control, controls, taken)
        /\ Len(control_buffer) <= 2
    BY DEF BulkInv, ControlInv
  <2>2. Base(taken, data) \in Nat /\ Base(taken, data) <= Len(stream)
    BY <1>11, <2>1
  <2>3. Clear(cs, taken) /\ Clear(cs, Base(taken, data))
    <3>1. ASSUME NEW p \in Int, p <= Len(stream), Clear(controls, p) PROVE Clear(cs, p)
      BY <1>5, <3>1, ClearGrows
    <3> QED
      BY <1>1, <2>1, <2>2, <3>1
  <2>4. HandedOut(control, cs, taken)
    BY <1>1, <1>8, <2>1
  <2> QED
    BY <1>2, <1>6, <2>1, <2>3, <2>4 DEF ControlInv
<1> QED
  BY <1>3, <1>4, <1>12, <1>13, <1>14 DEF BulkInv

LEMMA SendVideoStep ==
  ASSUME FramingAssumption, BulkInv, NEW p \in VideoPayloads, SendVideo(p)
  PROVE  BulkInv'
<1>1. /\ pc = "read" /\ Grown(stream, CH_VIDEO, p, stream')
      /\ Listed(videos, stream, p, videos') /\ controls' = controls
      /\ UNCHANGED <<start, taken, pc, data, pi, link, cut>>
  BY DEF SendVideo, Grown, Listed, FrameOf
<1>2. Sent(stream, videos, controls) /\ stream \in Seq(Int) /\ p \in Seq(Int) /\ CH_VIDEO \in Int
  BY Tokens DEF BulkInv, StreamInv, Sent, FramingAssumption
<1>3. /\ Sent(stream', videos', controls) /\ Len(stream) <= Len(stream')
      /\ Len(videos') = Len(videos) + 1 /\ videos'[Len(videos')].at = Len(stream)
      /\ \A i \in 1 .. Len(videos) : videos'[i] = videos[i]
      /\ \A x \in Nat : Boundary(stream, videos, controls, x) => Boundary(stream', videos', controls, x)
      /\ OnlyIn(stream, controls, CH_AOA) => OnlyIn(stream', controls, CH_AOA)
  BY <1>1, <1>2, SendVideoKeeps
<1>4. \A i \in 1 .. Len(stream) : stream'[i] = stream[i]
  BY <1>1, <1>2, GrowsIs
<1>5. videos \in Seq(Frame) /\ videos' \in Seq(Frame)
  BY <1>2, <1>3 DEF Sent, Frames
<1>6. Len(stream) <= Len(stream)
  BY <1>2
<1>7. Longer(videos, videos', Len(stream))
  BY <1>3, <1>5, <1>6 DEF Longer
<1> QED
  BY <1>1, <1>3, <1>4, <1>7, SendKeeps

LEMMA SendControlStep ==
  ASSUME FramingAssumption, BulkInv, NEW p \in ControlPayloads, SendControl(p)
  PROVE  BulkInv'
<1>1. /\ pc = "read" /\ Grown(stream, CH_AOA, p, stream')
      /\ Listed(controls, stream, p, controls') /\ videos' = videos
      /\ UNCHANGED <<start, taken, pc, data, pi, link, cut>>
  BY DEF SendControl, Grown, Listed, FrameOf
<1>2. Sent(stream, videos, controls) /\ stream \in Seq(Int) /\ p \in Seq(Int) /\ CH_AOA \in Int
  BY Tokens DEF BulkInv, StreamInv, Sent, FramingAssumption
<1>3. /\ Sent(stream', videos, controls') /\ Len(stream) <= Len(stream')
      /\ Len(controls') = Len(controls) + 1 /\ controls'[Len(controls')].at = Len(stream)
      /\ \A i \in 1 .. Len(controls) : controls'[i] = controls[i]
      /\ \A x \in Nat : Boundary(stream, videos, controls, x) => Boundary(stream', videos, controls', x)
      /\ OnlyIn(stream, controls, CH_AOA) => OnlyIn(stream', controls', CH_AOA)
  BY <1>1, <1>2, SendControlKeeps
<1>4. \A i \in 1 .. Len(stream) : stream'[i] = stream[i]
  BY <1>1, <1>2, GrowsIs
<1>5. controls \in Seq(Frame) /\ controls' \in Seq(Frame)
  BY <1>2, <1>3 DEF Sent, Frames
<1>6. Len(stream) <= Len(stream)
  BY <1>2
<1>7. Longer(controls, controls', Len(stream))
  BY <1>3, <1>5, <1>6 DEF Longer
<1> QED
  BY <1>1, <1>3, <1>4, <1>7, SendKeeps

\* d is the tokens of the stream between the n-th and the m-th; c is d behind b.
Transfer(s, n, m, d) ==
  d \in Seq(Int) /\ n + Len(d) = m /\ \A x \in 1 .. Len(d) : d[x] = s[n + x]

Joined(b, d, c) == c = b \o d

LEMMA TransferIs ==
  ASSUME NEW s \in Seq(Int), NEW n \in Nat, NEW k \in Nat \ {0}, n + k <= Len(s)
  PROVE  /\ Transfer(s, n, n + k, SubSeq(s, n + 1, n + k))
         /\ Len(SubSeq(s, n + 1, n + k)) = k
<1>1. PICK i, j : i = n + 1 /\ j = n + k
  OBVIOUS
<1>2. PICK d : d = SubSeq(s, i, j)
  OBVIOUS
<1>3. i \in 1 .. Len(s) + 1 /\ j \in Int /\ i - 1 <= j /\ j <= Len(s)
  BY <1>1
<1>4. d \in Seq(Int) /\ Len(d) = j - i + 1 /\ \A x \in 1 .. j - i + 1 : d[x] = s[i - 1 + x]
  BY <1>2, <1>3, SubSeqIs, ZenonT(60)
<1>5. j - i + 1 = k /\ i - 1 = n
  BY <1>1
<1>6. d \in Seq(Int) /\ Len(d) = k /\ \A x \in 1 .. Len(d) : d[x] = s[n + x]
  BY <1>4, <1>5
<1>7. Transfer(s, n, n + k, d)
  BY <1>6 DEF Transfer
<1> QED
  BY <1>1, <1>2, <1>6, <1>7

LEMMA TransferReads ==
  ASSUME NEW s, NEW n \in Nat, NEW m \in Nat, NEW d, Transfer(s, n, m, d)
  PROVE  /\ Window(s, m, d) /\ Base(m, d) = n
<1>1. d \in Seq(Int) /\ Len(d) \in Nat /\ n + Len(d) = m
      /\ \A x \in 1 .. Len(d) : d[x] = s[n + x]
  BY DEF Transfer
<1>2. m - Len(d) = n /\ Len(d) <= m
  BY <1>1
<1>3. Window(s, m, d)
  BY <1>1, <1>2 DEF Window
<1> QED
  BY <1>1, <1>2, <1>3 DEF Base

LEMMA TransferJoins ==
  ASSUME NEW s, NEW n \in Nat, NEW m \in Nat, NEW d, Transfer(s, n, m, d),
         NEW b, Window(s, n, b), NEW c, Joined(b, d, c)
  PROVE  Window(s, m, c) /\ Base(m, c) = Base(n, b)
<1> DEFINE l == Len(b)
           k == Len(d)
<1>1. /\ b \in Seq(Int) /\ l \in Nat /\ l <= n /\ \A x \in 1 .. l : b[x] = s[n - l + x]
      /\ d \in Seq(Int) /\ k \in Nat /\ n + k = m /\ \A x \in 1 .. k : d[x] = s[n + x]
  BY DEF Window, Transfer
<1>2. /\ c \in Seq(Int) /\ Len(c) = l + k
      /\ \A x \in 1 .. l : c[x] = b[x]
      /\ \A x \in 1 .. k : c[l + x] = d[x]
  BY <1>1, IntConcatIs DEF Joined
<1>5. Base(n, b) = n - l /\ Base(m, c) = m - Len(c)
  BY DEF Base
<1> HIDE DEF l, k
<1>3. m - Len(c) = n - l /\ Len(c) <= m
  BY <1>1, <1>2
<1>4. ASSUME NEW x \in 1 .. Len(c)
      PROVE  c[x] = s[m - Len(c) + x]
  <2>1. m - Len(c) + x = n - l + x
    BY <1>3
  <2>2. CASE x \in 1 .. l
    BY <1>1, <1>2, <2>1, <2>2
  <2>3. CASE ~(x \in 1 .. l)
    <3> DEFINE y == x - l
    <3>1. y \in 1 .. k /\ x = l + y /\ n - l + x = n + y
      BY <1>1, <1>2, <2>3
    <3> HIDE DEF y
    <3>2. c[l + y] = d[y] /\ d[y] = s[n + y]
      BY <1>1, <1>2, <3>1
    <3> QED
      BY <2>1, <3>1, <3>2
  <2> QED
    BY <2>2, <2>3
<1> QED
  BY <1>2, <1>3, <1>4, <1>5 DEF Window

LEMMA ClearAfter ==
  ASSUME NEW cs \in Seq(Frame), NEW p \in Int,
         \A i \in 1 .. Len(cs) : ~(cs[i].at < p /\ p < End(cs[i]))
  PROVE  Clear(cs, p)
<1> SUFFICES ASSUME NEW i \in 1 .. Len(cs)
             PROVE  p <= cs[i].at \/ End(cs[i]) <= p
  BY DEF Clear
<1>1. cs[i] \in Frame
  OBVIOUS
<1>2. cs[i].at \in Nat /\ End(cs[i]) \in Nat
  BY <1>1, EndIs
<1>3. ~(cs[i].at < p /\ p < End(cs[i]))
  OBVIOUS
<1> QED
  BY <1>2, <1>3

\* The link has room for a transfer.
LEMMA RoomForTransfer ==
  ASSUME FramingAssumption, RxAssumption, NEW l \in Nat, l < HEADER + MAX_PAYLOAD,
         NEW n \in Nat, n <= TransferSize
  PROVE  ~(l + n > RxSize)
BY DEF FramingAssumption, RxAssumption, HEADER

LEMMA ReadStep ==
  ASSUME FramingAssumption, RxAssumption, BulkInv, NEW n \in 1 .. Len(stream) - taken, Read(n)
  PROVE  BulkInv'
<1>1. /\ taken \in Nat /\ Len(stream) \in Nat /\ taken <= Len(stream) /\ stream \in Seq(Int)
      /\ n \in Nat \ {0} /\ taken + n <= Len(stream) /\ taken + n \in 0 .. Len(stream)
      /\ taken + n \in Nat
  BY DEF BulkInv, StreamInv, Sent
<1>2. /\ pc = "read" /\ n <= TransferSize
      /\ cut' = (cut \/ Cuts(n)) /\ taken' = taken + n
      /\ data' = SubSeq(stream, taken + 1, taken + n)
      /\ g_rx' = IF Len(g_rx) + n > RxSize THEN data' ELSE g_rx \o data'
      /\ pc' = "video"
      /\ UNCHANGED <<start, stream, videos, controls, control_buffer, video, control,
                     linkVideo, linkControl>>
  BY DEF Read, sent
<1>n. taken' \in Nat
  BY <1>1, <1>2
<1>3. Transfer(stream, taken, taken', data') /\ Len(data') = n
  <2>1. /\ Transfer(stream, taken, taken + n, SubSeq(stream, taken + 1, taken + n))
        /\ Len(SubSeq(stream, taken + 1, taken + n)) = n
    BY <1>1, TransferIs
  <2> QED
    BY <1>2, <2>1
<1>4. /\ Window(stream, taken', data') /\ Base(taken', data') = taken
      /\ data'[1] = stream[taken + 1] /\ (n > 1 => data'[2] = stream[taken + 2])
      /\ data' \in Seq(Int) /\ Len(data') = n
  <2>1. data' \in Seq(Int)
    BY <1>3 DEF Transfer
  <2>2. Window(stream, taken', data') /\ Base(taken', data') = taken
    BY <1>1, <1>n, <1>3, TransferReads
  <2>3. n > 0 /\ (n > 0 => 1 \in 1 .. n) /\ (n > 1 => 2 \in 1 .. n)
    BY <1>1
  <2>4. \A x \in 1 .. n : data'[x] = stream[taken + x]
    BY <1>3 DEF Transfer
  <2> QED
    BY <1>3, <2>1, <2>2, <2>3, <2>4
<1>11. ASSUME NEW b, Window(stream, taken, b), NEW c, Joined(b, data', c)
       PROVE  Window(stream, taken', c) /\ Base(taken', c) = Base(taken, b)
  BY <1>1, <1>n, <1>3, <1>11, TransferJoins
<1>5. Joined(buffer, data', buffer')
  BY DEF Read, Joined
<1>6. StreamInv'
  <2>1. taken' \in 0 .. Len(stream)
    BY <1>1, <1>2
  <2>2. UNCHANGED <<start, stream, videos, controls>>
    BY <1>2
  <2> QED
    BY <2>1, <2>2 DEF BulkInv, StreamInv
<1>7. BulkTypes'
  <2>1. g_rx' \in Seq(Int) /\ Len(g_rx') <= RxSize
    <3>1. g_rx \in Seq(Int) /\ Len(g_rx) \in Nat
      BY DEF BulkInv, BulkTypes
    <3>2. RxSize \in Nat /\ n <= RxSize
      <4>1. 0 \in Nat /\ 0 < HEADER + MAX_PAYLOAD /\ RxSize \in Nat
        BY DEF HEADER, FramingAssumption
      <4>2. ~(0 + n > RxSize)
        BY <1>1, <1>2, <4>1, RoomForTransfer
      <4> QED
        BY <1>1, <4>1, <4>2
    <3>3. CASE Len(g_rx) + n > RxSize
      <4>1. g_rx' = data'
        BY <1>2, <3>3
      <4> QED
        BY <1>4, <3>2, <4>1
    <3>4. CASE ~(Len(g_rx) + n > RxSize)
      <4> DEFINE c == g_rx \o data'
      <4>1. g_rx' = c
        BY <1>2, <3>4
      <4>2. c \in Seq(Int) /\ Len(c) = Len(g_rx) + Len(data')
        BY <1>4, <3>1, IntConcatIs
      <4> HIDE DEF c
      <4>3. Len(c) <= RxSize
        BY <1>1, <1>4, <3>1, <3>2, <3>4, <4>2
      <4> QED
        BY <4>1, <4>2, <4>3
    <3> QED
      BY <3>3, <3>4
  <2>2. cut' \in BOOLEAN
    BY <1>2
  <2>3. Len(control_buffer) < HEADER + MaxControl /\ control_buffer \in Seq(Int)
    BY <1>2 DEF BulkInv, BulkTypes
  <2>4. pc' = "video" /\ control_buffer' = control_buffer /\ data' \in Seq(Int)
    BY <1>2, <1>4
  <2> QED
    BY <2>1, <2>2, <2>3, <2>4 DEF BulkTypes
<1>8. FeedInv'
  <2>1. Window(stream, taken, buffer) /\ HandedOut(video, videos, Base(taken, buffer))
    BY DEF BulkInv, FeedInv
  <2>2. Window(stream, taken', buffer') /\ Base(taken', buffer') = Base(taken, buffer)
    BY <1>5, <1>11, <2>1
  <2>3. UNCHANGED <<stream, video, videos>> /\ pc' = "video" /\ taken' = taken + n
    BY <1>2
  <2> QED
    BY <2>1, <2>2, <2>3 DEF FeedInv
<1>9. LinkInv'
  <2> SUFFICES ASSUME start = <<>> PROVE LinkInv'
    BY <1>2 DEF LinkInv
  <2>1. /\ Window(stream, taken, g_rx)
        /\ Boundary(stream, videos, controls, Base(taken, g_rx))
        /\ HandedOut(linkVideo, videos, Base(taken, g_rx))
        /\ HandedOut(linkControl, controls, Base(taken, g_rx))
        /\ Len(g_rx) < HEADER + MAX_PAYLOAD
    BY <1>2 DEF BulkInv, LinkInv
  <2>2. Len(g_rx) \in Nat
    BY <2>1 DEF Window
  <2>3. ~(Len(g_rx) + n > RxSize)
    BY <1>1, <1>2, <2>1, <2>2, RoomForTransfer
  <2>4. Joined(g_rx, data', g_rx')
    BY <1>2, <2>3 DEF Joined
  <2>5. Window(stream, taken', g_rx') /\ Base(taken', g_rx') = Base(taken, g_rx)
    <3>1. Window(stream, taken, g_rx)
      BY <2>1
    <3> QED
      BY <1>11, <2>4, <3>1
  <2>6. /\ UNCHANGED <<stream, videos, controls, linkVideo, linkControl>>
        /\ pc' = "video" /\ taken' = taken + n
    BY <1>2
  <2> QED
    BY <2>1, <2>5, <2>6 DEF LinkInv
<1>10. ControlInv'
  <2> SUFFICES ASSUME start = <<>>, ~cut, ~Cuts(n) PROVE ControlInv'
    BY <1>2 DEF ControlInv
  <2>1. /\ Clear(controls, taken) /\ HandedOut(control, controls, taken)
        /\ Len(control_buffer) <= 2
    BY <1>2 DEF BulkInv, ControlInv
  <2>2. Clear(controls, taken + n)
    <3>1. controls \in Seq(Frame)
      BY DEF BulkInv, StreamInv, Sent, Frames
    <3>2. DOMAIN controls = 1 .. Len(controls)
      BY <3>1
    <3>3. \A i \in 1 .. Len(controls) :
            ~(controls[i].at < taken + n /\ taken + n < End(controls[i]))
      BY <3>2 DEF Cuts
    <3>4. taken + n \in Int
      BY <1>1
    <3> QED
      BY <3>1, <3>3, <3>4, ClearAfter
  <2>3. /\ stream[taken + 1] # CH_AOA
        /\ n > 1 => ~(stream[taken + 1] = SCC /\ stream[taken + 2] = CH_AOA)
    BY DEF Cuts
  <2>4. Clean(data')
    BY <1>4, <2>3 DEF Clean
  <2>5. /\ UNCHANGED <<stream, controls, control, control_buffer>>
        /\ pc' = "video" /\ taken' = taken + n
    BY <1>2
  <2> QED
    BY <1>4, <2>1, <2>2, <2>4, <2>5 DEF ControlInv
<1> QED
  BY <1>6, <1>7, <1>8, <1>9, <1>10 DEF BulkInv
-----------------------------------------------------------------------------
(* The rounds of the three loops *)

\* The payloads of the frames gs come out behind out.
Delivered(out, gs, q) == q = out \o [i \in DOMAIN gs |-> Body(gs[i])]

LEMMA DeliverNothing ==
  ASSUME NEW out \in Seq(Seq(Int)), NEW q, Delivered(out, <<>>, q)
  PROVE  q = out
<1> DEFINE t == [i \in DOMAIN <<>> |-> Body(<<>>[i])]
<1>1. t = <<>>
  OBVIOUS
<1>2. q = out \o t
  BY DEF Delivered
<1> HIDE DEF t
<1>3. q = out \o <<>>
  BY <1>1, <1>2
<1> QED
  BY <1>3

LEMMA DeliverOne ==
  ASSUME NEW out \in Seq(Seq(Int)), NEW g, Body(g) \in Seq(Int), NEW q,
         Delivered(out, <<g>>, q)
  PROVE  q = Append(out, Body(g))
<1> DEFINE t == [i \in DOMAIN <<g>> |-> Body(<<g>>[i])]
           e == Body(g)
<1>1. t = <<e>>
  OBVIOUS
<1>2. q = out \o t
  BY DEF Delivered
<1> HIDE DEF t, e
<1>3. q = out \o <<e>>
  BY <1>1, <1>2
<1>4. out \o <<e>> = Append(out, e)
  BY DEF e
<1> QED
  BY <1>3, <1>4 DEF e

LEMMA SyncedIs ==
  ASSUME NEW s \in Seq(Int), NEW n \in 0 .. Len(s), NEW b, Window(s, n, b),
         NEW channel \in Int, NEW P, NEW fs, Frames(s, fs, channel, P),
         OnlyIn(s, fs, channel), NEW out, HandedOut(out, fs, Base(n, b))
  PROVE  Synced(s, n, b, 0, channel, P, fs, out)
<1>1. b \in Seq(Int) /\ Len(b) \in Nat /\ Len(b) <= n
      /\ \A x \in 1 .. Len(b) : b[x] = s[n - Len(b) + x]
  <2>1. /\ b \in Seq(Int) /\ Len(b) <= n
        /\ \A x \in 1 .. Len(b) : b[x] = s[n - Len(b) + x]
    BY Zenon DEF Window
  <2>2. Len(b) \in Nat /\ n \in Nat
    BY <2>1
  <2> QED
    BY <2>1, <2>2
<1>2. 0 \in 0 .. Len(b) /\ Len(b) - 0 = Len(b) /\ \A x \in 1 .. Len(b) : 0 + x = x
  BY <1>1
<1>3. Holds(s, n, b, 0)
  BY <1>1, <1>2 DEF Holds
<1>4. HandedOut(out, fs, n - (Len(b) - 0))
  BY <1>2 DEF Base
<1>5. ASSUME NEW i \in Matches(b, Magic(channel)) PROVE 0 < i
  BY <1>1, MatchIs DEF Magic
<1> QED
  BY <1>3, <1>4, <1>5 DEF Synced

\* Frames that wait at n and are not cut there begin later.
LEMMA WaitingClear ==
  ASSUME NEW fs \in Seq(Frame), NEW n \in Int, NEW p \in Int, p <= n, NEW out,
         HandedOut(out, fs, p), Waiting(out, fs, n), Clear(fs, n)
  PROVE  HandedOut(out, fs, n)
<1>1. /\ out \in Seq(Seq(Int)) /\ Len(out) \in Nat /\ Len(fs) \in Nat /\ Len(out) <= Len(fs)
      /\ \A i \in 1 .. Len(out) : out[i] = fs[i].body /\ End(fs[i]) <= p
      /\ \A i \in Len(out) + 1 .. Len(fs) : n < End(fs[i])
      /\ \A i \in 1 .. Len(fs) : n <= fs[i].at \/ End(fs[i]) <= n
      /\ \A i \in 1 .. Len(fs) : fs[i] \in Frame
  BY DEF HandedOut, Waiting, Clear
<1>2. ASSUME NEW i \in 1 .. Len(out) PROVE End(fs[i]) <= n
  <2>1. i \in 1 .. Len(fs)
    BY <1>1
  <2>2. End(fs[i]) \in Nat /\ End(fs[i]) <= p
    BY <1>1, <2>1, EndIs
  <2> QED
    BY <2>2
<1>3. ASSUME NEW i \in Len(out) + 1 .. Len(fs) PROVE n <= fs[i].at
  <2>1. i \in 1 .. Len(fs)
    BY <1>1
  <2>2. End(fs[i]) \in Nat /\ n < End(fs[i])
    BY <1>1, <2>1, EndIs
  <2> QED
    BY <1>1, <2>1, <2>2
<1> QED
  BY <1>1, <1>2, <1>3 DEF HandedOut

\* Without a magic in a transfer, no frame ends in it.
LEMMA NoMagicWaits ==
  ASSUME NEW s, NEW n, NEW b, NEW j, NEW channel, NEW P, NEW fs, NEW out,
         Synced(s, n, b, j, channel, P, fs, out), Matches(b, Magic(channel)) = {}
  PROVE  Waiting(out, fs, n)
<1> SUFFICES ASSUME NEW i \in Len(out) + 1 .. Len(fs)
             PROVE  n < End(fs[i])
  BY DEF Waiting
<1>1. ~(fs[i].at + 3 <= n)
  BY FramesMatch
<1>2. fs \in Seq(Frame) /\ Len(out) \in Nat /\ n \in 0 .. Len(s) /\ Len(s) \in Nat
  BY DEF Synced, Frames, HandedOut
<1>3. i \in 1 .. Len(fs)
  BY <1>2
<1>4. fs[i] \in Frame
  BY <1>2, <1>3
<1>5. fs[i].at \in Nat /\ Len(fs[i].body) \in Nat /\ End(fs[i]) = fs[i].at + 4 + Len(fs[i].body)
  BY <1>4, EndIs DEF End, HEADER
<1> DEFINE a == fs[i].at
           l == Len(fs[i].body)
<1>6. a \in Nat /\ l \in Nat /\ ~(a + 3 <= n) /\ n \in Int /\ End(fs[i]) = a + 4 + l
  BY <1>1, <1>2, <1>5
<1> HIDE DEF a, l
<1> QED
  BY <1>6

\* read_bulk puts a transfer behind what is left of earlier ones.
LEMMA SplicedIs ==
  ASSUME NEW s, NEW n \in Nat, NEW d, Window(s, n, d), NEW b \in Seq(Int),
         NEW fs, NEW out, HandedOut(out, fs, Base(n, d)), NEW c, Joined(b, d, c),
         NEW j, j = Len(b)
  PROVE  Spliced(s, n, d, c, fs, out, j)
<1> DEFINE k == Len(d)
<1>1. /\ d \in Seq(Int) /\ k \in Nat /\ k <= n /\ \A x \in 1 .. k : d[x] = s[n - k + x]
      /\ j \in Nat
  BY DEF Window
<1>2. /\ c \in Seq(Int) /\ Len(c) = j + k /\ \A x \in 1 .. k : c[j + x] = d[x]
  BY <1>1, IntConcatIs DEF Joined
<1>3. Base(n, d) = n - k
  BY DEF Base
<1> HIDE DEF k
<1>4. Len(c) - j = k /\ j \in 0 .. Len(c) /\ n - k <= n - k
  BY <1>1, <1>2
<1>5. Holds(s, n, c, j)
  BY <1>1, <1>2, <1>4 DEF Holds
<1> QED
  BY <1>3, <1>4, <1>5 DEF Spliced

\* A round of VideoDeframer.feed.
LEMMA FeedRound ==
  ASSUME FramingAssumption, NEW s, NEW vs, NEW cs, Sent(s, vs, cs), NEW n \in 0 .. Len(s),
         NEW b, Window(s, n, b), NEW out, HandedOut(out, vs, Base(n, b)),
         NEW r, r = feed(b), NEW q, Delivered(out, r.out, q)
  PROVE  /\ Window(s, n, r.left) /\ HandedOut(q, vs, Base(n, r.left)) /\ r.more \in BOOLEAN
         /\ ~r.more => Waiting(q, vs, n) /\ Len(r.left) < HEADER + MAX_PAYLOAD
<1>1. /\ s \in Seq(Int) /\ Frames(s, vs, CH_VIDEO, VideoPayloads) /\ OnlyIn(s, vs, CH_VIDEO)
      /\ vs \in Seq(Frame)
  BY DEF Sent, Frames
<1>2. Synced(s, n, b, 0, CH_VIDEO, VideoPayloads, vs, out)
  BY <1>1, Tokens, SyncedIs
<1> DEFINE lengths == 1 .. MAX_PAYLOAD
<1>3. r = Resync(b, Magic(CH_VIDEO), lengths)
  BY DEF feed, VIDEO_MAGIC, Magic
<1>4. \A p \in VideoPayloads : Len(p) \in lengths
  BY DEF FramingAssumption
<1>5. MAX_PAYLOAD \in Nat /\ \A p \in VideoPayloads : Len(p) \in Nat /\ Len(p) <= MAX_PAYLOAD
  BY DEF FramingAssumption
<1> HIDE DEF lengths
<1>6. out \in Seq(Seq(Int))
  BY DEF HandedOut
<1>7. CASE NoMagic(s, n, 0, vs, out, r)
  <2>1. /\ r.out = <<>> /\ r.more = FALSE /\ Waiting(out, vs, n) /\ Len(r.left) <= 2
        /\ Window(s, n, r.left) /\ HandedOut(out, vs, Base(n, r.left))
        /\ r.left \in Seq(Int)
    BY <1>7 DEF NoMagic, Base
  <2>2. q = out
    BY <1>6, <2>1, DeliverNothing
  <2> DEFINE l == Len(r.left)
  <2>3. l \in Nat /\ l <= 2
    BY <2>1
  <2> HIDE DEF l
  <2>4. l < HEADER + MAX_PAYLOAD
    BY <1>5, <2>3 DEF HEADER
  <2> QED
    BY <2>1, <2>2, <2>4 DEF l
<1>8. CASE Unfinished(s, n, VideoPayloads, vs, out, r)
  <2>1. /\ r.out = <<>> /\ r.more = FALSE /\ Waiting(out, vs, n)
        /\ Window(s, n, r.left) /\ HandedOut(out, vs, Base(n, r.left))
    BY <1>8 DEF Unfinished, Base
  <2>2. q = out
    BY <1>6, <2>1, DeliverNothing
  <2>3. PICK i \in 1 .. Len(vs) : vs[i].body \in VideoPayloads
                                  /\ Len(r.left) < HEADER + Len(vs[i].body)
    BY <1>8 DEF Unfinished
  <2>4. Len(r.left) \in Nat
    BY <2>1 DEF Window
  <2> DEFINE l == Len(r.left)
             k == Len(vs[i].body)
  <2>5. l \in Nat /\ k \in Nat /\ k <= MAX_PAYLOAD /\ l < HEADER + k
    BY <1>5, <2>3, <2>4
  <2> HIDE DEF l, k
  <2>6. l < HEADER + MAX_PAYLOAD
    BY <1>5, <2>5 DEF HEADER
  <2> QED
    BY <2>1, <2>2, <2>6 DEF l
<1>9. CASE TakesNext(s, n, vs, out, r)
  <2> DEFINE e == vs[Len(out) + 1].body
  <2>1. /\ r.more = TRUE /\ Len(out) + 1 \in 1 .. Len(vs) /\ Window(s, n, r.left)
        /\ HandedOut(Append(out, e), vs, Base(n, r.left))
    BY <1>9 DEF TakesNext, Base
  <2>2. PICK g : r.out = <<g>> /\ Body(g) = e
    BY <1>9 DEF TakesNext
  <2>3. e \in Seq(Int)
    <3>1. vs[Len(out) + 1] \in Frame
      BY <1>1, <2>1
    <3> QED
      BY <3>1, EndIs
  <2> HIDE DEF e
  <2>4. q = Append(out, e)
    BY <1>6, <2>2, <2>3, DeliverOne
  <2> QED
    BY <2>1, <2>4
<1> QED
  BY <1>2, <1>3, <1>4, <1>7, <1>8, <1>9, ResyncIs

LEMMA FeedStep ==
  ASSUME FramingAssumption, BulkInv, Feed
  PROVE  BulkInv'
<1> DEFINE r == feed(buffer)
           aoa == Matches(data, AOA_MAGIC) # {}
<1>1. /\ pc = "video" /\ buffer' = r.left
      /\ video' = video \o [i \in DOMAIN r.out |-> Body(r.out[i])]
      /\ control_buffer' = IF ~r.more /\ aoa THEN control_buffer \o data ELSE control_buffer
      /\ pc' = IF r.more THEN "video" ELSE IF aoa THEN "control" ELSE "link"
      /\ UNCHANGED <<start, stream, videos, controls, taken, data, control, g_rx,
                     linkVideo, linkControl, cut>>
  BY DEF Feed, sent, link
<1>2. Delivered(video, r.out, video')
  BY <1>1 DEF Delivered
<1>3. /\ taken \in 0 .. Len(stream) /\ Sent(stream, videos, controls) /\ stream \in Seq(Int)
      /\ controls \in Seq(Frame)
  BY DEF BulkInv, StreamInv, Sent, Frames
<1>4. Window(stream, taken, buffer) /\ HandedOut(video, videos, Base(taken, buffer))
  BY DEF BulkInv, FeedInv
<1>5. PICK v : v = r
  OBVIOUS
<1>6. /\ Window(stream, taken, r.left) /\ HandedOut(video', videos, Base(taken, r.left))
      /\ r.more \in BOOLEAN
      /\ ~r.more => Waiting(video', videos, taken) /\ Len(r.left) < HEADER + MAX_PAYLOAD
  <2> HIDE DEF r
  <2>1. v = feed(buffer) /\ Delivered(video, v.out, video')
    BY <1>2, <1>5 DEF r
  <2>2. /\ Window(stream, taken, v.left) /\ HandedOut(video', videos, Base(taken, v.left))
        /\ v.more \in BOOLEAN
        /\ ~v.more => Waiting(video', videos, taken) /\ Len(v.left) < HEADER + MAX_PAYLOAD
    BY <1>3, <1>4, <2>1, FeedRound
  <2> QED
    BY <1>5, <2>2
<1> HIDE DEF r
<1>7. StreamInv'
  BY <1>1 DEF BulkInv, StreamInv
<1>8. FeedInv'
  BY <1>1, <1>6 DEF FeedInv
<1>9. LinkInv'
  <2>1. pc' # "read"
    BY <1>1
  <2> QED
    BY <1>1, <2>1 DEF BulkInv, LinkInv
<1>10. BulkTypes'
  <2>1. control_buffer \in Seq(Int) /\ data \in Seq(Int)
        /\ Len(control_buffer) < HEADER + MaxControl /\ cut \in BOOLEAN
        /\ g_rx \in Seq(Int) /\ Len(g_rx) <= RxSize
    BY <1>1 DEF BulkInv, BulkTypes
  <2>2. control_buffer \o data \in Seq(Int)
    BY <2>1, IntConcatIs
  <2>3. CASE ~r.more /\ aoa
    <3>1. control_buffer' = control_buffer \o data /\ pc' = "control"
      BY <1>1, <2>3
    <3> QED
      BY <1>1, <2>1, <2>2, <3>1 DEF BulkTypes
  <2>4. CASE ~(~r.more /\ aoa)
    <3>1. control_buffer' = control_buffer /\ pc' \in {"video", "link"}
      BY <1>1, <2>4
    <3> QED
      BY <1>1, <2>1, <3>1 DEF BulkTypes
  <2> QED
    BY <2>3, <2>4
<1>11. ControlInv'
  <2> SUFFICES ASSUME start = <<>>, ~cut PROVE ControlInv'
    BY <1>1 DEF ControlInv
  <2>1. /\ Window(stream, taken, data) /\ Clear(controls, taken)
        /\ Clear(controls, Base(taken, data)) /\ Clean(data)
        /\ HandedOut(control, controls, Base(taken, data))
        /\ Len(control_buffer) <= 2
    BY <1>1 DEF BulkInv, ControlInv
  <2>2. CASE r.more
    <3>1. pc' = "video" /\ control_buffer' = control_buffer
      BY <1>1, <2>2
    <3> QED
      BY <1>1, <2>1, <3>1 DEF ControlInv
  <2>3. CASE ~r.more /\ ~aoa
    <3>1. pc' = "link" /\ control_buffer' = control_buffer
      BY <1>1, <2>3
    <3>2. HandedOut(control, controls, taken)
      <4>1. Synced(stream, taken, data, 0, CH_AOA, ControlPayloads, controls, control)
        <5>1. Frames(stream, controls, CH_AOA, ControlPayloads) /\ OnlyIn(stream, controls, CH_AOA)
          BY DEF BulkInv, StreamInv, Sent
        <5> QED
          BY <1>3, <2>1, <5>1, Tokens, SyncedIs
      <4>2. Matches(data, Magic(CH_AOA)) = {}
        BY <2>3 DEF AOA_MAGIC, Magic
      <4>3. Waiting(control, controls, taken)
        BY <4>1, <4>2, NoMagicWaits
      <4>4. Base(taken, data) \in Int /\ taken \in Int /\ Base(taken, data) <= taken
        BY <1>3, <2>1 DEF Window, Base
      <4> QED
        BY <1>3, <2>1, <4>3, <4>4, WaitingClear
    <3> QED
      BY <1>1, <2>1, <3>1, <3>2 DEF ControlInv
  <2>4. CASE ~r.more /\ aoa
    <3>1. pc' = "control" /\ Joined(control_buffer, data, control_buffer')
      BY <1>1, <2>4 DEF Joined
    <3>2. PICK j : j = Len(control_buffer)
      OBVIOUS
    <3>3. j \in 0 .. 2
      <4>1. control_buffer \in Seq(Int)
        BY <1>3 DEF BulkInv, BulkTypes
      <4>2. Len(control_buffer) \in Nat
        BY <4>1
      <4> QED
        BY <2>1, <3>2, <4>2
    <3>4. Spliced(stream, taken, data, control_buffer', controls, control, j)
      <4>1. control_buffer \in Seq(Int) /\ taken \in Nat
        BY <1>3 DEF BulkInv, BulkTypes
      <4> QED
        BY <2>1, <3>1, <3>2, <4>1, SplicedIs
    <3> QED
      BY <1>1, <2>1, <3>1, <3>3, <3>4 DEF ControlInv
  <2> QED
    BY <2>2, <2>3, <2>4
<1> QED
  BY <1>7, <1>8, <1>9, <1>10, <1>11 DEF BulkInv

\* No match begins in the junk: what it would need of this transfer is not there.
LEMMA NoneInJunk ==
  ASSUME NEW s, NEW n \in Nat, NEW d, Window(s, n, d), Clean(d), NEW b, NEW fs, NEW out,
         NEW j \in 0 .. 2, Spliced(s, n, d, b, fs, out, j),
         NEW i \in Matches(b, Magic(CH_AOA))
  PROVE  j < i
<1> DEFINE k == Len(d)
           l == Len(b)
<1>1. /\ d \in Seq(Int) /\ k \in Nat /\ k <= n /\ \A x \in 1 .. k : d[x] = s[n - k + x]
      /\ k > 0 => d[1] # CH_AOA
      /\ k > 1 => ~(d[1] = SCC /\ d[2] = CH_AOA)
  BY DEF Window, Clean
<1>2. /\ b \in Seq(Int) /\ l \in Nat /\ j \in 0 .. l
      /\ \A x \in 1 .. l - j : b[j + x] = s[n - (l - j) + x]
      /\ j > 0 => n - k = n - (l - j)
  BY DEF Spliced, Holds, Base
<1>3. i \in 1 .. l - 2 /\ b[i] = S55 /\ b[i + 1] = SCC /\ b[i + 2] = CH_AOA
  BY <1>2, Tokens, MatchIs DEF Magic
<1> HIDE DEF k, l
<1> SUFFICES ASSUME ~(j < i) PROVE FALSE
  OBVIOUS
<1>4. j > 0 /\ l - j = k /\ (i = j \/ (i = 1 /\ j = 2))
  <2>1. i \in Nat /\ 1 <= i /\ i <= j /\ j \in {1, 2}
    BY <1>3
  <2>2. n - k = n - (l - j) /\ l \in Nat /\ k \in Nat
    BY <1>1, <1>2, <2>1
  <2> QED
    BY <2>1, <2>2
<1>5. \A x \in 1 .. k : b[j + x] = d[x]
  BY <1>1, <1>2, <1>4
<1>6. CASE i = j
  <2>1. 1 \in 1 .. k /\ 2 \in 1 .. k /\ k > 1
    BY <1>1, <1>2, <1>3, <1>4, <1>6
  <2> QED
    BY <1>1, <1>3, <1>5, <1>6, <2>1
<1>7. CASE i = 1 /\ j = 2
  <2>1. 1 \in 1 .. k /\ k > 0 /\ i + 2 = j + 1
    BY <1>1, <1>2, <1>3, <1>4, <1>7
  <2> QED
    BY <1>1, <1>3, <1>5, <2>1
<1> QED
  BY <1>4, <1>6, <1>7

\* Nothing more, or the next frame.
UnwrapEnds(n, cs, out, r) ==
  r.more = FALSE /\ r.out = <<>> /\ HandedOut(out, cs, n) /\ Len(r.left) <= 2

UnwrapTakes(s, n, d, cs, out, r, q) ==
  /\ r.more = TRUE /\ Len(out) + 1 \in 1 .. Len(cs)
  /\ \E g : r.out = <<g>> /\ Body(g) = cs[Len(out) + 1].body
  /\ Spliced(s, n, d, r.left, cs, q, 0)

\* A round of aoa.unwrap, on transfers that do not cut a control frame.
LEMMA UnwrapRound ==
  ASSUME FramingAssumption, NEW s, NEW vs, NEW cs, Sent(s, vs, cs), OnlyIn(s, cs, CH_AOA),
         NEW n \in 0 .. Len(s), NEW d, Window(s, n, d), Clean(d), Clear(cs, n),
         NEW b, NEW out, NEW j \in 0 .. 2, Spliced(s, n, d, b, cs, out, j),
         NEW r, r = unwrap(b), NEW q, Delivered(out, r.out, q)
  PROVE  UnwrapEnds(n, cs, out, r) \/ UnwrapTakes(s, n, d, cs, out, r, q)
<1>1. /\ s \in Seq(Int) /\ Frames(s, cs, CH_AOA, ControlPayloads) /\ cs \in Seq(Frame)
      /\ n \in Nat /\ Len(s) \in Nat /\ Len(cs) \in Nat
  BY DEF Sent, Frames
<1>2. /\ Holds(s, n, b, j) /\ HandedOut(out, cs, n - (Len(b) - j))
      /\ Base(n, d) <= n - (Len(b) - j) /\ Len(b) \in Nat /\ Len(b) - j <= n /\ j <= Len(b)
      /\ Len(d) \in Nat
  BY DEF Spliced, Holds, Window
<1>3. Synced(s, n, b, j, CH_AOA, ControlPayloads, cs, out)
  <2>1. \A i \in Matches(b, Magic(CH_AOA)) : j < i
    BY <1>1, NoneInJunk
  <2> QED
    BY <1>1, <1>2, <2>1, Tokens DEF Synced
<1> DEFINE lengths == MinControl .. MaxControl
<1>4. r = Resync(b, Magic(CH_AOA), lengths)
  BY DEF unwrap, AOA_MAGIC, Magic
<1>5. \A p \in ControlPayloads : Len(p) \in lengths
  BY DEF FramingAssumption
<1> HIDE DEF lengths
<1>6. out \in Seq(Seq(Int)) /\ Len(out) \in Nat
  BY <1>2 DEF HandedOut
<1> DEFINE p == n - (Len(b) - j)
<1>p. p \in Int /\ p <= n /\ n \in Int /\ Base(n, d) \in Int /\ Base(n, d) <= p
  BY <1>1, <1>2 DEF Base
<1>7. CASE NoMagic(s, n, j, cs, out, r)
  <2>1. r.out = <<>> /\ r.more = FALSE /\ Waiting(out, cs, n) /\ Len(r.left) <= 2
    BY <1>7 DEF NoMagic
  <2>2. HandedOut(out, cs, n)
    BY <1>1, <1>2, <1>p, <2>1, WaitingClear
  <2> QED
    BY <2>1, <2>2 DEF UnwrapEnds
<1>8. CASE Unfinished(s, n, ControlPayloads, cs, out, r)
  <2>1. PICK i \in 1 .. Len(cs) : cs[i].at < n /\ n < End(cs[i])
    BY <1>8 DEF Unfinished
  <2>2. n <= cs[i].at \/ End(cs[i]) <= n
    BY DEF Clear
  <2>3. cs[i].at \in Nat /\ End(cs[i]) \in Nat
    <3>1. cs[i] \in Frame
      BY <1>1
    <3> QED
      BY <3>1, EndIs
  <2> QED
    BY <1>1, <2>1, <2>2, <2>3
<1>9. CASE TakesNext(s, n, cs, out, r)
  <2> DEFINE f == cs[Len(out) + 1]
             e == f.body
  <2>1. /\ r.more = TRUE /\ Len(out) + 1 \in 1 .. Len(cs) /\ Window(s, n, r.left)
        /\ HandedOut(Append(out, e), cs, n - Len(r.left))
    BY <1>9 DEF TakesNext
  <2>2. PICK g : r.out = <<g>> /\ Body(g) = e
    BY <1>9 DEF TakesNext
  <2>3. f \in Frame
    BY <1>1, <2>1
  <2>4. /\ f.at \in Nat /\ End(f) \in Nat /\ f.at < End(f) /\ e \in Seq(Int)
    BY <2>3, EndIs
  <2>5. p <= f.at
    <3>1. Len(out) + 1 \in Len(out) + 1 .. Len(cs)
      BY <1>1, <1>6, <2>1
    <3> QED
      BY <1>2, <3>1 DEF HandedOut
  <2> HIDE DEF e
  <2>6. q = Append(out, e)
    BY <1>6, <2>2, <2>4, DeliverOne
  <2>7. Len(q) = Len(out) + 1 /\ Len(out) + 1 \in 1 .. Len(q)
    <3>1. Len(Append(out, e)) = Len(out) + 1
      BY <1>6, <2>4, AppendIs
    <3> QED
      BY <1>6, <2>6, <3>1
  <2> DEFINE l == Len(r.left)
  <2>8. End(f) <= n - l
    <3>1. HandedOut(q, cs, n - l)
      BY <2>1, <2>6
    <3> QED
      BY <2>7, <3>1 DEF HandedOut
  <2>9. /\ r.left \in Seq(Int) /\ l \in Nat /\ l <= n
        /\ \A x \in 1 .. l : r.left[x] = s[n - l + x]
    <3> DEFINE w == r.left
    <3>1. Window(s, n, w)
      BY <2>1
    <3> HIDE DEF w
    <3>2. /\ w \in Seq(Int) /\ Len(w) \in Nat /\ Len(w) <= n
          /\ \A x \in 1 .. Len(w) : w[x] = s[n - Len(w) + x]
      BY <3>1 DEF Window
    <3> QED
      BY <3>2 DEF w
  <2> HIDE DEF l, f, p
  <2>10. Base(n, d) <= n - l
    BY <1>p, <2>4, <2>5, <2>8, <2>9
  <2>11. 0 \in 0 .. l /\ l - 0 = l /\ \A x \in 1 .. l : 0 + x = x
    BY <2>9
  <2>12. Holds(s, n, r.left, 0)
    BY <2>9, <2>11 DEF Holds, l
  <2>13. HandedOut(q, cs, n - (l - 0))
    BY <2>1, <2>6, <2>11 DEF l
  <2>14. Spliced(s, n, d, r.left, cs, q, 0)
    BY <2>10, <2>11, <2>12, <2>13 DEF Spliced, l
  <2> QED
    BY <2>1, <2>2, <2>14 DEF e, f, UnwrapTakes
<1> QED
  BY <1>3, <1>4, <1>5, <1>7, <1>8, <1>9, ResyncIs

\* Whatever is in the buffer: what is left of it, and that a loop that ends has no
\* whole frame in it.
LEMMA TakeFrameBounds ==
  ASSUME NEW b \in Seq(Int), NEW low \in Nat, NEW high \in Nat,
         NEW r, r = TakeFrame(b, low .. high)
  PROVE  /\ r.left \in Seq(Int) /\ Len(r.left) <= Len(b) /\ r.more \in BOOLEAN
         /\ ~r.more => Len(r.left) < HEADER + high
<1> DEFINE k == b[4]
           l == Len(b)
<1>1. l \in Nat
  OBVIOUS
<1>2. CASE l < 4
  <2>1. r = [left |-> b, out |-> <<>>, more |-> FALSE]
    BY <1>2 DEF TakeFrame, HEADER
  <2>2. r.left = b /\ r.more = FALSE
    BY <2>1
  <2> HIDE DEF l
  <2>3. l < 4 + high /\ l <= l
    BY <1>1, <1>2
  <2>4. Len(r.left) < HEADER + high /\ Len(r.left) <= Len(b)
    BY <2>2, <2>3 DEF HEADER, l
  <2> QED
    BY <2>2, <2>4
<1>3. CASE ~(l < 4) /\ k \notin low .. high
  <2>1. r = [left |-> Tail(b), out |-> <<>>, more |-> TRUE]
    BY <1>3 DEF TakeFrame, HEADER
  <2>2. r.left = Tail(b) /\ r.more = TRUE
    BY <2>1
  <2> DEFINE c == Tail(b)
  <2>3. c \in Seq(Int) /\ Len(c) = l - 1
    BY <1>1, <1>3
  <2>4. l - 1 <= l
    BY <1>1
  <2> HIDE DEF c
  <2>5. c \in Seq(Int) /\ Len(c) <= l
    BY <2>3, <2>4
  <2>6. r.left \in Seq(Int) /\ Len(r.left) <= l
    BY <2>2, <2>5 DEF c
  <2>7. r.more \in BOOLEAN /\ (~r.more => Len(r.left) < HEADER + high)
    BY <2>2
  <2> QED
    BY <2>6, <2>7
<1>4. CASE ~(l < 4) /\ k \in low .. high /\ l < 4 + k
  <2>1. r = [left |-> b, out |-> <<>>, more |-> FALSE]
    BY <1>4 DEF TakeFrame, HEADER
  <2>2. r.left = b /\ r.more = FALSE
    BY <2>1
  <2> HIDE DEF l, k
  <2>3. l < 4 + high /\ l <= l
    BY <1>1, <1>4
  <2>4. Len(r.left) < HEADER + high /\ Len(r.left) <= Len(b)
    BY <2>2, <2>3 DEF HEADER, l
  <2> QED
    BY <2>2, <2>4
<1>5. CASE ~(l < 4) /\ k \in low .. high /\ ~(l < 4 + k)
  <2> DEFINE c == SubSeq(b, 4 + k + 1, l)
             g == SubSeq(b, 1, 4 + k)
  <2>1. r = [left |-> c, out |-> <<g>>, more |-> TRUE]
    BY <1>5 DEF TakeFrame, HEADER
  <2>2. r.left = c /\ r.more = TRUE
    BY <2>1
  <2>3. 4 + k + 1 \in 1 .. l + 1 /\ 4 + k + 1 - 1 <= l /\ l \in Int /\ l <= l
    <3> HIDE DEF l, k
    <3> QED
      BY <1>1, <1>5
  <2>4. c \in Seq(Int) /\ Len(c) = l - (4 + k + 1) + 1
    <3> DEFINE i == 4 + k + 1
    <3>1. i \in 1 .. l + 1 /\ i - 1 <= l /\ l \in Int /\ l <= l
      BY <2>3
    <3> HIDE DEF i
    <3>2. SubSeq(b, i, l) \in Seq(Int) /\ Len(SubSeq(b, i, l)) = l - i + 1
      BY <1>1, <3>1, SubSeqIs, ZenonT(60)
    <3> QED
      BY <3>2 DEF i
  <2> HIDE DEF c
  <2>5. Len(c) <= l
    <3> HIDE DEF l, k
    <3> QED
      BY <1>1, <1>5, <2>4
  <2> QED
    BY <2>2, <2>4, <2>5
<1> QED
  BY <1>2, <1>3, <1>4, <1>5

LEMMA UnwrapBounds ==
  ASSUME FramingAssumption, NEW b \in Seq(Int), NEW r, r = unwrap(b)
  PROVE  /\ r.left \in Seq(Int) /\ r.more \in BOOLEAN
         /\ ~r.more => Len(r.left) < HEADER + MaxControl
<1>1. MinControl \in Nat /\ MaxControl \in Nat
  BY DEF FramingAssumption
<1>2. Len(AOA_MAGIC) = 3 /\ AOA_MAGIC = Magic(CH_AOA)
  BY DEF AOA_MAGIC, Magic
<1> DEFINE M == Matches(b, AOA_MAGIC)
           m == FirstMatch(b, AOA_MAGIC)
           l == Len(b)
<1>3. l \in Nat
  OBVIOUS
<1>4. CASE M # {}
  <2>1. M \subseteq Nat
    <3> SUFFICES ASSUME NEW i \in M PROVE i \in Nat
      OBVIOUS
    <3>1. i \in 1 .. Len(b) - 2
      BY <1>2, Tokens, MatchIs DEF Magic
    <3> QED
      BY <3>1
  <2>2. m \in M
    BY <1>4, <2>1, FirstMatchIs
  <2>3. m \in 1 .. Len(b) - 2
    BY <1>2, <2>2, Tokens, MatchIs DEF Magic
  <2> DEFINE c == SubSeq(b, m, l)
  <2>4. r = TakeFrame(c, MinControl .. MaxControl)
    BY <1>4 DEF unwrap, Resync
  <2> HIDE DEF m, M
  <2>5. c \in Seq(Int)
    <3>1. m \in 1 .. l + 1 /\ m - 1 <= l /\ l \in Int /\ l <= l
      BY <1>3, <2>3
    <3> QED
      BY <3>1, SubSeqIs
  <2> HIDE DEF c
  <2> QED
    BY <1>1, <2>4, <2>5, TakeFrameBounds
<1>5. CASE M = {}
  <2>1. r = [left |-> IF l > 2 THEN LastTokens(b, 2) ELSE b, out |-> <<>>, more |-> FALSE]
    <3>1. Len(AOA_MAGIC) - 1 = 2
      BY <1>2
    <3> QED
      BY <1>5, <3>1 DEF unwrap, Resync
  <2>2. r.left = (IF l > 2 THEN LastTokens(b, 2) ELSE b) /\ r.more = FALSE
    BY <2>1
  <2>3. r.left \in Seq(Int) /\ Len(r.left) <= 2
    <3>1. CASE l > 2
      <4> DEFINE c == SubSeq(b, l - 2 + 1, l)
      <4>1. l - 2 + 1 \in 1 .. l + 1 /\ l \in Int /\ l - 2 + 1 - 1 <= l /\ l <= l
        BY <1>3, <3>1
      <4>2. c \in Seq(Int) /\ Len(c) = l - (l - 2 + 1) + 1
        BY <4>1, SubSeqIs
      <4>3. l - (l - 2 + 1) + 1 = 2
        BY <1>3
      <4>4. r.left = c
        BY <2>2, <3>1 DEF LastTokens
      <4> HIDE DEF c
      <4>5. c \in Seq(Int) /\ Len(c) <= 2
        BY <4>2, <4>3
      <4> QED
        BY <4>4, <4>5
    <3>2. CASE ~(l > 2)
      BY <1>3, <2>2, <3>2
    <3> QED
      BY <3>1, <3>2
  <2> DEFINE k == Len(r.left)
  <2>4. k \in Nat /\ k <= 2
    BY <2>3
  <2> HIDE DEF k
  <2>5. k < HEADER + MaxControl
    BY <1>1, <2>4 DEF HEADER
  <2> QED
    BY <2>2, <2>3, <2>5 DEF k
<1> QED
  BY <1>4, <1>5

LEMMA HandleBounds ==
  ASSUME FramingAssumption, NEW b \in Seq(Int), NEW r, r = handle_frames(b)
  PROVE  r.left \in Seq(Int) /\ Len(r.left) <= Len(b)
<1> DEFINE magic == <<S55, SCC>>
           M == Matches(b, magic)
           m == FirstMatch(b, magic)
           l == Len(b)
<1>1. l \in Nat /\ Len(magic) = 2 /\ MaxLink \in Nat
  BY DEF FramingAssumption
<1>2. CASE l < 4
  <2>1. r = [left |-> b, out |-> <<>>, more |-> FALSE]
    BY <1>2 DEF handle_frames, HEADER
  <2> QED
    BY <1>1, <2>1
<1>3. CASE ~(l < 4) /\ M # {}
  <2>1. M \subseteq 1 .. l - 1
    BY <1>1 DEF Matches
  <2>2. m \in M
    <3>1. M \subseteq Nat
      BY <2>1
    <3> QED
      BY <1>3, <3>1, FirstMatchIs
  <2> DEFINE c == SubSeq(b, m, l)
  <2>3. r = TakeFrame(c, 1 .. MaxLink)
    BY <1>3 DEF handle_frames, HEADER
  <2> HIDE DEF m, M
  <2>4. m \in 1 .. l + 1 /\ m - 1 <= l /\ l \in Int /\ l <= l /\ m \in Nat /\ 1 <= m
    BY <1>1, <2>1, <2>2
  <2>5. c \in Seq(Int) /\ Len(c) = l - m + 1
    BY <2>4, SubSeqIs
  <2> HIDE DEF c
  <2>6. r.left \in Seq(Int) /\ Len(r.left) <= Len(c)
    <3>1. 1 \in Nat /\ MaxLink \in Nat
      BY <1>1
    <3> QED
      BY <2>3, <2>5, <3>1, TakeFrameBounds
  <2> DEFINE k == Len(r.left)
  <2>7. k \in Nat /\ k <= Len(c)
    BY <2>6
  <2> HIDE DEF k, l
  <2>8. k <= l
    BY <1>1, <2>4, <2>5, <2>7
  <2> QED
    BY <2>6, <2>8 DEF k, l
<1>4. CASE ~(l < 4) /\ M = {}
  <2>1. r = [left |-> <<>>, out |-> <<>>, more |-> FALSE]
    BY <1>4 DEF handle_frames, HEADER
  <2>2. r.left = <<>>
    BY <2>1
  <2> QED
    BY <1>1, <2>2
<1> QED
  BY <1>2, <1>3, <1>4

LEMMA UnwrapStep ==
  ASSUME FramingAssumption, BulkInv, Unwrap
  PROVE  BulkInv'
<1> DEFINE r == unwrap(control_buffer)
           packets == [i \in DOMAIN r.out |-> Body(r.out[i])]
<1>1. /\ pc = "control" /\ control_buffer' = r.left
      /\ control' = IF r.out # <<>> /\ DumlParses(packets[1]) THEN control \o packets ELSE control
      /\ pc' = IF r.more THEN "control" ELSE "link"
      /\ UNCHANGED <<start, stream, videos, controls, taken, data, buffer, video, g_rx,
                     linkVideo, linkControl, cut>>
  BY DEF Unwrap, sent, link
<1>2. /\ taken \in 0 .. Len(stream) /\ Sent(stream, videos, controls) /\ stream \in Seq(Int)
      /\ controls \in Seq(Frame)
  BY DEF BulkInv, StreamInv, Sent, Frames
<1>3. PICK v : v = r
  OBVIOUS
<1>4. /\ r.left \in Seq(Int) /\ r.more \in BOOLEAN
      /\ ~r.more => Len(r.left) < HEADER + MaxControl
  <2> HIDE DEF r
  <2>1. v = unwrap(control_buffer) /\ control_buffer \in Seq(Int)
    BY <1>3 DEF r, BulkInv, BulkTypes
  <2>2. /\ v.left \in Seq(Int) /\ v.more \in BOOLEAN
        /\ ~v.more => Len(v.left) < HEADER + MaxControl
    BY <2>1, UnwrapBounds
  <2> QED
    BY <1>3, <2>2
<1>5. StreamInv'
  BY <1>1 DEF BulkInv, StreamInv
<1>6. BulkTypes'
  <2> HIDE DEF r
  <2>1. /\ cut \in BOOLEAN /\ data \in Seq(Int) /\ g_rx \in Seq(Int) /\ Len(g_rx) <= RxSize
    BY DEF BulkInv, BulkTypes
  <2>2. /\ pc' \in {"control", "link"} /\ (pc' # "control" => ~r.more)
    BY <1>1
  <2> QED
    BY <1>1, <1>4, <2>1, <2>2 DEF BulkTypes
<1>7. FeedInv'
  <2> HIDE DEF r
  <2>1. Waiting(video, videos, taken) /\ Len(buffer) < HEADER + MAX_PAYLOAD
    BY <1>1 DEF BulkInv, FeedInv
  <2> QED
    BY <1>1, <2>1 DEF BulkInv, FeedInv
<1>8. LinkInv'
  <2> HIDE DEF r
  <2>1. pc' # "read"
    BY <1>1
  <2> QED
    BY <1>1, <2>1 DEF BulkInv, LinkInv
<1>9. ControlInv'
  <2> SUFFICES ASSUME start = <<>>, ~cut PROVE ControlInv'
    BY <1>1 DEF ControlInv
  <2>1. /\ Window(stream, taken, data) /\ Clear(controls, taken)
        /\ Clear(controls, Base(taken, data)) /\ Clean(data)
    BY DEF BulkInv, ControlInv
  <2>2. PICK j \in 0 .. 2 : Spliced(stream, taken, data, control_buffer, controls, control, j)
    BY <1>1 DEF BulkInv, ControlInv
  <2>3. OnlyIn(stream, controls, CH_AOA)
    BY DEF BulkInv, StreamInv
  <2>4. PICK q : q = control \o packets
    OBVIOUS
  <2>5. \/ UnwrapEnds(taken, controls, control, v)
        \/ UnwrapTakes(stream, taken, data, controls, control, v, q)
    <3>1. v = unwrap(control_buffer) /\ Delivered(control, v.out, q)
      BY <1>3, <2>4 DEF Delivered
    <3> HIDE DEF r, packets
    <3> QED
      BY <1>2, <2>1, <2>2, <2>3, <3>1, UnwrapRound
  <2>6. CASE UnwrapEnds(taken, controls, control, v)
    <3> HIDE DEF packets, r
    <3>0. v.more = FALSE /\ v.out = <<>> /\ HandedOut(control, controls, taken)
          /\ Len(v.left) <= 2
      BY <2>6 DEF UnwrapEnds
    <3>1. pc' = "link" /\ control' = control /\ control_buffer' = v.left
      BY <1>1, <1>3, <3>0
    <3> QED
      BY <1>1, <2>1, <3>0, <3>1 DEF ControlInv
  <2>7. CASE UnwrapTakes(stream, taken, data, controls, control, v, q)
    <3>0. /\ v.more = TRUE /\ Len(control) + 1 \in 1 .. Len(controls)
          /\ \E g : v.out = <<g>> /\ Body(g) = controls[Len(control) + 1].body
          /\ Spliced(stream, taken, data, v.left, controls, q, 0)
      BY <2>7 DEF UnwrapTakes
    <3>1. PICK g : v.out = <<g>> /\ Body(g) = controls[Len(control) + 1].body
      BY <3>0
    <3>2. packets[1] = Body(g) /\ r.out # <<>>
      BY <1>3, <3>1
    <3> HIDE DEF packets, r
    <3>3. DumlParses(packets[1])
      <4>1. DOMAIN controls = 1 .. Len(controls)
        BY <1>2
      <4> QED
        BY <3>0, <3>1, <3>2, <4>1 DEF DumlParses
    <3>4. pc' = "control" /\ control' = q /\ control_buffer' = v.left
      BY <1>1, <1>3, <2>4, <3>0, <3>2, <3>3
    <3>5. 0 \in 0 .. 2
      OBVIOUS
    <3> QED
      BY <1>1, <2>1, <3>0, <3>4, <3>5 DEF ControlInv
  <2> QED
    BY <2>5, <2>6, <2>7
<1> QED
  BY <1>5, <1>6, <1>7, <1>8, <1>9 DEF BulkInv

\* A frame fs[k] that begins where frames of both channels have come out so far:
\* it is the next of its channel, and it comes before all of the other that wait.
LEMMA FrameIsNext ==
  ASSUME NEW fs \in Seq(Frame), Ordered(fs), NEW gs \in Seq(Frame), NEW p \in Int,
         NEW out, HandedOut(out, fs, p), NEW other, HandedOut(other, gs, p),
         NEW k \in 1 .. Len(fs), fs[k].at = p,
         \A i \in 1 .. Len(gs) : End(fs[k]) <= gs[i].at \/ End(gs[i]) <= fs[k].at
  PROVE  /\ k = Len(out) + 1
         /\ HandedOut(other, gs, End(fs[k]))
         /\ \A n \in Int : n < End(fs[k]) => Waiting(other, gs, n)
<1>1. /\ Len(out) \in Nat /\ Len(fs) \in Nat /\ Len(out) <= Len(fs)
      /\ \A i \in 1 .. Len(out) : End(fs[i]) <= p
      /\ \A i \in Len(out) + 1 .. Len(fs) : p <= fs[i].at
  BY DEF HandedOut
<1>2. \A i \in 1 .. Len(fs) : fs[i].at \in Nat /\ End(fs[i]) \in Nat /\ fs[i].at < End(fs[i])
  <2> SUFFICES ASSUME NEW i \in 1 .. Len(fs)
               PROVE  fs[i].at \in Nat /\ End(fs[i]) \in Nat /\ fs[i].at < End(fs[i])
    OBVIOUS
  <2>1. fs[i] \in Frame
    OBVIOUS
  <2> QED
    BY <2>1, EndIs
<1>3. \A i \in 1 .. Len(gs) : gs[i].at \in Nat /\ End(gs[i]) \in Nat /\ gs[i].at < End(gs[i])
  <2> SUFFICES ASSUME NEW i \in 1 .. Len(gs)
               PROVE  gs[i].at \in Nat /\ End(gs[i]) \in Nat /\ gs[i].at < End(gs[i])
    OBVIOUS
  <2>1. gs[i] \in Frame
    OBVIOUS
  <2> QED
    BY <2>1, EndIs
<1>4. k = Len(out) + 1
  <2>1. ~(k \in 1 .. Len(out))
    <3> SUFFICES ASSUME k \in 1 .. Len(out) PROVE FALSE
      OBVIOUS
    <3> QED
      BY <1>1, <1>2
  <2>2. ASSUME Len(out) + 1 < k PROVE FALSE
    <3> DEFINE o == Len(out) + 1
    <3>1. o \in 1 .. Len(fs) /\ o \in Len(out) + 1 .. Len(fs) /\ o < k
      BY <1>1, <2>2
    <3> HIDE DEF o
    <3>2. End(fs[o]) <= p /\ p <= fs[o].at
      BY <1>1, <3>1 DEF Ordered
    <3> QED
      BY <1>2, <3>1, <3>2
  <2> QED
    BY <1>1, <2>1, <2>2
<1>5. /\ other \in Seq(Seq(Int)) /\ Len(other) \in Nat /\ Len(gs) \in Nat
      /\ Len(other) <= Len(gs)
      /\ \A i \in 1 .. Len(other) : other[i] = gs[i].body /\ End(gs[i]) <= p
      /\ \A i \in Len(other) + 1 .. Len(gs) : p <= gs[i].at
  BY DEF HandedOut
<1>6. End(fs[k]) \in Nat /\ p \in Nat /\ p < End(fs[k])
  BY <1>2
<1>7. ASSUME NEW i \in 1 .. Len(other) PROVE End(gs[i]) <= End(fs[k])
  <2>1. i \in 1 .. Len(gs) /\ End(gs[i]) <= p
    BY <1>5
  <2>2. End(gs[i]) \in Nat
    BY <1>3, <2>1
  <2> QED
    BY <1>6, <2>1, <2>2
<1>8. ASSUME NEW i \in Len(other) + 1 .. Len(gs)
      PROVE  End(fs[k]) <= gs[i].at /\ gs[i].at < End(gs[i])
             /\ gs[i].at \in Nat /\ End(gs[i]) \in Nat
  <2>1. i \in 1 .. Len(gs) /\ p <= gs[i].at
    BY <1>5
  <2>2. gs[i].at \in Nat /\ End(gs[i]) \in Nat /\ gs[i].at < End(gs[i])
    BY <1>3, <2>1
  <2>3. End(fs[k]) <= gs[i].at \/ End(gs[i]) <= p
    BY <2>1
  <2> QED
    BY <1>6, <2>1, <2>2, <2>3
<1>9. HandedOut(other, gs, End(fs[k]))
  BY <1>5, <1>7, <1>8 DEF HandedOut
<1>10. ASSUME NEW n \in Int, n < End(fs[k]) PROVE Waiting(other, gs, n)
  <2> SUFFICES ASSUME NEW i \in Len(other) + 1 .. Len(gs) PROVE n < End(gs[i])
    BY DEF Waiting
  <2>1. End(fs[k]) \in Int /\ n \in Int /\ n < End(fs[k])
    BY <1>6, <1>10
  <2>2. End(fs[k]) <= gs[i].at /\ gs[i].at < End(gs[i])
        /\ gs[i].at \in Nat /\ End(gs[i]) \in Nat
    BY <1>8, Zenon
  <2> QED
    BY <2>1, <2>2
<1> QED
  BY <1>4, <1>9, <1>10

LEMMA WaitsBehind ==
  ASSUME NEW fs \in Seq(Frame), NEW n \in Int, NEW out, HandedOut(out, fs, n)
  PROVE  Waiting(out, fs, n)
<1>1. /\ Len(out) \in Nat /\ Len(fs) \in Nat
      /\ \A i \in Len(out) + 1 .. Len(fs) : n <= fs[i].at
  BY DEF HandedOut
<1> SUFFICES ASSUME NEW i \in Len(out) + 1 .. Len(fs) PROVE n < End(fs[i])
  BY DEF Waiting
<1>2. i \in 1 .. Len(fs) /\ n <= fs[i].at
  BY <1>1
<1>3. fs[i] \in Frame
  BY <1>2
<1>4. fs[i].at \in Nat /\ End(fs[i]) \in Nat /\ fs[i].at < End(fs[i])
  BY <1>3, EndIs
<1> QED
  BY <1>2, <1>4

\* handle_frames waits for the rest of a frame, ...
LinkWaits(s, n, vs, cs, vout, cout, r) ==
  /\ r.more = FALSE /\ r.out = <<>>
  /\ Window(s, n, r.left) /\ Boundary(s, vs, cs, Base(n, r.left))
  /\ HandedOut(vout, vs, Base(n, r.left)) /\ HandedOut(cout, cs, Base(n, r.left))
  /\ Waiting(vout, vs, n) /\ Waiting(cout, cs, n)
  /\ Len(r.left) < HEADER + MAX_PAYLOAD

\* ... or takes the next frame fs[Len(out) + 1] of a channel, before all frames gs
\* of the other that are still to come.
LinkTakes(s, n, fs, gs, channel, out, other, r) ==
  /\ r.more = TRUE /\ Len(out) + 1 \in 1 .. Len(fs)
  /\ \E g : r.out = <<g>> /\ g[3] = channel /\ Body(g) = fs[Len(out) + 1].body
  /\ Window(s, n, r.left) /\ Base(n, r.left) = End(fs[Len(out) + 1])
  /\ HandedOut(Append(out, fs[Len(out) + 1].body), fs, Base(n, r.left))
  /\ HandedOut(other, gs, Base(n, r.left))

\* A frame begins where the buffer does.
LEMMA HandleFrame ==
  ASSUME NEW s \in Seq(Int), NEW n \in 0 .. Len(s), NEW b, Window(s, n, b),
         NEW fs, NEW channel \in Int, NEW P, Frames(s, fs, channel, P),
         NEW gs \in Seq(Frame), NEW out, HandedOut(out, fs, Base(n, b)),
         NEW other, HandedOut(other, gs, Base(n, b)),
         NEW k \in 1 .. Len(fs), fs[k].at = Base(n, b), Len(fs[k].body) \in 1 .. MaxLink,
         \A i \in 1 .. Len(gs) : End(fs[k]) <= gs[i].at \/ End(gs[i]) <= fs[k].at,
         NEW r, r = handle_frames(b)
  PROVE  \/ /\ r.more = FALSE /\ r.out = <<>> /\ r.left = b
            /\ Waiting(out, fs, n) /\ Waiting(other, gs, n)
            /\ Len(b) < HEADER + Len(fs[k].body)
         \/ LinkTakes(s, n, fs, gs, channel, out, other, r)
<1>1. fs \in Seq(Frame) /\ Ordered(fs) /\ FrameIn(s, fs[k], channel) /\ fs[k] \in Frame
  BY DEF Frames
<1>2. n \in Int /\ Base(n, b) \in Int /\ n - Len(b) = fs[k].at
  BY DEF Window, Base
<1>3. /\ k = Len(out) + 1
      /\ HandedOut(other, gs, End(fs[k]))
      /\ \A x \in Int : x < End(fs[k]) => Waiting(other, gs, x)
  BY <1>1, <1>2, FrameIsNext
<1>4. /\ HandedOut(Append(out, fs[k].body), fs, End(fs[k]))
      /\ \A x \in Int : x < End(fs[k]) => Waiting(out, fs, x)
  BY <1>1, <1>2, <1>3, NextHandedOut
<1> DEFINE f == fs[k]
<1>5. f \in Frame /\ FrameIn(s, f, channel) /\ n - Len(b) = f.at /\ Len(f.body) \in 1 .. MaxLink
  BY <1>1, <1>2
<1> HIDE DEF f
<1>6. Partial(n, b, f, r) \/ Complete(s, n, f, channel, r)
  BY <1>5, HandleIs
<1>7. CASE Partial(n, b, f, r)
  <2>1. /\ r.more = FALSE /\ r.out = <<>> /\ r.left = b
        /\ n < End(f) /\ Len(b) < HEADER + Len(f.body)
    BY <1>7 DEF Partial
  <2> QED
    BY <1>2, <1>3, <1>4, <2>1 DEF f
<1>8. CASE Complete(s, n, f, channel, r)
  <2>1. /\ \E g : r.out = <<g>> /\ g[3] = channel /\ Body(g) = f.body
        /\ r.more = TRUE /\ Window(s, n, r.left) /\ Base(n, r.left) = End(f)
    BY <1>8 DEF Complete, Base
  <2>2. LinkTakes(s, n, fs, gs, channel, out, other, r)
    BY <1>3, <1>4, <2>1 DEF LinkTakes, f
  <2> QED
    BY <2>2
<1> QED
  BY <1>6, <1>7, <1>8

\* A round of handle_frames.
LEMMA HandleRound ==
  ASSUME FramingAssumption, NEW s, NEW vs, NEW cs, Sent(s, vs, cs), NEW n \in 0 .. Len(s),
         NEW b, Window(s, n, b), Boundary(s, vs, cs, Base(n, b)),
         NEW vout, HandedOut(vout, vs, Base(n, b)),
         NEW cout, HandedOut(cout, cs, Base(n, b)), NEW r, r = handle_frames(b)
  PROVE  \/ LinkWaits(s, n, vs, cs, vout, cout, r)
         \/ LinkTakes(s, n, vs, cs, CH_VIDEO, vout, cout, r)
         \/ LinkTakes(s, n, cs, vs, CH_AOA, cout, vout, r)
<1>1. /\ s \in Seq(Int) /\ Frames(s, vs, CH_VIDEO, VideoPayloads)
      /\ Frames(s, cs, CH_AOA, ControlPayloads) /\ Apart(vs, cs)
      /\ vs \in Seq(Frame) /\ cs \in Seq(Frame) /\ n \in Nat /\ Len(s) \in Nat /\ n <= Len(s)
  BY DEF Sent, Frames
<1>2. /\ MAX_PAYLOAD \in Nat /\ MaxLink \in Nat /\ MaxControl \in Nat /\ MinControl \in Nat \ {0}
      /\ MaxControl <= MAX_PAYLOAD /\ MAX_PAYLOAD <= MaxLink
      /\ \A p \in VideoPayloads : Len(p) \in 1 .. MAX_PAYLOAD
      /\ \A p \in ControlPayloads : Len(p) \in MinControl .. MaxControl
  BY DEF FramingAssumption
<1>3. /\ \A p \in VideoPayloads \cup ControlPayloads :
           Len(p) \in Nat /\ Len(p) <= MAX_PAYLOAD /\ Len(p) \in 1 .. MaxLink
  BY <1>2
<1>4. /\ b \in Seq(Int) /\ Len(b) \in Nat /\ Len(b) <= n
  BY DEF Window
<1>5. ASSUME r.more = FALSE, r.out = <<>>, r.left = b, Waiting(vout, vs, n),
             Waiting(cout, cs, n), NEW l \in Nat, l <= MAX_PAYLOAD, Len(b) < HEADER + l
      PROVE  LinkWaits(s, n, vs, cs, vout, cout, r)
  <2>1. Len(b) < HEADER + MAX_PAYLOAD
    BY <1>2, <1>4, <1>5 DEF HEADER
  <2> QED
    BY <1>5, <2>1 DEF LinkWaits
<1>6. CASE Base(n, b) = Len(s)
  <2>1. Len(b) = 0 /\ Base(n, b) = n
    BY <1>1, <1>4, <1>6 DEF Base
  <2>2. r = [left |-> b, out |-> <<>>, more |-> FALSE]
    BY <1>4, <2>1, HandleNothing
  <2>3. r.left = b /\ r.out = <<>> /\ r.more = FALSE
    BY <2>2
  <2>4. Waiting(vout, vs, n) /\ Waiting(cout, cs, n)
    BY <1>1, <2>1, WaitsBehind
  <2>5. 0 \in Nat /\ 0 <= MAX_PAYLOAD /\ Len(b) < HEADER + 0
    BY <1>2, <2>1 DEF HEADER
  <2> QED
    BY <1>5, <2>3, <2>4, <2>5
<1>7. ASSUME NEW k \in 1 .. Len(vs), vs[k].at = Base(n, b)
      PROVE  \/ LinkWaits(s, n, vs, cs, vout, cout, r)
             \/ LinkTakes(s, n, vs, cs, CH_VIDEO, vout, cout, r)
  <2>1. /\ Len(vs[k].body) \in Nat /\ Len(vs[k].body) <= MAX_PAYLOAD
        /\ Len(vs[k].body) \in 1 .. MaxLink
    BY <1>1, <1>3 DEF Frames
  <2>2. \A i \in 1 .. Len(cs) : End(vs[k]) <= cs[i].at \/ End(cs[i]) <= vs[k].at
    BY <1>1 DEF Apart
  <2>3. \/ /\ r.more = FALSE /\ r.out = <<>> /\ r.left = b
           /\ Waiting(vout, vs, n) /\ Waiting(cout, cs, n)
           /\ Len(b) < HEADER + Len(vs[k].body)
        \/ LinkTakes(s, n, vs, cs, CH_VIDEO, vout, cout, r)
    BY <1>1, <1>7, <2>1, <2>2, Tokens, HandleFrame
  <2> QED
    BY <1>5, <2>1, <2>3
<1>8. ASSUME NEW k \in 1 .. Len(cs), cs[k].at = Base(n, b)
      PROVE  \/ LinkWaits(s, n, vs, cs, vout, cout, r)
             \/ LinkTakes(s, n, cs, vs, CH_AOA, cout, vout, r)
  <2>1. /\ Len(cs[k].body) \in Nat /\ Len(cs[k].body) <= MAX_PAYLOAD
        /\ Len(cs[k].body) \in 1 .. MaxLink
    BY <1>1, <1>3 DEF Frames
  <2>2. \A i \in 1 .. Len(vs) : End(cs[k]) <= vs[i].at \/ End(vs[i]) <= cs[k].at
    BY <1>1 DEF Apart
  <2>3. \/ /\ r.more = FALSE /\ r.out = <<>> /\ r.left = b
           /\ Waiting(cout, cs, n) /\ Waiting(vout, vs, n)
           /\ Len(b) < HEADER + Len(cs[k].body)
        \/ LinkTakes(s, n, cs, vs, CH_AOA, cout, vout, r)
    BY <1>1, <1>8, <2>1, <2>2, Tokens, HandleFrame
  <2> QED
    BY <1>5, <2>1, <2>3
<1> QED
  BY <1>6, <1>7, <1>8 DEF Boundary

LEMMA HandleStep ==
  ASSUME FramingAssumption, BulkInv, HandleFrames
  PROVE  BulkInv'
<1> DEFINE r == handle_frames(g_rx)
           isVideo == r.out # <<>> /\ r.out[1][3] = CH_VIDEO
           isControl == r.out # <<>> /\ ~isVideo
           bodies == [i \in DOMAIN r.out |-> Body(r.out[i])]
<1>1. /\ pc = "link" /\ g_rx' = r.left
      /\ linkVideo' = IF isVideo THEN linkVideo \o bodies ELSE linkVideo
      /\ linkControl' = IF isControl THEN linkControl \o bodies ELSE linkControl
      /\ pc' = IF r.more THEN "link" ELSE "read"
      /\ UNCHANGED <<start, stream, videos, controls, taken, data, buffer, control_buffer,
                     video, control, cut>>
  BY DEF HandleFrames, sent, pi
<1>2. /\ taken \in 0 .. Len(stream) /\ Sent(stream, videos, controls) /\ stream \in Seq(Int)
      /\ controls \in Seq(Frame) /\ videos \in Seq(Frame)
  BY DEF BulkInv, StreamInv, Sent, Frames
<1>3. PICK v : v = r
  OBVIOUS
<1>4. v = handle_frames(g_rx)
  BY <1>3
<1>5. StreamInv'
  BY <1>1 DEF BulkInv, StreamInv
<1>6. BulkTypes'
  <2>1. /\ cut \in BOOLEAN /\ data \in Seq(Int) /\ g_rx \in Seq(Int) /\ Len(g_rx) <= RxSize
        /\ control_buffer \in Seq(Int) /\ Len(control_buffer) < HEADER + MaxControl
        /\ RxSize \in Nat
    BY <1>1 DEF BulkInv, BulkTypes, FramingAssumption
  <2>2. v.left \in Seq(Int) /\ Len(v.left) <= Len(g_rx)
    <3> HIDE DEF r
    <3> QED
      BY <1>4, <2>1, HandleBounds
  <2> DEFINE w == v.left
  <2>3. w \in Seq(Int) /\ Len(w) <= Len(g_rx) /\ g_rx' = w
    BY <1>1, <1>3, <2>2
  <2>4. pc' \in {"link", "read"}
    BY <1>1
  <2> HIDE DEF w, r
  <2>5. Len(w) <= RxSize
    BY <2>1, <2>3
  <2> QED
    BY <1>1, <2>1, <2>3, <2>4, <2>5 DEF BulkTypes
<1>7. FeedInv'
  <2>1. Waiting(video, videos, taken) /\ Len(buffer) < HEADER + MAX_PAYLOAD
    BY <1>1 DEF BulkInv, FeedInv
  <2> QED
    BY <1>1, <2>1 DEF BulkInv, FeedInv
<1>8. ControlInv'
  <2> SUFFICES ASSUME start = <<>>, ~cut PROVE ControlInv'
    BY <1>1 DEF ControlInv
  <2>1. /\ Window(stream, taken, data) /\ Clear(controls, taken)
        /\ Clear(controls, Base(taken, data)) /\ Clean(data)
        /\ HandedOut(control, controls, taken) /\ Len(control_buffer) <= 2
    BY <1>1 DEF BulkInv, ControlInv
  <2>2. pc' \in {"link", "read"}
    BY <1>1
  <2> QED
    BY <1>1, <2>1, <2>2 DEF ControlInv
<1>9. LinkInv'
  <2> SUFFICES ASSUME start = <<>> PROVE LinkInv'
    BY <1>1 DEF LinkInv
  <2>1. /\ Window(stream, taken, g_rx)
        /\ Boundary(stream, videos, controls, Base(taken, g_rx))
        /\ HandedOut(linkVideo, videos, Base(taken, g_rx))
        /\ HandedOut(linkControl, controls, Base(taken, g_rx))
    BY DEF BulkInv, LinkInv
  <2>2. linkVideo \in Seq(Seq(Int)) /\ linkControl \in Seq(Seq(Int))
    BY <2>1 DEF HandedOut
  <2>3. \/ LinkWaits(stream, taken, videos, controls, linkVideo, linkControl, v)
        \/ LinkTakes(stream, taken, videos, controls, CH_VIDEO, linkVideo, linkControl, v)
        \/ LinkTakes(stream, taken, controls, videos, CH_AOA, linkControl, linkVideo, v)
    <3> HIDE DEF r, bodies, isVideo, isControl
    <3> QED
      BY <1>2, <1>4, <2>1, HandleRound
  <2>4. CASE LinkWaits(stream, taken, videos, controls, linkVideo, linkControl, v)
    <3>1. /\ v.more = FALSE /\ v.out = <<>>
          /\ Window(stream, taken, v.left)
          /\ Boundary(stream, videos, controls, Base(taken, v.left))
          /\ HandedOut(linkVideo, videos, Base(taken, v.left))
          /\ HandedOut(linkControl, controls, Base(taken, v.left))
          /\ Waiting(linkVideo, videos, taken) /\ Waiting(linkControl, controls, taken)
          /\ Len(v.left) < HEADER + MAX_PAYLOAD
      BY <2>4 DEF LinkWaits
    <3>2. ~isVideo /\ ~isControl
      BY <1>3, <3>1
    <3> HIDE DEF r, bodies, isVideo, isControl
    <3>3. /\ pc' = "read" /\ linkVideo' = linkVideo /\ linkControl' = linkControl
          /\ g_rx' = v.left
      BY <1>1, <1>3, <3>1, <3>2
    <3> QED
      BY <1>1, <3>1, <3>3 DEF LinkInv
  <2>5. CASE LinkTakes(stream, taken, videos, controls, CH_VIDEO, linkVideo, linkControl, v)
    <3> DEFINE k == Len(linkVideo) + 1
               e == videos[k].body
    <3>1. /\ v.more = TRUE /\ k \in 1 .. Len(videos)
          /\ Window(stream, taken, v.left) /\ Base(taken, v.left) = End(videos[k])
          /\ HandedOut(Append(linkVideo, e), videos, Base(taken, v.left))
          /\ HandedOut(linkControl, controls, Base(taken, v.left))
      BY <2>5 DEF LinkTakes
    <3>2. PICK g : v.out = <<g>> /\ g[3] = CH_VIDEO /\ Body(g) = e
      BY <2>5 DEF LinkTakes
    <3>3. isVideo /\ ~isControl
      BY <1>3, <3>2
    <3>4. Delivered(linkVideo, v.out, linkVideo')
      BY <1>1, <1>3, <3>3 DEF Delivered
    <3> HIDE DEF r, bodies, isVideo, isControl
    <3>5. pc' = "link" /\ linkControl' = linkControl /\ g_rx' = v.left
      BY <1>1, <1>3, <3>1, <3>3
    <3> HIDE DEF k
    <3>6. videos[k] \in Frame
      BY <1>2, <3>1
    <3>7. e \in Seq(Int)
      BY <3>6, EndIs
    <3>8. Boundary(stream, videos, controls, End(videos[k]))
      BY <1>2, <3>1 DEF Sent
    <3> HIDE DEF e
    <3>9. linkVideo' = Append(linkVideo, e)
      BY <2>2, <3>2, <3>4, <3>7, DeliverOne
    <3> QED
      BY <1>1, <3>1, <3>5, <3>8, <3>9 DEF LinkInv
  <2>6. CASE LinkTakes(stream, taken, controls, videos, CH_AOA, linkControl, linkVideo, v)
    <3> DEFINE k == Len(linkControl) + 1
               e == controls[k].body
    <3>1. /\ v.more = TRUE /\ k \in 1 .. Len(controls)
          /\ Window(stream, taken, v.left) /\ Base(taken, v.left) = End(controls[k])
          /\ HandedOut(Append(linkControl, e), controls, Base(taken, v.left))
          /\ HandedOut(linkVideo, videos, Base(taken, v.left))
      BY <2>6 DEF LinkTakes
    <3>2. PICK g : v.out = <<g>> /\ g[3] = CH_AOA /\ Body(g) = e
      BY <2>6 DEF LinkTakes
    <3>3. ~isVideo /\ isControl
      BY <1>3, <3>2, Tokens
    <3>4. Delivered(linkControl, v.out, linkControl')
      BY <1>1, <1>3, <3>3 DEF Delivered
    <3> HIDE DEF r, bodies, isVideo, isControl
    <3>5. pc' = "link" /\ linkVideo' = linkVideo /\ g_rx' = v.left
      BY <1>1, <1>3, <3>1, <3>3
    <3> HIDE DEF k
    <3>6. controls[k] \in Frame
      BY <1>2, <3>1
    <3>7. e \in Seq(Int)
      BY <3>6, EndIs
    <3>8. Boundary(stream, videos, controls, End(controls[k]))
      BY <1>2, <3>1 DEF Sent
    <3> HIDE DEF e
    <3>9. linkControl' = Append(linkControl, e)
      BY <2>2, <3>2, <3>4, <3>7, DeliverOne
    <3> QED
      BY <1>1, <3>1, <3>5, <3>8, <3>9 DEF LinkInv
  <2> QED
    BY <2>3, <2>4, <2>5, <2>6
<1> QED
  BY <1>5, <1>6, <1>7, <1>8, <1>9 DEF BulkInv
-----------------------------------------------------------------------------
(* The theorem *)

LEMMA InitBulk ==
  ASSUME FramingAssumption, Init
  PROVE  BulkInv
<1>1. /\ start \in Garbage /\ stream = start /\ videos = <<>> /\ controls = <<>> /\ taken = 0
      /\ pc = "read" /\ data = <<>> /\ buffer = <<>> /\ control_buffer = <<>> /\ g_rx = <<>>
      /\ video = <<>> /\ control = <<>> /\ linkVideo = <<>> /\ linkControl = <<>>
      /\ cut = FALSE
  BY DEF Init
<1>2. /\ stream \in Seq(Int) /\ Len(stream) \in Nat /\ Matches(stream, VIDEO_MAGIC) = {}
      /\ RxSize \in Nat /\ MaxControl \in Nat /\ MAX_PAYLOAD \in Nat
  BY <1>1 DEF FramingAssumption
<1> DEFINE e == <<>>
<1>3. e \in Seq(Int) /\ e \in Seq(Frame) /\ e \in Seq(Seq(Int)) /\ Len(e) = 0
      /\ \A i \in 1 .. Len(e) : FALSE
  OBVIOUS
<1>4. /\ start = e => stream = e
      /\ videos = e /\ controls = e /\ data = e /\ buffer = e /\ control_buffer = e /\ g_rx = e
      /\ video = e /\ control = e /\ linkVideo = e /\ linkControl = e
  BY <1>1
<1> HIDE DEF e
<1>5. OnlyIn(stream, videos, CH_VIDEO)
  <2> SUFFICES ASSUME NEW p \in 0 .. Len(stream), MagicAt(stream, p, CH_VIDEO) PROVE FALSE
    BY DEF OnlyIn
  <2> DEFINE i == p + 1
  <2>1. /\ p + 3 <= Len(stream)
        /\ stream[p + 1] = S55 /\ stream[p + 2] = SCC /\ stream[p + 3] = CH_VIDEO
    BY DEF MagicAt
  <2>2. i \in 1 .. Len(stream) - 2 /\ p + 2 = i + 1 /\ p + 3 = i + 2
    BY <1>2, <2>1
  <2>3. stream[i] = S55 /\ stream[i + 1] = SCC /\ stream[i + 2] = CH_VIDEO
    BY <2>1, <2>2
  <2> HIDE DEF i
  <2>4. i \in Matches(stream, VIDEO_MAGIC)
    BY <1>2, <2>2, <2>3, Tokens, MatchIs DEF VIDEO_MAGIC
  <2> QED
    BY <1>2, <2>4
<1>6. \A channel, payloads : Frames(stream, e, channel, payloads)
  BY <1>3 DEF Frames, Ordered
<1>7. Sent(stream, videos, controls)
  BY <1>2, <1>3, <1>4, <1>5, <1>6 DEF Sent, Apart
<1>8. start = e => Boundary(stream, videos, controls, 0) /\ OnlyIn(stream, controls, CH_AOA)
  <2> SUFFICES ASSUME start = e
               PROVE  Boundary(stream, videos, controls, 0) /\ OnlyIn(stream, controls, CH_AOA)
    OBVIOUS
  <2>1. Len(stream) = 0
    BY <1>3, <1>4
  <2>2. Boundary(stream, videos, controls, 0)
    BY <2>1 DEF Boundary
  <2>3. ASSUME NEW p \in 0 .. Len(stream), MagicAt(stream, p, CH_AOA) PROVE FALSE
    BY <2>1, <2>3 DEF MagicAt
  <2>4. OnlyIn(stream, controls, CH_AOA)
    BY <2>3 DEF OnlyIn
  <2> QED
    BY <2>2, <2>4
<1>9. StreamInv
  <2>1. taken \in 0 .. Len(stream)
    BY <1>1, <1>2
  <2> QED
    BY <1>7, <1>8, <2>1 DEF StreamInv, e
<1>10. BulkTypes
  <2>1. Len(e) <= RxSize /\ Len(e) < HEADER + MaxControl /\ Len(e) < HEADER + MAX_PAYLOAD
    BY <1>2, <1>3 DEF HEADER
  <2> QED
    BY <1>1, <1>3, <1>4, <2>1 DEF BulkTypes
<1>11. Window(stream, 0, e) /\ Base(0, e) = 0
  BY <1>3 DEF Window, Base
<1>12. HandedOut(e, e, 0) /\ Waiting(e, e, 0) /\ Clear(e, 0)
  BY <1>3 DEF HandedOut, Waiting, Clear
<1>13. Len(e) < HEADER + MAX_PAYLOAD
  BY <1>2, <1>3 DEF HEADER
<1>14. FeedInv
  BY <1>1, <1>4, <1>11, <1>12, <1>13 DEF FeedInv
<1>15. LinkInv
  BY <1>1, <1>4, <1>8, <1>11, <1>12, <1>13 DEF LinkInv, e
<1>16. ControlInv
  <2>1. Clean(e) /\ Len(e) <= 2
    BY <1>3 DEF Clean
  <2> QED
    BY <1>1, <1>4, <1>11, <1>12, <2>1 DEF ControlInv
<1> QED
  BY <1>9, <1>10, <1>14, <1>15, <1>16 DEF BulkInv

LEMMA StepBulk ==
  ASSUME FramingAssumption, RxAssumption, BulkInv, [Next]_vars
  PROVE  BulkInv'
<1>1. ASSUME NEW payload \in VideoPayloads, SendVideo(payload) PROVE BulkInv'
  BY <1>1, SendVideoStep
<1>2. ASSUME NEW payload \in ControlPayloads, SendControl(payload) PROVE BulkInv'
  BY <1>2, SendControlStep
<1>3. ASSUME NEW n \in 1 .. Len(stream) - taken, Read(n) PROVE BulkInv'
  BY <1>3, ReadStep
<1>4. CASE Feed
  BY <1>4, FeedStep
<1>5. CASE Unwrap
  BY <1>5, UnwrapStep
<1>6. CASE HandleFrames
  BY <1>6, HandleStep
<1>7. CASE UNCHANGED vars
  <2>1. UNCHANGED <<start, stream, videos, controls, taken, pc, data, buffer, control_buffer,
                    video, control, g_rx, linkVideo, linkControl, cut>>
    BY <1>7 DEF vars, sent, pi, link
  <2>2. StreamInv' /\ BulkTypes' /\ FeedInv'
    BY <2>1 DEF BulkInv, StreamInv, BulkTypes, FeedInv
  <2>3. LinkInv' /\ ControlInv'
    BY <2>1 DEF BulkInv, LinkInv, ControlInv
  <2> QED
    BY <2>2, <2>3 DEF BulkInv
<1> QED
  BY <1>1, <1>2, <1>3, <1>4, <1>5, <1>6, <1>7 DEF Next

\* What has come out by p, and what waits at n behind it, is what has been received.
LEMMA ReceivedIs ==
  ASSUME NEW out, NEW fs \in Seq(Frame), NEW p \in Int, p <= taken, taken \in Int,
         HandedOut(out, fs, p), Waiting(out, fs, taken)
  PROVE  Received(out, fs)
<1>1. /\ out \in Seq(Seq(Int)) /\ Len(out) \in Nat /\ Len(fs) \in Nat /\ Len(out) <= Len(fs)
      /\ \A i \in 1 .. Len(out) : out[i] = fs[i].body /\ End(fs[i]) <= p
      /\ \A i \in Len(out) + 1 .. Len(fs) : taken < End(fs[i])
  BY DEF HandedOut, Waiting
<1>2. DOMAIN out = 1 .. Len(out) /\ DOMAIN fs = 1 .. Len(fs)
  BY <1>1
<1>3. ASSUME NEW i \in 1 .. Len(fs)
      PROVE  End(fs[i]) <= taken <=> i <= Len(out)
  <2>1. fs[i] \in Frame
    OBVIOUS
  <2>2. End(fs[i]) \in Nat
    BY <2>1, EndIs
  <2>3. CASE i \in 1 .. Len(out)
    <3>1. End(fs[i]) <= p
      BY <1>1, <2>3
    <3>2. i <= Len(out)
      BY <2>3, <1>1
    <3> QED
      BY <2>2, <3>1, <3>2
  <2>4. CASE i \in Len(out) + 1 .. Len(fs)
    <3>1. taken < End(fs[i])
      BY <1>1, <2>4
    <3>2. ~(i <= Len(out))
      BY <2>4, <1>1
    <3> QED
      BY <2>2, <3>1, <3>2
  <2> QED
    BY <1>1, <2>3, <2>4
<1> QED
  BY <1>1, <1>2, <1>3 DEF Received

LEMMA BulkIsFraming ==
  ASSUME BulkInv, FramingAssumption
  PROVE  FramingInv
<1>1. /\ taken \in Int /\ videos \in Seq(Frame) /\ controls \in Seq(Frame)
      /\ stream \in Seq(Int) /\ taken \in Nat
  BY DEF BulkInv, StreamInv, Sent, Frames
<1>2. FramingTypeOK
  BY DEF BulkInv, BulkTypes, FeedInv, FramingTypeOK
<1>3. ASSUME NEW b, Window(stream, taken, b)
      PROVE  Base(taken, b) \in Int /\ Base(taken, b) <= taken
  BY <1>1, <1>3 DEF Window, Base
<1>4. PiFindsTheStream
  <2>1. CASE pc = "read"
    <3>1. /\ Window(stream, taken, buffer) /\ HandedOut(video, videos, Base(taken, buffer))
          /\ Waiting(video, videos, taken)
      BY <2>1 DEF BulkInv, FeedInv
    <3> QED
      BY <1>1, <1>3, <3>1, ReceivedIs DEF PiFindsTheStream
  <2>2. CASE pc # "read"
    BY <2>2 DEF PiFindsTheStream, Received
  <2> QED
    BY <2>1, <2>2
<1>5. PayloadsArriveWhole
  <2> SUFFICES ASSUME start = <<>>
               PROVE  /\ Received(linkVideo, videos) /\ Received(linkControl, controls)
                      /\ cut \/ Received(control, controls)
    BY DEF PayloadsArriveWhole
  <2>1. CASE pc = "read"
    <3>1. /\ Window(stream, taken, g_rx)
          /\ HandedOut(linkVideo, videos, Base(taken, g_rx)) /\ Waiting(linkVideo, videos, taken)
          /\ HandedOut(linkControl, controls, Base(taken, g_rx))
          /\ Waiting(linkControl, controls, taken)
      BY <2>1 DEF BulkInv, LinkInv
    <3>2. Received(linkVideo, videos) /\ Received(linkControl, controls)
      BY <1>1, <1>3, <3>1, ReceivedIs
    <3>3. ASSUME ~cut PROVE Received(control, controls)
      <4>1. HandedOut(control, controls, taken)
        BY <2>1, <3>3 DEF BulkInv, ControlInv
      <4>2. Waiting(control, controls, taken)
        BY <1>1, <4>1, WaitsBehind
      <4>3. taken <= taken
        BY <1>1
      <4> QED
        BY <1>1, <4>1, <4>2, <4>3, ReceivedIs
    <3> QED
      BY <3>2, <3>3
  <2>2. CASE pc # "read"
    BY <2>2 DEF Received
  <2> QED
    BY <2>1, <2>2
<1> QED
  BY <1>2, <1>4, <1>5 DEF FramingInv

\* However the stream is cut into transfers and whatever the payloads and the limits:
\* the Pi hands out exactly the video that was sent, link.c all of video and control,
\* unwrap the control of transfers that do not cut it, and no buffer overflows.
THEOREM FramingCorrect == Spec => []FramingInv
<1>1. FramingAssumption /\ RxAssumption
  BY StreamsAssumption
<1>2. Init => BulkInv
  BY <1>1, InitBulk
<1>3. BulkInv /\ [Next]_vars => BulkInv'
  BY <1>1, StepBulk
<1>4. BulkInv => FramingInv
  BY <1>1, BulkIsFraming
<1> QED
  BY <1>2, <1>3, <1>4, PTL DEF Spec

\* The same of the specification that the run checks, where either the bulk pipe or
\* the byte stream takes steps.
THEOREM StreamsFraming == MCSpec => []FramingInv
<1>1. FramingAssumption /\ RxAssumption
  BY StreamsAssumption
<1>2. MCInit => BulkInv
  BY <1>1, InitBulk DEF MCInit
<1>3. BulkInv /\ [MCNext]_MCVars => BulkInv'
  <2>1. [MCNext]_MCVars => [Next]_vars
    BY DEF MCNext, MCVars
  <2> QED
    BY <1>1, <2>1, StepBulk
<1>4. BulkInv => FramingInv
  BY <1>1, BulkIsFraming
<1> QED
  BY <1>2, <1>3, <1>4, PTL DEF MCSpec

-----------------------------------------------------------------------------
(* The byte stream *)

\* NAL i of a stream, where its start code is, and where it ends.
Code(s, i) == s.codes[i]
Size(s, i) == Len(s.nals[i])
Count(s) == Len(s.nals)

LEMMA SeqWider ==
  ASSUME NEW S, NEW T, S \subseteq T, NEW s \in Seq(S)
  PROVE  s \in Seq(T)
<1>1. Len(s) \in Nat /\ s = [i \in 1 .. Len(s) |-> s[i]] /\ \A i \in 1 .. Len(s) : s[i] \in S
  OBVIOUS
<1>2. [i \in 1 .. Len(s) |-> s[i]] \in Seq(T)
  BY <1>1
<1> QED
  BY <1>1, <1>2

LEMMA NalIs ==
  ASSUME NEW s, A!IsByteStream(s), NEW i \in 1 .. Count(s)
  PROVE  /\ Code(s, i) \in Nat \ {0} /\ Size(s, i) \in Nat \ {0}
         /\ s.nals[i] \in Seq(A!Byte) /\ s.nals[i][Size(s, i)] # 0
         /\ Code(s, i) + 2 + Size(s, i) <= Len(s.bytes)
         /\ \A k \in 1 .. Size(s, i) : s.bytes[Code(s, i) + 2 + k] = s.nals[i][k]
<1>1. /\ s.nals \in Seq(Seq(A!Byte)) /\ s.codes \in Seq(Nat \ {0})
      /\ Len(s.codes) = Len(s.nals)
  BY DEF A!IsByteStream
<1>2. /\ Len(s.nals[i]) > 0 /\ s.nals[i][Len(s.nals[i])] # 0
      /\ s.codes[i] + 2 + Len(s.nals[i]) <= Len(s.bytes)
      /\ \A k \in 1 .. Len(s.nals[i]) : s.bytes[s.codes[i] + 2 + k] = s.nals[i][k]
  BY DEF A!IsByteStream, Count
<1>3. s.nals[i] \in Seq(A!Byte) /\ s.codes[i] \in Nat \ {0}
  BY <1>1 DEF Count
<1>4. Len(s.nals[i]) \in Nat \ {0}
  BY <1>2, <1>3
<1> QED
  BY <1>2, <1>3, <1>4 DEF Code, Size

LEMMA StreamIs ==
  ASSUME NEW s, A!IsByteStream(s)
  PROVE  /\ s.bytes \in Seq(A!Byte) /\ s.bytes \in Seq(Int) /\ Len(s.bytes) \in Nat
         /\ Count(s) \in Nat /\ s.nals \in Seq(Seq(A!Byte))
<1>1. s.bytes \in Seq(A!Byte) /\ s.nals \in Seq(Seq(A!Byte))
  BY DEF A!IsByteStream
<1>2. A!Byte \subseteq Int
  BY DEF A!Byte
<1>3. s.bytes \in Seq(Int)
  BY <1>1, <1>2, SeqWider
<1> QED
  BY <1>1, <1>3 DEF Count

\* The next start code is right behind, or behind another zero.
LEMMA NextCode ==
  ASSUME NEW s, A!IsByteStream(s), NEW i \in 1 .. Count(s), i < Count(s)
  PROVE  /\ i + 1 \in 1 .. Count(s)
         /\ \/ Code(s, i + 1) = Code(s, i) + 3 + Size(s, i)
            \/ /\ Code(s, i + 1) = Code(s, i) + 4 + Size(s, i)
               /\ s.bytes[Code(s, i) + 3 + Size(s, i)] = 0
<1>1. /\ Code(s, i) \in Nat \ {0} /\ Size(s, i) \in Nat \ {0} /\ Count(s) \in Nat
  BY NalIs, StreamIs
<1> DEFINE end == Code(s, i) + 2 + Size(s, i)
<1>2. i # Count(s)
  BY <1>1
<1>3. \/ Code(s, i + 1) = end + 1
      \/ Code(s, i + 1) = end + 2 /\ s.bytes[end + 1] = 0
  BY <1>2 DEF A!IsByteStream, Code, Size, Count
<1>4. end + 1 = Code(s, i) + 3 + Size(s, i) /\ end + 2 = Code(s, i) + 4 + Size(s, i)
  BY <1>1
<1>5. i + 1 \in 1 .. Count(s)
  BY <1>1
<1> HIDE DEF end
<1> QED
  BY <1>3, <1>4, <1>5

LEMMA LastNal ==
  ASSUME NEW s, A!IsByteStream(s), NEW i \in 1 .. Count(s), i = Count(s)
  PROVE  Code(s, i) + 2 + Size(s, i) = Len(s.bytes)
BY DEF A!IsByteStream, Code, Size, Count

\* Start codes are in the order of the NALs, and do not overlap.
LEMMA CodesGrow ==
  ASSUME NEW s, A!IsByteStream(s), NEW i \in 1 .. Count(s), NEW j \in 1 .. Count(s), i < j
  PROVE  Code(s, i) + 3 + Size(s, i) <= Code(s, j)
<1>1. Count(s) \in Nat /\ \A k \in 1 .. Count(s) : Code(s, k) \in Nat /\ Size(s, k) \in Nat \ {0}
  BY NalIs, StreamIs
<1> DEFINE T == {k \in i + 1 .. Count(s) : ~(Code(s, i) + 3 + Size(s, i) <= Code(s, k))}
<1>2. SUFFICES ASSUME j \in T PROVE FALSE
  BY <1>1
<1>3. T \in SUBSET Nat /\ T # {}
  BY <1>1, <1>2
<1>4. PICK k \in T : \A l \in T : k <= l
  BY <1>3, LeastNat
<1>5. k \in i + 1 .. Count(s) /\ ~(Code(s, i) + 3 + Size(s, i) <= Code(s, k))
  BY <1>4
<1>6. k - 1 \in 1 .. Count(s) /\ k - 1 < Count(s) /\ k - 1 + 1 = k /\ k \in 1 .. Count(s)
  BY <1>1, <1>5
<1>7. Code(s, k - 1) + 3 + Size(s, k - 1) <= Code(s, k)
  <2>1. \/ Code(s, k) = Code(s, k - 1) + 3 + Size(s, k - 1)
        \/ Code(s, k) = Code(s, k - 1) + 4 + Size(s, k - 1)
    BY <1>6, NextCode
  <2> QED
    BY <1>1, <1>6, <2>1
<1>8. k - 1 # i
  BY <1>5, <1>7
<1>9. k - 1 \notin T
  BY <1>3, <1>4, <1>5
<1>10. Code(s, i) + 3 + Size(s, i) <= Code(s, k - 1)
  <2>1. k - 1 \in i + 1 .. Count(s)
    BY <1>1, <1>5, <1>8
  <2> QED
    BY <1>9, <2>1
<1> HIDE DEF T
<1> QED
  BY <1>1, <1>5, <1>6, <1>7, <1>10

LEMMA CodesInOrder ==
  ASSUME NEW s, A!IsByteStream(s), NEW i \in 1 .. Count(s), NEW j \in 1 .. Count(s), i <= j
  PROVE  Code(s, i) <= Code(s, j)
<1>1. /\ Code(s, i) \in Nat /\ Code(s, j) \in Nat /\ Size(s, i) \in Nat
  BY NalIs
<1>2. CASE i < j
  <2>1. Code(s, i) + 3 + Size(s, i) <= Code(s, j)
    BY <1>2, CodesGrow
  <2> QED
    BY <1>1, <2>1
<1>3. CASE i = j
  BY <1>1, <1>3
<1> QED
  BY <1>2, <1>3

\* The start codes of NALs 1 to p begin by position a, and those of the others do not.
Passed(s, a, p) ==
  /\ p \in 0 .. Count(s)
  /\ \A i \in 1 .. Count(s) : Code(s, i) <= a <=> i <= p

LEMMA SomePassed ==
  ASSUME NEW s, A!IsByteStream(s), NEW a \in Int
  PROVE  \E p : Passed(s, a, p)
<1>1. Count(s) \in Nat /\ \A k \in 1 .. Count(s) : Code(s, k) \in Nat
  BY NalIs, StreamIs
<1> DEFINE T == {k \in 1 .. Count(s) + 1 : k <= Count(s) => ~(Code(s, k) <= a)}
<1>2. T \in SUBSET Nat /\ Count(s) + 1 \in T
  BY <1>1
<1>3. PICK k \in T : \A l \in T : k <= l
  BY <1>2, LeastNat
<1>4. k \in 1 .. Count(s) + 1 /\ (k <= Count(s) => ~(Code(s, k) <= a))
  BY <1>3
<1>5. ASSUME NEW i \in 1 .. Count(s)
      PROVE  Code(s, i) <= a <=> i <= k - 1
  <2>1. CASE i <= k - 1
    <3>1. i \notin T
      BY <1>3, <1>4, <2>1
    <3> QED
      BY <1>1, <2>1, <3>1
  <2>2. CASE ~(i <= k - 1)
    <3>1. k \in 1 .. Count(s) /\ k <= i /\ k <= Count(s)
      BY <1>1, <1>4, <2>2
    <3>2. Code(s, k) <= Code(s, i)
      BY <3>1, CodesInOrder
    <3>3. ~(Code(s, k) <= a)
      BY <1>4, <3>1
    <3> QED
      BY <1>1, <2>2, <3>1, <3>2, <3>3
  <2> QED
    BY <2>1, <2>2
<1>6. k - 1 \in 0 .. Count(s)
  BY <1>1, <1>4
<1> HIDE DEF T
<1>7. Passed(s, a, k - 1)
  BY <1>5, <1>6 DEF Passed
<1> QED
  BY <1>7

\* None of the codes up to q is before b, or exactly one more is.
LEMMA NonePassed ==
  ASSUME NEW s, A!IsByteStream(s), NEW a \in Int, NEW b \in Int, a <= b, NEW p,
         Passed(s, a, p), p < Count(s) => b < Code(s, p + 1)
  PROVE  Passed(s, b, p)
<1>1. Count(s) \in Nat /\ (\A k \in 1 .. Count(s) : Code(s, k) \in Nat) /\ p \in 0 .. Count(s)
  BY NalIs, StreamIs DEF Passed
<1>2. ASSUME NEW i \in 1 .. Count(s)
      PROVE  Code(s, i) <= b <=> i <= p
  <2>1. CASE i <= p
    BY <1>1, <2>1 DEF Passed
  <2>2. CASE ~(i <= p)
    <3>1. p + 1 \in 1 .. Count(s) /\ p + 1 <= i /\ p < Count(s)
      BY <1>1, <2>2
    <3>2. Code(s, p + 1) <= Code(s, i)
      BY <3>1, CodesInOrder
    <3> QED
      BY <1>1, <2>2, <3>1, <3>2
  <2> QED
    BY <2>1, <2>2
<1> QED
  BY <1>1, <1>2 DEF Passed

LEMMA OnePassed ==
  ASSUME NEW s, A!IsByteStream(s), NEW a \in Int, NEW b \in Int, NEW p,
         Passed(s, a, p), p < Count(s), Code(s, p + 1) <= b,
         p + 1 < Count(s) => b < Code(s, p + 2)
  PROVE  Passed(s, b, p + 1)
<1>1. /\ Count(s) \in Nat /\ (\A k \in 1 .. Count(s) : Code(s, k) \in Nat)
      /\ p \in 0 .. Count(s) /\ p + 1 \in 1 .. Count(s)
  BY NalIs, StreamIs DEF Passed
<1>2. ASSUME NEW i \in 1 .. Count(s)
      PROVE  Code(s, i) <= b <=> i <= p + 1
  <2>1. CASE i <= p + 1
    <3>1. Code(s, i) <= Code(s, p + 1)
      BY <1>1, <2>1, CodesInOrder
    <3> QED
      BY <1>1, <2>1, <3>1
  <2>2. CASE ~(i <= p + 1)
    <3>1. p + 2 \in 1 .. Count(s) /\ p + 2 <= i /\ p + 1 < Count(s)
      BY <1>1, <2>2
    <3>2. Code(s, p + 2) <= Code(s, i)
      BY <3>1, CodesInOrder
    <3> QED
      BY <1>1, <2>2, <3>1, <3>2
  <2> QED
    BY <2>1, <2>2
<1> QED
  BY <1>1, <1>2 DEF Passed

-----------------------------------------------------------------------------
(* Start codes in the buffer *)

\* A code in a window is one of the stream.
LEMMA CodeInWindow ==
  ASSUME NEW s, A!IsByteStream(s), NEW n \in 0 .. Len(s.bytes), NEW b, Window(s.bytes, n, b),
         NEW i \in Nat \ {0}
  PROVE  A!CodeAt(b, i) <=>
           /\ i + 2 <= Len(b)
           /\ \E k \in 1 .. Count(s) : Code(s, k) = Base(n, b) + i
<1>1. /\ s.bytes \in Seq(Int) /\ Len(s.bytes) \in Nat
      /\ b \in Seq(Int) /\ Len(b) \in Nat /\ Len(b) <= n
      /\ \A x \in 1 .. Len(b) : b[x] = s.bytes[n - Len(b) + x]
  BY StreamIs DEF Window
<1> DEFINE a == n - Len(b)
<1>2. a \in Nat /\ a + Len(b) = n
  BY <1>1
<1>3. Base(n, b) = a
  BY DEF Base
<1>4. \A x \in 1 .. Len(b) : b[x] = s.bytes[a + x]
  BY <1>1
<1> HIDE DEF a
<1>5. SUFFICES ASSUME i + 2 <= Len(b)
               PROVE  A!CodeAt(b, i) <=> \E k \in 1 .. Count(s) : Code(s, k) = a + i
  BY <1>3 DEF A!CodeAt
<1>6. i \in 1 .. Len(b) /\ i + 1 \in 1 .. Len(b) /\ i + 2 \in 1 .. Len(b)
  BY <1>1, <1>5
<1>7. /\ a + (i + 1) = a + i + 1 /\ a + (i + 2) = a + i + 2 /\ a + i + 2 <= Len(s.bytes)
      /\ a + i \in 1 .. Len(s.bytes)
  <2>1. a \in Nat /\ i \in Nat \ {0} /\ a + i + 2 <= n /\ n <= Len(s.bytes)
        /\ Len(s.bytes) \in Nat /\ n \in Nat
    BY <1>1, <1>2, <1>5
  <2> QED
    BY <2>1
<1>8. /\ b[i] = s.bytes[a + i] /\ b[i + 1] = s.bytes[a + i + 1]
      /\ b[i + 2] = s.bytes[a + i + 2]
  BY <1>4, <1>6, <1>7
<1>9. A!CodeAt(b, i) <=> A!CodeAt(s.bytes, a + i)
  BY <1>5, <1>7, <1>8 DEF A!CodeAt
<1>10. A!CodeAt(s.bytes, a + i) <=> \E k \in 1 .. Len(s.codes) : s.codes[k] = a + i
  BY <1>7 DEF A!IsByteStream
<1>11. Len(s.codes) = Count(s)
  BY DEF A!IsByteStream, Count
<1> QED
  BY <1>9, <1>10, <1>11 DEF Code

\* Where the search for a code from offset on ends.
FoundAt(b, offset, q, r) ==
  /\ q \in offset .. Len(b) /\ A!CodeAt(b, q)
  /\ \A i \in offset .. q - 1 : ~A!CodeAt(b, i)
  /\ r = IF q > offset /\ b[q - 1] = 0 THEN q - 1 ELSE q

LEMMA NextStartIs ==
  ASSUME NEW b \in Seq(Int), NEW offset \in Nat \ {0}
  PROVE  \/ A!NextStart(b, offset) = 0 /\ \A i \in offset .. Len(b) : ~A!CodeAt(b, i)
         \/ /\ A!NextStart(b, offset) # 0
            /\ \E q : FoundAt(b, offset, q, A!NextStart(b, offset))
<1> DEFINE T == {i \in offset .. Len(b) : A!CodeAt(b, i)}
           q == A!FirstIn(T)
<1>1. Len(b) \in Nat /\ T \in SUBSET Nat
  OBVIOUS
<1>2. A!NextStart(b, offset) = IF T = {} THEN 0
                               ELSE IF q > offset /\ b[q - 1] = 0 THEN q - 1 ELSE q
  BY DEF A!NextStart
<1>3. CASE T = {}
  BY <1>2, <1>3
<1>4. CASE T # {}
  <2> HIDE DEF T
  <2>1. \E x \in T : \A y \in T : x <= y
    BY <1>1, <1>4, LeastNat
  <2>2. q \in T /\ \A y \in T : q <= y
    BY <2>1 DEF A!FirstIn
  <2> HIDE DEF q
  <2>3. q \in offset .. Len(b) /\ A!CodeAt(b, q)
    BY <2>2 DEF T
  <2>4. ASSUME NEW i \in offset .. q - 1 PROVE ~A!CodeAt(b, i)
    <3>1. i \notin T
      BY <1>1, <2>2, <2>3
    <3>2. i \in offset .. Len(b)
      BY <1>1, <2>3
    <3> QED
      BY <3>1, <3>2 DEF T
  <2>5. FoundAt(b, offset, q, A!NextStart(b, offset))
    BY <1>2, <1>4, <2>3, <2>4 DEF FoundAt
  <2>6. A!NextStart(b, offset) # 0
    BY <1>2, <1>4, <2>3
  <2> QED
    BY <2>5, <2>6
<1> QED
  BY <1>3, <1>4

LEMMA BaseEnds ==
  ASSUME NEW n \in Nat, NEW b, Len(b) \in Nat, NEW r \in Nat, NEW c,
         Len(c) = Len(b) - r + 1
  PROVE  Base(n, c) = Base(n, b) + r - 1
BY DEF Base

\* What a parser that completed NALs up to p has in its buffer b, of n bytes fed.
Reads(s, n, b, p) ==
  /\ A!IsByteStream(s) /\ n \in 0 .. Len(s.bytes) /\ Window(s.bytes, n, b)
  /\ Passed(s, Base(n, b), p)

\* The NAL that follows p is not complete.
NotYet(s, n, p) == p + 1 < Count(s) => n < Code(s, p + 2) + 2

LEMMA ReadsIs ==
  ASSUME NEW s, NEW n, NEW b, NEW p, Reads(s, n, b, p)
  PROVE  /\ n \in Nat /\ n <= Len(s.bytes) /\ Len(s.bytes) \in Nat
         /\ b \in Seq(Int) /\ Len(b) \in Nat /\ Len(b) <= n
         /\ Base(n, b) \in Nat /\ n = Base(n, b) + Len(b)
         /\ Count(s) \in Nat /\ p \in 0 .. Count(s)
         /\ \A i \in 1 .. Count(s) : Code(s, i) \in Nat /\ Size(s, i) \in Nat \ {0}
<1>1. A!IsByteStream(s) /\ n \in 0 .. Len(s.bytes) /\ b \in Seq(Int) /\ Len(b) <= n
  BY DEF Reads, Window
<1>2. Len(s.bytes) \in Nat /\ Count(s) \in Nat
      /\ \A i \in 1 .. Count(s) : Code(s, i) \in Nat /\ Size(s, i) \in Nat \ {0}
  BY <1>1, NalIs, StreamIs
<1>3. Len(b) \in Nat
  BY <1>1
<1>4. p \in 0 .. Count(s)
  BY DEF Reads, Passed
<1> QED
  BY <1>1, <1>2, <1>3, <1>4 DEF Base

\* A code that is not passed, and complete, is found.
LEMMA CodeIsIn ==
  ASSUME NEW s, NEW n, NEW b, NEW p, Reads(s, n, b, p),
         NEW j \in 1 .. Count(s), p < j, Code(s, j) + 2 <= n
  PROVE  /\ Code(s, j) - Base(n, b) \in 1 .. Len(b) - 2
         /\ A!CodeAt(b, Code(s, j) - Base(n, b))
<1>1. /\ n \in Nat /\ Len(b) \in Nat /\ Base(n, b) \in Nat /\ n = Base(n, b) + Len(b)
      /\ Code(s, j) \in Nat /\ p \in Nat
  BY ReadsIs
<1>2. ~(Code(s, j) <= Base(n, b))
  BY <1>1 DEF Reads, Passed
<1> DEFINE i == Code(s, j) - Base(n, b)
<1>3. i \in Nat \ {0} /\ i + 2 <= Len(b) /\ Code(s, j) = Base(n, b) + i
  BY <1>1, <1>2
<1> HIDE DEF i
<1>4. A!CodeAt(b, i)
  BY <1>3, CodeInWindow DEF Reads
<1> QED
  BY <1>1, <1>3, <1>4 DEF i

\* The first code of the buffer is that of the NAL in work.
LEMMA FirstCode ==
  ASSUME NEW s, NEW n, NEW b, NEW p, Reads(s, n, b, p),
         NEW q \in Nat \ {0}, A!CodeAt(b, q), \A i \in 1 .. q - 1 : ~A!CodeAt(b, i)
  PROVE  p + 1 \in 1 .. Count(s) /\ Code(s, p + 1) = Base(n, b) + q /\ q + 2 <= Len(b)
<1>1. /\ n \in Nat /\ Len(b) \in Nat /\ Base(n, b) \in Nat /\ n = Base(n, b) + Len(b)
      /\ p \in 0 .. Count(s) /\ Count(s) \in Nat
      /\ \A i \in 1 .. Count(s) : Code(s, i) \in Nat
  BY ReadsIs
<1>2. PICK k \in 1 .. Count(s) : Code(s, k) = Base(n, b) + q
  BY CodeInWindow DEF Reads
<1>3. q + 2 <= Len(b)
  BY CodeInWindow DEF Reads
<1>4. ~(Code(s, k) <= Base(n, b))
  BY <1>1, <1>2
<1>5. ~(k <= p)
  BY <1>4 DEF Reads, Passed
<1>6. p + 1 \in 1 .. Count(s) /\ p + 1 <= k /\ p < p + 1
  BY <1>1, <1>5
<1>7. Code(s, p + 1) <= Code(s, k)
  BY <1>6, CodesInOrder DEF Reads
<1>8. Code(s, p + 1) + 2 <= n
  BY <1>1, <1>2, <1>3, <1>6, <1>7
<1> DEFINE i == Code(s, p + 1) - Base(n, b)
<1>9. i \in 1 .. Len(b) - 2 /\ A!CodeAt(b, i)
  BY <1>6, <1>8, CodeIsIn
<1>10. ~(i \in 1 .. q - 1)
  BY <1>9
<1>11. i = q
  BY <1>1, <1>2, <1>6, <1>7, <1>9, <1>10
<1> QED
  BY <1>1, <1>3, <1>6, <1>11

\* The buffer from its first start code on.
LEMMA AlignedIs ==
  ASSUME NEW s, NEW n, NEW b, NEW p, Reads(s, n, b, p),
         NEW r, r = A!NextStart(b, 1), r # 0, NEW al, al = A!From(b, r),
         NEW l, l = A!StartLen(al)
  PROVE  /\ p + 1 \in 1 .. Count(s) /\ Code(s, p + 1) + 2 <= n
         /\ Reads(s, n, al, p) /\ Base(n, b) <= Base(n, al)
         /\ l \in {3, 4} /\ Base(n, al) + l = Code(s, p + 1) + 2
<1>1. /\ n \in Nat /\ Len(b) \in Nat /\ Len(b) <= n
      /\ Base(n, b) \in Nat /\ n = Base(n, b) + Len(b)
  BY ReadsIs
<1>0. b \in Seq(Int) /\ p \in 0 .. Count(s) /\ Count(s) \in Nat /\ \A i \in 1 .. Count(s) : Code(s, i) \in Nat
  BY ReadsIs
<1>2. PICK q : FoundAt(b, 1, q, r)
  BY <1>0, NextStartIs
<1>3. /\ q \in 1 .. Len(b) /\ A!CodeAt(b, q) /\ \A i \in 1 .. q - 1 : ~A!CodeAt(b, i)
      /\ r = IF q > 1 /\ b[q - 1] = 0 THEN q - 1 ELSE q
  BY <1>2 DEF FoundAt
<1>4. q \in Nat \ {0}
  BY <1>1, <1>3
<1>5. /\ p + 1 \in 1 .. Count(s) /\ Code(s, p + 1) = Base(n, b) + q /\ q + 2 <= Len(b)
  BY <1>3, <1>4, FirstCode
<1>6. Code(s, p + 1) + 2 <= n
  BY <1>1, <1>4, <1>5
<1>7. r \in 1 .. Len(b) /\ r <= q /\ r \in 1 .. Len(b) + 1
  BY <1>1, <1>3
<1>8. al = SubSeq(b, r, Len(b))
  BY DEF A!From
<1>9. Window(s.bytes, n, al) /\ Len(al) = Len(b) - r + 1
  <2>1. Window(s.bytes, n, b)
    BY DEF Reads
  <2> QED
    <3>1. n \in Nat /\ r \in 1 .. Len(b) + 1
      BY <1>1, <1>7
    <3>2. /\ Window(s.bytes, n, SubSeq(b, r, Len(b)))
          /\ Len(SubSeq(b, r, Len(b))) = Len(b) - r + 1
      BY <2>1, <3>1, WindowEnds
    <3> QED
      BY <1>8, <3>2
<1>10. \A k \in 1 .. Len(b) - r + 1 : al[k] = b[r - 1 + k]
  <2>1. Len(b) \in Int /\ r - 1 <= Len(b) /\ Len(b) <= Len(b) /\ b \in Seq(Int)
    BY <1>0, <1>1, <1>7
  <2>2. \A k \in 1 .. Len(b) - r + 1 : SubSeq(b, r, Len(b))[k] = b[r - 1 + k]
    BY <1>7, <2>1, SubSeqIs
  <2> QED
    BY <1>8, <2>2
<1>11. Base(n, al) = Base(n, b) + r - 1
  <2>1. Len(al) = Len(b) - r + 1 /\ r \in Nat /\ Len(b) \in Nat /\ n \in Nat
    BY <1>1, <1>7, <1>9
  <2> QED
    BY <2>1, BaseEnds
<1>12. Base(n, b) <= Base(n, al) /\ Base(n, al) < Code(s, p + 1) /\ Base(n, al) \in Nat
  BY <1>1, <1>4, <1>5, <1>7, <1>11
<1>13. Reads(s, n, al, p)
  <2>1. Passed(s, Base(n, al), p)
    BY <1>0, <1>1, <1>12, NonePassed DEF Reads
  <2> QED
    BY <1>9, <2>1 DEF Reads
<1>14. b[q] = 0 /\ b[q + 1] = 0 /\ b[q + 2] = 1
  BY <1>3 DEF A!CodeAt
<1>15. CASE r = q - 1
  <2>1. q > 1 /\ b[q - 1] = 0
    BY <1>3, <1>15
  <2>2. al[1] = b[q - 1] /\ al[2] = b[q] /\ al[3] = b[q + 1] /\ al[4] = b[q + 2]
    <3>0. Len(b) - r + 1 \in Int /\ 4 <= Len(b) - r + 1
      BY <1>1, <1>4, <1>5, <1>7, <1>15
    <3>1. \A k \in 1 .. 4 : k \in 1 .. Len(b) - r + 1
      BY <3>0
    <3>2. r - 1 + 1 = q - 1 /\ r - 1 + 2 = q /\ r - 1 + 3 = q + 1 /\ r - 1 + 4 = q + 2
      BY <1>4, <1>15
    <3>3. 1 \in 1 .. 4 /\ 2 \in 1 .. 4 /\ 3 \in 1 .. 4 /\ 4 \in 1 .. 4
      OBVIOUS
    <3> QED
      BY <1>10, <3>1, <3>2, <3>3
  <2>3. 4 <= Len(al)
    BY <1>1, <1>4, <1>5, <1>9, <1>15
  <2>4. l = 4
    BY <1>14, <2>1, <2>2, <2>3 DEF A!StartLen, A!CodeAt
  <2> QED
    BY <1>1, <1>4, <1>5, <1>6, <1>11, <1>12, <1>13, <1>15, <2>4
<1>16. CASE r = q
  <2>1. al[3] = b[q + 2]
    <3>1. 3 \in 1 .. Len(b) - r + 1
      BY <1>1, <1>4, <1>5, <1>7, <1>16
    <3>2. r - 1 + 3 = q + 2
      BY <1>4, <1>16
    <3> QED
      BY <1>10, <3>1, <3>2
  <2>2. l = 3
    BY <1>14, <2>1 DEF A!StartLen, A!CodeAt
  <2> QED
    BY <1>1, <1>4, <1>5, <1>6, <1>11, <1>12, <1>13, <1>16, <2>2
<1> QED
  BY <1>3, <1>15, <1>16

LEMMA NoCode ==
  ASSUME NEW s, NEW n, NEW b, NEW p, Reads(s, n, b, p), A!NextStart(b, 1) = 0
  PROVE  p < Count(s) => n < Code(s, p + 1) + 2
<1>1. /\ n \in Nat /\ b \in Seq(Int) /\ Len(b) \in Nat /\ Base(n, b) \in Nat
      /\ p \in 0 .. Count(s) /\ Count(s) \in Nat
      /\ \A i \in 1 .. Count(s) : Code(s, i) \in Nat
  BY ReadsIs
<1>2. \A i \in 1 .. Len(b) : ~A!CodeAt(b, i)
  BY <1>1, NextStartIs
<1> SUFFICES ASSUME p < Count(s), ~(n < Code(s, p + 1) + 2) PROVE FALSE
  OBVIOUS
<1>3. p + 1 \in 1 .. Count(s) /\ p < p + 1 /\ Code(s, p + 1) + 2 <= n
  BY <1>1
<1> DEFINE i == Code(s, p + 1) - Base(n, b)
<1>4. i \in 1 .. Len(b) - 2 /\ A!CodeAt(b, i)
  BY <1>3, CodeIsIn
<1>5. i \in 1 .. Len(b)
  BY <1>1, <1>4
<1> QED
  BY <1>2, <1>4, <1>5

\* The buffer al begins with a start code, of l bytes.
Begun(s, n, al, p, l) ==
  /\ Reads(s, n, al, p) /\ p + 1 \in 1 .. Count(s)
  /\ l \in {3, 4} /\ Base(n, al) + l = Code(s, p + 1) + 2

LEMMA BegunIs ==
  ASSUME NEW s, NEW n, NEW al, NEW p, NEW l, Begun(s, n, al, p, l)
  PROVE  /\ Reads(s, n, al, p) /\ p + 1 \in 1 .. Count(s)
         /\ l \in Nat \ {0} /\ l + 1 \in Nat \ {0} /\ Base(n, al) + l = Code(s, p + 1) + 2
BY DEF Begun

\* No start code behind the first: the NAL in work is not complete.
LEMMA NoNext ==
  ASSUME NEW s, NEW n, NEW al, NEW p, NEW l, Begun(s, n, al, p, l),
         A!NextStart(al, l + 1) = 0
  PROVE  NotYet(s, n, p)
<1> DEFINE c2 == Code(s, p + 2)
           i == c2 - Base(n, al)
<1>1. /\ Reads(s, n, al, p) /\ p + 1 \in 1 .. Count(s)
      /\ l \in Nat \ {0} /\ l + 1 \in Nat \ {0} /\ Base(n, al) + l = Code(s, p + 1) + 2
  BY BegunIs
<1>2. n \in Nat /\ Base(n, al) \in Nat /\ p \in 0 .. Count(s) /\ Count(s) \in Nat
      /\ Len(al) \in Nat
  BY <1>1, ReadsIs
<1>3. al \in Seq(Int) /\ \A k \in 1 .. Count(s) : Code(s, k) \in Nat /\ Size(s, k) \in Nat \ {0}
  BY <1>1, ReadsIs
<1>4. \A k \in l + 1 .. Len(al) : ~A!CodeAt(al, k)
  BY <1>1, <1>3, NextStartIs
<1> SUFFICES ASSUME p + 1 < Count(s), ~(n < c2 + 2) PROVE FALSE
  BY DEF NotYet
<1>5. p + 2 \in 1 .. Count(s) /\ p < p + 2 /\ p + 1 < p + 2
  BY <1>2
<1>6. c2 \in Nat /\ Code(s, p + 1) \in Nat /\ Size(s, p + 1) \in Nat \ {0}
  BY <1>1, <1>3, <1>5
<1>7. c2 + 2 <= n
  BY <1>2, <1>6
<1>8. Code(s, p + 1) + 3 + Size(s, p + 1) <= c2
  BY <1>1, <1>5, CodesGrow DEF Reads
<1>9. i \in 1 .. Len(al) - 2 /\ A!CodeAt(al, i)
  BY <1>1, <1>5, <1>7, CodeIsIn
<1>10. l < i
  <2> HIDE DEF c2
  <2>1. PICK c1, base : c1 = Code(s, p + 1) /\ base = Base(n, al)
    OBVIOUS
  <2>2. PICK size : size = Size(s, p + 1)
    OBVIOUS
  <2>3. /\ l \in Nat /\ base \in Nat /\ c1 \in Nat /\ c2 \in Nat /\ size \in Nat
        /\ base + l = c1 + 2 /\ c1 + 3 + size <= c2
    BY <1>1, <1>2, <1>6, <1>8, <2>1, <2>2
  <2> QED
    BY <2>1, <2>3
<1>11. i \in l + 1 .. Len(al)
  <2> HIDE DEF i
  <2> QED
    BY <1>1, <1>2, <1>9, <1>10
<1> QED
  BY <1>4, <1>9, <1>11

\* The next start code of the buffer is that of the next NAL.
LEMMA SecondCode ==
  ASSUME NEW s, NEW n, NEW al, NEW p, NEW l, Begun(s, n, al, p, l),
         NEW q, NEW r, FoundAt(al, l + 1, q, r)
  PROVE  /\ p + 2 \in 1 .. Count(s) /\ Code(s, p + 2) = Base(n, al) + q /\ q + 2 <= Len(al)
         /\ q \in Nat /\ l < q /\ r = IF q > l + 1 /\ al[q - 1] = 0 THEN q - 1 ELSE q
<1> DEFINE a == Base(n, al)
           c1 == Code(s, p + 1)
           c2 == Code(s, p + 2)
           m == Size(s, p + 1)
           i == c2 - a
<1>1. /\ Reads(s, n, al, p) /\ p + 1 \in 1 .. Count(s) /\ l \in Nat \ {0} /\ a + l = c1 + 2
  BY BegunIs
<1>2. /\ n \in Nat /\ Len(al) \in Nat /\ a \in Nat /\ n = a + Len(al)
      /\ p \in 0 .. Count(s) /\ Count(s) \in Nat
  BY <1>1, ReadsIs
<1>3. \A k \in 1 .. Count(s) : Code(s, k) \in Nat /\ Size(s, k) \in Nat \ {0}
  BY <1>1, ReadsIs
<1>4. /\ q \in l + 1 .. Len(al) /\ A!CodeAt(al, q)
      /\ \A k \in l + 1 .. q - 1 : ~A!CodeAt(al, k)
      /\ r = IF q > l + 1 /\ al[q - 1] = 0 THEN q - 1 ELSE q
  BY DEF FoundAt
<1>5. q \in Nat \ {0} /\ l < q
  BY <1>1, <1>4
<1>6. /\ A!IsByteStream(s) /\ n \in 0 .. Len(s.bytes) /\ Window(s.bytes, n, al)
  BY <1>1 DEF Reads
<1>7. q + 2 <= Len(al) /\ \E k \in 1 .. Count(s) : Code(s, k) = a + q
  BY <1>4, <1>5, <1>6, CodeInWindow
<1>8. PICK k \in 1 .. Count(s) : Code(s, k) = a + q
  BY <1>7
<1>9. c1 \in Nat /\ m \in Nat \ {0}
  BY <1>1, <1>3
<1>10. ~(k <= p + 1)
  <2>1. SUFFICES ASSUME k <= p + 1 PROVE FALSE
    OBVIOUS
  <2>2. a + q <= c1
    BY <1>1, <1>6, <1>8, <2>1, CodesInOrder
  <2> HIDE DEF a, c1
  <2> QED
    BY <1>1, <1>2, <1>5, <1>9, <2>2
<1>11. p + 2 \in 1 .. Count(s) /\ p + 2 <= k /\ p < p + 2 /\ p + 1 < p + 2
  BY <1>2, <1>10
<1>12. c2 <= a + q
  BY <1>6, <1>8, <1>11, CodesInOrder
<1>13. c1 + 3 + m <= c2 /\ c2 \in Nat
  BY <1>1, <1>3, <1>6, <1>11, CodesGrow
<1>14. c2 + 2 <= n
  <2> HIDE DEF a, c2
  <2> QED
    BY <1>2, <1>5, <1>7, <1>12, <1>13
<1>15. i \in 1 .. Len(al) - 2 /\ A!CodeAt(al, i)
  BY <1>1, <1>11, <1>14, CodeIsIn
<1>16. ~(i \in l + 1 .. q - 1)
  BY <1>4, <1>15
<1>17. c2 = a + q
  <2> HIDE DEF a, c1, c2, m
  <2>1. l < i /\ i <= q /\ i \in Int
    BY <1>1, <1>2, <1>5, <1>9, <1>12, <1>13
  <2>2. i = q
    <3> HIDE DEF i
    <3> QED
      BY <1>1, <1>5, <1>16, <2>1
  <2> QED
    BY <1>2, <1>5, <1>13, <2>2
<1> QED
  BY <1>4, <1>5, <1>7, <1>11, <1>17

\* Without the zero of a long start code, the NAL ends where the search did.
LEMMA NalEnds ==
  ASSUME NEW s, NEW n, NEW al, NEW p, NEW l, Begun(s, n, al, p, l),
         NEW q, NEW r, FoundAt(al, l + 1, q, r)
  PROVE  r = l + 1 + Size(s, p + 1) /\ r <= q
<1> DEFINE a == Base(n, al)
           c1 == Code(s, p + 1)
           m == Size(s, p + 1)
<1>1. /\ Reads(s, n, al, p) /\ p + 1 \in 1 .. Count(s) /\ l \in Nat \ {0} /\ a + l = c1 + 2
  BY BegunIs
<1>2. a \in Nat /\ Len(al) \in Nat /\ p \in Nat /\ Count(s) \in Nat
  BY <1>1, ReadsIs
<1>3. c1 \in Nat /\ m \in Nat \ {0}
  BY <1>1, ReadsIs
<1>4. /\ p + 2 \in 1 .. Count(s) /\ Code(s, p + 2) = a + q /\ q + 2 <= Len(al)
      /\ q \in Nat /\ l < q /\ r = IF q > l + 1 /\ al[q - 1] = 0 THEN q - 1 ELSE q
  BY SecondCode
<1>5. p + 1 < Count(s) /\ p + 1 + 1 = p + 2
  BY <1>2, <1>4
<1>6. A!IsByteStream(s)
  BY <1>1 DEF Reads
<1>7. s.nals[p + 1][m] # 0 /\ \A k \in 1 .. m : s.bytes[c1 + 2 + k] = s.nals[p + 1][k]
  <2>1. PICK i : i = p + 1
    OBVIOUS
  <2>2. i \in 1 .. Count(s)
    BY <1>1, <2>1
  <2>3. /\ s.nals[i][Size(s, i)] # 0
        /\ \A k \in 1 .. Size(s, i) : s.bytes[Code(s, i) + 2 + k] = s.nals[i][k]
    BY <1>6, <2>2, NalIs
  <2> QED
    BY <2>1, <2>3
<1>8. s.bytes[c1 + 2 + m] # 0
  BY <1>3, <1>7
<1>9. \/ a + q = c1 + 3 + m
      \/ a + q = c1 + 4 + m /\ s.bytes[c1 + 3 + m] = 0
  BY <1>1, <1>4, <1>5, <1>6, NextCode
<1>10. \A x \in 1 .. Len(al) : al[x] = s.bytes[a + x]
  BY <1>1 DEF Reads, Window, Base
<1> HIDE DEF a, c1, m
<1>11. q - 1 \in 1 .. Len(al)
  BY <1>1, <1>2, <1>4
<1>12. al[q - 1] = s.bytes[a + (q - 1)]
  BY <1>10, <1>11
<1>13. CASE a + q = c1 + 3 + m
  <2>1. a + (q - 1) = c1 + 2 + m /\ q = l + 1 + m
    BY <1>1, <1>2, <1>3, <1>4, <1>13
  <2>2. al[q - 1] # 0
    BY <1>8, <1>12, <2>1
  <2>3. r = q
    BY <1>4, <2>2
  <2> QED
    BY <1>4, <2>1, <2>3 DEF m
<1>14. CASE a + q = c1 + 4 + m /\ s.bytes[c1 + 3 + m] = 0
  <2>1. a + (q - 1) = c1 + 3 + m /\ q - 1 = l + 1 + m /\ q > l + 1
    BY <1>1, <1>2, <1>3, <1>4, <1>14
  <2>2. al[q - 1] = 0
    BY <1>12, <1>14, <2>1
  <2>3. r = q - 1
    BY <1>4, <2>1, <2>2
  <2> QED
    BY <1>4, <2>1, <2>3 DEF m
<1> QED
  BY <1>9, <1>13, <1>14

LEMMA NalBytes ==
  ASSUME NEW s, NEW n, NEW al, NEW p, NEW l, Begun(s, n, al, p, l),
         NEW j, j = l + Size(s, p + 1), j <= Len(al)
  PROVE  SubSeq(al, l + 1, j) = s.nals[p + 1]
<1> DEFINE a == Base(n, al)
           m == Size(s, p + 1)
           full == s.nals[p + 1]
<1>1. /\ Reads(s, n, al, p) /\ p + 1 \in 1 .. Count(s) /\ l \in Nat \ {0}
      /\ a + l = Code(s, p + 1) + 2
  BY BegunIs
<1>2. a \in Nat /\ Len(al) \in Nat
  BY <1>1, ReadsIs
<1>3. /\ m \in Nat \ {0} /\ full \in Seq(A!Byte) /\ Len(full) = m
      /\ \A k \in 1 .. m : s.bytes[a + l + k] = full[k]
  <2>1. A!IsByteStream(s) /\ Len(full) = m
    BY <1>1 DEF Reads, Size
  <2>2. /\ m \in Nat \ {0} /\ full \in Seq(A!Byte)
        /\ \A k \in 1 .. m : s.bytes[Code(s, p + 1) + 2 + k] = full[k]
    BY <1>1, <2>1, NalIs
  <2> QED
    BY <1>1, <2>1, <2>2
<1>4. \A x \in 1 .. Len(al) : al[x] = s.bytes[a + x]
  BY <1>1 DEF Reads, Window, Base
<1>5. al \in Seq(Int)
  BY <1>1, ReadsIs
<1>6. full \in Seq(Int)
  <2>1. A!Byte \subseteq Int
    BY DEF A!Byte
  <2> QED
    BY <1>3, <2>1, SeqWider
<1> HIDE DEF a, m, full
<1>7. j = l + m
  BY DEF m
<1> DEFINE i == l + 1
           nal == SubSeq(al, i, j)
<1>8. m \in Nat \ {0}
  BY <1>3
<1>9. /\ i \in 1 .. Len(al) + 1 /\ j \in Int /\ i - 1 <= j /\ j <= Len(al)
      /\ j - i + 1 = m /\ i - 1 = l
  BY <1>1, <1>2, <1>7, <1>8
<1> HIDE DEF i
<1>10. nal \in Seq(Int) /\ Len(nal) = m /\ \A k \in 1 .. m : nal[k] = al[l + k]
  <2>1. /\ SubSeq(al, i, j) \in Seq(Int) /\ Len(SubSeq(al, i, j)) = j - i + 1
        /\ \A k \in 1 .. j - i + 1 : SubSeq(al, i, j)[k] = al[i - 1 + k]
    BY <1>5, <1>9, SubSeqIs
  <2> QED
    BY <1>9, <2>1
<1> HIDE DEF nal
<1>11. ASSUME NEW k \in 1 .. m PROVE nal[k] = full[k]
  <2>1. l + k \in 1 .. Len(al) /\ a + (l + k) = a + l + k
    BY <1>1, <1>2, <1>3, <1>7
  <2> QED
    BY <1>3, <1>4, <1>10, <2>1
<1>12. nal = full
  BY <1>3, <1>6, <1>10, <1>11, SeqEqual
<1> QED
  BY <1>12 DEF nal, i, full

\* A NAL is complete: it is the one that was sent.
LEMMA NextNal ==
  ASSUME NEW s, NEW n, NEW al, NEW p, NEW l, Begun(s, n, al, p, l),
         NEW r, r = A!NextStart(al, l + 1), r # 0
  PROVE  /\ p + 1 < Count(s) /\ Code(s, p + 2) + 2 <= n
         /\ SubSeq(al, l + 1, r - 1) = s.nals[p + 1]
         /\ Reads(s, n, A!From(al, r), p + 1) /\ Base(n, al) <= Base(n, A!From(al, r))
<1> DEFINE a == Base(n, al)
           c1 == Code(s, p + 1)
           c2 == Code(s, p + 2)
           m == Size(s, p + 1)
<1>1. /\ Reads(s, n, al, p) /\ p + 1 \in 1 .. Count(s) /\ a + l = c1 + 2
      /\ l \in Nat \ {0} /\ l + 1 \in Nat \ {0}
  BY BegunIs
<1>2. a \in Nat /\ Len(al) \in Nat /\ p \in Nat /\ Count(s) \in Nat /\ n \in Nat
      /\ n = a + Len(al)
  BY <1>1, ReadsIs
<1>3. al \in Seq(Int) /\ \A i \in 1 .. Count(s) : Code(s, i) \in Nat /\ Size(s, i) \in Nat \ {0}
  BY <1>1, ReadsIs
<1>4. PICK q : FoundAt(al, l + 1, q, r)
  BY <1>1, <1>3, NextStartIs
<1>5. p + 2 \in 1 .. Count(s) /\ c2 = a + q /\ q + 2 <= Len(al) /\ q \in Nat
  BY <1>4, SecondCode
<1>6. r = l + 1 + m /\ r <= q
  BY <1>4, NalEnds
<1>7. c1 \in Nat /\ m \in Nat \ {0}
  BY <1>1, <1>3
<1>8. A!IsByteStream(s) /\ Window(s.bytes, n, al) /\ n \in 0 .. Len(s.bytes)
      /\ Passed(s, a, p)
  BY <1>1 DEF Reads
<1> DEFINE j == r - 1
           c == SubSeq(al, r, Len(al))
<1> HIDE DEF a, c1, c2, m
<1>9. p + 1 < Count(s) /\ c2 + 2 <= n /\ p < Count(s)
  BY <1>2, <1>5
<1>10. j = l + m /\ j <= Len(al) /\ r \in 1 .. Len(al) + 1
  BY <1>1, <1>2, <1>5, <1>6, <1>7
<1>11. SubSeq(al, l + 1, j) = s.nals[p + 1]
  <2> HIDE DEF j
  <2> QED
    BY <1>10, NalBytes DEF m
<1>12. Window(s.bytes, n, c) /\ Len(c) = Len(al) - r + 1
  BY <1>2, <1>8, <1>10, WindowEnds
<1> HIDE DEF c
<1>13. Base(n, c) = a + r - 1
  <2>1. Len(al) \in Nat /\ r \in Nat /\ n \in Nat /\ Len(c) = Len(al) - r + 1
    BY <1>2, <1>10, <1>12
  <2> QED
    BY <2>1, BaseEnds DEF a
<1>14. Base(n, c) \in Int /\ a <= Base(n, c) /\ c1 <= Base(n, c) /\ Base(n, c) < c2
  BY <1>1, <1>2, <1>5, <1>6, <1>7, <1>13
<1>15. Passed(s, Base(n, c), p + 1)
  <2>1. a \in Int /\ c1 <= Base(n, c) /\ Base(n, c) < c2
    BY <1>2, <1>14
  <2> QED
    BY <1>8, <1>9, <1>14, <2>1, OnePassed DEF c1, c2
<1>16. Reads(s, n, c, p + 1)
  BY <1>8, <1>12, <1>15 DEF Reads
<1> QED
  BY <1>9, <1>11, <1>14, <1>16 DEF A!From, a, c, c2, j

-----------------------------------------------------------------------------
(* The parser *)

\* The NALs ns completed, but for g that precede a join, are the ones after lo.
Matched(s, n, ns, g, lo) ==
  /\ ns \in Seq(Seq(A!Byte)) /\ g \in 0 .. Len(ns)
  /\ \A x \in 1 .. Len(ns) - g : ns[g + x] = s.nals[lo + x]
  /\ Len(ns) > g => /\ lo + (Len(ns) - g) < Count(s)
                    /\ Code(s, lo + (Len(ns) - g) + 1) + 2 <= n

\* A parser that joined the stream at j.
Progress(s, n, b, j, ns, g, lo) ==
  /\ lo \in Nat /\ Passed(s, j, lo) /\ Reads(s, n, b, lo + (Len(ns) - g))
  /\ j \in Nat /\ j <= Base(n, b) /\ Matched(s, n, ns, g, lo)

\* The sequence c is that of n bytes fed without those before the last Len(c).
LEMMA ProgressStays ==
  ASSUME NEW s, NEW n, NEW b, NEW j, NEW ns, NEW g, NEW lo, Progress(s, n, b, j, ns, g, lo),
         NEW m \in Nat, n <= m, NEW c, Reads(s, m, c, lo + (Len(ns) - g)), j <= Base(m, c)
  PROVE  Progress(s, m, c, j, ns, g, lo)
<1>1. Matched(s, n, ns, g, lo) /\ Reads(s, n, b, lo + (Len(ns) - g)) /\ lo \in Nat
  BY DEF Progress
<1>2. n \in Nat /\ Count(s) \in Nat /\ \A i \in 1 .. Count(s) : Code(s, i) \in Nat
  BY <1>1, ReadsIs
<1>3. Len(ns) \in Nat /\ g \in Nat /\ g <= Len(ns)
  BY <1>1 DEF Matched
<1>4. Matched(s, m, ns, g, lo)
  <2>1. ASSUME Len(ns) > g
        PROVE  Code(s, lo + (Len(ns) - g) + 1) + 2 <= m
    <3>1. /\ lo + (Len(ns) - g) < Count(s)
          /\ Code(s, lo + (Len(ns) - g) + 1) + 2 <= n
      BY <1>1, <2>1 DEF Matched
    <3> DEFINE i == lo + (Len(ns) - g) + 1
    <3>2. i \in 1 .. Count(s)
      BY <1>1, <1>2, <1>3, <3>1
    <3> HIDE DEF i
    <3>3. Code(s, i) \in Nat
      BY <1>2, <3>2
    <3>4. Code(s, i) + 2 <= n
      BY <3>1 DEF i
    <3>5. Code(s, i) + 2 <= m
      BY <1>2, <3>3, <3>4
    <3> QED
      BY <3>5 DEF i
  <2> QED
    BY <1>1, <2>1 DEF Matched
<1> QED
  BY <1>4 DEF Progress

\* feed takes in the next k bytes.
LEMMA ProgressParse ==
  ASSUME NEW s, NEW n, NEW b, NEW j, NEW ns, NEW g, NEW lo, Progress(s, n, b, j, ns, g, lo),
         NEW k \in Nat \ {0}, n + k <= Len(s.bytes),
         NEW m, m = n + k, NEW c, Joined(b, SubSeq(s.bytes, n + 1, n + k), c)
  PROVE  Progress(s, m, c, j, ns, g, lo) /\ m \in 0 .. Len(s.bytes)
<1> DEFINE p == lo + (Len(ns) - g)
           d == SubSeq(s.bytes, n + 1, n + k)
<1>1. Reads(s, n, b, p) /\ j \in Nat /\ j <= Base(n, b)
  BY DEF Progress
<1>2. /\ A!IsByteStream(s) /\ Window(s.bytes, n, b) /\ Passed(s, Base(n, b), p)
      /\ n \in Nat
  BY <1>1, ReadsIs DEF Reads
<1>3. s.bytes \in Seq(Int) /\ Len(s.bytes) \in Nat
  BY <1>2, StreamIs
<1>4. m \in Nat /\ m \in 0 .. Len(s.bytes) /\ n <= m
  BY <1>2, <1>3
<1>5. Transfer(s.bytes, n, m, d)
  BY <1>2, <1>3, TransferIs
<1> HIDE DEF p, d
<1>6. Window(s.bytes, m, c) /\ Base(m, c) = Base(n, b)
  BY <1>2, <1>4, <1>5, TransferJoins DEF d
<1>7. Reads(s, m, c, p)
  BY <1>2, <1>4, <1>6 DEF Reads
<1> QED
  BY <1>1, <1>4, <1>6, <1>7, ProgressStays DEF p

\* No start code: only what may be the beginning of one is kept.
LEMMA ProgressSkip ==
  ASSUME NEW s, NEW n, NEW b, NEW j, NEW ns, NEW g, NEW lo, Progress(s, n, b, j, ns, g, lo),
         A!NextStart(b, 1) = 0
  PROVE  /\ Progress(s, n, A!Keep(b), j, ns, g, lo) /\ NotYet(s, n, lo + (Len(ns) - g))
         /\ Len(A!Keep(b)) <= 3
<1> DEFINE p == lo + (Len(ns) - g)
           c == A!Keep(b)
           e == SubSeq(b, Len(b) - 3 + 1, Len(b))
<1>1. Reads(s, n, b, p) /\ j \in Nat /\ j <= Base(n, b)
  BY DEF Progress
<1> HIDE DEF p
<1>2. /\ n \in Nat /\ Len(b) \in Nat /\ Base(n, b) \in Nat /\ n = Base(n, b) + Len(b)
      /\ p \in 0 .. Count(s) /\ Count(s) \in Nat
  BY <1>1, ReadsIs
<1>3. /\ A!IsByteStream(s) /\ Window(s.bytes, n, b) /\ Passed(s, Base(n, b), p)
      /\ n \in 0 .. Len(s.bytes)
  BY <1>1 DEF Reads
<1>4. p < Count(s) => n < Code(s, p + 1) + 2
  BY <1>1, NoCode
<1>5. \A i \in 1 .. Count(s) : Code(s, i) \in Nat /\ Size(s, i) \in Nat \ {0}
  BY <1>1, ReadsIs
<1>6. NotYet(s, n, p)
  <2> SUFFICES ASSUME p + 1 < Count(s) PROVE n < Code(s, p + 2) + 2
    BY DEF NotYet
  <2>1. p + 1 \in 1 .. Count(s) /\ p + 2 \in 1 .. Count(s) /\ p + 1 <= p + 2 /\ p < Count(s)
    BY <1>2
  <2>2. Code(s, p + 1) <= Code(s, p + 2)
    BY <1>3, <2>1, CodesInOrder
  <2>3. Code(s, p + 1) \in Nat /\ Code(s, p + 2) \in Nat
    BY <1>5, <2>1
  <2> QED
    BY <1>2, <1>4, <2>1, <2>2, <2>3
<1>7. CASE Len(b) <= 3
  <2>1. c = b
    BY <1>2, <1>7 DEF A!Keep, A!LastOf
  <2> HIDE DEF c
  <2> QED
    BY <1>6, <1>7, <2>1 DEF c, p
<1>8. CASE ~(Len(b) <= 3)
  <2>1. c = e
    BY <1>2, <1>8 DEF A!Keep, A!LastOf, A!From
  <2> HIDE DEF c
  <2>2. Len(b) - 3 + 1 \in 1 .. Len(b) + 1
    BY <1>2, <1>8
  <2>3. Window(s.bytes, n, e) /\ Len(e) = Len(b) - (Len(b) - 3 + 1) + 1
    BY <1>2, <1>3, <2>2, WindowEnds
  <2> HIDE DEF e
  <2>4. Len(e) = 3
    BY <1>2, <2>3
  <2>5. Base(n, e) = n - 3 /\ Base(n, b) <= n - 3
    BY <1>2, <1>8, <2>4 DEF Base
  <2>6. Passed(s, n - 3, p)
    <3>1. ASSUME p < Count(s) PROVE n - 3 < Code(s, p + 1)
      <4>1. p + 1 \in 1 .. Count(s)
        BY <1>2, <3>1
      <4>2. Code(s, p + 1) \in Nat
        BY <1>5, <4>1
      <4> QED
        BY <1>2, <1>4, <3>1, <4>2
    <3>2. n - 3 \in Int /\ Base(n, b) \in Int
      BY <1>2
    <3> QED
      BY <1>3, <2>5, <3>1, <3>2, NonePassed
  <2>7. Reads(s, n, e, p)
    BY <1>3, <2>3, <2>5, <2>6 DEF Reads
  <2>8. j <= Base(n, e) /\ n <= n
    BY <1>1, <1>2, <2>5
  <2>9. Progress(s, n, e, j, ns, g, lo)
    BY <1>2, <2>7, <2>8, ProgressStays DEF p
  <2> QED
    BY <1>6, <2>1, <2>4, <2>9 DEF c, p
<1> QED
  BY <1>2, <1>7, <1>8

\* The buffer begins with a start code.
LEMMA ProgressBegun ==
  ASSUME NEW s, NEW n, NEW b, NEW j, NEW ns, NEW g, NEW lo, Progress(s, n, b, j, ns, g, lo),
         A!NextStart(b, 1) # 0, NEW al, al = A!From(b, A!NextStart(b, 1))
  PROVE  /\ Progress(s, n, al, j, ns, g, lo)
         /\ Begun(s, n, al, lo + (Len(ns) - g), A!StartLen(al))
         /\ Code(s, lo + (Len(ns) - g) + 1) + 2 <= n
<1> DEFINE p == lo + (Len(ns) - g)
           l == A!StartLen(al)
<1>1. Reads(s, n, b, p) /\ j \in Nat /\ j <= Base(n, b)
  BY DEF Progress
<1> HIDE DEF p
<1>2. PICK r : r = A!NextStart(b, 1)
  OBVIOUS
<1>3. /\ p + 1 \in 1 .. Count(s) /\ Code(s, p + 1) + 2 <= n
      /\ Reads(s, n, al, p) /\ Base(n, b) <= Base(n, al)
      /\ l \in {3, 4} /\ Base(n, al) + l = Code(s, p + 1) + 2
  BY <1>1, <1>2, AlignedIs
<1>4. Begun(s, n, al, p, l)
  BY <1>3 DEF Begun
<1>5. j <= Base(n, al) /\ n \in Nat /\ n <= n
  <2>1. Base(n, al) \in Nat /\ Base(n, b) \in Nat /\ n \in Nat
    BY <1>1, <1>3, ReadsIs
  <2> QED
    BY <1>1, <1>3, <2>1
<1>6. Progress(s, n, al, j, ns, g, lo)
  BY <1>3, <1>5, ProgressStays DEF p
<1> QED
  BY <1>3, <1>4, <1>6 DEF p

\* The NAL of a start code of l bytes, and what stays of the buffer behind it.
TakenOut(al, l, nal, c) ==
  LET r == A!NextStart(al, l + 1)
  IN  r # 0 /\ nal = SubSeq(al, l + 1, r - 1) /\ c = A!From(al, r)

\* The next NAL is complete.
LEMMA ProgressComplete ==
  ASSUME NEW s, NEW n, NEW al, NEW j, NEW ns, NEW g, NEW lo, Progress(s, n, al, j, ns, g, lo),
         NEW p, p = lo + (Len(ns) - g), NEW l, Begun(s, n, al, p, l),
         NEW nal, NEW c, TakenOut(al, l, nal, c)
  PROVE  /\ nal \in Seq(A!Byte) /\ nal # <<>> /\ nal = s.nals[p + 1] /\ p + 1 < Count(s)
         /\ Progress(s, n, c, j, Append(ns, nal), g, lo)
<1>1. Reads(s, n, al, p) /\ j \in Nat /\ j <= Base(n, al) /\ lo \in Nat /\ Passed(s, j, lo)
      /\ Matched(s, n, ns, g, lo)
  BY DEF Progress
<1>2. /\ Len(ns) \in Nat /\ g \in Nat /\ g <= Len(ns) /\ ns \in Seq(Seq(A!Byte))
      /\ \A x \in 1 .. Len(ns) - g : ns[g + x] = s.nals[lo + x]
  BY <1>1 DEF Matched
<1>3. p \in Nat /\ p = lo + (Len(ns) - g)
  BY <1>1, <1>2
<1>4. /\ p + 1 < Count(s) /\ Code(s, p + 2) + 2 <= n
      /\ nal = s.nals[p + 1]
      /\ Reads(s, n, c, p + 1) /\ Base(n, al) <= Base(n, c)
  BY NextNal DEF TakenOut
<1>5. A!IsByteStream(s) /\ p + 1 \in 1 .. Count(s)
  <2>1. Count(s) \in Nat
    BY <1>1, ReadsIs
  <2> QED
    BY <1>1, <1>3, <1>4, <2>1 DEF Reads
<1>6. nal \in Seq(A!Byte) /\ nal # <<>>
  <2>1. s.nals[p + 1] \in Seq(A!Byte) /\ Size(s, p + 1) \in Nat \ {0}
    BY <1>5, NalIs
  <2>2. Len(nal) \in Nat \ {0}
    BY <1>4, <2>1 DEF Size
  <2>3. nal \in Seq(A!Byte)
    BY <1>4, <2>1
  <2>4. nal # <<>>
    BY <2>2
  <2> QED
    BY <2>3, <2>4
<1> DEFINE ms == Append(ns, nal)
<1>7. /\ ms \in Seq(Seq(A!Byte)) /\ Len(ms) = Len(ns) + 1
      /\ \A i \in 1 .. Len(ns) : ms[i] = ns[i]
      /\ ms[Len(ns) + 1] = nal
  BY <1>2, <1>6, AppendIs
<1> HIDE DEF ms
<1>8. lo + (Len(ms) - g) = p + 1 /\ p + 1 + 1 = p + 2
  BY <1>1, <1>2, <1>3, <1>7
<1>9. Matched(s, n, ms, g, lo)
  <2>1. ASSUME NEW x \in 1 .. Len(ms) - g PROVE ms[g + x] = s.nals[lo + x]
    <3>1. CASE x \in 1 .. Len(ns) - g
      <4>1. g + x \in 1 .. Len(ns)
        BY <1>2, <3>1
      <4> QED
        BY <1>2, <1>7, <3>1, <4>1
    <3>2. CASE ~(x \in 1 .. Len(ns) - g)
      <4>1. g + x = Len(ns) + 1 /\ lo + x = p + 1
        BY <1>1, <1>2, <1>3, <1>7, <3>2
      <4> QED
        BY <1>4, <1>7, <4>1
    <3> QED
      BY <3>1, <3>2
  <2>2. g \in 0 .. Len(ms)
    BY <1>2, <1>7
  <2> QED
    BY <1>4, <1>7, <1>8, <2>1, <2>2 DEF Matched
<1>10. j <= Base(n, c)
  <2>1. Base(n, al) \in Nat /\ Base(n, c) \in Nat
    BY <1>1, <1>4, ReadsIs
  <2> QED
    BY <1>1, <1>4, <2>1
<1>11. Progress(s, n, c, j, ms, g, lo)
  BY <1>1, <1>4, <1>8, <1>9, <1>10 DEF Progress
<1> QED
  BY <1>4, <1>6, <1>11 DEF ms

\* A parser that begins anew at n has passed what begins before.
LEMMA ProgressAnew ==
  ASSUME NEW s, A!IsByteStream(s), NEW n \in 0 .. Len(s.bytes), NEW ns \in Seq(Seq(A!Byte)),
         NEW g, g = Len(ns)
  PROVE  \E lo : /\ Progress(s, n, <<>>, n, ns, g, lo)
                 /\ NotYet(s, n, lo + (Len(ns) - g)) /\ lo = lo + (Len(ns) - g)
<1>1. /\ Len(s.bytes) \in Nat /\ Count(s) \in Nat /\ Len(ns) \in Nat /\ n \in Nat
  BY StreamIs
<1>2. PICK lo : Passed(s, n, lo)
  BY <1>1, SomePassed
<1>3. lo \in Nat /\ lo <= Count(s) /\ lo + (Len(ns) - g) = lo /\ g \in 0 .. Len(ns)
  BY <1>1, <1>2 DEF Passed
<1>4. Window(s.bytes, n, <<>>) /\ Base(n, <<>>) = n
  BY <1>1 DEF Window, Base
<1>5. Matched(s, n, ns, g, lo)
  BY <1>1, <1>3 DEF Matched
<1>6. Progress(s, n, <<>>, n, ns, g, lo)
  BY <1>1, <1>2, <1>3, <1>4, <1>5 DEF Progress, Reads
<1>7. NotYet(s, n, lo)
  <2> SUFFICES ASSUME lo + 1 < Count(s) PROVE n < Code(s, lo + 2) + 2
    BY DEF NotYet
  <2>1. lo + 2 \in 1 .. Count(s) /\ ~(lo + 2 <= lo)
    BY <1>1, <1>3
  <2>2. ~(Code(s, lo + 2) <= n) /\ Code(s, lo + 2) \in Nat
    BY <1>2, <2>1, NalIs DEF Passed
  <2> QED
    BY <1>1, <2>2
<1> QED
  BY <1>3, <1>6, <1>7

\* What is given up as too long is longer than its NAL, but for its start code and
\* the beginning of the next.
LEMMA GivenUpIs ==
  ASSUME NEW s, NEW n, NEW al, NEW p, NEW l, Begun(s, n, al, p, l), NotYet(s, n, p)
  PROVE  Len(al) <= Size(s, p + 1) + 7 /\ p + 1 \in 1 .. Count(s)
<1> DEFINE a == Base(n, al)
           c1 == Code(s, p + 1)
           m == Size(s, p + 1)
<1>1. /\ Reads(s, n, al, p) /\ p + 1 \in 1 .. Count(s) /\ l \in 3 .. 4 /\ a + l = c1 + 2
  BY DEF Begun
<1>2. a \in Nat /\ Len(al) \in Nat /\ n = a + Len(al) /\ n <= Len(s.bytes) /\ p \in Nat
      /\ Len(s.bytes) \in Nat /\ Count(s) \in Nat
  BY <1>1, ReadsIs
<1>3. c1 \in Nat /\ m \in Nat
  BY <1>1, ReadsIs
<1>4. A!IsByteStream(s)
  BY <1>1 DEF Reads
<1>5. n <= c1 + 5 + m
  <2>1. CASE p + 1 = Count(s)
    <3>1. c1 + 2 + m = Len(s.bytes)
      BY <1>1, <1>4, <2>1, LastNal
    <3> QED
      BY <1>2, <1>3, <3>1
  <2>2. CASE p + 1 < Count(s)
    <3>1. n < Code(s, p + 2) + 2 /\ p + 1 + 1 = p + 2
      BY <1>2, <2>2 DEF NotYet
    <3>2. \/ Code(s, p + 2) = c1 + 3 + m
          \/ Code(s, p + 2) = c1 + 4 + m
      BY <1>1, <1>4, <2>2, <3>1, NextCode
    <3> HIDE DEF c1, m
    <3> QED
      BY <1>2, <1>3, <3>1, <3>2
  <2> QED
    BY <1>1, <1>2, <2>1, <2>2
<1> HIDE DEF a, c1, m
<1>6. Len(al) <= m + 7
  BY <1>1, <1>2, <1>3, <1>5
<1> QED
  BY <1>1, <1>6 DEF m
-----------------------------------------------------------------------------
(* The assembler *)

Nal == Seq(A!Byte) \ {<<>>}

\* The sequence t is s with e behind.
Added(s, e, t) == t = Append(s, e)

LEMMA AddedIs ==
  ASSUME NEW S, NEW s \in Seq(S), NEW e \in S, NEW t, Added(s, e, t)
  PROVE  /\ t \in Seq(S) /\ Len(s) \in Nat /\ Len(t) = Len(s) + 1
         /\ \A i \in 1 .. Len(s) : t[i] = s[i]
         /\ t[Len(s) + 1] = e
BY AppendIs DEF Added

\* As A!Before and A!Piece, of any ends and NALs.
Start(es, i) == IF i = 1 THEN 0 ELSE es[i - 1]

Part(ns, unit, from, to) ==
  Len(unit) = to - from /\ \A x \in 1 .. Len(unit) : unit[x] = ns[from + x]

\* A unit ends before a delimiter or a slice.
Ends(ns, e) == e < Len(ns) /\ A!nal_type(ns[e + 1]) \in {A!AUD, A!IDR, A!NON_IDR}

Assembled(ns, us, es, u) ==
  /\ ns \in Seq(Nal) /\ us \in Seq(Seq(Nal)) /\ es \in Seq(Nat) /\ u \in Seq(Nal)
  /\ Len(es) = Len(us)
  /\ \A i \in 1 .. Len(us) : Part(ns, us[i], Start(es, i), es[i]) /\ Ends(ns, es[i])
  /\ Part(ns, u, Start(es, Len(us) + 1), Len(ns))
  /\ Len(ns) > 0 => Len(u) > 0

LEMMA StartIs ==
  ASSUME NEW es \in Seq(Nat), NEW i \in 1 .. Len(es) + 1
  PROVE  Start(es, i) \in Nat
<1>1. Len(es) \in Nat /\ \A k \in 1 .. Len(es) : es[k] \in Nat
  OBVIOUS
<1>2. CASE i = 1
  BY <1>2 DEF Start
<1>3. CASE i # 1
  <2>1. i - 1 \in 1 .. Len(es)
    BY <1>1, <1>3
  <2> QED
    BY <1>1, <1>3, <2>1 DEF Start
<1> QED
  BY <1>2, <1>3

LEMMA PartGrows ==
  ASSUME NEW ns \in Seq(Nal), NEW nal \in Nal, NEW ms, Added(ns, nal, ms),
         NEW unit \in Seq(Nal), NEW from \in Nat, NEW to \in Nat, to <= Len(ns),
         Part(ns, unit, from, to)
  PROVE  Part(ms, unit, from, to)
<1>1. Len(ns) \in Nat /\ \A i \in 1 .. Len(ns) : ms[i] = ns[i]
  BY AddedIs
<1>2. Len(unit) = to - from /\ \A x \in 1 .. Len(unit) : unit[x] = ns[from + x]
  BY DEF Part
<1>3. ASSUME NEW x \in 1 .. Len(unit) PROVE unit[x] = ms[from + x]
  <2>1. from + x \in 1 .. Len(ns)
    BY <1>1, <1>2
  <2> QED
    BY <1>1, <1>2, <2>1
<1> QED
  BY <1>2, <1>3 DEF Part

LEMMA EndsGrows ==
  ASSUME NEW ns \in Seq(Nal), NEW nal \in Nal, NEW ms, Added(ns, nal, ms),
         NEW e \in Nat, Ends(ns, e)
  PROVE  Ends(ms, e)
<1>1. /\ Len(ns) \in Nat /\ Len(ms) = Len(ns) + 1 /\ \A i \in 1 .. Len(ns) : ms[i] = ns[i]
  BY AddedIs
<1>2. e + 1 \in 1 .. Len(ns) /\ e < Len(ms)
  BY <1>1 DEF Ends
<1> QED
  BY <1>1, <1>2 DEF Ends

\* The units of before stay units.
LEMMA UnitsGrow ==
  ASSUME NEW ns, NEW us, NEW es, NEW u, Assembled(ns, us, es, u),
         NEW nal \in Nal, NEW ms, Added(ns, nal, ms)
  PROVE  \A i \in 1 .. Len(us) : Part(ms, us[i], Start(es, i), es[i]) /\ Ends(ms, es[i])
<1>1. /\ ns \in Seq(Nal) /\ us \in Seq(Seq(Nal)) /\ es \in Seq(Nat) /\ Len(es) = Len(us)
      /\ \A i \in 1 .. Len(us) : Part(ns, us[i], Start(es, i), es[i]) /\ Ends(ns, es[i])
  BY DEF Assembled
<1>2. TAKE i \in 1 .. Len(us)
<1>3. us[i] \in Seq(Nal) /\ es[i] \in Nat /\ Part(ns, us[i], Start(es, i), es[i])
      /\ Ends(ns, es[i])
  BY <1>1
<1>4. i \in 1 .. Len(es) + 1
  BY <1>1
<1>5. Start(es, i) \in Nat
  BY <1>1, <1>4, StartIs
<1>6. es[i] <= Len(ns)
  BY <1>1, <1>3 DEF Ends
<1> QED
  BY <1>1, <1>3, <1>5, <1>6, PartGrows, EndsGrows

\* A NAL goes to the unit in work, ...
LEMMA NalAdded ==
  ASSUME NEW ns, NEW us, NEW es, NEW u, Assembled(ns, us, es, u),
         NEW nal \in Nal, NEW ms, Added(ns, nal, ms), NEW w, Added(u, nal, w)
  PROVE  Assembled(ms, us, es, w)
<1> DEFINE f == Start(es, Len(us) + 1)
<1>1. /\ ns \in Seq(Nal) /\ us \in Seq(Seq(Nal)) /\ es \in Seq(Nat) /\ u \in Seq(Nal)
      /\ Len(es) = Len(us) /\ Part(ns, u, f, Len(ns))
  BY DEF Assembled
<1>2. /\ ms \in Seq(Nal) /\ Len(ns) \in Nat /\ Len(ms) = Len(ns) + 1
      /\ (\A i \in 1 .. Len(ns) : ms[i] = ns[i]) /\ ms[Len(ns) + 1] = nal
  BY <1>1, AddedIs
<1>3. /\ w \in Seq(Nal) /\ Len(u) \in Nat /\ Len(w) = Len(u) + 1
      /\ (\A i \in 1 .. Len(u) : w[i] = u[i]) /\ w[Len(u) + 1] = nal
  BY <1>1, AddedIs
<1>4. \A i \in 1 .. Len(us) : Part(ms, us[i], Start(es, i), es[i]) /\ Ends(ms, es[i])
  BY UnitsGrow
<1>5. f \in Nat
  BY <1>1, StartIs
<1> HIDE DEF f
<1>6. Len(u) = Len(ns) - f /\ \A x \in 1 .. Len(u) : u[x] = ns[f + x]
  BY <1>1 DEF Part
<1>7. ASSUME NEW x \in 1 .. Len(w) PROVE w[x] = ms[f + x]
  <2>1. CASE x \in 1 .. Len(u)
    <3>1. f + x \in 1 .. Len(ns)
      BY <1>2, <1>3, <1>5, <1>6, <2>1
    <3> QED
      BY <1>2, <1>3, <1>6, <2>1, <3>1
  <2>2. CASE x = Len(u) + 1
    <3>1. f + x = Len(ns) + 1
      BY <1>2, <1>3, <1>5, <1>6, <2>2
    <3> QED
      BY <1>2, <1>3, <2>2, <3>1
  <2>3. x \in 1 .. Len(u) \/ x = Len(u) + 1
    BY <1>3
  <2> QED
    BY <2>1, <2>2, <2>3
<1>8. Len(w) = Len(ms) - f /\ Len(w) > 0
  BY <1>2, <1>3, <1>5, <1>6
<1>9. Part(ms, w, f, Len(ms))
  BY <1>7, <1>8 DEF Part
<1> QED
  BY <1>1, <1>2, <1>3, <1>4, <1>8, <1>9 DEF Assembled, f

\* ... or ends it and begins the next.
LEMMA UnitEnded ==
  ASSUME NEW ns, NEW us, NEW es, NEW u, Assembled(ns, us, es, u),
         NEW nal \in Nal, A!nal_type(nal) \in {A!AUD, A!IDR, A!NON_IDR},
         NEW ms, Added(ns, nal, ms), NEW ts, Added(us, u, ts), NEW fs, Added(es, Len(ns), fs)
  PROVE  /\ Assembled(ms, ts, fs, <<nal>>) /\ Start(fs, Len(ts) + 1) = Len(ns)
         /\ \A i \in 1 .. Len(us) + 1 : Start(fs, i) = Start(es, i)
<1> DEFINE f == Start(es, Len(us) + 1)
<1>1. /\ ns \in Seq(Nal) /\ us \in Seq(Seq(Nal)) /\ es \in Seq(Nat) /\ u \in Seq(Nal)
      /\ Len(es) = Len(us) /\ Part(ns, u, f, Len(ns))
  BY DEF Assembled
<1>2. /\ ms \in Seq(Nal) /\ Len(ns) \in Nat /\ Len(ms) = Len(ns) + 1
      /\ ms[Len(ns) + 1] = nal
  BY <1>1, AddedIs
<1>3. /\ ts \in Seq(Seq(Nal)) /\ Len(us) \in Nat /\ Len(ts) = Len(us) + 1
      /\ (\A i \in 1 .. Len(us) : ts[i] = us[i]) /\ ts[Len(us) + 1] = u
  BY <1>1, AddedIs
<1>4. /\ fs \in Seq(Nat) /\ Len(fs) = Len(us) + 1
      /\ (\A i \in 1 .. Len(us) : fs[i] = es[i]) /\ fs[Len(us) + 1] = Len(ns)
  <2>1. PICK n : n = Len(ns)
    OBVIOUS
  <2>2. n \in Nat /\ es \in Seq(Nat) /\ Added(es, n, fs)
    BY <1>1, <1>2, <2>1
  <2>3. /\ fs \in Seq(Nat) /\ Len(fs) = Len(es) + 1
        /\ (\A i \in 1 .. Len(es) : fs[i] = es[i]) /\ fs[Len(es) + 1] = n
    BY <2>2, AddedIs
  <2> QED
    BY <1>1, <2>1, <2>3
<1>5. ASSUME NEW i \in 1 .. Len(us) + 1 PROVE Start(fs, i) = Start(es, i)
  <2>1. CASE i = 1
    BY <2>1 DEF Start
  <2>2. CASE i # 1
    <3>1. i - 1 \in 1 .. Len(us)
      BY <1>3, <2>2
    <3> QED
      BY <1>4, <2>2, <3>1 DEF Start
  <2> QED
    BY <2>1, <2>2
<1>6. Start(fs, Len(ts) + 1) = Len(ns)
  <2>1. Len(ts) + 1 # 1 /\ Len(ts) + 1 - 1 = Len(us) + 1
    BY <1>3
  <2> QED
    BY <1>4, <2>1 DEF Start
<1>7. f \in Nat
  BY <1>1, StartIs
<1>8. Part(ms, u, f, Len(ns))
  <2> HIDE DEF f
  <2> QED
    BY <1>1, <1>2, <1>7, PartGrows
<1>9. Ends(ms, Len(ns))
  BY <1>2 DEF Ends
<1>10. ASSUME NEW i \in 1 .. Len(ts)
       PROVE  Part(ms, ts[i], Start(fs, i), fs[i]) /\ Ends(ms, fs[i])
  <2>1. CASE i \in 1 .. Len(us)
    <3>1. Part(ms, us[i], Start(es, i), es[i]) /\ Ends(ms, es[i])
      BY <2>1, UnitsGrow
    <3>2. Start(fs, i) = Start(es, i)
      BY <1>3, <1>5, <2>1
    <3> QED
      BY <1>3, <1>4, <2>1, <3>1, <3>2
  <2>2. CASE i = Len(us) + 1
    <3>1. Start(fs, i) = f
      BY <1>3, <1>5, <2>2
    <3> QED
      BY <1>3, <1>4, <1>8, <1>9, <2>2, <3>1
  <2> QED
    BY <1>3, <2>1, <2>2
<1>11. Part(ms, <<nal>>, Len(ns), Len(ms))
  BY <1>2 DEF Part
<1>12. <<nal>> \in Seq(Nal) /\ Len(<<nal>>) > 0 /\ Len(fs) = Len(ts)
  BY <1>3, <1>4
<1>13. Assembled(ms, ts, fs, <<nal>>)
  BY <1>2, <1>3, <1>4, <1>6, <1>10, <1>11, <1>12 DEF Assembled
<1> QED
  BY <1>5, <1>6, <1>13

-----------------------------------------------------------------------------
(* One picture in a unit *)

HasSlice(u) == \E x \in 1 .. Len(u) : A!IsSlice(u[x])

\* What has_vcl says of the unit in work.
Pictured(us, u, v) ==
  /\ v \in BOOLEAN /\ (v <=> HasSlice(u))
  /\ A!OnePicture(u) /\ \A i \in 1 .. Len(us) : A!OnePicture(us[i])

\* The last NAL of the unit in work is the last of all.
LEMMA LastIs ==
  ASSUME NEW ns, NEW us, NEW es, NEW u, Assembled(ns, us, es, u), Len(ns) > 0
  PROVE  Len(u) \in Nat \ {0} /\ Len(ns) \in Nat \ {0} /\ u[Len(u)] = ns[Len(ns)]
<1> DEFINE f == Start(es, Len(us) + 1)
<1>1. /\ ns \in Seq(Nal) /\ es \in Seq(Nat) /\ u \in Seq(Nal) /\ us \in Seq(Seq(Nal))
      /\ Len(es) = Len(us) /\ Part(ns, u, f, Len(ns)) /\ Len(u) > 0
  BY DEF Assembled
<1>2. f \in Nat /\ Len(ns) \in Nat \ {0} /\ Len(u) \in Nat \ {0}
  BY <1>1, StartIs
<1> HIDE DEF f
<1>3. Len(u) = Len(ns) - f /\ u[Len(u)] = ns[f + Len(u)]
  BY <1>1, <1>2 DEF Part
<1>4. f + Len(u) = Len(ns)
  BY <1>2, <1>3
<1> QED
  BY <1>2, <1>3, <1>4

\* A NAL that is no slice, or is the first of the unit, or has the picture of the
\* slice before it.
LEMMA PictureAdded ==
  ASSUME NEW us, NEW u \in Seq(Nal), NEW v, Pictured(us, u, v),
         NEW nal \in Nal, NEW w, Added(u, nal, w),
         \/ ~A!IsSlice(nal)
         \/ ~v
         \/ /\ Len(u) > 0 /\ A!IsSlice(u[Len(u)])
            /\ A!Picture(nal) = A!Picture(u[Len(u)])
  PROVE  Pictured(us, w, v \/ A!IsSlice(nal))
<1>1. /\ Len(u) \in Nat /\ Len(w) = Len(u) + 1
      /\ (\A i \in 1 .. Len(u) : w[i] = u[i]) /\ w[Len(u) + 1] = nal
  BY AddedIs
<1>2. \A x \in 1 .. Len(w) : x \in 1 .. Len(u) \/ x = Len(u) + 1
  BY <1>1
<1>3. \A x \in 1 .. Len(u) + 1 : x \in 1 .. Len(w)
  BY <1>1
<1>4. /\ v \in BOOLEAN /\ (v <=> HasSlice(u)) /\ A!OnePicture(u)
      /\ \A i \in 1 .. Len(us) : A!OnePicture(us[i])
  BY DEF Pictured
<1>5. HasSlice(w) <=> HasSlice(u) \/ A!IsSlice(nal)
  <2>1. ASSUME HasSlice(w) PROVE HasSlice(u) \/ A!IsSlice(nal)
    BY <1>1, <1>2, <2>1 DEF HasSlice
  <2>2. ASSUME HasSlice(u) PROVE HasSlice(w)
    <3>1. PICK x \in 1 .. Len(u) : A!IsSlice(u[x])
      BY <2>2 DEF HasSlice
    <3>2. x \in 1 .. Len(w)
      BY <1>1
    <3> QED
      BY <1>1, <3>1, <3>2 DEF HasSlice
  <2>3. ASSUME A!IsSlice(nal) PROVE HasSlice(w)
    <3>1. Len(u) + 1 \in 1 .. Len(w)
      BY <1>1
    <3> QED
      BY <1>1, <2>3, <3>1 DEF HasSlice
  <2> QED
    BY <2>1, <2>2, <2>3
<1>6. A!IsSlice(nal) => \A x \in 1 .. Len(u) : A!IsSlice(u[x]) => A!Picture(u[x]) = A!Picture(nal)
  <2> SUFFICES ASSUME A!IsSlice(nal), NEW x \in 1 .. Len(u), A!IsSlice(u[x])
               PROVE  A!Picture(u[x]) = A!Picture(nal)
    OBVIOUS
  <2>1. v
    BY <1>4 DEF HasSlice
  <2>2. /\ Len(u) > 0 /\ A!IsSlice(u[Len(u)])
        /\ A!Picture(nal) = A!Picture(u[Len(u)])
    BY <2>1
  <2>3. Len(u) \in 1 .. Len(u)
    BY <1>1, <2>2
  <2>4. A!Picture(u[x]) = A!Picture(u[Len(u)])
    BY <1>4, <2>2, <2>3 DEF A!OnePicture
  <2> QED
    BY <2>2, <2>4
<1>7. A!OnePicture(w)
  <2> SUFFICES ASSUME NEW x \in 1 .. Len(w), NEW y \in 1 .. Len(w),
                      A!IsSlice(w[x]), A!IsSlice(w[y])
               PROVE  A!Picture(w[x]) = A!Picture(w[y])
    BY DEF A!OnePicture
  <2>1. CASE x \in 1 .. Len(u) /\ y \in 1 .. Len(u)
    BY <1>1, <1>4, <2>1 DEF A!OnePicture
  <2>2. CASE x \in 1 .. Len(u) /\ y = Len(u) + 1
    BY <1>1, <1>6, <2>2
  <2>3. CASE x = Len(u) + 1 /\ y \in 1 .. Len(u)
    BY <1>1, <1>6, <2>3
  <2>4. CASE x = Len(u) + 1 /\ y = Len(u) + 1
    BY <2>4
  <2> QED
    BY <1>2, <2>1, <2>2, <2>3, <2>4
<1> QED
  BY <1>4, <1>5, <1>7 DEF Pictured

LEMMA PictureBegins ==
  ASSUME NEW us \in Seq(Seq(Nal)), NEW u \in Seq(Nal), NEW v, Pictured(us, u, v), NEW nal \in Nal,
         NEW ts, Added(us, u, ts)
  PROVE  Pictured(ts, <<nal>>, A!IsSlice(nal))
<1>1. /\ Len(us) \in Nat /\ Len(ts) = Len(us) + 1
      /\ (\A i \in 1 .. Len(us) : ts[i] = us[i]) /\ ts[Len(us) + 1] = u
  <2> DEFINE S == Seq(Nal)
  <2>1. us \in Seq(S) /\ u \in S
    OBVIOUS
  <2> HIDE DEF S
  <2> QED
    BY <2>1, AddedIs
<1>2. A!OnePicture(u) /\ \A i \in 1 .. Len(us) : A!OnePicture(us[i])
  BY DEF Pictured
<1>3. ASSUME NEW i \in 1 .. Len(ts) PROVE A!OnePicture(ts[i])
  <2>1. i \in 1 .. Len(us) \/ i = Len(us) + 1
    BY <1>1
  <2> QED
    BY <1>1, <1>2, <2>1
<1> DEFINE w == <<nal>>
<1>4. Len(w) = 1 /\ w[1] = nal
  OBVIOUS
<1> HIDE DEF w
<1>5. \A x \in 1 .. Len(w) : x = 1
  BY <1>4
<1>6. A!OnePicture(w)
  BY <1>4, <1>5 DEF A!OnePicture
<1>7. 1 \in 1 .. Len(w)
  BY <1>4
<1>8. HasSlice(w) <=> A!IsSlice(nal)
  BY <1>4, <1>5, <1>7 DEF HasSlice
<1>9. A!IsSlice(nal) \in BOOLEAN
  BY DEF A!IsSlice
<1>10. Pictured(ts, w, A!IsSlice(nal))
  BY <1>3, <1>6, <1>8, <1>9 DEF Pictured
<1> QED
  BY <1>10 DEF w
-----------------------------------------------------------------------------
(* The parameter sets *)

LEMMA Kinds ==
  /\ A!AUD \notin {A!SPS, A!PPS} /\ A!IDR \notin {A!SPS, A!PPS}
  /\ A!NON_IDR \notin {A!SPS, A!PPS} /\ A!SPS # A!PPS /\ A!IDR # A!SPS /\ A!IDR # A!PPS
BY DEF A!AUD, A!IDR, A!NON_IDR, A!SPS, A!PPS

\* A PPS follows every SPS.
Followed(ns) ==
  \A y \in 1 .. Len(ns) - 1 :
    A!nal_type(ns[y]) = A!SPS => A!nal_type(ns[y + 1]) = A!PPS

LEMMA FirstOfIs ==
  ASSUME NEW u \in Seq(Nal), NEW kind
  PROVE  \/ /\ A!FirstOf(kind, u) = <<>>
            /\ \A x \in 1 .. Len(u) : A!nal_type(u[x]) # kind
         \/ /\ A!FirstOf(kind, u) # <<>>
            /\ \E x \in 1 .. Len(u) : A!FirstOf(kind, u) = u[x] /\ A!nal_type(u[x]) = kind
<1> DEFINE T == {x \in 1 .. Len(u) : A!nal_type(u[x]) = kind}
<1>1. Len(u) \in Nat /\ T \in SUBSET Nat /\ DOMAIN u = 1 .. Len(u)
  OBVIOUS
<1>2. A!FirstOf(kind, u) = IF T = {} THEN <<>> ELSE u[A!FirstIn(T)]
  BY <1>1 DEF A!FirstOf
<1>3. CASE T = {}
  BY <1>2, <1>3
<1>4. CASE T # {}
  <2> HIDE DEF T
  <2>1. \E x \in T : \A y \in T : x <= y
    BY <1>1, <1>4, LeastNat
  <2>2. A!FirstIn(T) \in T
    BY <2>1 DEF A!FirstIn
  <2>3. PICK x \in T : x = A!FirstIn(T)
    BY <2>2
  <2>4. x \in 1 .. Len(u) /\ A!nal_type(u[x]) = kind
    BY DEF T
  <2>5. A!FirstOf(kind, u) = u[x]
    BY <1>2, <1>4, <2>3
  <2>6. u[x] # <<>>
    <3>1. u[x] \in Nal
      BY <2>4
    <3> QED
      BY <3>1 DEF Nal
  <2> QED
    BY <2>4, <2>5, <2>6
<1> QED
  BY <1>3, <1>4

\* As A!LastKind, of any NALs.
LastSet(ns, kind, y, n) ==
  /\ y \in 1 .. Len(ns) /\ y <= n /\ A!nal_type(ns[y]) = kind
  /\ \A z \in y + 1 .. n : A!nal_type(ns[z]) # kind

HasSps(ns, n) == \E y \in 1 .. n : A!nal_type(ns[y]) = A!SPS

\* The muxer has the sets that are in force after n NALs.
InForce(ns, n, m) ==
  /\ \A y : LastSet(ns, A!SPS, y, n) => m.sps = ns[y]
  /\ HasSps(ns, n) => /\ m.sps # <<>> /\ m.init = <<m.sps, m.pps>>
                      /\ \A z : LastSet(ns, A!PPS, z, n) => m.pps = ns[z]

\* A unit of the NALs from f + 1 to e.
UnitOf(ns, u, f, e) ==
  /\ ns \in Seq(Nal) /\ u \in Seq(Nal) /\ f \in Nat /\ e \in Nat /\ f <= e /\ e <= Len(ns)
  /\ Part(ns, u, f, e)

LEMMA UnitIs ==
  ASSUME NEW ns, NEW u, NEW f, NEW e, UnitOf(ns, u, f, e)
  PROVE  /\ \A x \in 1 .. Len(u) : f + x \in f + 1 .. e /\ u[x] = ns[f + x]
         /\ \A y \in f + 1 .. e : y - f \in 1 .. Len(u) /\ u[y - f] = ns[y]
<1>1. /\ f \in Nat /\ e \in Nat /\ f <= e /\ Len(u) = e - f
      /\ \A x \in 1 .. Len(u) : u[x] = ns[f + x]
  BY DEF UnitOf, Part
<1>2. ASSUME NEW x \in 1 .. Len(u) PROVE f + x \in f + 1 .. e
  BY <1>1
<1>3. ASSUME NEW y \in f + 1 .. e PROVE y - f \in 1 .. Len(u) /\ f + (y - f) = y
  BY <1>1
<1>4. ASSUME NEW y \in f + 1 .. e PROVE u[y - f] = ns[y]
  BY <1>1, <1>3, <1>4
<1> QED
  BY <1>1, <1>2, <1>3, <1>4

\* A unit without a set of the kind changes nothing in force.
LEMMA NoSet ==
  ASSUME NEW ns, NEW u, NEW f, NEW e, UnitOf(ns, u, f, e), NEW kind,
         \A x \in 1 .. Len(u) : A!nal_type(u[x]) # kind,
         NEW n, n \in f .. e, NEW y, LastSet(ns, kind, y, n)
  PROVE  LastSet(ns, kind, y, f)
<1>1. f \in Nat /\ e \in Nat
  BY DEF UnitOf
<1>2. /\ y \in 1 .. Len(ns) /\ y <= n /\ A!nal_type(ns[y]) = kind
      /\ \A z \in y + 1 .. n : A!nal_type(ns[z]) # kind
  BY DEF LastSet
<1>3. y \notin f + 1 .. e
  BY <1>2, UnitIs
<1>4. y <= f
  BY <1>1, <1>2, <1>3
<1>5. \A z \in y + 1 .. f : A!nal_type(ns[z]) # kind
  BY <1>1, <1>2
<1> QED
  BY <1>2, <1>4, <1>5 DEF LastSet

\* One with a set of the kind has the last.
LEMMA SetInUnit ==
  ASSUME NEW ns, NEW u, NEW f, NEW e, UnitOf(ns, u, f, e), NEW kind,
         NEW x \in 1 .. Len(u), A!nal_type(u[x]) = kind,
         NEW y, LastSet(ns, kind, y, e)
  PROVE  \E w \in 1 .. Len(u) : ns[y] = u[w] /\ A!nal_type(u[w]) = kind
<1>1. f \in Nat /\ e \in Nat
  BY DEF UnitOf
<1>2. /\ y \in 1 .. Len(ns) /\ y <= e /\ A!nal_type(ns[y]) = kind
      /\ \A z \in y + 1 .. e : A!nal_type(ns[z]) # kind
  BY DEF LastSet
<1>3. f + x \in f + 1 .. e /\ A!nal_type(ns[f + x]) = kind
  BY UnitIs
<1>4. f + x \notin y + 1 .. e
  BY <1>2, <1>3
<1>5. y \in f + 1 .. e
  BY <1>1, <1>2, <1>3, <1>4
<1>6. y - f \in 1 .. Len(u) /\ u[y - f] = ns[y]
  BY <1>5, UnitIs
<1> QED
  BY <1>2, <1>6

LEMMA OneSet ==
  ASSUME NEW u, ~A!TwoSets(u), NEW kind \in {A!SPS, A!PPS},
         NEW x \in 1 .. Len(u), A!nal_type(u[x]) = kind,
         NEW y \in 1 .. Len(u), A!nal_type(u[y]) = kind
  PROVE  u[x] = u[y]
BY DEF A!TwoSets

\* A unit that does not end with an SPS has a PPS if it has an SPS.
LEMMA SetsTogether ==
  ASSUME NEW ns, NEW u, NEW f, NEW e, UnitOf(ns, u, f, e), Followed(ns),
         e > 0 => A!nal_type(ns[e]) # A!SPS,
         NEW x \in 1 .. Len(u), A!nal_type(u[x]) = A!SPS
  PROVE  \E y \in 1 .. Len(u) : A!nal_type(u[y]) = A!PPS
<1>1. f \in Nat /\ e \in Nat /\ Len(ns) \in Nat /\ e <= Len(ns)
  BY DEF UnitOf
<1>2. f + x \in f + 1 .. e /\ A!nal_type(ns[f + x]) = A!SPS
  BY UnitIs
<1> DEFINE y == f + x
<1>3. y \in f + 1 .. e /\ A!nal_type(ns[y]) = A!SPS
  BY <1>2
<1> HIDE DEF y
<1>4. y # e
  BY <1>1, <1>3
<1>5. y \in 1 .. Len(ns) - 1 /\ y + 1 \in f + 1 .. e
  BY <1>1, <1>3, <1>4
<1>6. A!nal_type(ns[y + 1]) = A!PPS
  BY <1>3, <1>5 DEF Followed
<1> QED
  <2>1. \A v \in f + 1 .. e : v - f \in 1 .. Len(u) /\ u[v - f] = ns[v]
    BY UnitIs
  <2>2. PICK v : v = y + 1
    OBVIOUS
  <2>3. v \in f + 1 .. e
    BY <1>5, <2>2
  <2>4. v - f \in 1 .. Len(u) /\ u[v - f] = ns[v]
    BY <2>1, <2>3
  <2> QED
    BY <1>6, <2>2, <2>4

\* What a unit with these first sets, or none, does to the muxer.
Takes(m, sps, pps, m2) ==
  /\ sps = <<>> /\ pps = <<>> => m2 = m
  /\ sps # <<>> /\ pps # <<>> => m2.sps = sps /\ m2.pps = pps /\ m2.init = <<sps, pps>>
  /\ sps = <<>> /\ pps # <<>> =>
       IF m.sps = <<>> THEN m2 = m
       ELSE m2.sps = m.sps /\ m2.pps = pps /\ m2.init = <<m.sps, pps>>

LEMMA TakesIs ==
  ASSUME NEW m, NEW u, NEW m2, m2 = A!on_access_unit(m, u)
  PROVE  Takes(m, A!FirstOf(A!SPS, u), A!FirstOf(A!PPS, u), m2)
BY DEF Takes, A!on_access_unit, A!set_parameter_sets

\* One unit later, of one pair of sets, the muxer has those in force then.
LEMMA MuxerStep ==
  ASSUME NEW ns, NEW u, NEW f, NEW e, UnitOf(ns, u, f, e), Followed(ns),
         e > 0 => A!nal_type(ns[e]) # A!SPS, ~A!TwoSets(u),
         NEW m, InForce(ns, f, m), NEW m2, m2 = A!on_access_unit(m, u)
  PROVE  InForce(ns, e, m2)
<1>1. PICK sps, pps : sps = A!FirstOf(A!SPS, u) /\ pps = A!FirstOf(A!PPS, u)
  OBVIOUS
<1>0. Takes(m, sps, pps, m2)
  BY <1>1, TakesIs
<1>2. u \in Seq(Nal) /\ f \in Nat /\ e \in Nat /\ f <= e /\ e \in f .. e /\ f \in f .. e
  BY DEF UnitOf
<1>3. \/ /\ sps = <<>>
         /\ \A x \in 1 .. Len(u) : A!nal_type(u[x]) # A!SPS
      \/ /\ sps # <<>>
         /\ \E x \in 1 .. Len(u) : sps = u[x] /\ A!nal_type(u[x]) = A!SPS
  BY <1>1, <1>2, FirstOfIs
<1>4. \/ /\ pps = <<>>
         /\ \A x \in 1 .. Len(u) : A!nal_type(u[x]) # A!PPS
      \/ /\ pps # <<>>
         /\ \E x \in 1 .. Len(u) : pps = u[x] /\ A!nal_type(u[x]) = A!PPS
  BY <1>1, <1>2, FirstOfIs
<1>5. ASSUME \A x \in 1 .. Len(u) : A!nal_type(u[x]) # A!SPS, HasSps(ns, e)
      PROVE  HasSps(ns, f)
  <2>1. PICK y \in 1 .. e : A!nal_type(ns[y]) = A!SPS
    BY <1>5 DEF HasSps
  <2>2. y \notin f + 1 .. e
    BY <1>5, <2>1, UnitIs
  <2>3. y \in 1 .. f
    BY <1>2, <2>1, <2>2
  <2> QED
    BY <2>1, <2>3 DEF HasSps
<1>6. ASSUME pps # <<>>, NEW z, LastSet(ns, A!PPS, z, e) PROVE pps = ns[z]
  <2>1. PICK x \in 1 .. Len(u) : pps = u[x] /\ A!nal_type(u[x]) = A!PPS
    BY <1>4, <1>6
  <2>2. PICK w \in 1 .. Len(u) : ns[z] = u[w] /\ A!nal_type(u[w]) = A!PPS
    BY <1>6, <2>1, SetInUnit
  <2> QED
    BY <2>1, <2>2, OneSet
<1>7. CASE sps # <<>>
  <2>1. PICK x \in 1 .. Len(u) : sps = u[x] /\ A!nal_type(u[x]) = A!SPS
    BY <1>3, <1>7
  <2>2. pps # <<>>
    BY <1>4, <2>1, SetsTogether
  <2>3. m2.sps = sps /\ m2.pps = pps /\ m2.init = <<sps, pps>>
    BY <1>0, <1>7, <2>2 DEF Takes
  <2>4. ASSUME NEW y, LastSet(ns, A!SPS, y, e) PROVE m2.sps = ns[y]
    <3>1. PICK w \in 1 .. Len(u) : ns[y] = u[w] /\ A!nal_type(u[w]) = A!SPS
      BY <2>1, <2>4, SetInUnit
    <3> QED
      BY <2>1, <2>3, <3>1, OneSet
  <2> QED
    BY <1>6, <1>7, <2>2, <2>3, <2>4 DEF InForce
<1>8. CASE sps = <<>> /\ pps # <<>>
  <2>1. \A x \in 1 .. Len(u) : A!nal_type(u[x]) # A!SPS
    BY <1>3, <1>8
  <2>2. IF m.sps = <<>> THEN m2 = m
        ELSE m2.sps = m.sps /\ m2.pps = pps /\ m2.init = <<m.sps, pps>>
    BY <1>0, <1>8 DEF Takes
  <2>3. ASSUME NEW y, LastSet(ns, A!SPS, y, e) PROVE m2.sps = ns[y]
    <3>1. LastSet(ns, A!SPS, y, f)
      BY <1>2, <2>1, <2>3, NoSet
    <3> QED
      BY <2>2, <3>1 DEF InForce
  <2>4. ASSUME HasSps(ns, e)
        PROVE  m2.sps # <<>> /\ m2.init = <<m2.sps, m2.pps>> /\ m2.pps = pps
    <3>1. HasSps(ns, f)
      BY <1>5, <2>1, <2>4
    <3>2. m.sps # <<>>
      BY <3>1 DEF InForce
    <3> QED
      BY <2>2, <3>2
  <2> QED
    BY <1>6, <1>8, <2>3, <2>4 DEF InForce
<1>9. CASE sps = <<>> /\ pps = <<>>
  <2>1. /\ \A x \in 1 .. Len(u) : A!nal_type(u[x]) # A!SPS
        /\ \A x \in 1 .. Len(u) : A!nal_type(u[x]) # A!PPS
    BY <1>3, <1>4, <1>9
  <2>2. m2 = m
    BY <1>0, <1>9 DEF Takes
  <2>3. \A y : LastSet(ns, A!SPS, y, e) => LastSet(ns, A!SPS, y, f)
    BY <1>2, <2>1, NoSet
  <2>4. \A z : LastSet(ns, A!PPS, z, e) => LastSet(ns, A!PPS, z, f)
    BY <1>2, <2>1, NoSet
  <2>5. HasSps(ns, e) => HasSps(ns, f)
    BY <1>5, <2>1
  <2> QED
    BY <2>2, <2>3, <2>4, <2>5 DEF InForce
<1> QED
  BY <1>7, <1>8, <1>9

LEMMA SameSet ==
  ASSUME NEW u, NEW set, ~A!OtherSet(u, set),
         NEW x \in 1 .. Len(u), A!nal_type(u[x]) = A!nal_type(set)
  PROVE  u[x] = set
BY DEF A!OtherSet

\* The init segment of a key picture, unless another set is in its unit, is made of
\* the sets that precede it.
LEMMA KeyIs ==
  ASSUME NEW ns, NEW u, NEW f, NEW e, UnitOf(ns, u, f, e), Followed(ns),
         e > 0 => A!nal_type(ns[e]) # A!SPS,
         NEW m, InForce(ns, f, m), NEW m2, m2 = A!on_access_unit(m, u),
         NEW k \in 1 .. Len(u), A!nal_type(u[k]) = A!IDR,
         NEW y, LastSet(ns, A!SPS, y, f + k), ~A!OtherSet(u, ns[y]),
         NEW z, LastSet(ns, A!PPS, z, f + k), ~A!OtherSet(u, ns[z])
  PROVE  A!KeyOf(m2, u) = <<ns[y], ns[z]>>
<1>1. PICK sps, pps : sps = A!FirstOf(A!SPS, u) /\ pps = A!FirstOf(A!PPS, u)
  OBVIOUS
<1>0. Takes(m, sps, pps, m2)
  BY <1>1, TakesIs
<1>2. u \in Seq(Nal) /\ f \in Nat /\ e \in Nat /\ f <= e
  BY DEF UnitOf
<1>3. \/ /\ sps = <<>>
         /\ \A x \in 1 .. Len(u) : A!nal_type(u[x]) # A!SPS
      \/ /\ sps # <<>>
         /\ \E x \in 1 .. Len(u) : sps = u[x] /\ A!nal_type(u[x]) = A!SPS
  BY <1>1, <1>2, FirstOfIs
<1>4. \/ /\ pps = <<>>
         /\ \A x \in 1 .. Len(u) : A!nal_type(u[x]) # A!PPS
      \/ /\ pps # <<>>
         /\ \E x \in 1 .. Len(u) : pps = u[x] /\ A!nal_type(u[x]) = A!PPS
  BY <1>1, <1>2, FirstOfIs
<1>5. A!KeyOf(m2, u) = m2.init
  <2>1. A!FirstOf(A!IDR, u) # <<>>
    BY <1>2, FirstOfIs
  <2> QED
    BY <2>1 DEF A!KeyOf
<1>6. A!nal_type(ns[y]) = A!SPS /\ A!nal_type(ns[z]) = A!PPS
  BY DEF LastSet
<1>7. sps # <<>> => sps = ns[y]
  BY <1>3, <1>6, SameSet
<1>8. pps # <<>> => pps = ns[z]
  BY <1>4, <1>6, SameSet
<1>9. f + k \in f .. e
  <2>1. f + k \in f + 1 .. e
    BY UnitIs
  <2> QED
    BY <1>2, <2>1
<1>10. CASE sps # <<>>
  <2>1. pps # <<>>
    BY <1>3, <1>4, <1>10, SetsTogether
  <2>2. m2.init = <<sps, pps>>
    BY <1>0, <1>10, <2>1 DEF Takes
  <2> QED
    BY <1>5, <1>7, <1>8, <1>10, <2>1, <2>2
<1>11. CASE sps = <<>>
  <2>1. \A x \in 1 .. Len(u) : A!nal_type(u[x]) # A!SPS
    BY <1>3, <1>11
  <2>2. LastSet(ns, A!SPS, y, f)
    BY <1>9, <2>1, NoSet
  <2>3. m.sps = ns[y]
    BY <2>2 DEF InForce
  <2>4. HasSps(ns, f)
    <3>1. y \in 1 .. f
      BY <1>2, <2>2 DEF LastSet
    <3> QED
      BY <1>6, <3>1 DEF HasSps
  <2>5. m.sps # <<>> /\ m.init = <<m.sps, m.pps>>
    BY <2>4 DEF InForce
  <2>6. CASE pps # <<>>
    <3>1. m2.init = <<m.sps, pps>>
      BY <1>0, <1>11, <2>5, <2>6 DEF Takes
    <3> QED
      BY <1>5, <1>8, <2>3, <2>6, <3>1
  <2>7. CASE pps = <<>>
    <3>1. \A x \in 1 .. Len(u) : A!nal_type(u[x]) # A!PPS
      BY <1>4, <2>7
    <3>2. LastSet(ns, A!PPS, z, f)
      BY <1>9, <3>1, NoSet
    <3>3. m.pps = ns[z]
      BY <2>4, <3>2 DEF InForce
    <3>4. m2 = m
      BY <1>0, <1>11, <2>7 DEF Takes
    <3> QED
      BY <1>5, <2>3, <2>5, <3>3, <3>4
  <2> QED
    BY <2>6, <2>7
<1> QED
  BY <1>10, <1>11

\* What precedes position n is in force whatever comes behind.
LEMMA LastSetGrows ==
  ASSUME NEW ns \in Seq(Nal), NEW nal \in Nal, NEW ms, Added(ns, nal, ms),
         NEW n \in Nat, n <= Len(ns), NEW kind, NEW y
  PROVE  /\ LastSet(ms, kind, y, n) <=> LastSet(ns, kind, y, n)
         /\ LastSet(ns, kind, y, n) => ms[y] = ns[y]
<1>1. /\ Len(ns) \in Nat /\ Len(ms) = Len(ns) + 1 /\ \A i \in 1 .. Len(ns) : ms[i] = ns[i]
  BY AddedIs
<1>2. ASSUME y \in 1 .. Len(ms), y <= n
      PROVE  /\ y \in 1 .. Len(ns) /\ ms[y] = ns[y]
             /\ \A z \in y + 1 .. n : ms[z] = ns[z]
  <2>1. y \in 1 .. Len(ns)
    BY <1>1, <1>2
  <2>2. \A z \in y + 1 .. n : z \in 1 .. Len(ns)
    BY <1>1, <2>1
  <2> QED
    BY <1>1, <2>1, <2>2
<1>3. y \in 1 .. Len(ns) => y \in 1 .. Len(ms)
  BY <1>1
<1> QED
  BY <1>1, <1>2, <1>3 DEF LastSet

LEMMA InForceGrows ==
  ASSUME NEW ns \in Seq(Nal), NEW nal \in Nal, NEW ms, Added(ns, nal, ms),
         NEW n \in Nat, n <= Len(ns), NEW m, InForce(ns, n, m)
  PROVE  InForce(ms, n, m)
<1>1. /\ Len(ns) \in Nat /\ \A i \in 1 .. Len(ns) : ms[i] = ns[i]
  BY AddedIs
<1>2. HasSps(ms, n) => HasSps(ns, n)
  <2>1. \A i \in 1 .. n : i \in 1 .. Len(ns)
    BY <1>1
  <2> QED
    BY <1>1, <2>1 DEF HasSps
<1>3. ASSUME NEW y, NEW kind, LastSet(ms, kind, y, n)
      PROVE  LastSet(ns, kind, y, n) /\ ms[y] = ns[y]
  BY <1>3, LastSetGrows
<1> QED
  BY <1>2, <1>3 DEF InForce

-----------------------------------------------------------------------------
(* A NAL more *)

Bytes == Seq(A!Byte)

MuxerOK(m) == m.sps \in Bytes /\ m.pps \in Bytes /\ m.init \in Seq(Bytes)

OneSetEach(us, n) == \A h \in 1 .. n : ~A!TwoSets(us[h])

\* As A!KeysMatchInit, of unit i.
KeyMatches(ns, us, es, key, i) ==
  \A k \in 1 .. Len(us[i]) :
    A!nal_type(us[i][k]) = A!IDR =>
      \A y, z :
        (/\ LastSet(ns, A!SPS, y, Start(es, i) + k) /\ ~A!OtherSet(us[i], ns[y])
         /\ LastSet(ns, A!PPS, z, Start(es, i) + k) /\ ~A!OtherSet(us[i], ns[z])) =>
          key = <<ns[y], ns[z]>>

Keyed(ns, us, es, ks) ==
  /\ ks \in Seq(Seq(Bytes)) /\ Len(ks) = Len(us)
  /\ \A i \in 1 .. Len(us) : OneSetEach(us, i) => KeyMatches(ns, us, es, ks[i], i)

\* The last NAL before g NALs were given up was no SPS.
NoSpsLost(ns, g) == Len(ns) = g /\ g > 0 => A!nal_type(ns[g]) # A!SPS

AssemblerInv(ns, us, es, u, v, m, ks, g) ==
  /\ Assembled(ns, us, es, u) /\ Followed(ns) /\ NoSpsLost(ns, g)
  /\ v \in BOOLEAN /\ (g = 0 => Pictured(us, u, v))
  /\ MuxerOK(m) /\ (OneSetEach(us, Len(us)) => InForce(ns, Start(es, Len(us) + 1), m))
  /\ Keyed(ns, us, es, ks)

\* A NAL that may follow, unless NALs were given up before it.
Fits(ns, nal, g) ==
  /\ Len(ns) > 0 /\ A!nal_type(ns[Len(ns)]) = A!SPS => A!nal_type(nal) = A!PPS
  /\ g = 0 /\ Len(ns) > 0 /\ A!IsSlice(nal) /\ ~A!First(nal) =>
       A!IsSlice(ns[Len(ns)]) /\ A!Picture(nal) = A!Picture(ns[Len(ns)])

LEMMA EmptyAssembler ==
  ASSUME NEW m, MuxerOK(m)
  PROVE  AssemblerInv(<<>>, <<>>, <<>>, <<>>, FALSE, m, <<>>, 0)
<1> DEFINE e == <<>>
<1>1. /\ e \in Seq(Nal) /\ e \in Seq(Seq(Nal)) /\ e \in Seq(Nat) /\ e \in Seq(Seq(Bytes))
      /\ Len(e) = 0
  OBVIOUS
<1> HIDE DEF e
<1>2. Start(e, Len(e) + 1) = 0
  BY <1>1 DEF Start
<1>3. Part(e, e, 0, 0)
  BY <1>1 DEF Part
<1>4. Assembled(e, e, e, e)
  BY <1>1, <1>2, <1>3 DEF Assembled
<1>5. Followed(e) /\ NoSpsLost(e, 0)
  BY <1>1 DEF Followed, NoSpsLost
<1>6. Pictured(e, e, FALSE)
  BY <1>1 DEF Pictured, HasSlice, A!OnePicture
<1>7. InForce(e, 0, m)
  BY <1>1 DEF InForce, LastSet, HasSps
<1>8. Keyed(e, e, e, e)
  BY <1>1 DEF Keyed
<1>9. AssemblerInv(e, e, e, e, FALSE, m, e, 0)
  BY <1>2, <1>4, <1>5, <1>6, <1>7, <1>8 DEF AssemblerInv
<1> QED
  BY <1>9 DEF e

LEMMA FollowedGrows ==
  ASSUME NEW ns \in Seq(Nal), NEW nal \in Nal, NEW ms, Added(ns, nal, ms),
         Followed(ns), NEW g \in Nat, g <= Len(ns), Fits(ns, nal, g)
  PROVE  Followed(ms) /\ NoSpsLost(ms, g)
<1>1. /\ Len(ns) \in Nat /\ Len(ms) = Len(ns) + 1 /\ ms[Len(ns) + 1] = nal
      /\ \A i \in 1 .. Len(ns) : ms[i] = ns[i]
  BY AddedIs
<1>2. ASSUME NEW y \in 1 .. Len(ms) - 1, A!nal_type(ms[y]) = A!SPS
      PROVE  A!nal_type(ms[y + 1]) = A!PPS
  <2>1. CASE y = Len(ns)
    <3>1. y \in 1 .. Len(ns) /\ Len(ns) > 0
      BY <1>1, <2>1
    <3>2. A!nal_type(ns[Len(ns)]) = A!SPS
      BY <1>1, <1>2, <2>1, <3>1
    <3> QED
      BY <1>1, <2>1, <3>1, <3>2 DEF Fits
  <2>2. CASE y # Len(ns)
    <3>1. y \in 1 .. Len(ns) - 1 /\ y \in 1 .. Len(ns) /\ y + 1 \in 1 .. Len(ns)
      BY <1>1, <2>2
    <3> QED
      BY <1>1, <1>2, <3>1 DEF Followed
  <2> QED
    BY <2>1, <2>2
<1>3. Len(ms) # g
  BY <1>1
<1> QED
  BY <1>2, <1>3 DEF Followed, NoSpsLost

\* The keys of before still match.
LEMMA KeysGrow ==
  ASSUME NEW ns, NEW us, NEW es, NEW u, Assembled(ns, us, es, u), NEW ks, Keyed(ns, us, es, ks),
         NEW nal \in Nal, NEW ms, Added(ns, nal, ms),
         NEW i \in 1 .. Len(us), OneSetEach(us, i)
  PROVE  KeyMatches(ms, us, es, ks[i], i)
<1>1. /\ ns \in Seq(Nal) /\ us \in Seq(Seq(Nal)) /\ es \in Seq(Nat) /\ Len(es) = Len(us)
      /\ Part(ns, us[i], Start(es, i), es[i]) /\ Ends(ns, es[i])
  BY DEF Assembled
<1>2. i \in 1 .. Len(es) + 1 /\ es[i] \in Nat /\ us[i] \in Seq(Nal)
  BY <1>1
<1>3. Start(es, i) \in Nat
  BY <1>1, <1>2, StartIs
<1>4. KeyMatches(ns, us, es, ks[i], i)
  BY DEF Keyed
<1>5. SUFFICES ASSUME NEW k \in 1 .. Len(us[i]), A!nal_type(us[i][k]) = A!IDR, NEW y, NEW z,
                      LastSet(ms, A!SPS, y, Start(es, i) + k), ~A!OtherSet(us[i], ms[y]),
                      LastSet(ms, A!PPS, z, Start(es, i) + k), ~A!OtherSet(us[i], ms[z])
               PROVE  ks[i] = <<ms[y], ms[z]>>
  BY DEF KeyMatches
<1> DEFINE n == Start(es, i) + k
<1>6. n \in Nat /\ n <= Len(ns)
  <2>1. Len(us[i]) = es[i] - Start(es, i) /\ es[i] < Len(ns) /\ Len(ns) \in Nat
    BY <1>1 DEF Part, Ends
  <2> HIDE DEF n
  <2>2. n = Start(es, i) + k
    BY DEF n
  <2> QED
    BY <1>2, <1>3, <2>1, <2>2
<1>7. LastSet(ms, A!SPS, y, n) /\ LastSet(ms, A!PPS, z, n)
  BY <1>5
<1> HIDE DEF n
<1>8. /\ LastSet(ns, A!SPS, y, n) /\ ms[y] = ns[y]
      /\ LastSet(ns, A!PPS, z, n) /\ ms[z] = ns[z]
  BY <1>1, <1>6, <1>7, LastSetGrows
<1> QED
  BY <1>4, <1>5, <1>8 DEF KeyMatches, n

\* A NAL for the unit in work.
LEMMA PushAdds ==
  ASSUME NEW ns, NEW us, NEW es, NEW u, NEW v, NEW m, NEW ks, NEW g \in Nat, g <= Len(ns),
         AssemblerInv(ns, us, es, u, v, m, ks, g),
         NEW nal \in Nal, Fits(ns, nal, g), ~(A!IsSlice(nal) /\ v /\ A!First(nal)),
         NEW ms, Added(ns, nal, ms), NEW w, Added(u, nal, w)
  PROVE  AssemblerInv(ms, us, es, w, v \/ A!IsSlice(nal), m, ks, g)
<1>1. /\ Assembled(ns, us, es, u) /\ Followed(ns) /\ v \in BOOLEAN
      /\ (g = 0 => Pictured(us, u, v)) /\ MuxerOK(m)
      /\ (OneSetEach(us, Len(us)) => InForce(ns, Start(es, Len(us) + 1), m))
      /\ Keyed(ns, us, es, ks)
  BY DEF AssemblerInv
<1>2. /\ ns \in Seq(Nal) /\ u \in Seq(Nal) /\ es \in Seq(Nat) /\ us \in Seq(Seq(Nal))
      /\ Len(es) = Len(us) /\ Part(ns, u, Start(es, Len(us) + 1), Len(ns))
  BY <1>1 DEF Assembled
<1>3. Assembled(ms, us, es, w)
  BY <1>1, NalAdded
<1>4. Followed(ms) /\ NoSpsLost(ms, g)
  BY <1>1, <1>2, FollowedGrows
<1>5. g = 0 => Pictured(us, w, v \/ A!IsSlice(nal))
  <2> SUFFICES ASSUME g = 0 PROVE Pictured(us, w, v \/ A!IsSlice(nal))
    OBVIOUS
  <2>1. ASSUME A!IsSlice(nal), v
        PROVE  /\ Len(u) > 0 /\ A!IsSlice(u[Len(u)])
               /\ A!Picture(nal) = A!Picture(u[Len(u)])
    <3>1. HasSlice(u) /\ ~A!First(nal)
      BY <1>1, <2>1 DEF Pictured
    <3>2. Len(ns) > 0
      <4>1. Len(u) = Len(ns) - Start(es, Len(us) + 1) /\ Start(es, Len(us) + 1) \in Nat
        BY <1>2, StartIs DEF Part
      <4>2. Len(u) \in Nat /\ Len(ns) \in Nat /\ Len(u) # 0
        BY <1>2, <3>1 DEF HasSlice
      <4> QED
        BY <4>1, <4>2
    <3>3. Len(u) \in Nat \ {0} /\ u[Len(u)] = ns[Len(ns)]
      BY <1>1, <3>2, LastIs
    <3> QED
      BY <2>1, <3>1, <3>2, <3>3 DEF Fits
  <2> QED
    BY <1>1, <1>2, <2>1, PictureAdded
<1>6. ASSUME OneSetEach(us, Len(us)) PROVE InForce(ms, Start(es, Len(us) + 1), m)
  <2> DEFINE f == Start(es, Len(us) + 1)
  <2>1. f \in Nat /\ InForce(ns, f, m)
    BY <1>1, <1>2, <1>6, StartIs
  <2>2. Len(u) = Len(ns) - f /\ Len(u) \in Nat /\ Len(ns) \in Nat
    BY <1>2 DEF Part
  <2> HIDE DEF f
  <2>3. f <= Len(ns)
    BY <2>1, <2>2
  <2>4. InForce(ms, f, m)
    BY <1>2, <2>1, <2>3, InForceGrows
  <2> QED
    BY <2>4 DEF f
<1>7. Keyed(ms, us, es, ks)
  BY <1>1, KeysGrow DEF Keyed
<1>8. (v \/ A!IsSlice(nal)) \in BOOLEAN
  BY <1>1 DEF A!IsSlice
<1> QED
  BY <1>1, <1>3, <1>4, <1>5, <1>6, <1>7, <1>8 DEF AssemblerInv

LEMMA SetsAreBytes ==
  ASSUME NEW m, MuxerOK(m), NEW u \in Seq(Nal)
  PROVE  /\ MuxerOK(A!on_access_unit(m, u))
         /\ A!KeyOf(A!on_access_unit(m, u), u) \in Seq(Bytes)
<1> DEFINE m2 == A!on_access_unit(m, u)
<1>1. PICK sps, pps : sps = A!FirstOf(A!SPS, u) /\ pps = A!FirstOf(A!PPS, u)
  OBVIOUS
<1>2. <<>> \in Bytes /\ \A x \in 1 .. Len(u) : u[x] \in Bytes
  BY DEF Bytes, Nal
<1>3. sps \in Bytes /\ pps \in Bytes
  BY <1>1, <1>2, FirstOfIs
<1>4. Takes(m, sps, pps, m2)
  BY <1>1, TakesIs
<1>5. m.sps \in Bytes /\ m.pps \in Bytes /\ m.init \in Seq(Bytes)
  BY DEF MuxerOK
<1>7. MuxerOK(m2)
  <2>1. CASE sps # <<>> /\ pps = <<>>
    <3>1. m2 = IF m.pps = <<>> THEN m
               ELSE [sps |-> sps, pps |-> m.pps, init |-> <<sps, m.pps>>]
      BY <1>1, <2>1 DEF A!on_access_unit, A!set_parameter_sets
    <3>2. <<sps, m.pps>> \in Seq(Bytes)
      BY <1>3, <1>5
    <3>3. CASE m.pps = <<>>
      BY <3>1, <3>3
    <3>4. CASE m.pps # <<>>
      <4>1. m2.sps = sps /\ m2.pps = m.pps /\ m2.init = <<sps, m.pps>>
        BY <3>1, <3>4
      <4> QED
        BY <1>3, <1>5, <3>2, <4>1 DEF MuxerOK
    <3> QED
      BY <3>3, <3>4
  <2>2. CASE sps # <<>> /\ pps # <<>>
    <3>1. <<sps, pps>> \in Seq(Bytes)
      BY <1>3
    <3>2. m2.sps = sps /\ m2.pps = pps /\ m2.init = <<sps, pps>>
      BY <1>4, <2>2 DEF Takes
    <3> QED
      BY <1>3, <3>1, <3>2 DEF MuxerOK
  <2>3. CASE sps = <<>> /\ pps = <<>>
    <3>1. m2 = m
      BY <1>4, <2>3 DEF Takes
    <3> QED
      BY <3>1
  <2>4. CASE sps = <<>> /\ pps # <<>>
    <3>1. <<m.sps, pps>> \in Seq(Bytes)
      BY <1>3, <1>5
    <3>2. CASE m.sps = <<>>
      <4>1. m2 = m
        BY <1>4, <2>4, <3>2 DEF Takes
      <4> QED
        BY <4>1
    <3>3. CASE m.sps # <<>>
      <4>1. m2.sps = m.sps /\ m2.pps = pps /\ m2.init = <<m.sps, pps>>
        BY <1>4, <2>4, <3>3 DEF Takes
      <4> QED
        BY <1>3, <1>5, <3>1, <4>1 DEF MuxerOK
    <3> QED
      BY <3>2, <3>3
  <2> QED
    BY <2>1, <2>2, <2>3, <2>4
<1> HIDE DEF m2
<1>8. A!KeyOf(m2, u) \in Seq(Bytes)
  <2>1. <<>> \in Seq(Bytes)
    OBVIOUS
  <2> QED
    BY <1>7, <2>1 DEF A!KeyOf, MuxerOK
<1> QED
  BY <1>7, <1>8 DEF m2

\* A NAL that ends the unit in work and begins the next.
LEMMA PushEnds ==
  ASSUME NEW ns, NEW us, NEW es, NEW u, NEW v, NEW m, NEW ks, NEW g \in Nat, g <= Len(ns),
         AssemblerInv(ns, us, es, u, v, m, ks, g),
         NEW nal \in Nal, Fits(ns, nal, g), A!nal_type(nal) \in {A!AUD, A!IDR, A!NON_IDR},
         NEW ms, Added(ns, nal, ms), NEW ts, Added(us, u, ts), NEW fs, Added(es, Len(ns), fs),
         NEW m2, m2 = A!on_access_unit(m, u), NEW ls, Added(ks, A!KeyOf(m2, u), ls)
  PROVE  AssemblerInv(ms, ts, fs, <<nal>>, A!IsSlice(nal), m2, ls, g)
<1> DEFINE f == Start(es, Len(us) + 1)
           e == Len(ns)
<1>1. /\ Assembled(ns, us, es, u) /\ Followed(ns)
      /\ (g = 0 => Pictured(us, u, v)) /\ MuxerOK(m)
      /\ (OneSetEach(us, Len(us)) => InForce(ns, f, m))
      /\ Keyed(ns, us, es, ks)
  BY DEF AssemblerInv
<1>2. /\ ns \in Seq(Nal) /\ u \in Seq(Nal) /\ es \in Seq(Nat) /\ us \in Seq(Seq(Nal))
      /\ Len(es) = Len(us) /\ Part(ns, u, f, e)
  BY <1>1 DEF Assembled
<1>3. /\ Assembled(ms, ts, fs, <<nal>>) /\ Start(fs, Len(ts) + 1) = e
      /\ \A i \in 1 .. Len(us) + 1 : Start(fs, i) = Start(es, i)
  BY <1>1, UnitEnded
<1>4. Followed(ms) /\ NoSpsLost(ms, g)
  BY <1>1, <1>2, FollowedGrows
<1>5. g = 0 => Pictured(ts, <<nal>>, A!IsSlice(nal))
  BY <1>1, <1>2, PictureBegins
<1>6. UnitOf(ns, u, f, e)
  <2>1. f \in Nat /\ e \in Nat /\ Len(u) \in Nat
    BY <1>2, StartIs
  <2>2. Len(u) = e - f
    BY <1>2 DEF Part
  <2> HIDE DEF f, e
  <2>3. f <= e /\ e <= e
    BY <2>1, <2>2
  <2> QED
    BY <1>2, <2>1, <2>3 DEF UnitOf, e
<1>7. e > 0 => A!nal_type(ns[e]) # A!SPS
  BY Kinds DEF Fits
<1>8. /\ Len(us) \in Nat /\ Len(ts) = Len(us) + 1
      /\ (\A i \in 1 .. Len(us) : ts[i] = us[i]) /\ ts[Len(us) + 1] = u
  <2> DEFINE S == Seq(Nal)
  <2>1. us \in Seq(S) /\ u \in S
    BY <1>2
  <2> HIDE DEF S
  <2> QED
    BY <2>1, AddedIs
<1>9. MuxerOK(m2) /\ A!KeyOf(m2, u) \in Seq(Bytes)
  BY <1>1, <1>2, SetsAreBytes
<1>10. /\ ls \in Seq(Seq(Bytes)) /\ Len(ls) = Len(us) + 1
       /\ (\A i \in 1 .. Len(us) : ls[i] = ks[i]) /\ ls[Len(us) + 1] = A!KeyOf(m2, u)
  <2> DEFINE S == Seq(Bytes)
  <2>1. PICK key : key = A!KeyOf(m2, u)
    OBVIOUS
  <2>2. ks \in Seq(S) /\ key \in S /\ Len(ks) = Len(us) /\ Added(ks, key, ls)
    BY <1>1, <1>9, <2>1 DEF Keyed
  <2> HIDE DEF S
  <2>3. /\ ls \in Seq(S) /\ Len(ls) = Len(ks) + 1
        /\ (\A i \in 1 .. Len(ks) : ls[i] = ks[i]) /\ ls[Len(ks) + 1] = key
    BY <2>2, AddedIs
  <2> QED
    BY <2>1, <2>2, <2>3 DEF S
<1>11. ASSUME NEW n \in 1 .. Len(us), OneSetEach(ts, n) PROVE OneSetEach(us, n)
  <2>1. \A h \in 1 .. n : h \in 1 .. Len(us)
    BY <1>8
  <2> QED
    BY <1>8, <1>11, <2>1 DEF OneSetEach
<1>12. ASSUME OneSetEach(ts, Len(us) + 1)
       PROVE  OneSetEach(us, Len(us)) /\ ~A!TwoSets(u) /\ InForce(ns, f, m)
  <2>1. \A h \in 1 .. Len(us) : h \in 1 .. Len(us) + 1
    BY <1>8
  <2>2. Len(us) + 1 \in 1 .. Len(us) + 1
    BY <1>8
  <2> QED
    BY <1>1, <1>8, <1>12, <2>1, <2>2 DEF OneSetEach
<1>13. OneSetEach(ts, Len(ts)) => InForce(ms, Start(fs, Len(ts) + 1), m2)
  <2> SUFFICES ASSUME OneSetEach(ts, Len(us) + 1) PROVE InForce(ms, e, m2)
    BY <1>3, <1>8
  <2>1. ~A!TwoSets(u) /\ InForce(ns, f, m)
    BY <1>12
  <2>2. InForce(ns, e, m2)
    BY <1>1, <1>6, <1>7, <2>1, MuxerStep
  <2>3. e \in Nat /\ e <= Len(ns)
    BY <1>2
  <2> HIDE DEF e
  <2> QED
    BY <1>2, <2>2, <2>3, InForceGrows
<1>14. ASSUME NEW i \in 1 .. Len(us), OneSetEach(ts, i)
       PROVE  KeyMatches(ms, ts, fs, ls[i], i)
  <2>1. KeyMatches(ms, us, es, ks[i], i)
    BY <1>1, <1>11, <1>14, KeysGrow
  <2>2. ts[i] = us[i] /\ ls[i] = ks[i] /\ Start(fs, i) = Start(es, i)
    <3>1. i \in 1 .. Len(us) + 1
      BY <1>8
    <3> QED
      BY <1>3, <1>8, <1>10, <3>1
  <2> QED
    BY <2>1, <2>2 DEF KeyMatches
<1>15. ASSUME OneSetEach(ts, Len(us) + 1)
       PROVE  KeyMatches(ms, ts, fs, A!KeyOf(m2, u), Len(us) + 1)
  <2>1. Start(fs, Len(us) + 1) = f /\ ts[Len(us) + 1] = u
    <3>1. Len(us) + 1 \in 1 .. Len(us) + 1
      BY <1>8
    <3> QED
      BY <1>3, <1>8, <3>1
  <2>2. SUFFICES ASSUME NEW k \in 1 .. Len(u), A!nal_type(u[k]) = A!IDR, NEW y, NEW z,
                        LastSet(ms, A!SPS, y, f + k), ~A!OtherSet(u, ms[y]),
                        LastSet(ms, A!PPS, z, f + k), ~A!OtherSet(u, ms[z])
                 PROVE  A!KeyOf(m2, u) = <<ms[y], ms[z]>>
    BY <2>1 DEF KeyMatches
  <2>3. InForce(ns, f, m)
    BY <1>12, <1>15
  <2> DEFINE n == f + k
  <2>4. n \in Nat /\ n <= Len(ns)
    <3>1. n \in f + 1 .. e
      BY <1>6, UnitIs
    <3>2. f \in Nat /\ e \in Nat
      BY <1>6 DEF UnitOf
    <3> HIDE DEF f, n, e
    <3> QED
      BY <3>1, <3>2 DEF e
  <2>5. LastSet(ms, A!SPS, y, n) /\ LastSet(ms, A!PPS, z, n)
    BY <2>2
  <2> HIDE DEF n
  <2>6. /\ LastSet(ns, A!SPS, y, n) /\ ms[y] = ns[y]
        /\ LastSet(ns, A!PPS, z, n) /\ ms[z] = ns[z]
    BY <1>2, <2>4, <2>5, LastSetGrows
  <2>7. LastSet(ns, A!SPS, y, f + k) /\ LastSet(ns, A!PPS, z, f + k)
    BY <2>6 DEF n
  <2>8. ~A!OtherSet(u, ns[y]) /\ ~A!OtherSet(u, ns[z])
    BY <2>2, <2>6
  <2> HIDE DEF f, e
  <2>9. A!KeyOf(m2, u) = <<ns[y], ns[z]>>
    BY <1>1, <1>6, <1>7, <2>2, <2>3, <2>7, <2>8, KeyIs
  <2> QED
    BY <2>6, <2>9
<1>16. Keyed(ms, ts, fs, ls)
  <2>1. ASSUME NEW i \in 1 .. Len(ts), OneSetEach(ts, i)
        PROVE  KeyMatches(ms, ts, fs, ls[i], i)
    <3>1. i \in 1 .. Len(us) \/ i = Len(us) + 1
      BY <1>8
    <3> QED
      BY <1>10, <1>14, <1>15, <2>1, <3>1
  <2> QED
    BY <1>8, <1>10, <2>1 DEF Keyed
<1>17. A!IsSlice(nal) \in BOOLEAN
  BY DEF A!IsSlice
<1> QED
  BY <1>3, <1>4, <1>5, <1>9, <1>13, <1>16, <1>17 DEF AssemblerInv

-----------------------------------------------------------------------------
(* The inductive invariant of the byte stream *)

ParserInv ==
  \E lo : /\ Progress(source, at, parser, join, nals, given, lo)
          /\ ~parsing => NotYet(source, at, lo + (Len(nals) - given))

AssemblyInv == AssemblerInv(nals, units, ends, au, has_vcl, muxer, keys, given)

ByteStreamInv ==
  /\ source \in Sources /\ parsing \in BOOLEAN /\ resets \in 0 .. MaxResets
  /\ ~parsing => Len(parser) <= MaxBuffer
  /\ ParserInv /\ AssemblyInv

LEMMA SourceIs ==
  ASSUME A!AnnexAssumption, NEW s \in Sources
  PROVE  A!IsByteStream(s) /\ A!IsVideo(s.nals)
BY DEF A!AnnexAssumption, A!IsStream

LEMMA BoundsAre ==
  ASSUME A!AnnexAssumption
  PROVE  /\ MaxChunk \in Nat \ {0} /\ MaxResets \in Nat
         /\ MaxBuffer \in Nat /\ 3 < MaxBuffer
BY DEF A!AnnexAssumption

\* The last NAL is the one before the next, unless it was before the join.
LEMMA LastMatched ==
  ASSUME NEW s, NEW n, NEW ns, NEW g, NEW lo \in Nat, Matched(s, n, ns, g, lo), Len(ns) # g,
         NEW p, p = lo + (Len(ns) - g)
  PROVE  p \in Nat \ {0} /\ ns[Len(ns)] = s.nals[p]
<1>1. /\ Len(ns) \in Nat /\ g \in 0 .. Len(ns)
      /\ \A x \in 1 .. Len(ns) - g : ns[g + x] = s.nals[lo + x]
  BY DEF Matched
<1> DEFINE k == Len(ns) - g
<1>2. k \in 1 .. Len(ns) - g /\ g + k = Len(ns) /\ p = lo + k /\ p \in Nat \ {0}
  BY <1>1
<1> HIDE DEF k
<1> QED
  BY <1>1, <1>2

LEMMA NextFits ==
  ASSUME NEW s, A!IsVideo(s.nals), NEW n, NEW ns, NEW g, NEW lo \in Nat,
         Matched(s, n, ns, g, lo), NoSpsLost(ns, g),
         NEW p, p = lo + (Len(ns) - g), p + 1 < Count(s), Count(s) \in Nat
  PROVE  Fits(ns, s.nals[p + 1], g)
<1>1. Len(ns) \in Nat /\ g \in 0 .. Len(ns)
  BY DEF Matched
<1>2. CASE Len(ns) = g
  <2>1. Len(ns) > 0 => A!nal_type(ns[Len(ns)]) # A!SPS
    BY <1>2 DEF NoSpsLost
  <2>2. ~(g = 0 /\ Len(ns) > 0)
    BY <1>1, <1>2
  <2> QED
    BY <2>1, <2>2 DEF Fits
<1>3. CASE Len(ns) # g
  <2>1. p \in Nat \ {0} /\ ns[Len(ns)] = s.nals[p]
    BY <1>3, LastMatched
  <2>2. /\ p \in 1 .. Len(s.nals) /\ p + 1 \in 1 .. Len(s.nals)
        /\ p < Len(s.nals) /\ p + 1 > 1 /\ p + 1 - 1 = p
    BY <2>1 DEF Count
  <2>3. A!nal_type(s.nals[p]) = A!SPS => A!nal_type(s.nals[p + 1]) = A!PPS
    BY <2>2 DEF A!IsVideo
  <2>4. A!IsSlice(s.nals[p + 1]) /\ ~A!First(s.nals[p + 1]) =>
          A!IsSlice(s.nals[p]) /\ A!Picture(s.nals[p + 1]) = A!Picture(s.nals[p])
    <3> DEFINE i == p + 1
    <3>1. i \in 1 .. Len(s.nals) /\ i > 1 /\ i - 1 = p
      BY <2>2
    <3> HIDE DEF i
    <3>2. A!IsSlice(s.nals[i]) /\ ~A!First(s.nals[i]) =>
            A!IsSlice(s.nals[p]) /\ A!Picture(s.nals[i]) = A!Picture(s.nals[p])
      BY <3>1 DEF A!IsVideo
    <3> QED
      BY <3>2 DEF i
  <2> QED
    BY <2>1, <2>3, <2>4 DEF Fits
<1> QED
  BY <1>2, <1>3

\* A PPS is never given up, so no SPS before the join is without its own.
LEMMA NoSpsGivenUp ==
  ASSUME NEW s, A!IsVideo(s.nals), NEW n, NEW al, NEW ns, NEW g, NEW lo \in Nat,
         Matched(s, n, ns, g, lo), NoSpsLost(ns, g),
         NEW p, p = lo + (Len(ns) - g), NEW l, Begun(s, n, al, p, l), NotYet(s, n, p),
         Len(al) > MaxBuffer, MaxBuffer \in Nat
  PROVE  NoSpsLost(ns, Len(ns))
<1> SUFFICES ASSUME Len(ns) > 0, A!nal_type(ns[Len(ns)]) = A!SPS PROVE FALSE
  BY DEF NoSpsLost
<1>1. Len(ns) # g
  BY DEF NoSpsLost
<1>2. p \in Nat \ {0} /\ ns[Len(ns)] = s.nals[p]
  BY <1>1, LastMatched
<1>3. Len(al) <= Size(s, p + 1) + 7 /\ p + 1 \in 1 .. Count(s)
  BY GivenUpIs
<1>4. Reads(s, n, al, p)
  BY BegunIs
<1>5. Len(al) \in Nat /\ Count(s) \in Nat /\ Size(s, p + 1) \in Nat
  BY <1>3, <1>4, ReadsIs
<1>6. p \in 1 .. Len(s.nals) /\ p < Len(s.nals)
  BY <1>2, <1>3, <1>5 DEF Count
<1>7. Len(s.nals[p + 1]) + 7 <= MaxBuffer
  BY <1>2, <1>6 DEF A!IsVideo
<1>8. Size(s, p + 1) + 7 <= MaxBuffer
  BY <1>7 DEF Size
<1> QED
  BY <1>3, <1>5, <1>8

LEMMA InitStream ==
  ASSUME A!AnnexAssumption, A!Init
  PROVE  ByteStreamInv
<1>1. /\ source \in Sources /\ at = 0 /\ parsing = FALSE /\ parser = <<>> /\ au = <<>>
      /\ has_vcl = FALSE /\ muxer = [sps |-> <<>>, pps |-> <<>>, init |-> <<>>]
      /\ join = 0 /\ given = 0 /\ nals = <<>> /\ units = <<>> /\ ends = <<>> /\ keys = <<>>
      /\ resets = 0
  BY DEF A!Init
<1>2. A!IsByteStream(source)
  BY <1>1, SourceIs
<1>3. 0 \in 0 .. Len(source.bytes) /\ <<>> \in Seq(Seq(A!Byte)) /\ 0 = Len(<<>>)
  BY <1>2, StreamIs
<1>4. \E lo : /\ Progress(source, 0, <<>>, 0, <<>>, 0, lo)
              /\ NotYet(source, 0, lo + (Len(<<>>) - 0))
  BY <1>2, <1>3, ProgressAnew
<1>5. ParserInv
  BY <1>1, <1>4 DEF ParserInv
<1>6. MuxerOK(muxer)
  BY <1>1 DEF MuxerOK, Bytes
<1>7. AssemblyInv
  BY <1>1, <1>6, EmptyAssembler DEF AssemblyInv
<1>8. Len(parser) <= MaxBuffer /\ resets \in 0 .. MaxResets
  BY <1>1, BoundsAre
<1> QED
  BY <1>1, <1>5, <1>7, <1>8 DEF ByteStreamInv

LEMMA ParseStep ==
  ASSUME A!AnnexAssumption, ByteStreamInv, NEW k \in 1 .. MaxChunk, A!Parse(k)
  PROVE  ByteStreamInv'
<1>1. /\ ~parsing /\ at + k <= Len(source.bytes) /\ at' = at + k
      /\ parser' = parser \o SubSeq(source.bytes, at + 1, at + k) /\ parsing' = TRUE
      /\ UNCHANGED <<source, join, given, resets>>
      /\ UNCHANGED <<au, has_vcl, muxer, nals, units, ends, keys>>
  BY DEF A!Parse, A!assembler
<1>2. PICK lo : Progress(source, at, parser, join, nals, given, lo)
  BY DEF ByteStreamInv, ParserInv
<1>3. k \in Nat \ {0}
  BY BoundsAre
<1>4. Joined(parser, SubSeq(source.bytes, at + 1, at + k), parser')
  BY <1>1 DEF Joined
<1>5. Progress(source, at', parser', join, nals, given, lo)
  BY <1>1, <1>2, <1>3, <1>4, ProgressParse
<1>6. ParserInv'
  BY <1>1, <1>5 DEF ParserInv
<1>7. AssemblyInv'
  BY <1>1 DEF ByteStreamInv, AssemblyInv
<1> QED
  BY <1>1, <1>6, <1>7 DEF ByteStreamInv

LEMMA SkipStep ==
  ASSUME A!AnnexAssumption, ByteStreamInv, A!Skip
  PROVE  ByteStreamInv'
<1>1. /\ A!NextStart(parser, 1) = 0 /\ parser' = A!Keep(parser) /\ parsing' = FALSE
      /\ UNCHANGED <<source, at, join, given, resets>>
      /\ UNCHANGED <<au, has_vcl, muxer, nals, units, ends, keys>>
  BY DEF A!Skip, A!assembler
<1>2. PICK lo : Progress(source, at, parser, join, nals, given, lo)
  BY DEF ByteStreamInv, ParserInv
<1>3. /\ Progress(source, at, parser', join, nals, given, lo)
      /\ NotYet(source, at, lo + (Len(nals) - given)) /\ Len(parser') <= 3
  BY <1>1, <1>2, ProgressSkip
<1>4. ParserInv'
  BY <1>1, <1>3 DEF ParserInv
<1>5. AssemblyInv'
  BY <1>1 DEF ByteStreamInv, AssemblyInv
<1>6. Len(parser') <= MaxBuffer
  <2>1. parser' \in Seq(Int)
    BY <1>3, ReadsIs DEF Progress
  <2>2. Len(parser') \in Nat
    BY <2>1
  <2> QED
    BY <1>3, <2>2, BoundsAre
<1> QED
  BY <1>1, <1>4, <1>5, <1>6 DEF ByteStreamInv

LEMMA WaitStep ==
  ASSUME A!AnnexAssumption, ByteStreamInv, A!Wait
  PROVE  ByteStreamInv'
<1>1. /\ A!NextStart(parser, 1) # 0 /\ A!Next2 = 0 /\ parsing' = FALSE
      /\ IF Len(A!Aligned) > MaxBuffer
           THEN parser' = <<>> /\ join' = at /\ given' = Len(nals)
           ELSE parser' = A!Aligned /\ UNCHANGED <<join, given>>
      /\ UNCHANGED <<source, at, resets>>
      /\ UNCHANGED <<au, has_vcl, muxer, nals, units, ends, keys>>
  BY DEF A!Wait, A!assembler
<1>2. PICK lo : Progress(source, at, parser, join, nals, given, lo)
  BY DEF ByteStreamInv, ParserInv
<1>3. PICK al : al = A!Aligned
  OBVIOUS
<1>4. PICK p, l : p = lo + (Len(nals) - given) /\ l = A!StartLen(al)
  OBVIOUS
<1>5. al = A!From(parser, A!NextStart(parser, 1)) /\ A!NextStart(al, l + 1) = 0
  BY <1>1, <1>3, <1>4 DEF A!Aligned, A!Next2
<1>6. Progress(source, at, al, join, nals, given, lo) /\ Begun(source, at, al, p, l)
  BY <1>1, <1>2, <1>4, <1>5, ProgressBegun
<1>7. NotYet(source, at, p)
  BY <1>5, <1>6, NoNext
<1>8. CASE Len(al) > MaxBuffer
  <2>1. parser' = <<>> /\ join' = at /\ given' = Len(nals)
    BY <1>1, <1>3, <1>8
  <2>2. A!IsByteStream(source) /\ A!IsVideo(source.nals)
    BY SourceIs DEF ByteStreamInv
  <2>3. at \in 0 .. Len(source.bytes)
    BY <1>2 DEF Progress, Reads
  <2>4. lo \in Nat /\ Matched(source, at, nals, given, lo)
    BY <1>2 DEF Progress
  <2>5. nals \in Seq(Seq(A!Byte)) /\ given \in 0 .. Len(nals)
    BY <2>4 DEF Matched
  <2>6. \E lo2 : /\ Progress(source, at, <<>>, at, nals, Len(nals), lo2)
                 /\ NotYet(source, at, lo2 + (Len(nals) - Len(nals)))
    BY <2>2, <2>3, <2>5, ProgressAnew
  <2>7. ParserInv'
    BY <1>1, <2>1, <2>6 DEF ParserInv
  <2>8. AssemblerInv(nals, units, ends, au, has_vcl, muxer, keys, given)
    BY DEF ByteStreamInv, AssemblyInv
  <2>9. NoSpsLost(nals, Len(nals))
    BY <1>4, <1>6, <1>7, <1>8, <2>2, <2>4, <2>8, NoSpsGivenUp, BoundsAre DEF AssemblerInv
  <2>10. Len(nals) = 0 => given = 0
    BY <2>5
  <2>11. AssemblerInv(nals, units, ends, au, has_vcl, muxer, keys, Len(nals))
    BY <2>8, <2>9, <2>10 DEF AssemblerInv
  <2>12. AssemblyInv'
    BY <1>1, <2>1, <2>11 DEF AssemblyInv
  <2>13. Len(parser') <= MaxBuffer
    BY <2>1, BoundsAre
  <2> QED
    BY <1>1, <2>7, <2>12, <2>13 DEF ByteStreamInv
<1>9. CASE ~(Len(al) > MaxBuffer)
  <2>1. parser' = al /\ UNCHANGED <<join, given>>
    BY <1>1, <1>3, <1>9
  <2>2. ParserInv'
    BY <1>1, <1>4, <1>6, <1>7, <2>1 DEF ParserInv
  <2>3. AssemblyInv'
    BY <1>1, <2>1 DEF ByteStreamInv, AssemblyInv
  <2>4. Len(parser') <= MaxBuffer
    <3>1. Reads(source, at, al, p)
      BY <1>6, BegunIs
    <3>2. Len(al) \in Nat
      BY <3>1, ReadsIs
    <3> QED
      BY <1>9, <2>1, <3>2, BoundsAre
  <2> QED
    BY <1>1, <2>2, <2>3, <2>4 DEF ByteStreamInv
<1> QED
  BY <1>8, <1>9

LEMMA ResetStep ==
  ASSUME A!AnnexAssumption, ByteStreamInv, NEW k \in 0 .. MaxChunk, A!Reset(k)
  PROVE  ByteStreamInv'
<1>1. /\ ~parsing /\ resets < MaxResets /\ at + k <= Len(source.bytes)
      /\ resets' = resets + 1 /\ at' = at + k /\ join' = at' /\ given' = 0
      /\ parser' = <<>> /\ au' = <<>> /\ has_vcl' = FALSE
      /\ nals' = <<>> /\ units' = <<>> /\ ends' = <<>> /\ keys' = <<>>
      /\ UNCHANGED <<source, parsing, muxer>>
  BY DEF A!Reset
<1>2. A!IsByteStream(source)
  BY SourceIs DEF ByteStreamInv
<1>3. PICK lo : Progress(source, at, parser, join, nals, given, lo)
  BY DEF ByteStreamInv, ParserInv
<1>4. at \in Nat /\ Len(source.bytes) \in Nat
  BY <1>3, ReadsIs DEF Progress
<1>5. at' \in 0 .. Len(source.bytes)
  BY <1>1, <1>4, BoundsAre
<1>6. <<>> \in Seq(Seq(A!Byte)) /\ 0 = Len(<<>>)
  OBVIOUS
<1>7. \E lo2 : /\ Progress(source, at', <<>>, at', <<>>, 0, lo2)
               /\ NotYet(source, at', lo2 + (Len(<<>>) - 0))
  BY <1>2, <1>5, <1>6, ProgressAnew
<1>8. ParserInv'
  BY <1>1, <1>7 DEF ParserInv
<1>9. MuxerOK(muxer)
  BY DEF ByteStreamInv, AssemblyInv, AssemblerInv
<1>10. AssemblyInv'
  BY <1>1, <1>9, EmptyAssembler DEF AssemblyInv
<1>11. Len(parser') <= MaxBuffer /\ resets' \in 0 .. MaxResets
  BY <1>1, BoundsAre DEF ByteStreamInv
<1> QED
  BY <1>1, <1>8, <1>10, <1>11 DEF ByteStreamInv

LEMMA PushStep ==
  ASSUME AssemblyInv, given \in Nat, given <= Len(nals), NEW nal \in Nal, Fits(nals, nal, given),
         A!push(nal), given' = given
  PROVE  AssemblyInv' /\ nals' = Append(nals, nal)
<1>1. AssemblerInv(nals, units, ends, au, has_vcl, muxer, keys, given)
  BY DEF AssemblyInv
<1>2. nals' = Append(nals, nal) /\ Added(nals, nal, nals')
  BY DEF A!push, Added
<1>3. CASE A!Begins(nal)
  <2>1. A!nal_type(nal) \in {A!AUD, A!IDR, A!NON_IDR}
    BY <1>3 DEF A!Begins, A!IsSlice
  <2>2. /\ au' = <<nal>> /\ has_vcl' = A!IsSlice(nal)
        /\ Added(units, au, units') /\ Added(ends, Len(nals), ends')
        /\ muxer' = A!on_access_unit(muxer, au)
        /\ Added(keys, A!KeyOf(muxer', au), keys')
    BY <1>3 DEF A!push, Added
  <2>3. AssemblerInv(nals', units', ends', <<nal>>, A!IsSlice(nal), muxer', keys', given)
    BY <1>1, <1>2, <2>1, <2>2, PushEnds
  <2> QED
    BY <1>2, <2>2, <2>3 DEF AssemblyInv
<1>4. CASE ~A!Begins(nal)
  <2>1. ~(A!IsSlice(nal) /\ has_vcl /\ A!First(nal))
    BY <1>4 DEF A!Begins
  <2>2. /\ Added(au, nal, au') /\ has_vcl' = (has_vcl \/ A!IsSlice(nal))
        /\ UNCHANGED <<muxer, units, ends, keys>>
    BY <1>4 DEF A!push, Added
  <2>3. AssemblerInv(nals', units, ends, au', has_vcl \/ A!IsSlice(nal), muxer, keys, given)
    BY <1>1, <1>2, <2>1, <2>2, PushAdds
  <2> QED
    BY <1>2, <2>2, <2>3 DEF AssemblyInv
<1> QED
  BY <1>3, <1>4

LEMMA CompleteStep ==
  ASSUME A!AnnexAssumption, ByteStreamInv, A!Complete
  PROVE  ByteStreamInv'
<1>1. PICK al : al = A!Aligned
  OBVIOUS
<1>2. PICK r, l : r = A!Next2 /\ l = A!StartLen(al)
  OBVIOUS
<1>3. PICK nal : nal = SubSeq(al, l + 1, r - 1)
  OBVIOUS
<1>4. /\ parsing /\ A!NextStart(parser, 1) # 0 /\ r # 0
      /\ IF nal = <<>> THEN UNCHANGED A!assembler ELSE A!push(nal)
      /\ parser' = A!From(al, r) /\ UNCHANGED <<source, at, parsing, join, given, resets>>
  BY <1>1, <1>2, <1>3 DEF A!Complete
<1>5. al = A!From(parser, A!NextStart(parser, 1)) /\ r = A!NextStart(al, l + 1)
  BY <1>1, <1>2 DEF A!Aligned, A!Next2
<1>6. PICK lo : Progress(source, at, parser, join, nals, given, lo)
  BY DEF ByteStreamInv, ParserInv
<1>7. PICK p : p = lo + (Len(nals) - given)
  OBVIOUS
<1>8. Progress(source, at, al, join, nals, given, lo) /\ Begun(source, at, al, p, l)
  BY <1>2, <1>4, <1>5, <1>6, <1>7, ProgressBegun
<1>9. /\ nal \in Seq(A!Byte) /\ nal # <<>> /\ nal = source.nals[p + 1]
      /\ p + 1 < Count(source)
      /\ Progress(source, at, parser', join, Append(nals, nal), given, lo)
  <2>1. TakenOut(al, l, nal, parser')
    BY <1>3, <1>4, <1>5 DEF TakenOut
  <2> QED
    BY <1>7, <1>8, <2>1, ProgressComplete
<1>10. A!IsVideo(source.nals)
  BY SourceIs DEF ByteStreamInv
<1>11. lo \in Nat /\ Matched(source, at, nals, given, lo) /\ Reads(source, at, parser, p)
  BY <1>6, <1>7 DEF Progress
<1>12. Count(source) \in Nat
  BY <1>11, ReadsIs
<1>13. NoSpsLost(nals, given) /\ AssemblyInv
  BY DEF ByteStreamInv, AssemblyInv, AssemblerInv
<1>14. Fits(nals, nal, given)
  BY <1>7, <1>9, <1>10, <1>11, <1>12, <1>13, NextFits
<1>15. given \in Nat /\ given <= Len(nals)
  BY <1>11 DEF Matched
<1>16. nal \in Nal /\ A!push(nal)
  BY <1>4, <1>9 DEF Nal
<1>17. AssemblyInv' /\ nals' = Append(nals, nal)
  BY <1>4, <1>13, <1>14, <1>15, <1>16, PushStep
<1>18. ParserInv'
  BY <1>4, <1>9, <1>17 DEF ParserInv
<1> QED
  BY <1>4, <1>17, <1>18 DEF ByteStreamInv

LEMMA StepStream ==
  ASSUME A!AnnexAssumption, ByteStreamInv, [A!Next]_(A!vars)
  PROVE  ByteStreamInv'
<1>1. ASSUME NEW k \in 1 .. MaxChunk, A!Parse(k) PROVE ByteStreamInv'
  BY <1>1, ParseStep
<1>2. CASE A!Skip
  BY <1>2, SkipStep
<1>3. CASE A!Wait
  BY <1>3, WaitStep
<1>4. CASE A!Complete
  BY <1>4, CompleteStep
<1>5. ASSUME NEW k \in 0 .. MaxChunk, A!Reset(k) PROVE ByteStreamInv'
  BY <1>5, ResetStep
<1>6. CASE UNCHANGED A!vars
  <2>1. UNCHANGED <<source, at, parsing, parser, au, has_vcl, muxer, join, given, nals, units,
                    ends, keys, resets>>
    BY <1>6 DEF A!vars, A!assembler
  <2> QED
    BY <2>1 DEF ByteStreamInv, ParserInv, AssemblyInv
<1> QED
  BY <1>1, <1>2, <1>3, <1>4, <1>5, <1>6 DEF A!Next

-----------------------------------------------------------------------------
(* The byte stream's invariant and its theorems *)

LEMMA TypesHold ==
  ASSUME A!AnnexAssumption, ByteStreamInv
  PROVE  A!AnnexTypeOK
<1>1. PICK lo : Progress(source, at, parser, join, nals, given, lo)
  BY DEF ByteStreamInv, ParserInv
<1>2. join \in Nat /\ join <= Base(at, parser)
  BY <1>1 DEF Progress
<1>3. /\ at \in Nat /\ at <= Len(source.bytes) /\ Len(source.bytes) \in Nat
      /\ Len(parser) \in Nat /\ Base(at, parser) \in Nat /\ at = Base(at, parser) + Len(parser)
  BY <1>1, ReadsIs DEF Progress
<1>4. join \in 0 .. at /\ at \in 0 .. Len(source.bytes)
  BY <1>2, <1>3
<1>5. has_vcl \in BOOLEAN /\ Len(keys) = Len(units)
  BY DEF ByteStreamInv, AssemblyInv, AssemblerInv, Keyed
<1> QED
  BY <1>4, <1>5 DEF ByteStreamInv, A!AnnexTypeOK

LEMMA NalsHold ==
  ASSUME A!AnnexAssumption, ByteStreamInv
  PROVE  A!NalsAreTheSent
<1> SUFFICES ASSUME ~parsing PROVE A!NalsAreTheSent
  BY DEF A!NalsAreTheSent
<1>1. PICK lo : /\ Progress(source, at, parser, join, nals, given, lo)
                /\ NotYet(source, at, lo + (Len(nals) - given))
  BY DEF ByteStreamInv, ParserInv
<1>2. /\ lo \in Nat /\ Passed(source, join, lo) /\ Matched(source, at, nals, given, lo)
      /\ Reads(source, at, parser, lo + (Len(nals) - given))
  BY <1>1 DEF Progress
<1>3. A!IsByteStream(source)
  BY <1>2 DEF Reads
<1>4. /\ at \in Nat /\ Count(source) \in Nat /\ Count(source) = Len(source.nals)
      /\ \A i \in 1 .. Count(source) : Code(source, i) \in Nat
  BY <1>2, ReadsIs DEF Count
<1>5. /\ lo \in 0 .. Count(source)
      /\ \A i \in 1 .. Len(source.nals) : source.codes[i] <= join <=> i <= lo
  BY <1>2, <1>4 DEF Passed, Code
<1>6. Len(nals) \in Nat /\ given \in 0 .. Len(nals)
  BY <1>2 DEF Matched
<1> DEFINE c == Len(nals) - given
<1>7. c \in Nat
  BY <1>6
<1>8. /\ \A x \in 1 .. c : nals[given + x] = source.nals[lo + x]
      /\ c > 0 => lo + c < Count(source) /\ Code(source, lo + c + 1) + 2 <= at
  <2>1. \A x \in 1 .. c : nals[given + x] = source.nals[lo + x]
    BY <1>2 DEF Matched
  <2>2. Len(nals) > given => lo + c < Count(source) /\ Code(source, lo + c + 1) + 2 <= at
    BY <1>2 DEF Matched
  <2>3. c > 0 => Len(nals) > given
    BY <1>6
  <2> QED
    BY <2>1, <2>2, <2>3
<1>9. lo + c + 1 < Count(source) => at < Code(source, lo + c + 2) + 2
  BY <1>1 DEF NotYet
<1>10. lo + Len(nals) - given = lo + c
  BY <1>2, <1>6
<1> HIDE DEF c
<1>11. lo + c <= Count(source)
  BY <1>4, <1>5, <1>7, <1>8
<1>12. ASSUME NEW i \in 1 .. Count(source)
       PROVE  i \in lo + 1 .. lo + c <=>
                i > lo /\ i < Count(source) /\ source.codes[i + 1] + 2 <= at
  <2>1. i \in Nat \ {0} /\ i <= Count(source)
    BY <1>4
  <2>2. ASSUME i > lo, i <= lo + c
        PROVE  i < Count(source) /\ Code(source, i + 1) + 2 <= at
    <3>1. c > 0 /\ i < Count(source) /\ i + 1 \in 1 .. Count(source)
          /\ lo + c + 1 \in 1 .. Count(source) /\ i + 1 <= lo + c + 1
      BY <1>4, <1>5, <1>7, <1>8, <2>1, <2>2
    <3>2. Code(source, i + 1) <= Code(source, lo + c + 1)
      BY <1>3, <3>1, CodesInOrder
    <3>3. Code(source, i + 1) \in Nat /\ Code(source, lo + c + 1) \in Nat
      BY <1>4, <3>1
    <3> QED
      BY <1>4, <1>8, <3>1, <3>2, <3>3
  <2>3. ASSUME i > lo, i < Count(source), Code(source, i + 1) + 2 <= at, ~(i <= lo + c)
        PROVE  FALSE
    <3>1. /\ lo + c + 1 < Count(source) /\ i + 1 \in 1 .. Count(source)
          /\ lo + c + 2 \in 1 .. Count(source) /\ lo + c + 2 <= i + 1
      <4>1. lo \in Nat /\ c \in Nat /\ i \in Nat /\ Count(source) \in Nat
        BY <1>4, <1>5, <1>7, <2>1
      <4> QED
        BY <2>3, <4>1
    <3>2. Code(source, lo + c + 2) <= Code(source, i + 1)
      BY <1>3, <3>1, CodesInOrder
    <3>3. Code(source, i + 1) \in Nat /\ Code(source, lo + c + 2) \in Nat
      BY <1>4, <3>1
    <3> QED
      BY <1>4, <1>9, <2>3, <3>1, <3>2, <3>3
  <2>4. Code(source, i + 1) = source.codes[i + 1]
    BY DEF Code
  <2> QED
    BY <1>5, <1>7, <2>1, <2>2, <2>3, <2>4
<1>13. lo \in 0 .. Len(source.nals) /\ lo + Len(nals) - given <= Len(source.nals)
  BY <1>4, <1>5, <1>10, <1>11
<1>14. \A i \in 1 .. Len(source.nals) :
         i \in lo + 1 .. lo + Len(nals) - given <=>
           i > lo /\ i < Len(source.nals) /\ source.codes[i + 1] + 2 <= at
  BY <1>4, <1>10, <1>12
<1>15. \A x \in 1 .. Len(nals) - given : nals[given + x] = source.nals[lo + x]
  BY <1>8 DEF c
<1> QED
  BY <1>5, <1>13, <1>14, <1>15 DEF A!NalsAreTheSent

LEMMA UnitsHold ==
  ASSUME ByteStreamInv
  PROVE  A!UnitsAreTheNals /\ A!OnePicturePerUnit
<1>1. AssemblerInv(nals, units, ends, au, has_vcl, muxer, keys, given)
  BY DEF ByteStreamInv, AssemblyInv
<1>2. /\ Len(ends) = Len(units)
      /\ \A i \in 1 .. Len(units) : Part(nals, units[i], Start(ends, i), ends[i])
      /\ Part(nals, au, Start(ends, Len(units) + 1), Len(nals))
  BY <1>1 DEF AssemblerInv, Assembled
<1>3. \A i : A!Before(i) = Start(ends, i)
  BY DEF A!Before, Start
<1>4. \A u, from, to : A!Piece(u, from, to) <=> Part(nals, u, from, to)
  BY DEF A!Piece, Part
<1>5. A!UnitsAreTheNals
  BY <1>2, <1>3, <1>4 DEF A!UnitsAreTheNals
<1>6. A!OnePicturePerUnit
  BY <1>1 DEF AssemblerInv, Pictured, A!OnePicturePerUnit
<1> QED
  BY <1>5, <1>6

LEMMA KeysHold ==
  ASSUME ByteStreamInv
  PROVE  A!KeysMatchInit
<1>1. Keyed(nals, units, ends, keys)
  BY DEF ByteStreamInv, AssemblyInv, AssemblerInv
<1> SUFFICES ASSUME NEW i \in 1 .. Len(units), NEW k \in 1 .. Len(units[i]),
                    A!nal_type(units[i][k]) = A!IDR, \A h \in 1 .. i : ~A!TwoSets(units[h]),
                    NEW y \in 1 .. Len(nals), NEW z \in 1 .. Len(nals),
                    A!LastKind(A!SPS, y, A!Before(i) + k), A!LastKind(A!PPS, z, A!Before(i) + k),
                    ~A!OtherSet(units[i], nals[y]), ~A!OtherSet(units[i], nals[z])
             PROVE  keys[i] = <<nals[y], nals[z]>>
  BY DEF A!KeysMatchInit
<1>2. KeyMatches(nals, units, ends, keys[i], i)
  BY <1>1 DEF Keyed, OneSetEach
<1>3. A!Before(i) = Start(ends, i)
  BY DEF A!Before, Start
<1>4. /\ LastSet(nals, A!SPS, y, Start(ends, i) + k)
      /\ LastSet(nals, A!PPS, z, Start(ends, i) + k)
  BY <1>3 DEF A!LastKind, LastSet
<1> QED
  BY <1>2, <1>4 DEF KeyMatches

LEMMA StreamHolds ==
  ASSUME A!AnnexAssumption, ByteStreamInv
  PROVE  AnnexInv
BY TypesHold, NalsHold, UnitsHold, KeysHold DEF AnnexInv, A!AnnexInv

\* However the byte stream is cut into chunks, and wherever the parser joins it, the
\* NALs that were sent come out of AnnexBParser, its pictures out of AccessUnitAssembler
\* one to a unit, and Fmp4Muxer makes a key fragment under the sets of its picture.
THEOREM StreamsAnnex == MCSpec => []AnnexInv
<1>1. A!AnnexAssumption
  BY StreamsAssumption
<1>2. MCInit => ByteStreamInv
  BY <1>1, InitStream DEF MCInit
<1>3. ByteStreamInv /\ [MCNext]_MCVars => ByteStreamInv'
  <2> SUFFICES ASSUME ByteStreamInv, [MCNext]_MCVars PROVE ByteStreamInv'
    OBVIOUS
  <2>1. [A!Next]_(A!vars)
    <3>1. A!Next \/ UNCHANGED annexVars
      BY DEF MCNext, MCVars
    <3>2. UNCHANGED annexVars => UNCHANGED A!vars
      BY DEF annexVars, A!vars, A!assembler
    <3> QED
      BY <3>1, <3>2
  <2> QED
    BY <1>1, <2>1, StepStream
<1>4. ByteStreamInv => AnnexInv
  BY <1>1, StreamHolds
<1> QED
  BY <1>2, <1>3, <1>4, PTL DEF MCSpec
=============================================================================
