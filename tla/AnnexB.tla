-------------------------------- MODULE AnnexB --------------------------------
(***************************************************************************)
(* From H.264 byte stream to fragments in pi_endpoint/live_stream.py:      *)
(* AnnexBParser.feed, AccessUnitAssembler.push and the parameter sets of   *)
(* Fmp4Muxer behind LiveStreamHub._parse.  (LiveStreamHub has the queues   *)
(* and viewers around them, with one access unit as a chunk.)              *)
(*                                                                         *)
(* The stream comes in chunks cut anywhere, and after a reset goes on      *)
(* anywhere.  feed returns a list; here every NAL goes to the assembler as *)
(* soon as it is complete: neither of the two reads what the other writes. *)
(***************************************************************************)
EXTENDS Integers, Sequences

CONSTANTS Sources,       \* the streams of the goggles, see IsStream
          MaxChunk,      \* longest chunk
          MaxBuffer,     \* bytes the parser keeps without a start code (8 MiB)
          MaxResets      \* bound: resets in a behaviour

Byte == 0 .. 255

NON_IDR == 1  IDR == 5  SPS == 7  PPS == 8  AUD == 9
nal_type(nal) == nal[1] % 32
IsSlice(nal) == nal_type(nal) \in {IDR, NON_IDR}
First(nal) == Len(nal) > 1 /\ nal[2] >= 128        \* first_mb_in_slice is zero

\* The payload of a slice stands for its picture.
Picture(nal) == nal[Len(nal)]

\* A start code is at i.
CodeAt(b, i) == i + 2 <= Len(b) /\ b[i] = 0 /\ b[i + 1] = 0 /\ b[i + 2] = 1

\* External: a stream is NAL units, each behind a start code, the one of NAL i at
\* codes[i], with another zero before it or not.  There is no other start code
\* (emulation prevention), and no NAL ends with a zero.
IsByteStream(s) ==
  /\ s.bytes \in Seq(Byte) /\ s.nals \in Seq(Seq(Byte)) /\ s.codes \in Seq(Nat \ {0})
  /\ Len(s.codes) = Len(s.nals)
  /\ \A x \in 1 .. Len(s.bytes) :
       CodeAt(s.bytes, x) <=> \E i \in 1 .. Len(s.codes) : s.codes[i] = x
  /\ \A i \in 1 .. Len(s.nals) :
       LET end == s.codes[i] + 2 + Len(s.nals[i])
       IN  /\ Len(s.nals[i]) > 0 /\ s.nals[i][Len(s.nals[i])] # 0
           /\ end <= Len(s.bytes)
           /\ \A k \in 1 .. Len(s.nals[i]) : s.bytes[s.codes[i] + 2 + k] = s.nals[i][k]
           /\ IF i = Len(s.nals) THEN end = Len(s.bytes)
              ELSE \/ s.codes[i + 1] = end + 1
                   \/ s.codes[i + 1] = end + 2 /\ s.bytes[end + 1] = 0

\* External: only the first slice of a picture is marked as such, the others follow
\* it; a PPS follows every SPS, and they are small.  An SPS has its profile and level,
\* of which avcc_box makes the init segment.
IsVideo(ns) ==
  \A i \in 1 .. Len(ns) :
    /\ (i > 1 /\ IsSlice(ns[i]) /\ ~First(ns[i])) =>
         IsSlice(ns[i - 1]) /\ Picture(ns[i]) = Picture(ns[i - 1])
    /\ nal_type(ns[i]) = SPS => Len(ns[i]) >= 4
    /\ (i < Len(ns) /\ nal_type(ns[i]) = SPS) =>
         nal_type(ns[i + 1]) = PPS /\ Len(ns[i + 1]) + 7 <= MaxBuffer

IsStream(s) == IsByteStream(s) /\ IsVideo(s.nals)

AnnexAssumption ==
  /\ \A s \in Sources : IsStream(s)
  /\ MaxChunk \in Nat \ {0} /\ MaxBuffer \in Nat \ 0 .. 3 /\ MaxResets \in Nat

VARIABLES
  source,      \* the stream: bytes, nals, codes
  at,          \* bytes fed so far
  parsing,     \* feed is in its loop
  buffer,      \* AnnexBParser
  au, has_vcl, \* AccessUnitAssembler
  muxer,       \* Fmp4Muxer: sps, pps, init (the pair its init segment was made of)
  join,        \* history: bytes the parser never had, or has given up
  given,       \* history: NALs completed before it gave up some
  nals,        \* history: NALs completed since the last reset
  units,       \* history: access units since then
  ends,        \* history: NALs completed when each of them was
  keys,        \* history: muxer.init at each of them, if it is a key fragment
  resets

assembler == <<au, has_vcl, muxer, nals, units, ends, keys>>
vars == <<source, at, parsing, buffer, assembler, join, given, resets>>

Init ==
  /\ source \in Sources
  /\ at = 0 /\ parsing = FALSE /\ buffer = <<>> /\ au = <<>> /\ has_vcl = FALSE
  /\ muxer = [sps |-> <<>>, pps |-> <<>>, init |-> <<>>]
  /\ join = 0 /\ given = 0 /\ nals = <<>> /\ units = <<>> /\ ends = <<>> /\ keys = <<>>
  /\ resets = 0
-----------------------------------------------------------------------------
(* AnnexBParser *)

FirstIn(S) == CHOOSE i \in S : \A j \in S : i <= j

\* _next_start: where the next start code begins, or 0.
NextStart(b, offset) ==
  LET found == {i \in offset .. Len(b) : CodeAt(b, i)}
      index == FirstIn(found)
  IN  IF found = {} THEN 0
      ELSE IF index > offset /\ b[index - 1] = 0 THEN index - 1 ELSE index

\* _start_len, where a start code begins: 00 00 00 01 or 00 00 01
StartLen(b) == IF b[1] = 0 /\ CodeAt(b, 2) THEN 4 ELSE 3

From(b, i) == SubSeq(b, i, Len(b))

LastOf(b, k) == IF Len(b) > k THEN From(b, Len(b) - k + 1) ELSE b

\* Mutant: a start code cut after its first zeros is forgotten.
KeepOne(b) == LastOf(b, 1)

\* What may be the beginning of a start code.
Keep(b) == LastOf(b, 3)
-----------------------------------------------------------------------------
(* _on_access_unit and Fmp4Muxer, on m := [sps, pps, init] *)

FirstOf(kind, unit) ==
  LET found == {i \in DOMAIN unit : nal_type(unit[i]) = kind}
  IN  IF found = {} THEN <<>> ELSE unit[FirstIn(found)]

set_parameter_sets(m, sps, pps) ==
  IF sps = <<>> \/ pps = <<>> THEN m ELSE [sps |-> sps, pps |-> pps, init |-> <<sps, pps>>]

\* Half a pair is completed with what the muxer has.
on_access_unit(m, unit) ==
  LET sps == FirstOf(SPS, unit)
      pps == FirstOf(PPS, unit)
  IN  IF sps = <<>> /\ pps = <<>> THEN m
      ELSE set_parameter_sets(m, IF sps = <<>> THEN m.sps ELSE sps,
                                 IF pps = <<>> THEN m.pps ELSE pps)

\* The parameters of a key fragment; none without an init segment.
KeyOf(m, unit) == IF FirstOf(IDR, unit) = <<>> THEN <<>> ELSE m.init
-----------------------------------------------------------------------------
\* A delimiter, or the first slice of a picture after one of another, begins a unit.
Begins(nal) ==
  \/ nal_type(nal) = AUD /\ au # <<>>
  \/ IsSlice(nal) /\ has_vcl /\ First(nal)

\* AccessUnitAssembler.push; the unit before goes to _on_access_unit.
push(nal) ==
  /\ nals' = Append(nals, nal)
  /\ IF Begins(nal)
       THEN LET m == on_access_unit(muxer, au)
            IN  /\ au' = <<nal>> /\ has_vcl' = IsSlice(nal)
                /\ units' = Append(units, au) /\ ends' = Append(ends, Len(nals))
                /\ muxer' = m /\ keys' = Append(keys, KeyOf(m, au))
       ELSE /\ au' = Append(au, nal) /\ has_vcl' = (has_vcl \/ IsSlice(nal))
            /\ UNCHANGED <<muxer, units, ends, keys>>

\* _parse of the next chunk: feed takes it into its buffer, ...
Parse(k) ==
  /\ ~parsing /\ at + k <= Len(source.bytes)
  /\ at' = at + k
  /\ buffer' = buffer \o SubSeq(source.bytes, at + 1, at + k)
  /\ parsing' = TRUE
  /\ UNCHANGED <<source, assembler, join, given, resets>>

\* ... and these are the turns of its loop.  No start code: what may be the beginning
\* of one stays.
Skip ==
  /\ parsing /\ NextStart(buffer, 1) = 0
  /\ buffer' = Keep(buffer) /\ parsing' = FALSE
  /\ UNCHANGED <<source, at, assembler, join, given, resets>>

\* The buffer from its first start code on, and where its next one begins.
Aligned == From(buffer, NextStart(buffer, 1))
Next2 == NextStart(Aligned, StartLen(Aligned) + 1)

\* No other: the NAL is not complete.  When it gets too long, all is given up.
Wait ==
  /\ parsing /\ NextStart(buffer, 1) # 0 /\ Next2 = 0
  /\ parsing' = FALSE
  /\ IF Len(Aligned) > MaxBuffer
       THEN buffer' = <<>> /\ join' = at /\ given' = Len(nals)
       ELSE buffer' = Aligned /\ UNCHANGED <<join, given>>
  /\ UNCHANGED <<source, at, assembler, resets>>

\* A NAL is complete.
Complete ==
  /\ parsing /\ NextStart(buffer, 1) # 0 /\ Next2 # 0
  /\ LET nal == SubSeq(Aligned, StartLen(Aligned) + 1, Next2 - 1)
     IN  IF nal = <<>> THEN UNCHANGED assembler ELSE push(nal)
  /\ buffer' = From(Aligned, Next2)
  /\ UNCHANGED <<source, at, parsing, join, given, resets>>

\* A reset of the hub: parser and assembler start anew, the init segment stays, and
\* what was queued is lost.
Reset(k) ==
  /\ ~parsing /\ resets < MaxResets /\ at + k <= Len(source.bytes)
  /\ resets' = resets + 1
  /\ at' = at + k /\ join' = at' /\ given' = 0
  /\ buffer' = <<>> /\ au' = <<>> /\ has_vcl' = FALSE
  /\ nals' = <<>> /\ units' = <<>> /\ ends' = <<>> /\ keys' = <<>>
  /\ UNCHANGED <<source, parsing, muxer>>

Next ==
  \/ \E k \in 1 .. MaxChunk : Parse(k)
  \/ Skip \/ Wait \/ Complete
  \/ \E k \in 0 .. MaxChunk : Reset(k)

Spec == Init /\ [][Next]_vars
-----------------------------------------------------------------------------
AnnexTypeOK ==
  /\ at \in 0 .. Len(source.bytes) /\ join \in 0 .. at /\ resets \in 0 .. MaxResets
  /\ ~parsing => Len(buffer) <= MaxBuffer
  /\ has_vcl \in BOOLEAN /\ Len(keys) = Len(units)

\* However the stream is cut, and wherever it is joined, the parser completes the
\* NALs that were sent, those whose start codes come after the join, in order, and as
\* soon as the next start code is there.
NalsAreTheSent ==
  ~parsing => \E skipped \in 0 .. Len(source.nals) :
    /\ \A i \in 1 .. Len(source.nals) : source.codes[i] <= join <=> i <= skipped
    /\ \A i \in 1 .. Len(source.nals) :
         i \in skipped + 1 .. skipped + Len(nals) - given <=>
           i > skipped /\ i < Len(source.nals) /\ source.codes[i + 1] + 2 <= at
    /\ skipped + Len(nals) - given <= Len(source.nals)
    /\ \A x \in 1 .. Len(nals) - given : nals[given + x] = source.nals[skipped + x]

\* Where unit i begins in the NALs.
Before(i) == IF i = 1 THEN 0 ELSE ends[i - 1]

Piece(unit, from, to) ==
  Len(unit) = to - from /\ \A x \in 1 .. Len(unit) : unit[x] = nals[from + x]

\* The assembler loses, repeats and reorders nothing: its units are the NALs, one
\* piece after the other, and the one in work is the rest, ...
UnitsAreTheNals ==
  /\ Len(ends) = Len(units)
  /\ \A i \in 1 .. Len(units) : Piece(units[i], Before(i), ends[i])
  /\ Piece(au, Before(Len(units) + 1), Len(nals))

\* ... and no unit, the one in work included, holds two pictures, with access unit
\* delimiters or without, unless the parser gave up a first slice.
OnePicture(unit) ==
  \A x, y \in 1 .. Len(unit) :
    IsSlice(unit[x]) /\ IsSlice(unit[y]) => Picture(unit[x]) = Picture(unit[y])

OnePicturePerUnit ==
  given = 0 => OnePicture(au) /\ \A i \in 1 .. Len(units) : OnePicture(units[i])

\* NAL y is the last of its kind among the first n.
LastKind(kind, y, n) ==
  /\ y <= n /\ nal_type(nals[y]) = kind
  /\ \A z \in y + 1 .. n : nal_type(nals[z]) # kind

\* A unit without delimiters takes in the parameter sets of the next picture; two
\* different ones are then in a unit, of which the muxer takes the first, ...
TwoSets(unit) ==
  \E x, y \in 1 .. Len(unit) :
    /\ nal_type(unit[x]) = nal_type(unit[y]) /\ nal_type(unit[x]) \in {SPS, PPS}
    /\ unit[x] # unit[y]

\* ... or one that is not that of its picture.
OtherSet(unit, set) ==
  \E x \in 1 .. Len(unit) : nal_type(unit[x]) = nal_type(set) /\ unit[x] # set

\* A key fragment is made under the parameter sets that precede its picture, which
\* a browser needs to decode it.
KeysMatchInit ==
  \A i \in 1 .. Len(units) : \A k \in 1 .. Len(units[i]) :
    (/\ nal_type(units[i][k]) = IDR
     /\ \A h \in 1 .. k - 1 : nal_type(units[i][h]) # IDR
     /\ \A h \in 1 .. i : ~TwoSets(units[h])) =>
      \A y, z \in 1 .. Len(nals) :
        (/\ LastKind(SPS, y, Before(i) + k) /\ LastKind(PPS, z, Before(i) + k)
         /\ ~OtherSet(units[i], nals[y]) /\ ~OtherSet(units[i], nals[z])) =>
          keys[i] = <<nals[y], nals[z]>>

\* The byte stream becomes the NALs that were sent, one picture to a unit, and
\* every key picture the parameter sets it needs.
AnnexInv ==
  AnnexTypeOK /\ NalsAreTheSent /\ UnitsAreTheNals /\ OnePicturePerUnit /\ KeysMatchInit
=============================================================================
