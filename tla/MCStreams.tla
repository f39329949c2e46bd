------------------------------- MODULE MCStreams -------------------------------
(* The parsers of the Pi's video path, one in a behaviour: transfers to        *)
(* payloads over USB, bytes to access units for browsers.                      *)
EXTENDS BulkFraming, SequencesExt

CONSTANTS Sources, MaxChunk, MaxBuffer, MaxResets   \* AnnexB

VARIABLES
  part,                                        \* "bulk", "annex"
  source, at, parsing, parser, au, has_vcl, muxer, join, given, nals, units, ends, keys,
  resets

A == INSTANCE AnnexB WITH buffer <- parser

ASSUME StreamsAssumption == FramingAssumption /\ RxAssumption /\ A!AnnexAssumption

annexVars == <<source, at, parsing, parser, au, has_vcl, muxer, join, given, nals, units,
               ends, keys, resets>>
MCVars == <<part, vars, annexVars>>

MCInit ==
  /\ part \in {"bulk", "annex"}
  /\ Init /\ (part # "bulk" => start = <<>>)
  /\ A!Init /\ (part # "annex" => source = CHOOSE s \in Sources : TRUE)

MCNext ==
  \/ part = "bulk" /\ Next /\ UNCHANGED <<part, annexVars>>
  \/ part = "annex" /\ A!Next /\ UNCHANGED <<part, vars>>

MCSpec == MCInit /\ [][MCNext]_MCVars
-----------------------------------------------------------------------------
\* What may precede the first frame on the bulk pipe: nothing, or the rest of a
\* frame whose beginning was missed, made of S55, SCC and a byte of its payload.
Remainders == UNION {[1 .. k -> {-1, -2, 100}] : k \in 0 .. 2}

VideoData == {<<100>>, <<100, S55>>}
ControlData == {<<S55, 200>>}

Key(ps, slices) == [key |-> TRUE, ps |-> ps, slices |-> slices]
Delta(ps, slices) == [key |-> FALSE, ps |-> ps, slices |-> slices]

\* New parameters after a delta picture, right after a key picture and after the
\* same once more; a start without key; pictures of one and of more slices.
VideoSet ==
  {<<Key(1, 1)>>,
   <<Key(1, 2), Delta(1, 1), Key(2, 1), Delta(2, 2)>>,
   <<Key(1, 1), Key(2, 2), Delta(2, 1)>>,
   <<Key(1, 1), Key(1, 1), Key(2, 1), Delta(2, 1)>>,
   <<Delta(1, 2), Key(1, 1), Delta(1, 1)>>}

\* Slice j of picture k; a key picture comes after its parameters.
Slice(head, k, j, ps) ==
  IF j = 1 THEN <<head, 128 + ps, k + 1>> ELSE <<head, ps, 0, 0, 3, k + 1>>

PictureNals(p, k, aud) ==
  (IF aud THEN <<<<9, 16>>>> ELSE <<>>)
  \o (IF p.key THEN <<<<103, p.ps, 1, 2>>, <<104, p.ps>>>> ELSE <<>>)
  \o [j \in 1 .. p.slices |-> Slice(IF p.key THEN 101 ELSE 65, k, j, p.ps)]

Stream(pictures, aud, long) ==
  LET ns    == FlattenSeq([k \in DOMAIN pictures |-> PictureNals(pictures[k], k, aud)])
      code  == IF long THEN <<0, 0, 0, 1>> ELSE <<0, 0, 1>>
      bytes == FlattenSeq([i \in DOMAIN ns |-> code \o ns[i]])
  IN  [nals |-> ns, bytes |-> bytes,
       codes |-> SelectSeq([i \in 1 .. Len(bytes) - 2 |-> i],
                           LAMBDA i : SubSeq(bytes, i, i + 2) = <<0, 0, 1>>)]

\* With access unit delimiters or without, with long start codes or short ones.
Streams == {Stream(pictures, aud, long) : pictures \in VideoSet, aud, long \in BOOLEAN}

\* However the byte stream is cut and joined, browsers get its pictures.
AnnexInv == A!AnnexInv
=============================================================================
