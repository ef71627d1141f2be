-------------------------- MODULE MCCodecAdapters --------------------------
(* CodecAdapters for TLC: streams as an encoder and its client would make     *)
(* them.                                                                     *)
EXTENDS CodecAdapters

-----------------------------------------------------------------------------
(* H.264: pictures of two sequences, of one PPS or another, whose slices rely  *)
(* on the default reference counts or carry their own.                        *)

Slice264(type, override, l0) ==
    [nal |-> IF type = "K" THEN 5 ELSE 1, type |-> IF type = "K" THEN "I" ELSE type,
     override |-> override, active |-> <<l0, IF type = "B" THEN 1 ELSE 0>>]

Picture264(s, refs, p, iq, slices) ==
    [key |-> slices[1].nal = 5, seq |-> s, numRefs |-> refs, pps |-> p, iq |-> iq,
     slices |-> slices]

Key(override) == Slice264("K", override, 0)
Pictures264(refs) ==
    {Picture264(1, refs, 1, 0, <<Key(FALSE)>>),
     Picture264(2, refs, 1, 0, <<Key(FALSE), Key(FALSE)>>),
     Picture264(1, refs, 1, 1, <<Slice264("P", FALSE, 2)>>),
     Picture264(1, refs, 1, 0, <<Slice264("P", TRUE, 0), Slice264("P", FALSE, 2)>>),
     Picture264(1, refs, 2, 0, <<Slice264("B", FALSE, 1), Slice264("I", FALSE, 0)>>)}

AnyFault == {"drain", "open", "submit", "start", "wait"}

Streams264 ==
    {[codec |-> "h264", packing |-> k, pictures |-> Pictures264(r), faults |-> {}] :
        k \in {"pairs", "joint"}, r \in {0, 1, 4}}

-----------------------------------------------------------------------------
(* HEVC: an encoder.                                                         *)

Escaped(bytes) ==
    LET run[i \in 2..Len(bytes)] ==
            IF i = 2 THEN SubSeq(bytes, 1, 2)
            ELSE LET before == run[i - 1]
                     n == Len(before)
                     stuff == n >= 4 /\ before[n] = 0 /\ before[n - 1] = 0 /\ bytes[i] <= 3
                 IN before \o (IF stuff THEN <<3, bytes[i]>> ELSE <<bytes[i]>>)
    IN run[Len(bytes)]

Flag(present, value) == IF present THEN <<value>> ELSE <<>>

(* A slice: where it is, its RPS syntax and what follows it.                 *)
Slice265(params, type, ppsId, address, dependent, rps, suffix, payload) ==
    LET first == IF address = 0 THEN 1 ELSE 0
        start == Binary(2 * type, 8) \o Binary(1, 8) \o <<first>>
                 \o Flag(type \in 16..23, 0) \o BwUe(ppsId)
                 \o Flag(first = 0 /\ params.dependentEnabled, IF dependent THEN 1 ELSE 0)
                 \o (IF first = 0 THEN Binary(address, AddressBits(params)) ELSE <<>>)
        kind == Binary(0, params.extraBits) \o BwUe(1) \o Flag(params.outputFlag, 1)
        hasRps == ~dependent /\ type \notin {19, 20}
        prefix == start \o (IF dependent THEN <<>>
                            ELSE IF hasRps THEN kind \o Binary(0, params.pocLsbBits) ELSE kind)
        header == PadToByte(prefix \o (IF hasRps THEN rps ELSE <<>>) \o suffix \o <<1>>)
    IN [nal |-> type, hasRps |-> hasRps, prefix |-> prefix, suffix |-> suffix,
        payload |-> payload, headerBytes |-> Len(header) \div 8,
        bytes |-> Escaped(BytesOf(header) \o payload)]

Params265(sets, dependent, extra, output, lsb) ==
    [width |-> 64, height |-> 48, ctbLog2 |-> 4, dependentEnabled |-> dependent,
     extraBits |-> extra, outputFlag |-> output, separateColour |-> FALSE,
     pocLsbBits |-> lsb, stRpsBits |-> 0, numStRps |-> sets,
     longTermPresent |-> FALSE, numLongTermSps |-> 0, refs |-> {}]

Ref(delta, used) == [delta |-> delta, used |-> used, longTerm |-> FALSE]
RefSets == {{}, {Ref(-1, 1)}, {Ref(-4, 1), Ref(-1, 0), Ref(2, 1), Ref(3, 0)},
            {Ref(-32769, 1), Ref(5, 1), [delta |-> 9, used |-> 1, longTerm |-> TRUE]}}

(* How the stream names the references: inline, or by index into its SPS.     *)
RpsSyntax(params, inline) ==
    IF inline THEN <<0>> \o Flag(params.numStRps > 0, 0) \o InlineRps(params)
    ELSE <<1>> \o (IF params.numStRps > 1
                   THEN Binary(params.numStRps - 1, CeilLog2(params.numStRps)) ELSE <<>>)

Picture265(params, s, type, inline, ppsId, split, payload) ==
    LET rps == RpsSyntax(params, inline)
        told == [params EXCEPT !.stRpsBits = IF inline THEN Len(rps) - 1 ELSE 0]
        One(address, dependent, suffix) ==
            Slice265(told, type, ppsId, address, dependent, rps, suffix, payload)
    IN [key |-> type \in 16..23, seq |-> s, pps |-> s, iq |-> 0, ppsId |-> ppsId,
        params |-> told,
        slices |-> CASE split = "one" -> <<One(0, FALSE, <<1, 0>>)>>
                     [] split = "two" -> <<One(0, FALSE, <<1>>),
                                           One(5, FALSE, [i \in 1..33 |-> 0] \o <<1>>)>>
                     [] split = "dependent" -> <<One(0, FALSE, <<1>>), One(7, TRUE, <<>>)>>,
        sets |-> IF type \notin 16..23 THEN <<>>
                 ELSE <<[nal |-> 32, id |-> 0, built |-> FALSE, seq |-> s],
                        [nal |-> 33, id |-> 0, built |-> FALSE, seq |-> s]>>
                      \o [i \in 1..3 |-> [nal |-> 34, id |-> <<0, 3, 5>>[i],
                                          built |-> FALSE, pps |-> s]]]

Payloads == {<<0, 0, 1, 128>>, <<200, 0, 0, 0, 2>>}

(* Two sequences, with another PPS id for every picture that has references.  *)
Stream265(params, refs, inline, split, packing, payload) ==
    LET with == [params EXCEPT !.refs = refs]
    IN [codec |-> "hevc", packing |-> packing, faults |-> {}, pictures |->
        {Picture265(params, 1, 19, FALSE, 0, split, payload),
         Picture265(with, 2, 21, inline, 3, "one", payload),
         Picture265(with, 1, 1, inline, 5, split, payload)}]

ParamSets ==
    {Params265(0, FALSE, 0, FALSE, 4), Params265(1, TRUE, 0, TRUE, 4),
     Params265(2, TRUE, 2, FALSE, 16), Params265(5, TRUE, 0, FALSE, 8)}

Layouts == {<<"one", "pairs">>, <<"two", "pairs">>, <<"two", "joint">>, <<"two", "spread">>,
            <<"dependent", "joint">>, <<"two", "inband">>}

(* A stream without sets in its SPS spells them out; dependent slices are      *)
(* enabled; in separate buffers the later slice is the longer one (a shorter   *)
(* one would be taken out of the first buffer).                              *)
Playable(params, layout, inline) ==
    /\ params.numStRps = 0 => inline
    /\ layout[1] = "dependent" => params.dependentEnabled

Streams265 ==
    {Stream265(c[1], r, c[3], c[2][1], c[2][2], payload) :
        c \in {x \in ParamSets \X Layouts \X BOOLEAN : Playable(x[1], x[2], x[3])},
        r \in RefSets, payload \in Payloads}

-----------------------------------------------------------------------------
(* VP9: key, inter, intra-only and repeated frames of two profiles.           *)

Frame9(key, byte) == [key |-> key, seq |-> 1, slices |-> <<[nal |-> 99, byte |-> byte]>>]

StreamsVp9 ==
    {[codec |-> "vp9", packing |-> "pairs", faults |-> {}, pictures |->
        {Frame9(TRUE, 128 + p), Frame9(FALSE, 128 + p + 4), Frame9(FALSE, 128 + p + 8)}] :
        p \in {0, 16, 32}}
    \cup {[codec |-> "vp9", packing |-> "pairs", faults |-> {}, pictures |->
        {Frame9(TRUE, 176), Frame9(FALSE, 178), Frame9(FALSE, 180)}]}

-----------------------------------------------------------------------------
(* A few of these with everything that may fail.                             *)

Failing(s) == [s EXCEPT !.faults = AnyFault]

Simple265(packing) ==
    Stream265(Params265(2, TRUE, 0, FALSE, 4), {Ref(-1, 1)}, FALSE, "one", packing, <<200>>)

FailingStreams ==
    {Failing(s) : s \in {Simple265("pairs"), Simple265("inband"),
                         [codec |-> "h264", packing |-> "joint",
                          pictures |-> Pictures264(1), faults |-> {}],
                         [codec |-> "vp9", packing |-> "pairs", faults |-> {},
                          pictures |-> {Frame9(TRUE, 128), Frame9(FALSE, 132)}]}}

MCStreams == Streams264 \cup Streams265 \cup StreamsVp9 \cup FailingStreams
=============================================================================
