---------------------------- MODULE CodecAdapters ----------------------------
(***************************************************************************)
(* The codec adapters (codec/codec.c, codec/h264, codec/hevc, codec/vp9)   *)
(* between the client and one firmware session.  The client renders the    *)
(* buffers of a picture one by one; vaEndPicture builds the access unit    *)
(* with the parameter sets the adapter believes the session still lacks,   *)
(* decides whether the unit starts a new stream, and submits it.  Surfaces *)
(* and frames are Decode's; here is what the firmware can parse.           *)
(***************************************************************************)
EXTENDS HevcSliceRewrite

CONSTANTS
    Streams,        \* what a client may play: codec, packing and pictures, and
                    \* what may fail: "drain", "open", "submit", "start", "wait"
    MaxSlices       \* H264_MAX_SLICES, HEVC_MAX_SLICES

ASSUME MaxSlicesAssumption == MaxSlices \in Nat \ {0}

VARIABLES
    (* The client: its stream, the picture between vaBeginPicture and         *)
    (* vaEndPicture, how many of its buffers were rendered, and the coded     *)
    (* sequence it is in: none until a key picture was accepted.              *)
    stream, pic, sent, seq,
    (* The adapter: the picture being collected and what outlives it.         *)
    adapter, cache,
    (* The session of the context (dec_open, dec_started, eos_sent) and the    *)
    (* parameter sets its firmware has received.                              *)
    session, firmware,
    (* History: the unit accepted last, and whether a unit was built and not  *)
    (* delivered to a running session since one was last restarted.           *)
    fed, lost

history == <<fed, lost>>
vars == <<stream, pic, sent, seq, adapter, cache, session, firmware, history>>

NoPicture == [none |-> TRUE]
NoNal == [nal |-> 0]
NothingFed == [none |-> TRUE]

-----------------------------------------------------------------------------
(* What a client sends.  A stream's packing says how: every slice's           *)
(* parameters next to its data ("pairs"), all parameters first and then the   *)
(* slices in one buffer ("joint") or in one each ("spread"), or, for HEVC, no *)
(* slice parameters and the stream's own parameter sets before every random   *)
(* access picture ("inband").                                                *)

Size(nal) == IF stream.codec = "hevc" THEN Len(nal.bytes) ELSE 1

(* Where slice i lies in its data buffer.                                    *)
Offset(p, i) ==
    IF stream.packing # "joint" THEN 0
    ELSE LET end[k \in 0..i - 1] == IF k = 0 THEN 0 ELSE end[k - 1] + Size(p.slices[k])
         IN end[i - 1]

Params(p, i) == [slice |-> p.slices[i], offset |-> Offset(p, i), size |-> Size(p.slices[i])]
AllParams(p) == [i \in DOMAIN p.slices |-> Params(p, i)]

Picture == [type |-> "picture"]
IqMatrix == [type |-> "iq"]
SliceParams(params) == [type |-> "params", params |-> params]
SliceData(nals) == [type |-> "data", nals |-> nals]

Buffers(p) ==
    <<Picture>> \o (IF stream.codec = "vp9" THEN <<>> ELSE <<IqMatrix>>) \o
    CASE stream.packing = "pairs" ->
            [k \in 1..2 * Len(p.slices) |->
                IF k % 2 = 1 THEN SliceParams(<<Params(p, k \div 2 + 1)>>)
                ELSE SliceData(<<p.slices[k \div 2]>>)]
      [] stream.packing = "joint" -> <<SliceParams(AllParams(p)), SliceData(p.slices)>>
      [] stream.packing = "spread" ->
            <<SliceParams(AllParams(p))>> \o [i \in DOMAIN p.slices |-> SliceData(<<p.slices[i]>>)]
      [] stream.packing = "inband" -> <<SliceData(p.sets \o p.slices)>>

-----------------------------------------------------------------------------
(* The adapter's per-picture state and its parameter-set caches.             *)

NoIq == 0
Unset == -1

(* Mutant of Emptied: slice_next keeps counting.                *)
EmptiedKeepingNext(a) == [a EXCEPT !.have = FALSE, !.params = <<>>, !.data = <<>>,
                                   !.ppsId = Unset, !.rewritten = FALSE]

Emptied(a) == [a EXCEPT !.have = FALSE, !.params = <<>>, !.data = <<>>, !.next = 0,
                        !.ppsId = Unset, !.rewritten = FALSE]
NewAdapter == [have |-> FALSE, picture |-> NoPicture, iq |-> NoIq, params |-> <<>>,
               data |-> <<>>, next |-> 0, ppsId |-> Unset, rewritten |-> FALSE]

(* The finish_picture hooks.                                                 *)
Finished(a) == [a EXCEPT !.have = FALSE, !.data = <<>>]

(* The reset_session hooks.                                                  *)
ResetSession == [vps |-> NoNal, sps |-> NoNal, pps |-> NoNal, refs |-> <<Unset, Unset>>,
                 raw |-> [t \in 32..34 |-> NoNal], lastRawSps |-> NoNal]

-----------------------------------------------------------------------------
(* Rendering.  A slice data buffer of HEVC whose slices have parameters is    *)
(* rewritten: all slices left if they all fit the buffer, one otherwise.      *)

Concatenated(nals) == FlattenSeq([i \in DOMAIN nals |-> nals[i].bytes])

SlicesInBuffer(a, bytes) ==
    LET left == a.next + 1..Len(a.params)
        fits == \A i \in left : a.params[i].offset + a.params[i].size <= Len(bytes)
    IN IF Cardinality(left) > 1 /\ fits THEN left ELSE {a.next + 1}

Source(bytes, param) == SubSeq(bytes, param.offset + 1, param.offset + param.size)

(* hevc_append_rewritten_slices; a slice that cannot be rewritten, or of      *)
(* another PPS than the first, fails the call after those before it.          *)
RewriteFailed(a) == [a EXCEPT !.next = Unset]

Kept(a, source, out) ==
    IF out.ret < 0 \/ a.ppsId \notin {Unset, out.pps} THEN RewriteFailed(a)
    ELSE [a EXCEPT !.ppsId = out.pps, !.rewritten = @ \/ out.nal # source,
                   !.data = Append(@, [nal |-> NalType(source), bytes |-> out.nal])]

RewriteOne(a, bytes, param) ==
    LET source == Source(bytes, param)
    IN IF ~a.have \/ param.offset + param.size > Len(bytes) THEN RewriteFailed(a)
       ELSE Kept(a, source, RewriteSlice(source, param.slice.headerBytes, a.picture.params))

(* The slices of use, in order, up to the first that fails.                  *)
RewriteAll(a, bytes, use) ==
    LET upTo[i \in 0..Cardinality(use)] ==
            IF i = 0 THEN a
            ELSE IF upTo[i - 1].next = Unset THEN upTo[i - 1]
            ELSE RewriteOne(upTo[i - 1], bytes, a.params[a.next + i])
    IN upTo[Cardinality(use)]

Consumed(a, count, done) ==
    [done EXCEPT !.next = IF @ = Unset THEN a.next ELSE a.next + count]

AppendRewritten(a, bytes) ==
    LET use == SlicesInBuffer(a, bytes)
    IN Consumed(a, Cardinality(use), RewriteAll(a, bytes, use))

(* The slice NAL units of a buffer as the access unit will hold them.        *)
InUnit(nal) ==
    IF stream.codec = "hevc" /\ nal.nal < 32 THEN [nal |-> nal.nal, bytes |-> nal.bytes]
    ELSE nal

Rendered(a, buffer) ==
    IF stream.codec = "vp9" /\ buffer.type # "data" THEN a
    ELSE CASE buffer.type = "picture" -> [a EXCEPT !.have = TRUE, !.picture = pic]
           [] buffer.type = "iq" -> [a EXCEPT !.iq = pic.iq]
           [] buffer.type = "params" ->
                 IF Len(buffer.params) > MaxSlices - Len(a.params) THEN a
                 ELSE [a EXCEPT !.params = @ \o buffer.params]
           [] buffer.type = "data" ->
                 IF stream.codec = "hevc" /\ a.next < Len(a.params)
                 THEN AppendRewritten(a, Concatenated(buffer.nals))
                 ELSE [a EXCEPT !.data = @ \o [i \in DOMAIN buffer.nals |->
                                                 InUnit(buffer.nals[i])]]

-----------------------------------------------------------------------------
(* H.264: the default reference counts of the PPS are those of the slices     *)
(* that rely on them.  h264_slice_default_ref_mask:                          *)
DefaultRefs(slice) ==
    IF slice.type = "I" \/ slice.override THEN {}
    ELSE IF slice.type = "B" THEN {1, 2} ELSE {1}

(* Before any slice relied on them: from num_ref_frames.                      *)
FirstDefaults(p) ==
    <<IF p.numRefs > 3 THEN 2 ELSE IF p.numRefs = 0 THEN 0 ELSE p.numRefs - 1, 0>>

(* h264_update_pps_defaults: slices without parameters end it.               *)
PpsRefs(a, refs) ==
    [l \in 1..2 |->
        LET relying == {i \in DOMAIN a.data \cap DOMAIN a.params : l \in DefaultRefs(a.data[i])}
        IN IF relying # {} THEN a.params[Max(relying)].slice.active[l]
           ELSE IF refs[l] = Unset THEN FirstDefaults(a.picture)[l] ELSE refs[l]]

H264Sps(p) == [nal |-> 7, seq |-> p.seq]
H264Pps(p, iq, refs) == [nal |-> 8, pps |-> p.pps, iq |-> iq, refs |-> refs]

(* HEVC: the sets built from the picture; the SPS has no reference picture    *)
(* sets and takes the scaling lists.                                         *)
HevcVps(p) == [nal |-> 32, id |-> 0, built |-> TRUE, seq |-> p.seq]
HevcSps(p, iq) == [nal |-> 33, id |-> 0, built |-> TRUE, seq |-> p.seq, iq |-> iq]
HevcPps(p, id) == [nal |-> 34, id |-> id, built |-> TRUE, pps |-> p.pps]

(* A parameter set goes into the unit when it differs from the cached one.    *)
Unsent(set, cached) == IF set = cached THEN <<>> ELSE <<set>>

-----------------------------------------------------------------------------
(* Building the access unit: the NAL units, whether it is a random access     *)
(* point and a new sequence, and the caches it leaves.  A parameter set is    *)
(* cached as sent when the unit is built.                                    *)

Refused(c) == [ok |-> FALSE, cache |-> c]
Unit(nals, key, newSequence, c) ==
    [ok |-> TRUE, nals |-> nals, key |-> key, newSequence |-> newSequence, cache |-> c]

(* The random_access functions.  A VP9 frame is its first byte: marker,       *)
(* profile bits, then show_existing_frame and frame_type.                     *)
Bit(byte, k) == (byte \div 2^k) % 2
Vp9Profile(byte) == Bit(byte, 5) + 2 * Bit(byte, 4)
Vp9ShowExisting(byte) == Bit(byte, IF Vp9Profile(byte) = 3 THEN 2 ELSE 3) = 1
Vp9InterFrame(byte) == Bit(byte, IF Vp9Profile(byte) = 3 THEN 1 ELSE 2) = 1

Vp9RandomAccess(byte) ==
    byte \div 64 = 2 /\ ~Vp9ShowExisting(byte) /\ ~Vp9InterFrame(byte)

(* Mutant of RandomAccess: a repeated VP9 frame counts as a key frame.        *)
RandomAccessWhenShown(data) ==
    CASE stream.codec = "h264" -> \E i \in DOMAIN data : data[i].nal = 5
      [] stream.codec = "hevc" -> \E i \in DOMAIN data : data[i].nal \in 16..23
      [] stream.codec = "vp9" -> data[1].byte \div 64 = 2 /\ ~Vp9InterFrame(data[1].byte)

RandomAccess(data) ==
    CASE stream.codec = "h264" -> \E i \in DOMAIN data : data[i].nal = 5
      [] stream.codec = "hevc" -> \E i \in DOMAIN data : data[i].nal \in 16..23
      [] stream.codec = "vp9" -> Vp9RandomAccess(data[1].byte)

BuildH264(a, c) ==
    LET updated == [c EXCEPT !.refs = PpsRefs(a, c.refs)]
        sps == H264Sps(a.picture)
        pps == H264Pps(a.picture, a.iq, updated.refs)
    IN IF ~a.have \/ a.data = <<>> THEN Refused(c)
       ELSE IF Len(a.data) # Len(a.params) THEN Refused(updated)
       ELSE Unit(Unsent(sps, c.sps) \o Unsent(pps, c.pps) \o a.data, RandomAccess(a.data),
                 sps # c.sps, [updated EXCEPT !.sps = sps, !.pps = pps])

(* hevc_cache_raw_parameter_sets.                                            *)
RawTypes(a) == {n.nal : n \in Range(a.data)} \cap 32..34
CacheRaw(a, c) ==
    [c EXCEPT !.raw = [t \in 32..34 |->
        IF t \in RawTypes(a) THEN a.data[Max({i \in DOMAIN a.data : a.data[i].nal = t})]
        ELSE c.raw[t]]]

(* The unit carries all its sets, or the cached ones go in front of it, or    *)
(* the ones built from the picture that the session lacks.                   *)
BuildHevc(a, c) ==
    LET rawTypes == IF a.rewritten THEN {} ELSE RawTypes(a)
        kept == IF a.rewritten THEN c ELSE CacheRaw(a, c)
        noted == IF 33 \in rawTypes THEN [kept EXCEPT !.lastRawSps = kept.raw[33]] ELSE kept
        newRawSps == 33 \in rawTypes /\ kept.raw[33] # c.lastRawSps
        raw == <<kept.raw[32], kept.raw[33], kept.raw[34]>>
        vps == HevcVps(a.picture)
        sps == HevcSps(a.picture, a.iq)
        pps == HevcPps(a.picture, IF a.ppsId = Unset THEN 0 ELSE a.ppsId)
        key == RandomAccess(a.data)
    IN IF ~a.have \/ a.data = <<>> \/ a.next # Len(a.params) THEN Refused(c)
       ELSE IF rawTypes = 32..34 THEN Unit(a.data, key, newRawSps, noted)
       ELSE IF ~a.rewritten /\ NoNal \notin Range(raw)
            THEN Unit(raw \o a.data, key, newRawSps, noted)
       ELSE Unit(Unsent(vps, c.vps) \o Unsent(sps, c.sps) \o Unsent(pps, c.pps) \o a.data,
                 key, newRawSps \/ sps # c.sps,
                 [noted EXCEPT !.vps = vps, !.sps = sps, !.pps = pps])

BuildVp9(a, c) ==
    IF a.data = <<>> THEN Refused(c) ELSE Unit(a.data, RandomAccess(a.data), FALSE, c)

Build(a, c) ==
    CASE stream.codec = "h264" -> BuildH264(a, c)
      [] stream.codec = "hevc" -> BuildHevc(a, c)
      [] stream.codec = "vp9" -> BuildVp9(a, c)

-----------------------------------------------------------------------------
(* The firmware keeps the last parameter set of each type and id.             *)

SameSlot(m, n) == m.nal = n.nal /\ (m.nal < 32 \/ m.id = n.id)
IsSetOf(codec, n) == n.nal \in IF codec = "hevc" THEN 32..34 ELSE {7, 8}
IsSet(n) == IsSetOf(stream.codec, n)

-----------------------------------------------------------------------------
(* What a client plays: pictures of numbered sequences.  All slices of a      *)
(* picture are of one kind, and those of a key picture are random access      *)
(* points.                                                                   *)

(* ITU-T H.264 7.4.3: slices that do not override the default reference       *)
(* counts of their PPS have the same.                                        *)
H264Picture(p) ==
    /\ p.numRefs \in Nat
    /\ \A n \in Range(p.slices) :
          /\ n.nal \in 1..5 /\ (n.nal = 5 <=> p.key)
          /\ n.active \in [1..2 -> 0..31]
    /\ \A m, n \in Range(p.slices) : \A l \in DefaultRefs(m) \cap DefaultRefs(n) :
          m.active[l] = n.active[l]

(* ITU-T H.265 7.4.2.2: a slice's first byte has its type.                    *)
Byte == 0..255
HevcPicture(p) ==
    \A n \in Range(p.slices) :
        /\ n.nal \in 0..31 /\ (n.nal \in 16..23 <=> p.key)
        /\ n.bytes \in Seq(Byte) \ {<<>>} /\ NalType(n.bytes) = n.nal

Vp9Picture(p) ==
    /\ Len(p.slices) = 1
    /\ ~IsSetOf("vp9", p.slices[1]) /\ (Vp9RandomAccess(p.slices[1].byte) <=> p.key)

(* The stream's own parameter sets come before every key picture: each type,  *)
(* one SPS, and a PPS for every picture of the sequence.                      *)
InBand(s, p) ==
    /\ p.key <=> p.sets # <<>>
    /\ \A m \in Range(p.sets) : m.nal \in 32..34 /\ ~m.built
    /\ \A m, n \in Range(p.sets) : SameSlot(m, n) \/ (m.nal = 33 /\ n.nal = 33) => m = n
    /\ p.key =>
          /\ \A t \in 32..34 : \E n \in Range(p.sets) : n.nal = t
          /\ \A n \in Range(p.sets) : n.nal \in {32, 33} => n.seq = p.seq
          /\ \A q \in s.pictures : q.seq = p.seq =>
                \E n \in Range(p.sets) : n.nal = 34 /\ n.id = q.ppsId /\ n.pps = q.pps

WellFormed(s) ==
    /\ s.codec \in {"h264", "hevc", "vp9"}
    /\ s.packing \in {"pairs", "joint", "spread"} \cup
                       (IF s.codec = "hevc" THEN {"inband"} ELSE {})
    /\ \A p \in s.pictures :
          /\ p # NoPicture /\ p.seq \in Nat \ {0}
          /\ Len(p.slices) \in Nat \ {0} /\ p.slices \in Seq(Range(p.slices))
          /\ CASE s.codec = "h264" -> H264Picture(p)
               [] s.codec = "hevc" -> HevcPicture(p)
               [] s.codec = "vp9" -> Vp9Picture(p)
          /\ s.packing = "inband" =>
                InBand(s, p) /\ p.sets \in Seq(Range(p.sets))
          /\ s.codec = "hevc" => \A q \in s.pictures : p.seq = q.seq => p.iq = q.iq

ASSUME StreamsAssumption == \A s \in Streams : WellFormed(s)

-----------------------------------------------------------------------------
NoSets == [sets |-> {}, sequences |-> {}, fed |-> FALSE]
Receive(f, nals) ==
    LET new == {n \in Range(nals) : IsSet(n)}
    IN [sets |-> {m \in f.sets : \A n \in new : ~SameSlot(m, n)} \cup new,
        sequences |-> f.sequences \cup {n \in new : n.nal \in {7, 33}},
        fed |-> TRUE]

Closed == [open |-> FALSE, started |-> FALSE, eos |-> FALSE]
Opened == [open |-> TRUE, started |-> FALSE, eos |-> FALSE]

Init ==
    /\ stream \in Streams
    /\ pic = NoPicture /\ sent = 0 /\ seq = 0
    /\ adapter = NewAdapter /\ cache = ResetSession
    /\ session = Closed /\ firmware = NoSets
    /\ fed = NothingFed /\ lost = FALSE

(* vaBeginPicture.  A picture that is not a key picture belongs to the        *)
(* sequence being played.                                                    *)
BeginPicture(p) ==
    /\ pic = NoPicture
    /\ p.key \/ p.seq = seq
    /\ pic' = p /\ sent' = 0
    /\ adapter' = Emptied(adapter)
    /\ UNCHANGED <<stream, seq, cache, session, firmware, history>>

Render ==
    /\ pic # NoPicture
    /\ sent < Len(Buffers(pic))
    /\ adapter' = Rendered(adapter, Buffers(pic)[sent + 1])
    /\ sent' = sent + 1
    /\ UNCHANGED <<stream, pic, seq, cache, session, firmware, history>>

-----------------------------------------------------------------------------
(* vaEndPicture.  idle stands for the gap before the picture.                *)

(* Mutant of StartsStream: a new sequence is no reason to restart.           *)
StartsStreamWhenIdle(unit, idle) ==
    session.started /\ unit.ok /\ unit.key /\ (session.eos \/ idle)

StartsStream(unit, idle) ==
    session.started /\ unit.ok /\ unit.key /\ (session.eos \/ unit.newSequence \/ idle)

(* The call returns: a client whose key picture failed sends another.         *)
Ended(ok) ==
    /\ pic' = NoPicture
    /\ seq' = IF ok THEN pic.seq ELSE IF pic.key THEN 0 ELSE seq
    /\ UNCHANGED <<stream, sent>>

EndRefused ==
    LET unit == Build(adapter, cache)
    IN /\ pic # NoPicture
       /\ ~unit.ok
       /\ cache' = unit.cache
       /\ Ended(FALSE)
       /\ UNCHANGED <<adapter, session, firmware, history>>

(* The drain before a restart times out: the session is at its end and open.  *)
EndUndrained(idle) ==
    LET unit == Build(adapter, cache)
    IN /\ "drain" \in stream.faults
       /\ pic # NoPicture
       /\ StartsStream(unit, idle) /\ ~session.eos
       /\ session' = [session EXCEPT !.eos = TRUE]
       /\ cache' = unit.cache
       /\ lost' = TRUE
       /\ Ended(FALSE)
       /\ UNCHANGED <<adapter, firmware, fed>>

(* A restart resets the adapter and builds the unit again.  ensure_decoder    *)
(* replaces a session at its end after the unit was built.  "wait": what      *)
(* follows an accepted unit fails (the drain, VP9's release units, the wait   *)
(* for an exported target), and the adapter is not told that it was sent.     *)
EndPicture(idle, fault) ==
    LET before == Build(adapter, cache)
        restart == StartsStream(before, idle)
        unit == IF restart THEN Build(adapter, ResetSession) ELSE before
        reopen == ~restart /\ session.open /\ session.eos
        keeps == session.open /\ ~session.eos /\ ~restart
        held == IF keeps THEN firmware ELSE NoSets
    IN /\ pic # NoPicture
       /\ before.ok
       /\ fault = "open" => ~keeps
       /\ fault = "start" => ~(keeps /\ session.started)
       /\ cache' = IF reopen THEN ResetSession ELSE unit.cache
       /\ session' = IF fault = "open" THEN Closed
                     ELSE IF fault \in {"none", "wait"} THEN [Opened EXCEPT !.started = TRUE]
                     ELSE IF keeps THEN session ELSE Opened
       /\ firmware' = IF fault \in {"open", "submit"} THEN held ELSE Receive(held, unit.nals)
       /\ adapter' = IF fault = "none" THEN Finished(adapter) ELSE adapter
       /\ fed' = IF fault \in {"open", "submit"} THEN fed
                 ELSE [pic |-> pic, whole |-> sent = Len(Buffers(pic)), nals |-> unit.nals,
                       sets |-> Receive(held, unit.nals).sets, first |-> ~held.fed,
                       restart |-> restart, idle |-> idle /\ session.started]
       /\ lost' = (fault \notin {"none", "wait"} \/ reopen \/ (lost /\ ~restart))
       /\ Ended(fault = "none")

(* A client that waits for its newest VP9 picture ends the stream.           *)
Flush ==
    /\ stream.codec = "vp9"
    /\ pic = NoPicture /\ session.started /\ ~session.eos
    /\ session' = [session EXCEPT !.eos = TRUE]
    /\ UNCHANGED <<stream, pic, sent, seq, adapter, cache, firmware, history>>

Next ==
    \/ \E p \in stream.pictures : BeginPicture(p)
    \/ Render
    \/ EndRefused
    \/ \E idle \in BOOLEAN : EndUndrained(idle)
    \/ \E idle \in BOOLEAN, fault \in {"none"} \cup (stream.faults \ {"drain"}) : EndPicture(idle, fault)
    \/ Flush

Spec == Init /\ [][Next]_vars

-----------------------------------------------------------------------------
(* TypeOK: slices are never consumed ahead of their parameters, reference      *)
(* counts and PPS ids stay in range, and a started session is open.           *)
TypeOK ==
    /\ pic \in {NoPicture} \cup stream.pictures
    /\ Len(adapter.params) <= MaxSlices
    /\ adapter.next \in 0..Len(adapter.params)
    /\ adapter.ppsId \in -1..63
    /\ \A l \in 1..2 : cache.refs[l] \in -1..31
    /\ session.started => session.open
    /\ session.eos => session.started
    /\ \A m, n \in firmware.sets : SameSlot(m, n) => m = n

(* What a decoder makes of a slice under an SPS without reference picture     *)
(* sets: emulation prevention undone, the header read up to its set.          *)
Unescaped(nal) ==
    LET Stuffed(i) == i > 4 /\ nal[i] = 3 /\ nal[i - 1] = 0 /\ nal[i - 2] = 0
        kept == SelectSeq([i \in DOMAIN nal |-> i], LAMBDA i : ~Stuffed(i))
    IN [i \in DOMAIN kept |-> nal[kept[i]]]

ParsedRps(d, p) ==
    LET before == BrUe(d, p)
        after == BrUe(d, before.bit)
        total == before.value + after.value
        entry[i \in 0..total] ==
            IF i = 0 THEN [bit |-> after.bit, delta |-> 0, used |-> 0]
            ELSE LET gap == BrUe(d, entry[i - 1].bit)
                     used == BrBits(d, gap.bit, 1)
                     from == IF i = before.value + 1 THEN 0 ELSE entry[i - 1].delta
                 IN [bit |-> used.bit, used |-> used.value,
                     delta |-> IF i <= before.value THEN from - gap.value - 1
                               ELSE from + gap.value + 1]
    IN [end |-> entry[total].bit,
        refs |-> {[delta |-> entry[i].delta, used |-> entry[i].used] : i \in 1..total}]

ReadsAs(bytes, slice, pic0) ==
    LET d == BitsOf(Unescaped(bytes))
        flag == Len(slice.prefix) + 1
        rps == ParsedRps(d, flag)
        header == SubSeq(d, 1, rps.end) \o slice.suffix \o <<1>>
    IN /\ SubSeq(d, 1, flag) = slice.prefix \o <<0>>
       /\ rps.end >= 0
       /\ rps.refs = {[delta |-> r.delta, used |-> r.used] : r \in ShortRefs(pic0.params)}
       /\ d = PadToByte(header) \o BitsOf(slice.payload)

HevcSliceDecodable(unit, slice, sps) ==
    IF sps.built /\ slice.hasRps THEN ReadsAs(unit.bytes, slice, fed.pic)
    ELSE unit.bytes = slice.bytes

(* Where the slices of the unit are, and which of its slices each one is.     *)
SlicesFed == {i \in DOMAIN fed.nals : ~IsSet(fed.nals[i])}
Rank(i) == Cardinality({j \in SlicesFed : j <= i})

UnitParses ==
    CASE stream.codec = "h264" ->
            /\ \E s \in fed.sets : s = H264Sps(fed.pic)
            /\ \E s \in fed.sets :
                  /\ s.nal = 8 /\ s.pps = fed.pic.pps /\ s.iq = fed.pic.iq
                  /\ \A i \in SlicesFed : \A l \in DefaultRefs(fed.nals[i]) :
                        s.refs[l] = fed.nals[i].active[l]
            /\ \A i \in SlicesFed : fed.nals[i] = fed.pic.slices[Rank(i)]
      [] stream.codec = "hevc" ->
            /\ \E s \in fed.sets : s.nal = 32 /\ s.seq = fed.pic.seq
            /\ \E s \in fed.sets : s.nal = 34 /\ s.id = fed.pic.ppsId /\ s.pps = fed.pic.pps
            /\ \E s \in fed.sets :
                  /\ s.nal = 33 /\ s.seq = fed.pic.seq /\ (s.built => s.iq = fed.pic.iq)
                  /\ \A i \in SlicesFed :
                        HevcSliceDecodable(fed.nals[i], fed.pic.slices[Rank(i)], s)
      [] stream.codec = "vp9" -> TRUE

(* Every unit the firmware accepts it can also parse, with the parameter      *)
(* sets it was given since its session was opened: the sequence and picture   *)
(* parameters are the picture's, the default reference counts those its       *)
(* slices rely on, and every HEVC slice reads as the client's did, with the   *)
(* same references; a picture sent whole has all its slices.  A unit built    *)
(* and not delivered ends this until the next restart, which makes the        *)
(* session whole again; a call that fails after its unit was accepted does    *)
(* not.                                                                      *)
UnitsDecodable ==
    fed # NothingFed /\ ~lost =>
        /\ UnitParses
        /\ fed.whole => Cardinality(SlicesFed) = Len(fed.pic.slices)

(* decode.c:618-619: "Session reset invalidates parameter-set caches.         *)
(* Rebuild so the first AU submitted to the new VPU session is                *)
(* self-contained."                                                          *)
FirstUnitSelfContained ==
    (fed # NothingFed /\ fed.first) => UnitParses

(* A firmware session sees one sequence: its parameters never change under    *)
(* pictures it still decodes from (stream_boundary_restart), failures aside.  *)
OneSequencePerSession == ~lost => Cardinality(firmware.sequences) <= 1

(* A running session is replaced, and its references lost, only at key        *)
(* pictures (decode.c:586-602): never before another picture, and always at a *)
(* key picture after a pause.  That a key picture within a stream is no       *)
(* reason (decode.c:600-602) is not part of it.                               *)
RestartsAtKeyPictures ==
    fed # NothingFed =>
        /\ fed.restart => fed.pic.key
        /\ fed.pic.key /\ fed.idle /\ fed.whole => fed.restart
=============================================================================
