-------------------------- MODULE HevcSliceRewrite --------------------------
(***************************************************************************)
(* codec/hevc/hevc_slice_rewrite.c.  VA-API hands over the fields of an    *)
(* HEVC picture but not the short-term reference picture sets of its SPS,  *)
(* so the SPS the driver builds has none and every slice header that       *)
(* selects one is rewritten to spell its set out.  A NAL unit is a         *)
(* sequence of bytes; an unescaped header is a sequence of bits; a reader  *)
(* position is the number of bits already read.                            *)
(***************************************************************************)
EXTENDS Integers, Sequences, FiniteSets, SequencesExt

EINVAL == -22
ENOTSUP == -95

-----------------------------------------------------------------------------
(* Bits and bytes.                                                           *)

Binary(v, n) == [i \in 1..n |-> (v \div 2^(n - i)) % 2]

NumberOf(bits) ==
    LET value[i \in 0..Len(bits)] == IF i = 0 THEN 0 ELSE 2 * value[i - 1] + bits[i]
    IN value[Len(bits)]

BitsOf(bytes) ==
    [i \in 1..8 * Len(bytes) |->
        (bytes[(i - 1) \div 8 + 1] \div 2^(7 - ((i - 1) % 8))) % 2]

BytesOf(bits) ==
    [i \in 1..Len(bits) \div 8 |-> NumberOf(SubSeq(bits, 8 * i - 7, 8 * i))]

-----------------------------------------------------------------------------
(* The bit reader.  A read that fails leaves the reader Stuck, and so does    *)
(* every read after it.                                                      *)

Stuck == [bit |-> -1, value |-> 0]

BrBits(d, p, count) ==
    IF p < 0 \/ p + count > Len(d) THEN Stuck
    ELSE [bit |-> p + count, value |-> NumberOf(SubSeq(d, p + 1, p + count))]

BrSkip(d, p, count) ==
    IF p < 0 \/ p + count > Len(d) THEN Stuck ELSE [bit |-> p + count, value |-> 0]

BrUe(d, p) ==
    LET zeros == {z \in 0..31 : /\ p >= 0 /\ p + z < Len(d) /\ d[p + z + 1] = 1
                                /\ \A k \in 1..z : d[p + k] = 0}
    IN IF zeros = {} THEN Stuck
       ELSE LET z == CHOOSE k \in zeros : TRUE
                suffix == BrBits(d, p + z + 1, z)
            IN IF suffix = Stuck THEN Stuck
               ELSE [bit |-> suffix.bit, value |-> 2^z - 1 + suffix.value]

(* The bit writer: what bw_ue appends.                                       *)
BwUe(v) ==
    LET width == CHOOSE n \in 1..31 : 2^(n - 1) <= v + 1 /\ (n = 31 \/ v + 1 < 2^n)
    IN [i \in 1..width - 1 |-> 0] \o Binary(v + 1, width)

CeilLog2(v) == CHOOSE n \in 0..30 : 2^n >= v /\ (n = 0 \/ 2^(n - 1) < v)

-----------------------------------------------------------------------------
(* Emulation prevention.  The prefix of a NAL that unescapes to size bytes,   *)
(* with the number of escaped bytes it took.                                 *)
UnescapePrefix(in, size) ==
    LET Escape(s, i) == s.zeros >= 2 /\ in[i] = 3 /\ i < Len(in) /\ in[i + 1] <= 3
        run[i \in 2..Len(in)] ==
            IF i = 2 THEN [out |-> SubSeq(in, 1, 2), zeros |-> 0, used |-> 2]
            ELSE LET s == run[i - 1]
                 IN IF Len(s.out) = size THEN s
                    ELSE IF Escape(s, i) THEN [s EXCEPT !.zeros = 0, !.used = i]
                    ELSE [out |-> Append(s.out, in[i]),
                          zeros |-> IF in[i] = 0 THEN s.zeros + 1 ELSE 0, used |-> i]
    IN run[Len(in)]

EscapeNal(in) ==
    LET run[i \in 2..Len(in)] ==
            IF i = 2 THEN [out |-> SubSeq(in, 1, 2), zeros |-> 0]
            ELSE LET s == run[i - 1]
                     stop == s.zeros >= 2 /\ in[i] <= 3
                 IN [out |-> s.out \o (IF stop THEN <<3, in[i]>> ELSE <<in[i]>>),
                     zeros |-> IF in[i] # 0 THEN 0 ELSE IF stop THEN 1 ELSE s.zeros + 1]
    IN run[Len(in)].out

-----------------------------------------------------------------------------
(* The picture's short-term references, nearest first on each side, and the   *)
(* st_ref_pic_set() that spells them out.                                    *)

ShortRefs(pic) == {r \in pic.refs : ~r.longTerm}
Before(pic) == SetToSortSeq({r \in ShortRefs(pic) : r.delta < 0},
                            LAMBDA a, b : a.delta > b.delta)
After(pic) == SetToSortSeq({r \in ShortRefs(pic) : r.delta > 0},
                           LAMBDA a, b : a.delta < b.delta)

(* Mutant of InlineRps: the distance between two references is written        *)
(* without taking one off, though it is never zero.                          *)
InlineRpsOffByOne(pic) ==
    LET before == Before(pic)
        after == After(pic)
        Gap(side, i) == IF i = 1 THEN side[i].delta ELSE side[i].delta - side[i - 1].delta
        Entries(side, sign) ==
            FlattenSeq([i \in DOMAIN side |->
                          BwUe(sign * Gap(side, i)) \o <<side[i].used>>])
    IN BwUe(Len(before)) \o BwUe(Len(after)) \o Entries(before, -1) \o Entries(after, 1)

InlineRps(pic) ==
    LET before == Before(pic)
        after == After(pic)
        Gap(side, i) == IF i = 1 THEN side[i].delta ELSE side[i].delta - side[i - 1].delta
        Entries(side, sign) ==
            FlattenSeq([i \in DOMAIN side |->
                          BwUe(sign * Gap(side, i) - 1) \o <<side[i].used>>])
    IN BwUe(Len(before)) \o BwUe(Len(after)) \o Entries(before, -1) \o Entries(after, 1)

-----------------------------------------------------------------------------
(* The slice header up to the end of its reference picture set.              *)

NalType(nal) == (nal[1] \div 2) % 64

Ctbs(size, log2) == (size + 2^log2 - 1) \div 2^log2
AddressBits(pic) ==
    CeilLog2(Ctbs(pic.width, pic.ctbLog2) * Ctbs(pic.height, pic.ctbLog2))

(* Read one field, or none where the stream's parameters leave it out.       *)
OptBits(present, d, p, count) == BrBits(d, p, IF present THEN count ELSE 0)

(* The reader after each field of the header.                                *)
Header(d, type, pic) ==
    LET first == BrBits(d, 16, 1)
        noOutput == OptBits(type \in 16..23, d, first.bit, 1)
        pps == BrUe(d, noOutput.bit)
        ppsRead == IF pps.value > 63 THEN Stuck ELSE pps
        dependent == OptBits(first.value = 0 /\ pic.dependentEnabled, d, ppsRead.bit, 1)
        address == OptBits(first.value = 0, d, dependent.bit, AddressBits(pic))
        extra == BrBits(d, address.bit, pic.extraBits)
        sliceType == BrUe(d, extra.bit)
        output == OptBits(pic.outputFlag, d, sliceType.bit, 1)
        plane == OptBits(pic.separateColour, d, output.bit, 2)
        lsb == BrBits(d, plane.bit, pic.pocLsbBits)
        selects == BrBits(d, lsb.bit, 1)
        rpsEnd == IF selects.value = 0 THEN BrSkip(d, selects.bit, pic.stRpsBits)
                  ELSE OptBits(pic.numStRps > 1, d, selects.bit, CeilLog2(pic.numStRps))
    IN [pps |-> pps.value, address |-> address.bit, dependent |-> dependent.value = 1,
        plane |-> plane.bit, rpsStart |-> lsb.bit, rpsEnd |-> rpsEnd.bit]

(* Bits of the header before its trailing one: __builtin_ctz of the last      *)
(* byte, which must not be zero.                                             *)
SyntaxEnd(d) == CHOOSE n \in 0..Len(d) - 1 :
                    d[n + 1] = 1 /\ \A k \in n + 2..Len(d) : d[k] = 0

PadToByte(bits) == bits \o [i \in 1..(8 - (Len(bits) % 8)) % 8 |-> 0]

NewHeader(d, h, pic) ==
    PadToByte(SubSeq(d, 1, h.rpsStart) \o <<0>> \o InlineRps(pic)
              \o SubSeq(d, h.rpsEnd + 1, SyntaxEnd(d)) \o <<1>>)

-----------------------------------------------------------------------------
(* hevc_rewrite_slice: ret is the new size, or a negative error.  ret is zero *)
(* once the header has been unescaped, so a header that cannot be read gives  *)
(* a NAL unit of size zero and no error.                                     *)
Rejected(ret, pps) == [ret |-> ret, nal |-> <<>>, pps |-> pps]
Rewritten(nal, pps) == [ret |-> Len(nal), nal |-> nal, pps |-> pps]

RewriteRead(nal, prefix, d, h, pic) ==
    LET type == NalType(nal)
        payload == SubSeq(nal, prefix.used + 1, Len(nal))
    IN IF h.address < 0 THEN Rejected(0, h.pps)
       ELSE IF h.dependent THEN Rewritten(nal, h.pps)
       ELSE IF h.plane < 0 THEN Rejected(0, h.pps)
       ELSE IF type \in {19, 20} THEN Rewritten(nal, h.pps)
       ELSE IF h.rpsEnd < 0 THEN Rejected(0, h.pps)
       ELSE IF pic.longTermPresent /\ pic.numLongTermSps > 0 THEN Rejected(ENOTSUP, h.pps)
       ELSE IF pic.numStRps = 0 THEN Rewritten(nal, h.pps)
       ELSE IF Last(prefix.out) = 0 \/ h.rpsEnd > SyntaxEnd(d) THEN Rejected(0, h.pps)
       ELSE IF \E r \in ShortRefs(pic) : r.delta = 0 THEN Rejected(EINVAL, h.pps)
       ELSE Rewritten(EscapeNal(BytesOf(NewHeader(d, h, pic))) \o payload, h.pps)

RewritePrefix(nal, prefix, headerBytes, pic) ==
    LET d == BitsOf(prefix.out)
    IN IF Len(prefix.out) # headerBytes THEN Rejected(EINVAL, 0)
       ELSE RewriteRead(nal, prefix, d, Header(d, NalType(nal), pic), pic)

RewriteSlice(nal, headerBytes, pic) ==
    IF Len(nal) < 3 \/ headerBytes \notin 3..Len(nal) THEN Rejected(EINVAL, 0)
    ELSE RewritePrefix(nal, UnescapePrefix(nal, headerBytes), headerBytes, pic)
=============================================================================
