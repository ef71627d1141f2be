------------------------ MODULE V4l2TransportProofs -------------------------
(* What every call of the V4L2 transport and every step of the decoder keeps  *)
(* true, for every number of buffers and whoever calls: the types, that no    *)
(* buffer of either queue is lost or has two owners, the size of the pictures *)
(* that wait in the ring, and what LAST means.  First sequences, then the     *)
(* invariant, then one lemma per call.                                        *)
EXTENDS V4l2Transport, SequenceTheorems, TLAPS

-----------------------------------------------------------------------------
(* Members of sequences                                                       *)

(* The members of two sequences one after the other (freeOut \o outDone).     *)
LEMMA MembersOfConcat ==
    ASSUME NEW S, NEW s \in Seq(S), NEW t \in Seq(S)
    PROVE  /\ s \o t \in Seq(S) /\ Len(s \o t) = Len(s) + Len(t)
           /\ ToSet(s \o t) = ToSet(s) \cup ToSet(t)
<1>1. /\ s \o t \in Seq(S) /\ Len(s \o t) = Len(s) + Len(t)
      /\ \A i \in 1 .. Len(s) + Len(t) :
            (s \o t)[i] = IF i <= Len(s) THEN s[i] ELSE t[i - Len(s)]
  BY ConcatProperties
<1>2. DOMAIN s = 1 .. Len(s) /\ DOMAIN t = 1 .. Len(t)
      /\ DOMAIN (s \o t) = 1 .. Len(s) + Len(t)
      /\ Len(s) \in Nat /\ Len(t) \in Nat
  BY <1>1, LenProperties
<1>3. ASSUME NEW x \in ToSet(s \o t)
      PROVE  x \in ToSet(s) \cup ToSet(t)
  <2>1. PICK i \in 1 .. Len(s) + Len(t) : x = (s \o t)[i]
    BY <1>2 DEF ToSet
  <2>2. CASE i <= Len(s)
    BY <1>1, <1>2, <2>1, <2>2 DEF ToSet
  <2>3. CASE ~(i <= Len(s))
    <3>1. i - Len(s) \in DOMAIN t /\ x = t[i - Len(s)]
      BY <1>1, <1>2, <2>1, <2>3
    <3> QED
      BY <3>1 DEF ToSet
  <2> QED
    BY <2>2, <2>3
<1>4. ASSUME NEW x \in ToSet(s)
      PROVE  x \in ToSet(s \o t)
  <2>1. PICK i \in DOMAIN s : x = s[i]
    BY DEF ToSet
  <2>2. i \in DOMAIN (s \o t) /\ (s \o t)[i] = x
    BY <1>1, <1>2, <2>1
  <2> QED
    BY <2>2 DEF ToSet
<1>5. ASSUME NEW x \in ToSet(t)
      PROVE  x \in ToSet(s \o t)
  <2>1. PICK i \in DOMAIN t : x = t[i]
    BY DEF ToSet
  <2>2. i + Len(s) \in DOMAIN (s \o t) /\ (s \o t)[i + Len(s)] = x
    BY <1>1, <1>2, <2>1
  <2> QED
    BY <2>2 DEF ToSet
<1> QED
  BY <1>1, <1>3, <1>4, <1>5

(* One member more at the end (a unit queued, a buffer the decoder has done). *)
LEMMA MembersOfAppend ==
    ASSUME NEW S, NEW s \in Seq(S), NEW x \in S
    PROVE  /\ Append(s, x) \in Seq(S) /\ Len(Append(s, x)) = Len(s) + 1
           /\ ToSet(Append(s, x)) = ToSet(s) \cup {x}
<1>1. /\ Append(s, x) \in Seq(S) /\ Len(Append(s, x)) = Len(s) + 1
      /\ DOMAIN Append(s, x) = 1 .. Len(s) + 1 /\ DOMAIN s = 1 .. Len(s)
      /\ Len(s) \in Nat
      /\ Append(s, x)[Len(s) + 1] = x
      /\ \A i \in 1 .. Len(s) : Append(s, x)[i] = s[i]
  BY AppendProperties, LenProperties
<1>2. ToSet(Append(s, x)) = ToSet(s) \cup {x}
  BY <1>1 DEF ToSet
<1> QED
  BY <1>1, <1>2

(* One member less in front (the decoder takes a unit, a picture is dequeued).*)
LEMMA MembersOfTail ==
    ASSUME NEW S, NEW s \in Seq(S), s # <<>>
    PROVE  /\ Head(s) \in S /\ Tail(s) \in Seq(S) /\ Len(Tail(s)) = Len(s) - 1
           /\ 1 \in DOMAIN s /\ Head(s) = s[1]
           /\ DOMAIN Tail(s) = 1 .. Len(s) - 1 /\ DOMAIN s = 1 .. Len(s)
           /\ Len(s) \in Nat \ {0}
           /\ \A i \in DOMAIN Tail(s) : i + 1 \in DOMAIN s /\ Tail(s)[i] = s[i + 1]
           /\ ToSet(s) = ToSet(Tail(s)) \cup {Head(s)}
<1>1. /\ Head(s) \in S /\ Tail(s) \in Seq(S) /\ Len(Tail(s)) = Len(s) - 1
      /\ \A i \in 1 .. Len(Tail(s)) : Tail(s)[i] = s[i + 1]
      /\ DOMAIN s = 1 .. Len(s) /\ DOMAIN Tail(s) = 1 .. Len(Tail(s))
      /\ Len(s) \in Nat \ {0}
  BY HeadTailProperties, LenProperties, EmptySeq
<1>2. Head(s) = s[1]
  OBVIOUS
<1>3. \A i \in DOMAIN Tail(s) : i + 1 \in DOMAIN s /\ Tail(s)[i] = s[i + 1]
  BY <1>1
<1>4. ASSUME NEW x \in ToSet(s)
      PROVE  x \in ToSet(Tail(s)) \cup {Head(s)}
  <2>1. PICK i \in DOMAIN s : x = s[i]
    BY DEF ToSet
  <2>2. CASE i = 1
    BY <1>2, <2>1, <2>2
  <2>3. CASE i # 1
    <3>1. i - 1 \in DOMAIN Tail(s) /\ Tail(s)[i - 1] = s[(i - 1) + 1] /\ (i - 1) + 1 = i
      BY <1>1, <2>3
    <3> QED
      BY <2>1, <3>1 DEF ToSet
  <2> QED
    BY <2>2, <2>3
<1>5. ToSet(Tail(s)) \cup {Head(s)} \subseteq ToSet(s)
  BY <1>1, <1>2, <1>3 DEF ToSet
<1> QED
  BY <1>1, <1>2, <1>3, <1>4, <1>5

(* One member less at the end (v4l2_dec_feed pops free_out).                  *)
LEMMA MembersOfFront ==
    ASSUME NEW S, NEW s \in Seq(S), s # <<>>
    PROVE  /\ Last(s) \in S /\ Front(s) \in Seq(S) /\ Len(Front(s)) = Len(s) - 1
           /\ ToSet(s) = ToSet(Front(s)) \cup {Last(s)}
<1>1. Len(s) \in Nat \ {0} /\ DOMAIN s = 1 .. Len(s)
  BY LenProperties, EmptySeq
<1>2. /\ Front(s) \in Seq(S) /\ Len(Front(s)) = Len(s) - 1
      /\ \A i \in 1 .. Len(s) - 1 : Front(s)[i] = s[i]
      /\ DOMAIN Front(s) = 1 .. Len(s) - 1
  <2> DEFINE n == Len(s) - 1
  <2>1. n \in 0 .. Len(s)
    BY <1>1
  <2>2. \A i \in 1 .. n : s[i] \in S
    BY <1>1, ElementOfSeq
  <2>3. /\ SubSeq(s, 1, n) \in Seq(S)
        /\ Len(SubSeq(s, 1, n)) = n
        /\ \A i \in 1 .. n : SubSeq(s, 1, n)[i] = s[i]
    BY <1>1, <2>1, <2>2
  <2> QED
    BY <2>3, LenProperties DEF Front
<1>3. Last(s) \in S /\ Last(s) \in ToSet(s)
  BY <1>1, ElementOfSeq DEF Last, ToSet
<1>4. ASSUME NEW x \in ToSet(s)
      PROVE  x \in ToSet(Front(s)) \cup {Last(s)}
  <2>1. PICK i \in DOMAIN s : x = s[i]
    BY DEF ToSet
  <2>2. i = Len(s) \/ i \in 1 .. Len(s) - 1
    BY <1>1
  <2> QED
    BY <1>2, <2>1, <2>2 DEF ToSet, Last
<1>5. ToSet(Front(s)) \subseteq ToSet(s)
  BY <1>1, <1>2 DEF ToSet
<1> QED
  BY <1>2, <1>3, <1>4, <1>5

-----------------------------------------------------------------------------
(* The invariant                                                              *)

(* OUTPUT buffers that someone has: the driver, the decoder as bitstream, the *)
(* decoder as finished.                                                       *)
Held(free, out, done) == ToSet(free) \cup {out[k].buf : k \in DOMAIN out} \cup ToSet(done)

(* OutputAccounted, as counts and members that the calls move around.         *)
OutputInv ==
    dec.open => /\ Len(freeOut) + Len(vdev.out) + Len(vdev.outDone) = OutCount
                /\ Held(freeOut, vdev.out, vdev.outDone) = OutSlots

(* No CAPTURE buffer holds two finished pictures, or one while it is queued.  *)
CaptureApart ==
    \A k \in DOMAIN vdev.ready :
        /\ vdev.ready[k].index \notin vdev.cap
        /\ \A l \in DOMAIN vdev.ready : vdev.ready[l].index = vdev.ready[k].index => l = k

(* The pictures that wait in the ring have the size the driver negotiated; as *)
(* long as the decoder decodes it decodes at that size.                       *)
RingHasLayout ==
    /\ \A k \in DOMAIN vdev.ready : vdev.ready[k].layout = dec.layout
    /\ vdev.capOn /\ ~vdev.paused => vdev.fmt = dec.layout

(* LAST is the last picture: it comes after STOP and after every unit.        *)
LastIsLast ==
    /\ vdev.lastSent => vdev.stop /\ vdev.out = <<>>
    /\ \A k \in DOMAIN vdev.ready :
          vdev.ready[k].last => vdev.lastSent /\ k = Len(vdev.ready)
    /\ dec.eos => vdev.lastSent /\ vdev.ready = <<>>

TransportInv ==
    OutputInv /\ CaptureAccounted /\ CaptureApart /\ RingHasLayout /\ LastIsLast

TransportSafe == TransportTypeOK /\ TransportInv

(* The counts and members say what OutputAccounted says of the one sequence   *)
(* of all owners.                                                             *)
LEMMA OutputInvAccounts ==
    ASSUME TransportTypeOK, OutputInv
    PROVE  OutputAccounted
<1> DEFINE bufs == [k \in DOMAIN vdev.out |-> vdev.out[k].buf]
<1>1. freeOut \in Seq(OutSlots) /\ vdev.outDone \in Seq(OutSlots) /\ vdev.out \in Seq(Unit)
  BY DEF TransportTypeOK, DeviceRecord
<1>2. /\ bufs \in Seq(OutSlots) /\ Len(bufs) = Len(vdev.out)
      /\ ToSet(bufs) = {vdev.out[k].buf : k \in DOMAIN vdev.out}
  <2>1. DOMAIN vdev.out = 1 .. Len(vdev.out) /\ Len(vdev.out) \in Nat
    BY <1>1, LenProperties
  <2>2. ASSUME NEW k \in 1 .. Len(vdev.out)
        PROVE  vdev.out[k].buf \in OutSlots
    <3>1. vdev.out[k] \in Unit
      BY <1>1, ElementOfSeq
    <3> QED
      BY <3>1 DEF Unit
  <2>3. bufs \in Seq(OutSlots) /\ Len(bufs) = Len(vdev.out)
    BY <2>1, <2>2, IsASeq
  <2>4. ToSet(bufs) = {vdev.out[k].buf : k \in DOMAIN vdev.out}
    BY DEF ToSet
  <2> QED
    BY <2>3, <2>4
<1> HIDE DEF bufs
<1> DEFINE taken == freeOut \o bufs
<1>3. /\ taken \in Seq(OutSlots) /\ Len(taken) = Len(freeOut) + Len(bufs)
      /\ ToSet(taken) = ToSet(freeOut) \cup ToSet(bufs)
  BY <1>1, <1>2, MembersOfConcat
<1> DEFINE done == vdev.outDone
<1>4. done \in Seq(OutSlots)
  BY <1>1
<1>5. dec.open => /\ Len(freeOut) + Len(bufs) + Len(done) = OutCount
                  /\ ToSet(freeOut) \cup ToSet(bufs) \cup ToSet(done) = OutSlots
  BY <1>2 DEF OutputInv, Held
<1> HIDE DEF taken, done
<1>6. /\ Len(taken \o done) = Len(taken) + Len(done)
      /\ ToSet(taken \o done) = ToSet(taken) \cup ToSet(done)
  BY <1>3, <1>4, MembersOfConcat
<1>7. dec.open => Len(taken \o done) = OutCount /\ ToSet(taken \o done) = OutSlots
  BY <1>3, <1>5, <1>6
<1> QED
  BY <1>7 DEF OutputAccounted, taken, done, bufs

-----------------------------------------------------------------------------
(* Opening and closing                                                        *)

(* A closed session and an idle decoder are well formed.                      *)
LEMMA ClosedTyped ==
    /\ ClosedDec \in DecRecord /\ FreshDevice \in DeviceRecord
    /\ NoneQueued \in [CapSlots -> BOOLEAN] /\ <<>> \in Seq(OutSlots)
<1>1. <<>> \in Seq(Unit) /\ <<>> \in Seq(OutSlots) /\ <<>> \in Seq(Picture)
  OBVIOUS
<1>2. FreshDevice \in DeviceRecord
  BY <1>1 DEF FreshDevice, DeviceRecord
<1>3. ClosedDec \in DecRecord
  BY DEF ClosedDec, DecRecord
<1> QED
  BY <1>1, <1>2, <1>3 DEF NoneQueued

LEMMA TransportInitially == TransportInit => TransportSafe
<1> SUFFICES ASSUME TransportInit PROVE TransportSafe
  OBVIOUS
<1>1. TransportTypeOK
  BY ClosedTyped DEF TransportInit, TransportTypeOK
<1>2. TransportInv
  BY DEF TransportInit, TransportInv, OutputInv, CaptureAccounted, CaptureApart,
         RingHasLayout, LastIsLast, ClosedDec, FreshDevice, NoneQueued
<1> QED
  BY <1>1, <1>2 DEF TransportSafe

(* v4l2_dec_close leaves a closed session and a decoder without one.          *)
LEMMA CloseDeviceKeeps == CloseDevice => TransportSafe'
<1> SUFFICES ASSUME CloseDevice PROVE TransportSafe'
  OBVIOUS
<1>1. TransportTypeOK'
  BY ClosedTyped DEF CloseDevice, TransportTypeOK
<1>2. TransportInv'
  BY DEF CloseDevice, TransportInv, OutputInv, CaptureAccounted, CaptureApart,
         RingHasLayout, LastIsLast, ClosedDec, FreshDevice, NoneQueued
<1> QED
  BY <1>1, <1>2 DEF TransportSafe

(* v4l2_dec_open hands every OUTPUT buffer to the driver, once.               *)
LEMMA OpenDeviceKeeps == OpenDevice => TransportSafe'
<1> SUFFICES ASSUME OpenDevice PROVE TransportSafe'
  OBVIOUS
<1>1. freeOut' \in Seq(OutSlots) /\ Len(freeOut') = OutCount
      /\ DOMAIN freeOut' = 1 .. OutCount
  BY TransportAssumption, IsASeq DEF OpenDevice, OutSlots
<1>2. TransportTypeOK'
  <2>1. [ClosedDec EXCEPT !.open = TRUE] \in DecRecord
    BY ClosedTyped DEF DecRecord
  <2> QED
    BY <1>1, <2>1, ClosedTyped DEF OpenDevice, TransportTypeOK
<1>3. ToSet(freeOut') = OutSlots
  <2>1. ToSet(freeOut') \subseteq OutSlots
    BY <1>1, ElementOfSeq DEF ToSet
  <2>2. ASSUME NEW b \in OutSlots
        PROVE  b \in ToSet(freeOut')
    <3>1. OutCount - b \in DOMAIN freeOut' /\ freeOut'[OutCount - b] = b
      BY <1>1, TransportAssumption DEF OpenDevice, OutSlots
    <3> QED
      BY <3>1 DEF ToSet
  <2> QED
    BY <2>1, <2>2
<1>4. OutputInv'
  <2>1. vdev'.out = <<>> /\ vdev'.outDone = <<>>
    BY DEF OpenDevice, FreshDevice
  <2>2. ToSet(vdev'.outDone) = {} /\ {vdev'.out[k].buf : k \in DOMAIN vdev'.out} = {}
    BY <2>1 DEF ToSet
  <2>3. Len(vdev'.out) = 0 /\ Len(vdev'.outDone) = 0
    BY <2>1
  <2> QED
    BY <1>1, <1>3, <2>2, <2>3, TransportAssumption DEF OutputInv, Held
<1>5. TransportInv'
  BY <1>4 DEF OpenDevice, TransportInv, CaptureAccounted, CaptureApart,
         RingHasLayout, LastIsLast, ClosedDec, FreshDevice, NoneQueued
<1> QED
  BY <1>2, <1>5 DEF TransportSafe

-----------------------------------------------------------------------------
(* Bitstream buffers                                                          *)

(* What the type invariant says of the queues and their members.              *)
LEMMA QueueTypes ==
    ASSUME TransportTypeOK
    PROVE  /\ freeOut \in Seq(OutSlots) /\ vdev.outDone \in Seq(OutSlots)
           /\ vdev.out \in Seq(Unit) /\ vdev.ready \in Seq(Picture)
           /\ Len(freeOut) \in Nat /\ Len(vdev.out) \in Nat /\ Len(vdev.outDone) \in Nat
           /\ DOMAIN vdev.out = 1 .. Len(vdev.out) /\ DOMAIN vdev.ready = 1 .. Len(vdev.ready)
           /\ Len(vdev.ready) \in Nat
           /\ \A k \in DOMAIN vdev.out : vdev.out[k] \in Unit
           /\ \A k \in DOMAIN vdev.ready : vdev.ready[k] \in Picture
<1>1. /\ freeOut \in Seq(OutSlots) /\ vdev.outDone \in Seq(OutSlots)
      /\ vdev.out \in Seq(Unit) /\ vdev.ready \in Seq(Picture)
  BY DEF TransportTypeOK, DeviceRecord
<1> QED
  BY <1>1, LenProperties, ElementOfSeq

(* v4l2_dec_dqout moves the finished buffers to free_out: none is lost.       *)
LEMMA RecycledTyped ==
    ASSUME TransportTypeOK
    PROVE  /\ Recycled \in Seq(OutSlots)
           /\ Len(Recycled) = Len(freeOut) + Len(vdev.outDone)
           /\ ToSet(Recycled) = ToSet(freeOut) \cup ToSet(vdev.outDone)
<1> DEFINE done == vdev.outDone
<1>1. freeOut \in Seq(OutSlots) /\ done \in Seq(OutSlots)
  BY QueueTypes
<1> HIDE DEF done
<1>2. /\ freeOut \o done \in Seq(OutSlots)
      /\ Len(freeOut \o done) = Len(freeOut) + Len(done)
      /\ ToSet(freeOut \o done) = ToSet(freeOut) \cup ToSet(done)
  BY <1>1, MembersOfConcat
<1> QED
  BY <1>2 DEF Recycled, done

LEMMA RecyclingKeepsOutput ==
    ASSUME TransportTypeOK, OutputInv, freeOut' = Recycled, dec'.open = dec.open,
           vdev'.out = vdev.out, vdev'.outDone = <<>>
    PROVE  freeOut' \in Seq(OutSlots) /\ OutputInv'
<1>1. Len(vdev'.outDone) = 0 /\ ToSet(vdev'.outDone) = {}
  BY DEF ToSet
<1>2. Len(freeOut') + Len(vdev'.out) + Len(vdev'.outDone)
      = Len(freeOut) + Len(vdev.out) + Len(vdev.outDone)
  <2>1. Len(freeOut') = Len(freeOut) + Len(vdev.outDone)
    BY RecycledTyped
  <2>2. Len(vdev'.out) = Len(vdev.out)
    OBVIOUS
  <2>3. Len(freeOut) \in Nat /\ Len(vdev.out) \in Nat /\ Len(vdev.outDone) \in Nat
    BY QueueTypes
  <2> DEFINE a == Len(freeOut)  b == Len(vdev.out)  c == Len(vdev.outDone)
             x == Len(freeOut')  y == Len(vdev'.out)  z == Len(vdev'.outDone)
  <2>4. x = a + c /\ y = b /\ z = 0 /\ a \in Nat /\ b \in Nat /\ c \in Nat
    BY <1>1, <2>1, <2>2, <2>3
  <2> HIDE DEF a, b, c, x, y, z
  <2>5. x + y + z = a + b + c
    BY <2>4
  <2> QED
    BY <2>5 DEF a, b, c, x, y, z
<1>3. Held(freeOut', vdev'.out, vdev'.outDone) = Held(freeOut, vdev.out, vdev.outDone)
  BY <1>1, RecycledTyped DEF Held
<1> QED
  BY <1>2, <1>3, RecycledTyped DEF OutputInv

(* The calls that end with the recycling: a failed v4l2_dec_feed, a           *)
(* v4l2_dec_dqcap that finds no picture or no stream.                         *)
LEMMA RecycleKeeps ==
    ASSUME TransportSafe, freeOut' = Recycled, vdev' = Emptied, UNCHANGED <<dec, capQueued>>
    PROVE  TransportSafe'
<1>1. TransportTypeOK /\ TransportInv
  BY DEF TransportSafe
<1>2. vdev' \in DeviceRecord /\ vdev'.out = vdev.out /\ vdev'.outDone = <<>>
      /\ vdev'.cap = vdev.cap /\ vdev'.ready = vdev.ready /\ vdev'.fmt = vdev.fmt
      /\ vdev'.capOn = vdev.capOn /\ vdev'.paused = vdev.paused /\ vdev'.stop = vdev.stop
      /\ vdev'.lastSent = vdev.lastSent
  <2>1. vdev \in DeviceRecord /\ <<>> \in Seq(OutSlots)
    BY <1>1 DEF TransportTypeOK
  <2> QED
    BY <2>1 DEF DeviceRecord, Emptied
<1>3. freeOut' \in Seq(OutSlots) /\ OutputInv'
  BY <1>1, <1>2, RecyclingKeepsOutput DEF TransportInv
<1>4. TransportTypeOK'
  BY <1>1, <1>2, <1>3 DEF TransportTypeOK
<1>5. CaptureAccounted' /\ CaptureApart' /\ RingHasLayout' /\ LastIsLast'
  BY <1>1, <1>2
  DEF TransportInv, CaptureAccounted, CaptureApart, RingHasLayout, LastIsLast
<1> QED
  BY <1>3, <1>4, <1>5 DEF TransportSafe, TransportInv

LEMMA RecyclingCallsKeep ==
    ASSUME TransportSafe, FeedFails \/ DequeueNothing \/ DequeueFails
    PROVE  TransportSafe'
  BY RecycleKeeps DEF FeedFails, DequeueNothing, DequeueFails

(* v4l2_dec_feed puts the unit in a buffer nobody else has.  After STOP no    *)
(* unit may follow: the callers see to that.                                  *)
LEMMA FeedKeeps ==
    ASSUME TransportSafe, NEW pic \in Nat, NEW layout \in Layouts,
           Feed(pic, layout), ~vdev.stop
    PROVE  TransportSafe'
<1> DEFINE unit == [buf |-> Last(Recycled), pic |-> pic, layout |-> layout]
<1>1. TransportTypeOK /\ TransportInv
  BY DEF TransportSafe
<1>2. /\ Last(Recycled) \in OutSlots /\ Front(Recycled) \in Seq(OutSlots)
      /\ Len(Front(Recycled)) = Len(Recycled) - 1
      /\ ToSet(Recycled) = ToSet(Front(Recycled)) \cup {Last(Recycled)}
  BY <1>1, RecycledTyped, MembersOfFront DEF Feed, CanFeed
<1>3. unit \in Unit /\ unit.buf = Last(Recycled)
  BY <1>2 DEF Unit
<1>4. /\ vdev' = [vdev EXCEPT !.outDone = <<>>, !.out = Append(vdev.out, unit)]
      /\ freeOut' = Front(Recycled)
  BY <1>1 DEF Feed, Emptied, TransportTypeOK, DeviceRecord
<1> HIDE DEF unit
<1>5. vdev.out \in Seq(Unit)
  BY <1>1, QueueTypes
<1>6. /\ Append(vdev.out, unit) \in Seq(Unit) /\ Len(Append(vdev.out, unit)) = Len(vdev.out) + 1
      /\ DOMAIN Append(vdev.out, unit) = 1 .. Len(vdev.out) + 1
      /\ DOMAIN vdev.out = 1 .. Len(vdev.out) /\ Len(vdev.out) \in Nat
      /\ Append(vdev.out, unit)[Len(vdev.out) + 1] = unit
      /\ \A i \in 1 .. Len(vdev.out) : Append(vdev.out, unit)[i] = vdev.out[i]
  BY <1>3, <1>5, AppendProperties, LenProperties
<1>7. vdev' \in DeviceRecord /\ vdev'.out = Append(vdev.out, unit) /\ vdev'.outDone = <<>>
      /\ vdev'.cap = vdev.cap /\ vdev'.ready = vdev.ready /\ vdev'.fmt = vdev.fmt
      /\ vdev'.capOn = vdev.capOn /\ vdev'.paused = vdev.paused /\ vdev'.stop = vdev.stop
      /\ vdev'.lastSent = vdev.lastSent
  <2>1. vdev \in DeviceRecord /\ <<>> \in Seq(OutSlots)
    BY <1>1 DEF TransportTypeOK
  <2> QED
    BY <1>4, <1>6, <2>1 DEF DeviceRecord
<1>8. TransportTypeOK'
  BY <1>1, <1>2, <1>4, <1>7 DEF TransportTypeOK, Feed
<1>9. OutputInv'
  <2>1. Len(vdev'.outDone) = 0 /\ ToSet(vdev'.outDone) = {}
    BY <1>7 DEF ToSet
  <2>2. Len(freeOut') + Len(vdev'.out) + Len(vdev'.outDone)
        = Len(freeOut) + Len(vdev.out) + Len(vdev.outDone)
    <3>1. Len(freeOut') = Len(freeOut) + Len(vdev.outDone) - 1
      BY <1>1, <1>2, <1>4, RecycledTyped
    <3>2. Len(vdev'.out) = Len(vdev.out) + 1
      BY <1>6, <1>7
    <3>3. Len(freeOut) \in Nat /\ Len(vdev.out) \in Nat /\ Len(vdev.outDone) \in Nat
      BY <1>1, QueueTypes
    <3> DEFINE a == Len(freeOut)  b == Len(vdev.out)  c == Len(vdev.outDone)
               x == Len(freeOut')  y == Len(vdev'.out)  z == Len(vdev'.outDone)
    <3>4. x = a + c - 1 /\ y = b + 1 /\ z = 0 /\ a \in Nat /\ b \in Nat /\ c \in Nat
      BY <2>1, <3>1, <3>2, <3>3
    <3> HIDE DEF a, b, c, x, y, z
    <3>5. x + y + z = a + b + c
      BY <3>4
    <3> QED
      BY <3>5 DEF a, b, c, x, y, z
  <2>3. {vdev'.out[k].buf : k \in DOMAIN vdev'.out}
        = {vdev.out[k].buf : k \in DOMAIN vdev.out} \cup {Last(Recycled)}
    BY <1>3, <1>6, <1>7
  <2>4. Held(freeOut', vdev'.out, vdev'.outDone) = Held(freeOut, vdev.out, vdev.outDone)
    BY <1>1, <1>2, <1>4, <2>1, <2>3, RecycledTyped DEF Held
  <2> QED
    BY <1>1, <2>2, <2>4 DEF OutputInv, TransportInv, Feed
<1>10. CaptureAccounted' /\ CaptureApart' /\ RingHasLayout' /\ LastIsLast'
  BY <1>1, <1>7
  DEF TransportInv, CaptureAccounted, CaptureApart, RingHasLayout, LastIsLast, Feed
<1> QED
  BY <1>8, <1>9, <1>10 DEF TransportSafe, TransportInv

-----------------------------------------------------------------------------
(* The CAPTURE ring                                                           *)

(* A new ring, complete or not, holds no picture: each buffer is queued       *)
(* exactly if it was queued in this ring, and there is nothing of another     *)
(* size in it.                                                                *)
RingReplaced(d, v) ==
    /\ d.open = dec.open /\ d.eos = dec.eos
    /\ v.out = vdev.out /\ v.outDone = vdev.outDone
    /\ v.stop = vdev.stop /\ v.lastSent = vdev.lastSent
    /\ dec' \in DecRecord /\ vdev' \in DeviceRecord /\ capQueued' \in [CapSlots -> BOOLEAN]
    /\ dec'.open = d.open /\ dec'.eos = d.eos
    /\ vdev'.out = v.out /\ vdev'.outDone = v.outDone
    /\ vdev'.stop = v.stop /\ vdev'.lastSent = v.lastSent
    /\ vdev'.ready = <<>>
    /\ \A i \in CapSlots : capQueued'[i] <=> i \in vdev'.cap
    /\ vdev'.capOn => vdev'.fmt = dec'.layout
    /\ UNCHANGED freeOut

LEMMA ReplacedRingKeeps ==
    ASSUME TransportSafe, NEW d, NEW v, RingReplaced(d, v)
    PROVE  TransportSafe'
<1>1. TransportTypeOK /\ TransportInv
  BY DEF TransportSafe
<1>2. TransportTypeOK'
  BY <1>1 DEF RingReplaced, TransportTypeOK
<1>3. OutputInv'
  BY <1>1 DEF RingReplaced, TransportInv, OutputInv
<1>4. CaptureAccounted' /\ CaptureApart' /\ RingHasLayout'
  BY DEF RingReplaced, CaptureAccounted, CaptureApart, RingHasLayout
<1>5. LastIsLast'
  BY <1>1 DEF RingReplaced, TransportInv, LastIsLast
<1> QED
  BY <1>2, <1>3, <1>4, <1>5 DEF TransportSafe, TransportInv

(* What v4l2_dec_setup_capture starts from: the session with its POLLPRI      *)
(* seen, and some of the events dequeued.                                     *)
SetupFrom(d, v) ==
    /\ d \in DecRecord /\ d.open = dec.open /\ d.eos = dec.eos
    /\ v \in DeviceRecord /\ v.out = vdev.out /\ v.outDone = vdev.outDone
    /\ v.stop = vdev.stop /\ v.lastSent = vdev.lastSent

LEMMA SetupCaptureKeeps ==
    ASSUME TransportSafe, NEW d, NEW v, SetupFrom(d, v), SetupCapture(d, v),
           UNCHANGED freeOut
    PROVE  TransportSafe'
<1> DEFINE gen == d.gen + 1
           none == <<>>
<1>1. gen \in Nat /\ none \in Seq(Picture) /\ CapSlots \in SUBSET CapSlots
  BY DEF SetupFrom, DecRecord
<1>2. /\ dec' = [d EXCEPT !.streamingCap = TRUE, !.gen = gen, !.layout = v.fmt,
                          !.capCount = CapCount]
      /\ vdev' = [v EXCEPT !.cap = CapSlots, !.ready = none, !.capOn = TRUE,
                           !.paused = FALSE]
      /\ capQueued' = [i \in CapSlots |-> TRUE]
  BY DEF SetupCapture
<1>3. none = <<>>
  OBVIOUS
<1> HIDE DEF gen, none
<1>4. dec' \in DecRecord /\ dec'.open = d.open /\ dec'.eos = d.eos /\ dec'.layout = v.fmt
  BY <1>1, <1>2 DEF SetupFrom, DecRecord, DeviceRecord
<1>5. vdev' \in DeviceRecord
  BY <1>1, <1>2 DEF SetupFrom, DeviceRecord
<1>6. /\ vdev'.out = v.out /\ vdev'.outDone = v.outDone
      /\ vdev'.stop = v.stop /\ vdev'.lastSent = v.lastSent
      /\ vdev'.ready = <<>> /\ vdev'.cap = CapSlots /\ vdev'.fmt = v.fmt
  BY <1>2, <1>3 DEF SetupFrom, DeviceRecord
<1>7. RingReplaced(d, v)
  BY <1>2, <1>4, <1>5, <1>6 DEF RingReplaced, SetupFrom
<1> QED
  BY <1>7, ReplacedRingKeeps

(* A ring that could not be set up does not stream.                           *)
LEMMA SetupCaptureFailsKeeps ==
    ASSUME TransportSafe, NEW d, NEW v, SetupFrom(d, v), SetupCaptureFails(d, v),
           UNCHANGED freeOut
    PROVE  TransportSafe'
<1> DEFINE none == <<>>
           ringless == [v EXCEPT !.cap = {}, !.ready = none, !.capOn = FALSE]
<1>1. none \in Seq(Picture) /\ none = <<>>
  OBVIOUS
<1> HIDE DEF none
<1>2. /\ ringless \in DeviceRecord /\ ringless.capOn = FALSE /\ ringless.ready = <<>>
      /\ ringless.out = v.out /\ ringless.outDone = v.outDone
      /\ ringless.stop = v.stop /\ ringless.lastSent = v.lastSent /\ ringless.cap = {}
  BY <1>1 DEF SetupFrom, DeviceRecord
<1>3. CASE /\ \E layout \in {d.layout, v.fmt} :
                dec' = [d EXCEPT !.streamingCap = FALSE, !.capCount = 0, !.layout = layout]
           /\ capQueued' = NoneQueued
           /\ vdev' = ringless
  <2>1. dec' \in DecRecord /\ dec'.open = d.open /\ dec'.eos = d.eos
    BY <1>3 DEF SetupFrom, DecRecord, DeviceRecord
  <2>2. RingReplaced(d, v)
    BY <1>2, <1>3, <2>1 DEF RingReplaced, SetupFrom, NoneQueued
  <2> QED
    BY <2>2, ReplacedRingKeeps
<1>4. CASE \E k \in 0 .. CapCount :
             /\ dec' = [d EXCEPT !.streamingCap = FALSE, !.gen = @ + 1,
                                 !.layout = v.fmt, !.capCount = CapCount]
             /\ capQueued' = [i \in CapSlots |-> i < k]
             /\ vdev' = [ringless EXCEPT !.cap = {i \in CapSlots : i < k}]
  <2> DEFINE gen == d.gen + 1
  <2>1. gen \in Nat
    BY DEF SetupFrom, DecRecord
  <2>2. PICK k \in 0 .. CapCount :
             /\ dec' = [d EXCEPT !.streamingCap = FALSE, !.gen = gen,
                                 !.layout = v.fmt, !.capCount = CapCount]
             /\ capQueued' = [i \in CapSlots |-> i < k]
             /\ vdev' = [ringless EXCEPT !.cap = {i \in CapSlots : i < k}]
    BY <1>4
  <2> DEFINE queued == {i \in CapSlots : i < k}
  <2>3. queued \in SUBSET CapSlots /\ \A i \in CapSlots : i \in queued <=> i < k
    OBVIOUS
  <2>4. vdev' = [ringless EXCEPT !.cap = queued]
    BY <2>2
  <2> HIDE DEF gen, queued, ringless
  <2>5. dec' \in DecRecord /\ dec'.open = d.open /\ dec'.eos = d.eos
    BY <2>1, <2>2 DEF SetupFrom, DecRecord, DeviceRecord
  <2>6. vdev' \in DeviceRecord /\ vdev'.capOn = FALSE /\ vdev'.ready = <<>>
        /\ vdev'.out = v.out /\ vdev'.outDone = v.outDone
        /\ vdev'.stop = v.stop /\ vdev'.lastSent = v.lastSent /\ vdev'.cap = queued
    BY <1>2, <2>3, <2>4 DEF DeviceRecord
  <2>7. \A i \in CapSlots : capQueued'[i] <=> i \in vdev'.cap
    BY <2>2, <2>3, <2>6
  <2>8. capQueued' \in [CapSlots -> BOOLEAN]
    BY <2>2
  <2> QED
    BY <2>5, <2>6, <2>7, <2>8, ReplacedRingKeeps DEF RingReplaced, SetupFrom
<1> QED
  BY <1>1, <1>3, <1>4 DEF SetupCaptureFails, none

(* v4l2_dec_start waits for the first source change and sets CAPTURE up.      *)
LEMMA StartCaptureKeeps ==
    ASSUME TransportSafe, StartReady, StartCapture \/ StartCaptureFails
    PROVE  TransportSafe'
<1> DEFINE left == vdev.events - 1
           v == [vdev EXCEPT !.events = left]
<1>1. dec \in DecRecord /\ vdev \in DeviceRecord
  BY DEF TransportSafe, TransportTypeOK
<1>2. left \in Nat /\ OneEventLess = v
  BY <1>1 DEF StartReady, OneEventLess, DeviceRecord
<1> HIDE DEF left
<1>3. SetupFrom(dec, v)
  BY <1>1, <1>2 DEF SetupFrom, DeviceRecord
<1> HIDE DEF v
<1>4. CASE StartCapture
  BY <1>2, <1>3, <1>4, SetupCaptureKeeps DEF StartCapture
<1>5. CASE StartCaptureFails
  BY <1>2, <1>3, <1>5, SetupCaptureFailsKeeps DEF StartCaptureFails
<1> QED
  BY <1>4, <1>5

(* Steps that touch neither the queues nor the size of the ring keep the      *)
(* invariant, whatever flags they set.                                        *)
LEMMA FlagsKeepInv ==
    ASSUME TransportInv, UNCHANGED <<freeOut, capQueued>>,
           dec'.open = dec.open, dec'.eos = dec.eos, dec'.layout = dec.layout,
           vdev'.out = vdev.out, vdev'.outDone = vdev.outDone, vdev'.cap = vdev.cap,
           vdev'.ready = vdev.ready, vdev'.fmt = vdev.fmt, vdev'.capOn = vdev.capOn,
           vdev'.paused = vdev.paused, vdev.stop => vdev'.stop,
           vdev'.lastSent = vdev.lastSent
    PROVE  TransportInv'
<1>1. OutputInv'
  BY DEF TransportInv, OutputInv
<1>2. CaptureAccounted'
  BY DEF TransportInv, CaptureAccounted
<1>3. CaptureApart'
  BY DEF TransportInv, CaptureApart
<1>4. RingHasLayout' /\ LastIsLast'
  BY DEF TransportInv, RingHasLayout, LastIsLast
<1> QED
  BY <1>1, <1>2, <1>3, <1>4 DEF TransportInv

(* v4l2_dec_handle_events rebuilds CAPTURE, or forgets events of a size that  *)
(* is already negotiated.                                                     *)
LEMMA HandleEventsKeeps ==
    ASSUME TransportSafe, HandleEvents \/ HandleEventsFails
    PROVE  TransportSafe'
<1>1. TransportTypeOK /\ TransportInv /\ dec \in DecRecord /\ vdev \in DeviceRecord
  BY DEF TransportSafe, TransportTypeOK
<1>2. NoMorePri \in DecRecord /\ NoMorePri.open = dec.open /\ NoMorePri.eos = dec.eos
      /\ NoMorePri.layout = dec.layout
  BY <1>1 DEF NoMorePri, DecRecord
<1>3. ASSUME NEW n \in Nat
      PROVE  SetupFrom(NoMorePri, [vdev EXCEPT !.events = n])
  BY <1>1, <1>2 DEF SetupFrom, DeviceRecord
<1>4. CASE ~dec.pri /\ UNCHANGED transport
  BY <1>4 DEF transport, TransportSafe, TransportTypeOK, TransportInv, OutputInv,
              CaptureAccounted, CaptureApart, RingHasLayout, LastIsLast
<1>5. CASE dec' = NoMorePri /\ vdev' = [vdev EXCEPT !.events = 0]
           /\ UNCHANGED <<capQueued, freeOut>>
  <2>1. vdev' \in DeviceRecord /\ vdev'.out = vdev.out /\ vdev'.outDone = vdev.outDone
        /\ vdev'.cap = vdev.cap /\ vdev'.ready = vdev.ready /\ vdev'.fmt = vdev.fmt
        /\ vdev'.capOn = vdev.capOn /\ vdev'.paused = vdev.paused /\ vdev'.stop = vdev.stop
        /\ vdev'.lastSent = vdev.lastSent
    BY <1>1, <1>5 DEF DeviceRecord
  <2>2. TransportTypeOK'
    BY <1>1, <1>2, <1>5, <2>1 DEF TransportTypeOK
  <2>3. TransportInv'
    BY <1>1, <1>2, <1>5, <2>1, FlagsKeepInv
  <2> QED
    BY <2>2, <2>3 DEF TransportSafe
<1>6. CASE SetupCapture(NoMorePri, [vdev EXCEPT !.events = 0]) /\ UNCHANGED freeOut
  BY <1>3, <1>6, SetupCaptureKeeps
<1>7. CASE HandleEventsFails
  <2>1. PICK n \in 0 .. vdev.events - 1 :
            SetupCaptureFails(NoMorePri, [vdev EXCEPT !.events = n])
    BY <1>7 DEF HandleEventsFails
  <2>2. n \in Nat
    BY <1>1 DEF DeviceRecord
  <2> QED
    BY <1>3, <1>7, <2>1, <2>2, SetupCaptureFailsKeeps DEF HandleEventsFails
<1>8. HandleEvents \/ HandleEventsFails
  OBVIOUS
<1> QED
  BY <1>4, <1>5, <1>6, <1>7, <1>8 DEF HandleEvents, transport

(* Calls that only set a flag: STREAMON of OUTPUT, a poll, STOP.              *)
LEMMA FlagCallsKeep ==
    ASSUME TransportSafe, StartOutput \/ Poll \/ StopDecoder
    PROVE  TransportSafe'
<1>1. TransportTypeOK /\ TransportInv /\ dec \in DecRecord /\ vdev \in DeviceRecord
  BY DEF TransportSafe, TransportTypeOK
<1> DEFINE pri == vdev.events > 0
<1>2. pri \in BOOLEAN
  OBVIOUS
<1>3. Poll => dec' = [dec EXCEPT !.pri = pri]
  BY DEF Poll
<1> HIDE DEF pri
<1>4. dec' \in DecRecord /\ dec'.open = dec.open /\ dec'.eos = dec.eos
      /\ dec'.layout = dec.layout
  <2>1. CASE StartOutput
    BY <1>1, <2>1 DEF DecRecord, StartOutput
  <2>2. CASE Poll
    BY <1>1, <1>2, <1>3, <2>2 DEF DecRecord
  <2>3. CASE StopDecoder
    BY <1>1, <2>3 DEF StopDecoder
  <2> QED
    BY <2>1, <2>2, <2>3
<1>5. vdev' \in DeviceRecord /\ vdev'.out = vdev.out /\ vdev'.outDone = vdev.outDone
      /\ vdev'.cap = vdev.cap /\ vdev'.ready = vdev.ready /\ vdev'.fmt = vdev.fmt
      /\ vdev'.capOn = vdev.capOn /\ vdev'.paused = vdev.paused
      /\ (vdev.stop => vdev'.stop) /\ vdev'.lastSent = vdev.lastSent
  BY <1>1 DEF DeviceRecord, StartOutput, Poll, StopDecoder
<1>6. UNCHANGED <<freeOut, capQueued>>
  BY DEF StartOutput, Poll, StopDecoder
<1>7. TransportTypeOK'
  BY <1>1, <1>4, <1>5, <1>6 DEF TransportTypeOK
<1>8. TransportInv'
  BY <1>1, <1>4, <1>5, <1>6, FlagsKeepInv
<1> QED
  BY <1>7, <1>8 DEF TransportSafe

(* v4l2_dec_dqcap hands out the oldest picture, in the size the driver has,   *)
(* and leaves the others; if it is LAST there is nothing else.                *)
LEMMA DequeueFrameKeeps ==
    ASSUME TransportSafe, DequeueFrame
    PROVE  /\ TransportSafe'
           /\ DequeuedFrame \in Frame
           /\ DequeuedFrame.layout = DequeuedFrame.made
           /\ DequeuedFrame.layout = dec'.layout /\ DequeuedFrame.gen = dec'.gen
           /\ dec'.eos <=> dec.eos \/ DequeuedFrame.last
           /\ vdev'.stop = vdev.stop
<1> DEFINE p == Head(vdev.ready)
           left == Tail(vdev.ready)
           eos == dec.eos \/ p.last
<1>1. TransportTypeOK /\ TransportInv /\ dec \in DecRecord /\ vdev \in DeviceRecord
      /\ vdev.ready # <<>> /\ capQueued \in [CapSlots -> BOOLEAN]
  BY DEF TransportSafe, TransportTypeOK, DequeueFrame
<1>2. /\ p \in Picture /\ left \in Seq(Picture) /\ Len(left) = Len(vdev.ready) - 1
      /\ 1 \in DOMAIN vdev.ready /\ p = vdev.ready[1]
      /\ DOMAIN left = 1 .. Len(vdev.ready) - 1 /\ DOMAIN vdev.ready = 1 .. Len(vdev.ready)
      /\ Len(vdev.ready) \in Nat \ {0}
      /\ \A i \in DOMAIN left : i + 1 \in DOMAIN vdev.ready /\ left[i] = vdev.ready[i + 1]
  BY <1>1, QueueTypes, MembersOfTail
<1>3. p.last \in BOOLEAN /\ p.index \in CapSlots /\ p.pic \in Nat
      /\ p.layout \in Layouts \cup {NoLayout} /\ eos \in BOOLEAN
  BY <1>2 DEF Picture
<1>4. /\ dec' = [dec EXCEPT !.eos = eos]
      /\ capQueued' = [capQueued EXCEPT ![p.index] = FALSE]
      /\ freeOut' = Recycled
      /\ vdev' = [vdev EXCEPT !.outDone = <<>>, !.ready = left]
  BY <1>1 DEF DequeueFrame, Emptied, DeviceRecord
<1>5. /\ DequeuedFrame = [index |-> p.index, pic |-> p.pic, last |-> p.last,
                          gen |-> dec.gen, layout |-> dec.layout, made |-> p.layout]
  BY DEF DequeuedFrame
<1> HIDE DEF p, left, eos
<1>6. dec' \in DecRecord /\ dec'.open = dec.open /\ dec'.eos = eos
      /\ dec'.layout = dec.layout /\ dec'.gen = dec.gen
  BY <1>1, <1>3, <1>4 DEF DecRecord
<1>7. vdev' \in DeviceRecord /\ vdev'.out = vdev.out /\ vdev'.outDone = <<>>
      /\ vdev'.cap = vdev.cap /\ vdev'.ready = left /\ vdev'.fmt = vdev.fmt
      /\ vdev'.capOn = vdev.capOn /\ vdev'.paused = vdev.paused /\ vdev'.stop = vdev.stop
      /\ vdev'.lastSent = vdev.lastSent
  <2>1. <<>> \in Seq(OutSlots)
    OBVIOUS
  <2> QED
    BY <1>1, <1>2, <1>4, <2>1 DEF DeviceRecord
<1>8. freeOut' \in Seq(OutSlots) /\ OutputInv'
  BY <1>1, <1>4, <1>6, <1>7, RecyclingKeepsOutput DEF TransportInv
<1>9. TransportTypeOK'
  BY <1>1, <1>3, <1>4, <1>6, <1>7, <1>8 DEF TransportTypeOK
<1>10. CaptureAccounted' /\ CaptureApart'
  <2>1. \A i \in CapSlots :
            (\E k \in DOMAIN vdev.ready : vdev.ready[k].index = i)
            <=> i = p.index \/ \E k \in DOMAIN left : left[k].index = i
    <3>1. ASSUME NEW k \in DOMAIN vdev.ready, k # 1
          PROVE  k - 1 \in DOMAIN left /\ left[k - 1] = vdev.ready[k]
      BY <1>2, <3>1
    <3> QED
      BY <1>2, <3>1
  <2>2. p.index \notin vdev.cap
    BY <1>1, <1>2 DEF TransportInv, CaptureApart
  <2>3. ASSUME NEW k \in DOMAIN left
        PROVE  /\ left[k].index # p.index /\ left[k].index \notin vdev.cap
               /\ \A l \in DOMAIN left : left[l].index = left[k].index => l = k
    <3>1. k + 1 \in DOMAIN vdev.ready /\ left[k] = vdev.ready[k + 1] /\ k + 1 # 1
      BY <1>2
    <3>2. left[k].index # p.index /\ left[k].index \notin vdev.cap
      BY <1>1, <1>2, <3>1 DEF TransportInv, CaptureApart
    <3>3. ASSUME NEW l \in DOMAIN left, left[l].index = left[k].index
          PROVE  l = k
      <4>1. l + 1 \in DOMAIN vdev.ready /\ left[l] = vdev.ready[l + 1]
        BY <1>2
      <4>2. l + 1 = k + 1
        BY <1>1, <3>1, <3>3, <4>1 DEF TransportInv, CaptureApart
      <4> QED
        BY <1>2, <4>2
    <3> QED
      BY <3>2, <3>3
  <2>4. \A i \in CapSlots : capQueued'[i] <=> capQueued[i] /\ i # p.index
    BY <1>1, <1>3, <1>4
  <2>5. CaptureAccounted'
    BY <1>1, <1>7, <2>1, <2>2, <2>3, <2>4 DEF TransportInv, CaptureAccounted
  <2>6. CaptureApart'
    BY <1>7, <2>3 DEF CaptureApart
  <2> QED
    BY <2>5, <2>6
<1>11. RingHasLayout' /\ p.layout = dec.layout
  BY <1>1, <1>2, <1>6, <1>7 DEF TransportInv, RingHasLayout
<1>12. LastIsLast'
  <2>1. ASSUME eos PROVE vdev.lastSent /\ left = <<>>
    <3>1. ~dec.eos
      BY <1>1 DEF TransportInv, LastIsLast
    <3>2. p.last
      BY <2>1, <3>1 DEF eos
    <3>3. vdev.lastSent /\ Len(vdev.ready) = 1
      BY <1>1, <1>2, <3>2 DEF TransportInv, LastIsLast
    <3>4. Len(left) = 0
      BY <1>2, <3>3
    <3> QED
      BY <1>2, <3>3, <3>4, EmptySeq
  <2>2. ASSUME NEW k \in DOMAIN left, left[k].last
        PROVE  vdev.lastSent /\ k = Len(left)
    <3>1. k + 1 \in DOMAIN vdev.ready /\ vdev.ready[k + 1].last
      BY <1>2, <2>2
    <3>2. vdev.lastSent /\ k + 1 = Len(vdev.ready)
      BY <1>1, <3>1 DEF TransportInv, LastIsLast
    <3> QED
      BY <1>2, <3>2
  <2> QED
    BY <1>1, <1>6, <1>7, <2>1, <2>2 DEF TransportInv, LastIsLast
<1>13. DequeuedFrame \in Frame
  BY <1>1, <1>3, <1>5 DEF Frame, DecRecord
<1> QED
  BY <1>5, <1>6, <1>7, <1>8, <1>9, <1>10, <1>11, <1>12, <1>13
  DEF TransportSafe, TransportInv, eos

(* v4l2_dec_qcap_idx queues only buffers of the ring that are not queued:     *)
(* giving a frame back twice, or one of an older ring, changes nothing.       *)
LEMMA RequeueFramesKeep ==
    ASSUME TransportSafe, NEW I \in SUBSET CapSlots, RequeueFrames(I)
    PROVE  TransportSafe'
<1> DEFINE back == Returnable(I)
           cap == vdev.cap \cup back
<1>1. TransportTypeOK /\ TransportInv /\ vdev \in DeviceRecord
      /\ capQueued \in [CapSlots -> BOOLEAN]
  BY DEF TransportSafe, TransportTypeOK
<1>2. back \in SUBSET CapSlots /\ \A i \in back : ~capQueued[i]
  BY DEF Returnable
<1>3. /\ capQueued' = [i \in CapSlots |-> capQueued[i] \/ i \in back]
      /\ vdev' = [vdev EXCEPT !.cap = cap]
      /\ UNCHANGED <<dec, freeOut>>
  BY <1>1 DEF RequeueFrames, DeviceRecord
<1>4. cap \in SUBSET CapSlots /\ \A i \in CapSlots : i \in cap <=> i \in vdev.cap \/ i \in back
  BY <1>1, <1>2 DEF DeviceRecord
<1> HIDE DEF back, cap
<1>5. vdev' \in DeviceRecord /\ vdev'.out = vdev.out /\ vdev'.outDone = vdev.outDone
      /\ vdev'.cap = cap /\ vdev'.ready = vdev.ready /\ vdev'.fmt = vdev.fmt
      /\ vdev'.capOn = vdev.capOn /\ vdev'.paused = vdev.paused /\ vdev'.stop = vdev.stop
      /\ vdev'.lastSent = vdev.lastSent
  BY <1>1, <1>3, <1>4 DEF DeviceRecord
<1>6. TransportTypeOK'
  BY <1>1, <1>3, <1>5 DEF TransportTypeOK
<1>7. CaptureAccounted'
  <2>1. \A i \in CapSlots : capQueued'[i] <=> capQueued[i] \/ i \in back
    BY <1>3
  <2> QED
    BY <1>1, <1>4, <1>5, <2>1 DEF TransportInv, CaptureAccounted
<1>8. CaptureApart'
  <2>1. ASSUME NEW k \in DOMAIN vdev.ready
        PROVE  vdev.ready[k].index \notin cap
    <3>1. vdev.ready[k].index \in CapSlots
      BY <1>1, QueueTypes DEF Picture
    <3>2. capQueued[vdev.ready[k].index] /\ vdev.ready[k].index \notin vdev.cap
      BY <1>1, <3>1 DEF TransportInv, CaptureAccounted, CaptureApart
    <3> QED
      BY <1>2, <1>4, <3>1, <3>2
  <2> QED
    BY <1>1, <1>5, <2>1 DEF TransportInv, CaptureApart
<1>9. OutputInv' /\ RingHasLayout' /\ LastIsLast'
  BY <1>1, <1>3, <1>5 DEF TransportInv, OutputInv, RingHasLayout, LastIsLast
<1> QED
  BY <1>6, <1>7, <1>8, <1>9 DEF TransportSafe, TransportInv

-----------------------------------------------------------------------------
(* The decoder                                                                *)

(* A finished picture, or LAST, takes a queued buffer out of the queue and    *)
(* waits in it: the ring stays accounted for.                                 *)
LEMMA PictureKeepsRing ==
    ASSUME TransportSafe, NEW i \in vdev.cap, NEW p \in Picture, p.index = i,
           UNCHANGED capQueued, vdev'.cap = vdev.cap \ {i},
           vdev'.ready = Append(vdev.ready, p)
    PROVE  /\ vdev'.cap \in SUBSET CapSlots /\ vdev'.ready \in Seq(Picture)
           /\ vdev'.ready # <<>>
           /\ CaptureAccounted' /\ CaptureApart'
           /\ \A k \in DOMAIN vdev'.ready :
                 \/ k \in DOMAIN vdev.ready /\ vdev'.ready[k] = vdev.ready[k]
                    /\ k # Len(vdev'.ready)
                 \/ k = Len(vdev'.ready) /\ vdev'.ready[k] = p
<1>1. TransportTypeOK /\ TransportInv /\ vdev \in DeviceRecord
      /\ capQueued \in [CapSlots -> BOOLEAN]
  BY DEF TransportSafe, TransportTypeOK
<1> DEFINE old == vdev.ready
           new == Append(old, p)
<1>2. old \in Seq(Picture) /\ DOMAIN old = 1 .. Len(old) /\ Len(old) \in Nat
      /\ \A k \in DOMAIN old : old[k] \in Picture
  BY <1>1, QueueTypes
<1>3. /\ new \in Seq(Picture) /\ Len(new) = Len(old) + 1
      /\ DOMAIN new = 1 .. Len(old) + 1
      /\ new[Len(old) + 1] = p /\ \A k \in 1 .. Len(old) : new[k] = old[k]
  <2> HIDE DEF old
  <2> QED
    BY <1>2, AppendProperties, LenProperties
<1>4. vdev'.ready = new
  OBVIOUS
<1> HIDE DEF new
<1>5. \A k \in DOMAIN new :
         \/ k \in DOMAIN old /\ new[k] = old[k] /\ k # Len(new)
         \/ k = Len(new) /\ new[k] = p
  BY <1>2, <1>3
<1>6. new # <<>> /\ Len(new) \in DOMAIN new /\ new[Len(new)] = p
  BY <1>2, <1>3
<1>7. i \in CapSlots /\ vdev'.cap \in SUBSET CapSlots
  BY <1>1 DEF DeviceRecord
<1>8. CaptureAccounted'
  <2>1. \A k \in DOMAIN old : k \in DOMAIN new /\ new[k] = old[k]
    BY <1>2, <1>3
  <2>2. \A j \in CapSlots :
            (\E k \in DOMAIN new : new[k].index = j)
            <=> j = i \/ \E k \in DOMAIN old : old[k].index = j
    BY <1>5, <1>6, <2>1
  <2> QED
    BY <1>1, <1>4, <1>7, <2>2 DEF TransportInv, CaptureAccounted
<1>9. CaptureApart'
  <2>1. ASSUME NEW k \in DOMAIN old
        PROVE  old[k].index # i /\ old[k].index \notin vdev.cap
    BY <1>1, <2>1 DEF TransportInv, CaptureApart
  <2>2. ASSUME NEW k \in DOMAIN new
        PROVE  new[k].index \notin vdev.cap \ {i}
    BY <1>5, <2>1, <2>2
  <2>3. ASSUME NEW k \in DOMAIN new, NEW l \in DOMAIN new, new[l].index = new[k].index
        PROVE  l = k
    <3>1. CASE k = Len(new) \/ l = Len(new)
      BY <1>5, <2>1, <2>3, <3>1
    <3>2. CASE k # Len(new) /\ l # Len(new)
      <4>1. k \in DOMAIN old /\ l \in DOMAIN old /\ old[l].index = old[k].index
        BY <1>5, <2>3, <3>2
      <4> QED
        BY <1>1, <4>1 DEF TransportInv, CaptureApart
    <3> QED
      BY <3>1, <3>2
  <2> QED
    BY <1>4, <2>2, <2>3 DEF CaptureApart
<1> QED
  BY <1>3, <1>4, <1>5, <1>6, <1>7, <1>8, <1>9

(* The decoder meets a unit of another size: the pictures that wait keep      *)
(* theirs.                                                                    *)
LEMMA DeviceMeetsNewSizeKeeps ==
    ASSUME TransportSafe, DeviceMeetsNewSize
    PROVE  TransportSafe'
<1>1. TransportTypeOK /\ TransportInv /\ vdev \in DeviceRecord
  BY DEF TransportSafe, TransportTypeOK
<1>2. PICK n \in 1 .. 2 :
         vdev' = [vdev EXCEPT !.fmt = Head(vdev.out).layout, !.paused = TRUE, !.events = @ + n]
  BY DEF DeviceMeetsNewSize
<1> DEFINE events == vdev.events + n
           unit == Head(vdev.out)
<1>3. events \in Nat /\ vdev' = [vdev EXCEPT !.fmt = unit.layout, !.paused = TRUE,
                                             !.events = events]
  BY <1>1, <1>2 DEF DeviceRecord
<1>4. unit.layout \in Layouts
  <2>1. unit \in Unit
    BY <1>1, QueueTypes, MembersOfTail DEF DeviceMeetsNewSize
  <2> QED
    BY <2>1 DEF Unit
<1> HIDE DEF events, unit
<1>5. vdev' \in DeviceRecord /\ vdev'.out = vdev.out /\ vdev'.outDone = vdev.outDone
      /\ vdev'.cap = vdev.cap /\ vdev'.ready = vdev.ready /\ vdev'.paused
      /\ vdev'.capOn = vdev.capOn /\ vdev'.stop = vdev.stop
      /\ vdev'.lastSent = vdev.lastSent
  BY <1>1, <1>3, <1>4 DEF DeviceRecord
<1>6. UNCHANGED <<dec, freeOut, capQueued>>
  BY DEF DeviceMeetsNewSize
<1>7. TransportTypeOK'
  BY <1>1, <1>5, <1>6 DEF TransportTypeOK
<1>8. OutputInv' /\ LastIsLast'
  BY <1>1, <1>5, <1>6 DEF TransportInv, OutputInv, LastIsLast
<1>9. CaptureAccounted' /\ CaptureApart' /\ RingHasLayout'
  BY <1>1, <1>5, <1>6 DEF TransportInv, CaptureAccounted, CaptureApart, RingHasLayout
<1> QED
  BY <1>7, <1>8, <1>9 DEF TransportSafe, TransportInv

(* The decoder decodes a unit: its buffer is done, its picture has the size   *)
(* that is negotiated, and no unit was left when LAST was sent.               *)
LEMMA DeviceDecodesKeeps ==
    ASSUME TransportSafe, DeviceDecodes
    PROVE  TransportSafe'
<1>1. TransportTypeOK /\ TransportInv /\ vdev \in DeviceRecord /\ vdev.out # <<>>
  BY DEF TransportSafe, TransportTypeOK, DeviceDecodes
<1> DEFINE unit == Head(vdev.out)
           units == Tail(vdev.out)
           done == Append(vdev.outDone, unit.buf)
           P(i) == [index |-> i, pic |-> unit.pic, layout |-> vdev.fmt, last |-> FALSE]
<1>2. PICK i \in vdev.cap :
         vdev' = [vdev EXCEPT !.out = units, !.outDone = done, !.cap = @ \ {i},
                              !.ready = Append(@, P(i))]
  BY DEF DeviceDecodes
<1> DEFINE p == P(i)
           cap == vdev.cap \ {i}
           ready == Append(vdev.ready, p)
<1>3. vdev' = [vdev EXCEPT !.out = units, !.outDone = done, !.cap = cap, !.ready = ready]
  BY <1>2
<1>4. /\ unit \in Unit /\ units \in Seq(Unit) /\ Len(units) = Len(vdev.out) - 1
      /\ 1 \in DOMAIN vdev.out /\ unit = vdev.out[1]
      /\ DOMAIN units = 1 .. Len(vdev.out) - 1 /\ DOMAIN vdev.out = 1 .. Len(vdev.out)
      /\ Len(vdev.out) \in Nat \ {0}
      /\ \A k \in DOMAIN units : k + 1 \in DOMAIN vdev.out /\ units[k] = vdev.out[k + 1]
  BY <1>1, QueueTypes, MembersOfTail
<1>5. unit.buf \in OutSlots /\ unit.pic \in Nat
  BY <1>4 DEF Unit
<1> HIDE DEF units, unit
<1>6. /\ done \in Seq(OutSlots) /\ Len(done) = Len(vdev.outDone) + 1
      /\ ToSet(done) = ToSet(vdev.outDone) \cup {unit.buf}
  <2> DEFINE was == vdev.outDone
             buf == unit.buf
  <2>1. was \in Seq(OutSlots) /\ buf \in OutSlots
    BY <1>1, <1>5, QueueTypes
  <2> HIDE DEF was, buf
  <2>2. /\ Append(was, buf) \in Seq(OutSlots) /\ Len(Append(was, buf)) = Len(was) + 1
        /\ ToSet(Append(was, buf)) = ToSet(was) \cup {buf}
    BY <2>1, MembersOfAppend
  <2> QED
    BY <2>2 DEF was, buf
<1>7. p \in Picture /\ p.index = i /\ p.layout = vdev.fmt /\ p.last = FALSE
  BY <1>1, <1>5 DEF Picture, DeviceRecord
<1> HIDE DEF done, P, p
<1>8. ready \in Seq(Picture) /\ cap \in SUBSET CapSlots
  BY <1>1, <1>7, AppendProperties DEF DeviceRecord
<1>9. vdev' \in DeviceRecord /\ vdev'.out = units /\ vdev'.outDone = done
      /\ vdev'.cap = cap /\ vdev'.ready = ready /\ vdev'.fmt = vdev.fmt
      /\ vdev'.paused = vdev.paused /\ vdev'.capOn = vdev.capOn /\ vdev'.stop = vdev.stop
      /\ vdev'.lastSent = vdev.lastSent
  <2> HIDE DEF ready, cap
  <2> QED
    BY <1>1, <1>3, <1>4, <1>6, <1>8 DEF DeviceRecord
<1>10. UNCHANGED <<dec, freeOut, capQueued>>
  BY DEF DeviceDecodes
<1>11. /\ CaptureAccounted' /\ CaptureApart'
       /\ \A k \in DOMAIN vdev'.ready :
             \/ k \in DOMAIN vdev.ready /\ vdev'.ready[k] = vdev.ready[k]
                /\ k # Len(vdev'.ready)
             \/ k = Len(vdev'.ready) /\ vdev'.ready[k] = p
  BY <1>7, <1>9, <1>10, PictureKeepsRing
<1>12. TransportTypeOK'
  BY <1>1, <1>9, <1>10 DEF TransportTypeOK
<1>13. OutputInv'
  <2> DEFINE a == Len(freeOut)  b == Len(vdev.out)  c == Len(vdev.outDone)
  <2>1. a \in Nat /\ b \in Nat /\ c \in Nat /\ Len(units) = b - 1 /\ Len(done) = c + 1
    BY <1>1, <1>4, <1>6, QueueTypes
  <2> DEFINE y == Len(units)  z == Len(done)
  <2> HIDE DEF a, b, c, y, z
  <2>2. a + y + z = a + b + c
    BY <2>1 DEF y, z
  <2>3. {vdev.out[k].buf : k \in DOMAIN vdev.out}
        = {units[k].buf : k \in DOMAIN units} \cup {unit.buf}
    <3>1. ASSUME NEW k \in DOMAIN vdev.out, k # 1
          PROVE  k - 1 \in DOMAIN units /\ units[k - 1] = vdev.out[k]
      BY <1>4, <3>1
    <3> QED
      BY <1>4, <3>1
  <2>4. Held(freeOut, units, done) = Held(freeOut, vdev.out, vdev.outDone)
    BY <1>6, <2>3 DEF Held
  <2> QED
    BY <1>1, <1>9, <1>10, <2>2, <2>4 DEF OutputInv, TransportInv, a, b, c, y, z
<1>14. RingHasLayout'
  <2>1. vdev.fmt = dec.layout
    BY <1>1 DEF TransportInv, RingHasLayout, DeviceDecodes
  <2> QED
    BY <1>1, <1>7, <1>9, <1>10, <1>11, <2>1 DEF TransportInv, RingHasLayout
<1>15. LastIsLast'
  <2>1. ~vdev.lastSent /\ ~dec.eos
    BY <1>1 DEF TransportInv, LastIsLast
  <2> QED
    BY <1>1, <1>7, <1>9, <1>10, <1>11, <2>1 DEF TransportInv, LastIsLast
<1> QED
  BY <1>11, <1>12, <1>13, <1>14, <1>15 DEF TransportSafe, TransportInv

(* The decoder sends LAST, once, when nothing is left to decode.              *)
LEMMA DeviceSendsLastKeeps ==
    ASSUME TransportSafe, DeviceSendsLast
    PROVE  TransportSafe'
<1>1. TransportTypeOK /\ TransportInv /\ vdev \in DeviceRecord
  BY DEF TransportSafe, TransportTypeOK
<1> DEFINE P(i) == [index |-> i, pic |-> 0, layout |-> vdev.fmt, last |-> TRUE]
<1>2. PICK i \in vdev.cap :
         vdev' = [vdev EXCEPT !.cap = @ \ {i}, !.lastSent = TRUE,
                              !.ready = Append(@, P(i))]
  BY DEF DeviceSendsLast
<1> DEFINE p == P(i)
           cap == vdev.cap \ {i}
           ready == Append(vdev.ready, p)
<1>3. vdev' = [vdev EXCEPT !.cap = cap, !.lastSent = TRUE, !.ready = ready]
  BY <1>2
<1>4. p \in Picture /\ p.index = i /\ p.layout = vdev.fmt
  BY <1>1 DEF Picture, DeviceRecord
<1> HIDE DEF P, p
<1>5. ready \in Seq(Picture) /\ cap \in SUBSET CapSlots
  BY <1>1, <1>4, AppendProperties DEF DeviceRecord
<1>6. vdev' \in DeviceRecord /\ vdev'.out = vdev.out /\ vdev'.outDone = vdev.outDone
      /\ vdev'.cap = cap /\ vdev'.ready = ready /\ vdev'.fmt = vdev.fmt
      /\ vdev'.paused = vdev.paused /\ vdev'.capOn = vdev.capOn /\ vdev'.stop = vdev.stop
      /\ vdev'.lastSent
  <2> HIDE DEF ready, cap
  <2> QED
    BY <1>1, <1>3, <1>5 DEF DeviceRecord
<1>7. UNCHANGED <<dec, freeOut, capQueued>>
  BY DEF DeviceSendsLast
<1>8. /\ CaptureAccounted' /\ CaptureApart'
      /\ \A k \in DOMAIN vdev'.ready :
            \/ k \in DOMAIN vdev.ready /\ vdev'.ready[k] = vdev.ready[k]
               /\ k # Len(vdev'.ready)
            \/ k = Len(vdev'.ready) /\ vdev'.ready[k] = p
  BY <1>4, <1>6, <1>7, PictureKeepsRing
<1>9. TransportTypeOK'
  BY <1>1, <1>6, <1>7 DEF TransportTypeOK
<1>10. OutputInv'
  BY <1>1, <1>6, <1>7 DEF OutputInv, TransportInv
<1>11. RingHasLayout'
  <2>1. vdev.fmt = dec.layout
    BY <1>1 DEF TransportInv, RingHasLayout, DeviceSendsLast
  <2> QED
    BY <1>1, <1>4, <1>6, <1>7, <1>8, <2>1 DEF TransportInv, RingHasLayout
<1>12. LastIsLast'
  <2>1. ~vdev.lastSent /\ ~dec.eos /\ vdev.stop /\ vdev.out = <<>>
    BY <1>1 DEF TransportInv, LastIsLast, DeviceSendsLast
  <2> QED
    BY <1>1, <1>6, <1>7, <1>8, <2>1 DEF TransportInv, LastIsLast
<1> QED
  BY <1>8, <1>9, <1>10, <1>11, <1>12 DEF TransportSafe, TransportInv

(* The decoder keeps what the transport relies on, and moves on its own side  *)
(* only.                                                                      *)
LEMMA DeviceKeeps ==
    ASSUME TransportSafe, Device
    PROVE  TransportSafe' /\ UNCHANGED <<dec, freeOut, capQueued>> /\ vdev'.stop = vdev.stop
<1>1. TransportSafe'
  BY DeviceMeetsNewSizeKeeps, DeviceDecodesKeeps, DeviceSendsLastKeeps DEF Device
<1>2. UNCHANGED <<dec, freeOut, capQueued>>
  BY DEF Device, DeviceMeetsNewSize, DeviceDecodes, DeviceSendsLast
<1>3. vdev'.stop = vdev.stop
  BY DEF TransportSafe, TransportTypeOK, DeviceRecord, Device, DeviceMeetsNewSize,
         DeviceDecodes, DeviceSendsLast
<1> QED
  BY <1>1, <1>2, <1>3

-----------------------------------------------------------------------------
(* Who stops the decoder                                                      *)

(* Only v4l2_dec_flush sends STOP, and only closing or opening takes it back. *)
LEMMA StopKept ==
    ASSUME TransportTypeOK,
           \/ StartOutput \/ StartCapture \/ StartCaptureFails \/ Poll
           \/ HandleEvents \/ HandleEventsFails
           \/ FeedFails \/ (\E pic \in Nat, layout \in Layouts : Feed(pic, layout))
           \/ DequeueFrame \/ DequeueNothing \/ DequeueFails
           \/ (\E I \in SUBSET CapSlots : RequeueFrames(I))
           \/ UNCHANGED transport
    PROVE  vdev'.stop = vdev.stop
<1>1. vdev \in DeviceRecord
  BY DEF TransportTypeOK
<1>2. ASSUME NEW d, NEW n, SetupCapture(d, [vdev EXCEPT !.events = n])
      PROVE  vdev'.stop = vdev.stop
  BY <1>1, <1>2 DEF SetupCapture, DeviceRecord
<1>3. ASSUME NEW d, NEW n, SetupCaptureFails(d, [vdev EXCEPT !.events = n])
      PROVE  vdev'.stop = vdev.stop
  BY <1>1, <1>3 DEF SetupCaptureFails, DeviceRecord
<1>4. CASE StartOutput \/ Poll \/ UNCHANGED transport
  BY <1>1, <1>4 DEF StartOutput, Poll, transport, DeviceRecord
<1>5. CASE StartCapture \/ StartCaptureFails
  BY <1>2, <1>3, <1>5 DEF StartCapture, StartCaptureFails, OneEventLess
<1>6. CASE HandleEvents \/ HandleEventsFails
  BY <1>1, <1>2, <1>3, <1>6 DEF HandleEvents, HandleEventsFails, DeviceRecord
<1>7. CASE FeedFails \/ DequeueFrame \/ DequeueNothing \/ DequeueFails
  BY <1>1, <1>7 DEF FeedFails, DequeueFrame, DequeueNothing, DequeueFails, Emptied,
                    DeviceRecord
<1>8. CASE \E pic \in Nat, layout \in Layouts : Feed(pic, layout)
  BY <1>1, <1>8 DEF Feed, Emptied, DeviceRecord
<1>9. CASE \E I \in SUBSET CapSlots : RequeueFrames(I)
  BY <1>1, <1>9 DEF RequeueFrames, DeviceRecord
<1> QED
  BY <1>4, <1>5, <1>6, <1>7, <1>8, <1>9
=============================================================================
