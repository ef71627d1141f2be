--------------------------- MODULE VkCaptureProofs ---------------------------
(* The GPU copies of one context, for every number of surfaces, buffers,      *)
(* pending slots, jobs and imports: a CAPTURE buffer goes back to the decoder  *)
(* only when no job reads it and then it does go back, no import is destroyed *)
(* under a job, a surface is fenced while a job writes it and shows its own   *)
(* picture when it is reported decoded.                                       *)
EXTENDS VkCapture, FiniteSetTheorems, WellFoundedInduction, V4l2TransportProofs

-----------------------------------------------------------------------------
(* The call in progress and the session it works on                           *)

(* The picture begun last is claimed, but not with the decoder yet; or it     *)
(* waits for its session as well.                                             *)
Awaiting == At("feed") \/ call.op = "feed"
Unfed    == At("submit") \/ Awaiting \/ call.op = "boundary"

(* Where a call can be, and for whom.                                         *)
Looping == {"drain", "poll", "events", "take", "assign", "check", "capture"}
CallPlace ==
    /\ Idle <=> call.op = "none"
    /\ At("submit") => call.op \in {"end", "boundary"}
    /\ At("feed") => call.op \in {"end", "boundary", "feed"}
    /\ At("start") \/ At("starting") => call.op = "end"
    /\ At("drain") => call.op \in {"feed", "end", "wait", "ready"}
    /\ At("poll") => call.op \in {"feed", "end", "wait"}
    /\ At("check") => call.op = "wait"
    /\ At("capture") => call.op \in {"wait", "ready", "boundary", "destroy"}
    /\ At("events") \/ At("take") =>
          call.op \in (IF call.capture THEN {"wait", "ready", "boundary", "destroy"}
                                       ELSE {"feed", "end", "wait"})
    /\ At("restart") => call.op = "boundary"
    /\ At("teardown") => call.op = "destroy"

(* The session each of them finds.                                            *)
CallSession ==
    /\ Idle => sess \in {"gone", "none", "live", "eos", "dead"}
    /\ At("submit") => sess \in {"none", "open", "live", "eos"}
    /\ At("feed") => sess \in (IF call.op = "feed" THEN {"live"} ELSE {"open", "live"})
    /\ At("start") \/ At("starting") => sess = "open"
    /\ call.pc \in Looping =>
          sess = (IF call.op \in {"feed", "end", "wait"} THEN "live" ELSE "eos")
    /\ At("restart") => sess = "eos"
    /\ At("teardown") => sess \in {"none", "eos", "dead"}

(* Its target is there, and a target whose unit is still to be fed is the one *)
(* of the picture begun last.                                                 *)
CallTarget ==
    /\ ~Idle /\ call.op # "destroy" => call.s \in Surfaces /\ srf[call.s].alive
    /\ Unfed => /\ srf[call.s].pic = pics /\ pics # 0 /\ ~srf[call.s].decoded
                /\ SlotsOf(call.s) = {}

CallInv == CallPlace /\ CallSession /\ CallTarget

(* The session and its one CAPTURE ring.                                      *)
RingInv ==
    /\ dec.open <=> sess \in {"open", "live", "eos", "dead"}
    /\ dec.open => opened # 0
    /\ sess \in {"gone", "none"} => ~vdev.outOn
    /\ sess \in {"gone", "none", "open"} => dec.capCount = 0 /\ ~vdev.capOn
    /\ sess \in {"live", "eos", "dead"} =>
          dec.capCount = CapCount /\ vdev.fmt = dec.layout /\ dec.layout \in Layouts
          /\ vdev.capOn
    /\ sess = "open" /\ ~At("starting") => ~vdev.outOn /\ vdev.events = 0
    /\ sess = "open" /\ (At("submit") \/ At("feed")) => CanFeed
    /\ vdev.events > 0 => vdev.fmt \in Layouts
    /\ ~vdev.capOn => vdev.ready = <<>>
    /\ vdev.stop => sess \in {"eos", "dead"}

(* Pictures with the decoder were begun, LAST is none, and the one still to   *)
(* be fed is not there yet.                                                   *)
PicsKnown ==
    LET Known(pic) == pic <= pics /\ (Unfed => pic < pics)
    IN  /\ \A k \in DOMAIN vdev.out : Known(vdev.out[k].pic)
        /\ \A k \in DOMAIN vdev.ready :
              Known(vdev.ready[k].pic) /\ (vdev.ready[k].last => vdev.ready[k].pic = 0)

-----------------------------------------------------------------------------
(* Keys, imports, copies                                                      *)

(* g_buffer_serial gives no key twice.                                        *)
KeysApart ==
    /\ \A s \in Surfaces : srf[s].serial <= serial /\ (srf[s].alive => srf[s].serial # 0)
    /\ \A s, t \in Surfaces : srf[s].serial = srf[t].serial /\ srf[s].serial # 0 => s = t
    /\ \A i \in CapSlots :
          /\ vk.keys[i] <= serial
          /\ vk.keys[i] # 0 => /\ vk.gen = dec.gen /\ dec.capCount # 0
                               /\ \A s \in Surfaces : srf[s].serial # vk.keys[i]
                               /\ \A j \in CapSlots : vk.keys[j] = vk.keys[i] => j = i

(* An import is the memory its key was made for.                              *)
ImportsSound ==
    /\ IsFiniteSet(imports)
    /\ \A e \in imports :
          /\ e.key # 0 /\ e.key <= serial
          /\ \/ e.mem = Backing(e.key) /\ e.key \notin CaptureKeys
             \/ \E i \in CapSlots :
                   e.key = vk.keys[i]
                   /\ e.mem = [session |-> opened, gen |-> vk.gen, index |-> i]

(* A pending copy reads a buffer the decoder does not have and writes the     *)
(* surface it was made for, which waits for it.                               *)
SlotSound(k) ==
    LET p == pend[k]  x == srf[p.s]  job == jobs[p.job]
    IN  /\ p.s \in Surfaces /\ x.alive /\ x.owned /\ x.queued /\ ~x.decoded
        /\ p.gen = x.gen /\ p.token = x.fence /\ x.fence # 0
        /\ job.inUse /\ job.pic = x.pic
        /\ job.from = [session |-> opened, gen |-> dec.gen, index |-> p.index]
        /\ job.to = Backing(x.serial)
        /\ job.keys = {vk.keys[p.index], x.serial} /\ vk.keys[p.index] # 0
        /\ job.running => job.keys \subseteq {e.key : e \in imports}
        /\ p.index < dec.capCount /\ ~capQueued[p.index]
SlotsSound == \A k \in UsedSlots : SlotSound(k)
SlotsApart ==
    \A k, l \in UsedSlots :
        pend[k].job = pend[l].job \/ pend[k].s = pend[l].s \/ pend[k].index = pend[l].index
        => k = l
JobsPending == \A j \in Jobs : jobs[j].running => \E k \in UsedSlots : pend[k].job = j

(* The frame in hand is of the ring, and nobody else has its buffer.          *)
HandSound ==
    At("assign") =>
        LET f == call.frame
        IN  /\ f.gen = dec.gen /\ ~capQueued[f.index] /\ \A k \in UsedSlots : pend[k].index # f.index
            /\ f.pic <= pics /\ (Unfed => f.pic < pics)
            /\ f.last <=> dec.eos
            /\ f.last => f.pic = 0

(* Besides the copies and the frame in hand only LAST keeps a buffer.         *)
Hand == IF At("assign") THEN {call.frame.index} ELSE {}
Lost == {i \in CapSlots : /\ i < dec.capCount /\ ~capQueued[i] /\ i \notin Hand
                          /\ \A k \in UsedSlots : pend[k].index # i}
OnlyLastIsLost ==
    IF dec.eos /\ sess # "dead" /\ ~At("assign") THEN \E i \in CapSlots : Lost = {i}
                                                 ELSE Lost = {}

-----------------------------------------------------------------------------
(* Pictures and fences                                                        *)

(* A mapping is of one picture, and while its surface is still begun for that *)
(* picture no copy to it is pending.                                          *)
MapInv ==
    /\ \A m \in mapped :
          /\ m.pic <= pics /\ (At("submit") => m.pic < pics)
          /\ srf[m.s].serial # 0 /\ (srf[m.s].alive => m.gen <= srf[m.s].gen)
          /\ Fits(m) => LET x == srf[m.s]
                        IN  /\ x.pic = m.pic /\ x.fence = m.pic /\ x.owned /\ x.queued
                            /\ ~x.decoded /\ SlotsOf(m.s) = {}
    /\ \A m, n \in mapped : m.pic = n.pic => m = n
    /\ mapped # {} => dec.open

(* Without early exports, what is decoded, or copied and not yet reaped, is   *)
(* the picture of the surface.                                                *)
PixelInv ==
    /\ \A s \in Surfaces : srf[s].decoded => srf[s].init /\ srf[s].queued
    /\ ~EarlyExport =>
          /\ DecodedHoldsTheCopy
          /\ \A k \in UsedSlots :
                ~jobs[pend[k].job].running => srf[pend[k].s].px = srf[pend[k].s].pic

(* A fence that is not signalled belongs to a picture under way.              *)
OwnMapping(s) == [pic |-> srf[s].pic, s |-> s, gen |-> srf[s].gen]
FenceInv ==
    \A s \in Surfaces :
        srf[s].fence # 0 =>
            /\ srf[s].owned
            /\ srf[s].alive => sess \notin {"gone", "none"}
            /\ srf[s].alive /\ sess \in {"open", "live"} =>
                  \/ At("submit") /\ s = call.s
                  \/ SlotsOf(s) # {}
                  \/ /\ OwnMapping(s) \in mapped
                     /\ \/ WithDecoder(srf[s].pic)
                        \/ Awaiting /\ s = call.s
                        \/ At("assign") /\ call.frame.pic = srf[s].pic

CaptureInv ==
    /\ CallInv /\ RingInv /\ PicsKnown
    /\ KeysApart /\ ImportsSound /\ SlotsSound /\ SlotsApart /\ JobsPending
    /\ HandSound /\ OnlyLastIsLost
    /\ MapInv /\ PixelInv /\ FenceInv
CaptureSafe == TypeOK /\ TransportInv /\ CaptureInv

LEMMA SafeParts ==
    ASSUME CaptureSafe
    PROVE  /\ TypeOK /\ TransportTypeOK /\ TransportInv /\ TransportSafe
           /\ CallPlace /\ CallSession /\ CallTarget /\ RingInv /\ PicsKnown
           /\ KeysApart /\ ImportsSound /\ SlotsSound /\ SlotsApart /\ JobsPending
           /\ HandSound /\ OnlyLastIsLost /\ MapInv /\ PixelInv /\ FenceInv
  BY DEF CaptureSafe, CaptureInv, CallInv, TypeOK, TransportSafe

-----------------------------------------------------------------------------
(* Types                                                                      *)

(* The records a surface, a slot, a job and a call are.                       *)
LEMMA FieldTypes ==
    ASSUME TypeOK
    PROVE  /\ \A s \in Surfaces :
                 /\ srf[s] \in SurfaceRecord /\ srf[s].alive \in BOOLEAN /\ srf[s].gen \in Nat
                 /\ srf[s].queued \in BOOLEAN /\ srf[s].decoded \in BOOLEAN
                 /\ srf[s].exported \in BOOLEAN /\ srf[s].init \in BOOLEAN
                 /\ srf[s].fence \in 0 .. MaxPictures /\ srf[s].owned \in BOOLEAN
                 /\ srf[s].serial \in Nat /\ srf[s].pic \in 0 .. MaxPictures
                 /\ srf[s].px \in 0 .. Torn
           /\ \A k \in Slots :
                 /\ pend[k] \in PendingRecord /\ pend[k].used \in BOOLEAN
                 /\ pend[k].job \in Jobs /\ pend[k].s \in Surfaces \cup {NoSurface}
                 /\ pend[k].gen \in Nat /\ pend[k].token \in 0 .. MaxPictures
                 /\ pend[k].index \in CapSlots
           /\ \A j \in Jobs :
                 /\ jobs[j] \in JobRecord /\ jobs[j].inUse \in BOOLEAN
                 /\ jobs[j].running \in BOOLEAN /\ jobs[j].keys \subseteq Nat
                 /\ jobs[j].pic \in 0 .. Torn
  BY DEF TypeOK, SurfaceRecord, PendingRecord, JobRecord

(* vpu_surfaces_alloc, finish_vk_copy and surface_copy leave well-formed      *)
(* surfaces.                                                                  *)
LEMMA SurfacesTyped ==
    ASSUME NEW x \in SurfaceRecord
    PROVE  /\ Landed(x) \in SurfaceRecord /\ Landed(x).decoded /\ Landed(x).init
           /\ Landed(x).queued /\ Landed(x).owned /\ Landed(x).fence = 0
           /\ Landed(x).alive = x.alive /\ Landed(x).gen = x.gen
           /\ Landed(x).exported = x.exported /\ Landed(x).serial = x.serial
           /\ Landed(x).pic = x.pic /\ Landed(x).px = x.px
<1>1. 0 \in 0 .. MaxPictures
  BY CaptureAssumption
<1>2. Landed(x) \in SurfaceRecord
  BY <1>1 DEF Landed, SurfaceRecord
<1> QED
  BY <1>2 DEF Landed, SurfaceRecord

LEMMA NewSurfaceTyped ==
    ASSUME NEW n \in Nat
    PROVE  /\ NewSurface(n) \in SurfaceRecord /\ FreedSurface(n) \in SurfaceRecord
           /\ (NewSurface(n).alive <=> n # 0) /\ ~FreedSurface(n).alive
           /\ \A x \in {NewSurface(n), FreedSurface(n)} :
                 /\ x.serial = n /\ x.gen = 0 /\ x.fence = 0 /\ x.pic = 0 /\ x.px = Black
                 /\ ~x.queued /\ ~x.decoded /\ ~x.exported /\ ~x.init /\ ~x.owned
<1>1. 0 \in 0 .. MaxPictures /\ Black \in 0 .. Torn
  BY CaptureAssumption DEF Black, Torn
<1>2. NewSurface(n) \in SurfaceRecord
  BY <1>1 DEF NewSurface, SurfaceRecord
<1> DEFINE x == NewSurface(n)
<1>3. /\ x.alive = (n # 0) /\ x.serial = n /\ x.gen = 0 /\ x.fence = 0 /\ x.pic = 0
      /\ x.px = Black /\ x.queued = FALSE /\ x.decoded = FALSE /\ x.exported = FALSE
      /\ x.init = FALSE /\ x.owned = FALSE
  BY DEF NewSurface
<1> HIDE DEF x
<1> DEFINE y == [x EXCEPT !.alive = FALSE]
<1>4. /\ y \in SurfaceRecord
      /\ y.alive = FALSE /\ y.serial = n /\ y.gen = 0 /\ y.fence = 0 /\ y.pic = 0
      /\ y.px = Black /\ y.queued = FALSE /\ y.decoded = FALSE /\ y.exported = FALSE
      /\ y.init = FALSE /\ y.owned = FALSE
  BY <1>2, <1>3 DEF SurfaceRecord, x
<1>5. y = FreedSurface(n)
  BY DEF FreedSurface, x
<1> HIDE DEF y
<1>6. \A z \in {x, y} :
         /\ z.serial = n /\ z.gen = 0 /\ z.fence = 0 /\ z.pic = 0 /\ z.px = Black
         /\ ~z.queued /\ ~z.decoded /\ ~z.exported /\ ~z.init /\ ~z.owned
  BY <1>3, <1>4
<1> QED
  BY <1>2, <1>3, <1>4, <1>5, <1>6 DEF x

(* The call goes on elsewhere (Continue, Return).                             *)
LEMMA CallMoves ==
    ASSUME TypeOK
    PROVE  /\ call.s \in Surfaces \cup {NoSurface} /\ call.frame \in Frame
           /\ call.capture \in BOOLEAN
           /\ call.op \in {"none", "feed", "end", "wait", "ready", "boundary", "destroy"}
           /\ \A next \in {"idle", "submit", "feed", "start", "starting", "drain", "poll",
                           "events", "take", "assign", "check", "capture", "restart",
                           "teardown"} :
                 Continue(next) =>
                     /\ call' \in CallRecord /\ call'.pc = next /\ call'.op = call.op
                     /\ call'.s = call.s /\ call'.frame = call.frame /\ call'.capture = FALSE
           /\ Return =>
                 /\ call' \in CallRecord /\ call'.pc = "idle" /\ call'.op = "none"
<1>1. NoFrame \in Frame
  BY TransportAssumption DEF NoFrame, Frame, CapSlots
<1>2. Return => call' \in CallRecord /\ call'.pc = "idle" /\ call'.op = "none"
  BY <1>1 DEF Return, NoCall, CallRecord
<1>3. \A next \in {"idle", "submit", "feed", "start", "starting", "drain", "poll",
                   "events", "take", "assign", "check", "capture", "restart",
                   "teardown"} :
         Continue(next) =>
             /\ call' \in CallRecord /\ call'.pc = next /\ call'.op = call.op
             /\ call'.s = call.s /\ call'.frame = call.frame /\ call'.capture = FALSE
  BY DEF TypeOK, CallRecord, Continue
<1>4. /\ call.s \in Surfaces \cup {NoSurface} /\ call.frame \in Frame /\ call.capture \in BOOLEAN
      /\ call.op \in {"none", "feed", "end", "wait", "ready", "boundary", "destroy"}
  BY DEF TypeOK, CallRecord
<1> QED
  BY <1>2, <1>3, <1>4

-----------------------------------------------------------------------------
(* The beginning                                                              *)

LEMMA CaptureInitially == Init => CaptureSafe
<1> SUFFICES ASSUME Init PROVE CaptureSafe
  OBVIOUS
<1>1. TransportSafe
  BY TransportInitially DEF Init
<1>2. \A s \in Surfaces : srf[s] = NewSurface(0)
  BY DEF Init
<1>3. NewSurface(0) \in SurfaceRecord /\ ~NewSurface(0).alive /\ NewSurface(0).serial = 0
      /\ NewSurface(0).fence = 0 /\ ~NewSurface(0).decoded
  BY NewSurfaceTyped
<1>4. NoFrame \in Frame
  BY TransportAssumption DEF NoFrame, Frame, CapSlots
<1>5. 0 \in Jobs /\ 0 \in CapSlots /\ 0 \in 0 .. MaxPictures /\ 0 \in 0 .. Torn
      /\ 0 \in 0 .. MaxSessions
  BY TransportAssumption, CaptureAssumption DEF Jobs, CapSlots, Torn
<1>6. UsedSlots = {}
  BY DEF Init, UsedSlots, NoCopy
<1>7. TypeOK
  <2>1. srf \in [Surfaces -> SurfaceRecord]
    BY <1>3 DEF Init
  <2>2. NoCopy \in PendingRecord
    BY <1>5 DEF NoCopy, PendingRecord
  <2>3. NoJob \in JobRecord
    BY <1>5 DEF NoJob, JobRecord, Backing, Memory
  <2>4. NoCall \in CallRecord
    BY <1>4 DEF NoCall, CallRecord
  <2>5. FreshVk \in VkRecord
    BY DEF FreshVk, VkRecord
  <2>6. imports \subseteq Import /\ Cardinality(imports) <= MaxImports
    BY FS_EmptySet, CaptureAssumption DEF Init
  <2> QED
    BY <1>1, <1>5, <2>1, <2>2, <2>3, <2>4, <2>5, <2>6 DEF Init, TypeOK, TransportSafe
<1>8. CallInv
  BY DEF Init, NoCall, CallInv, CallPlace, CallSession, CallTarget, Idle, At, Unfed, Awaiting,
         Looping
<1>9. RingInv /\ PicsKnown
  BY DEF Init, TransportInit, ClosedDec, FreshDevice, RingInv, PicsKnown
<1>10. KeysApart
  BY <1>2, <1>3 DEF Init, KeysApart, FreshVk
<1>11. ImportsSound
  BY FS_EmptySet DEF Init, ImportsSound
<1>12. SlotsSound /\ SlotsApart
  BY <1>6 DEF SlotsSound, SlotsApart
<1>13. JobsPending
  BY DEF Init, JobsPending, NoJob
<1>14. ~At("assign")
  BY DEF Init, At, NoCall
<1>15. HandSound /\ OnlyLastIsLost
  <2>1. dec.capCount = 0 /\ ~dec.eos
    BY DEF Init, TransportInit, ClosedDec
  <2>2. \A i \in CapSlots : ~(i < 0)
    BY TransportAssumption DEF CapSlots
  <2> QED
    BY <1>14, <2>1, <2>2 DEF HandSound, OnlyLastIsLost, Lost
<1>16. MapInv
  BY DEF Init, MapInv
<1>17. PixelInv /\ FenceInv
  BY <1>2, <1>3, <1>6 DEF PixelInv, DecodedHoldsTheCopy, FenceInv
<1> QED
  BY <1>1, <1>7, <1>8, <1>9, <1>10, <1>11, <1>12, <1>13, <1>15, <1>16, <1>17
  DEF CaptureSafe, CaptureInv, TransportSafe

-----------------------------------------------------------------------------
(* What stays when copies, surfaces and mappings are left alone               *)

LEMMA EngineStands ==
    ASSUME CaptureSafe, UNCHANGED <<srf, pend, jobs, imports, vk, serial, opened>>,
           dec'.gen = dec.gen, dec'.capCount = dec.capCount,
           \A i \in CapSlots : ~capQueued[i] => ~capQueued'[i]
    PROVE  /\ KeysApart' /\ ImportsSound' /\ SlotsSound' /\ SlotsApart' /\ JobsPending'
           /\ PixelInv' /\ UsedSlots' = UsedSlots
           /\ \A s \in Surfaces : SlotsOf(s)' = SlotsOf(s)
<1>1. UsedSlots' = UsedSlots
  BY DEF UsedSlots
<1>2. \A s \in Surfaces : SlotsOf(s)' = SlotsOf(s)
  BY <1>1 DEF SlotsOf
<1>3. KeysApart' /\ ImportsSound'
  BY SafeParts DEF KeysApart, ImportsSound, CaptureKeys
<1>4. SlotsSound'
  <2>1. ASSUME NEW k \in UsedSlots
        PROVE  SlotSound(k)'
    <3>1. SlotSound(k) /\ pend[k].index \in CapSlots
      BY SafeParts, FieldTypes DEF SlotsSound, UsedSlots
    <3> QED
      BY <3>1 DEF SlotSound
  <2> QED
    BY <1>1, <2>1 DEF SlotsSound
<1>5. SlotsApart' /\ JobsPending'
  BY <1>1, SafeParts DEF SlotsApart, JobsPending
<1>6. PixelInv'
  BY <1>1, SafeParts DEF PixelInv, DecodedHoldsTheCopy
<1> QED
  BY <1>1, <1>2, <1>3, <1>4, <1>5, <1>6

LEMMA MapStands ==
    ASSUME CaptureSafe, UNCHANGED <<srf, pend, mapped, pics>>,
           At("submit")' => At("submit"), mapped # {} => dec'.open
    PROVE  MapInv'
<1>1. \A s : SlotsOf(s)' = SlotsOf(s)
  BY DEF SlotsOf, UsedSlots
<1>2. \A m \in mapped : Fits(m)' = Fits(m)
  BY DEF Fits
<1> QED
  BY <1>1, <1>2, SafeParts DEF MapInv

(* A picture under way stays under way.                                       *)
LEMMA FenceStands ==
    ASSUME CaptureSafe, UNCHANGED <<srf, pend, mapped>>,
           sess' \in {"gone", "none"} => sess \in {"gone", "none"},
           sess' \in {"open", "live"} => sess \in {"none", "gone", "open", "live"},
           sess' \in {"open", "live"} =>
               \A s \in Surfaces :
                  /\ At("submit") /\ s = call.s => (At("submit") /\ s = call.s)'
                  /\ WithDecoder(srf[s].pic) =>
                        \/ WithDecoder(srf[s].pic)'
                        \/ (At("assign") /\ call.frame.pic = srf[s].pic)'
                  /\ Awaiting /\ s = call.s =>
                        (Awaiting /\ s = call.s)' \/ WithDecoder(srf[s].pic)'
                  /\ At("assign") /\ call.frame.pic = srf[s].pic =>
                        (At("assign") /\ call.frame.pic = srf[s].pic)'
    PROVE  FenceInv'
<1>1. \A s \in Surfaces : SlotsOf(s)' = SlotsOf(s) /\ OwnMapping(s)' = OwnMapping(s)
  BY DEF SlotsOf, UsedSlots, OwnMapping
<1>2. SUFFICES ASSUME NEW s \in Surfaces, srf'[s].fence # 0
               PROVE  /\ srf'[s].owned
                      /\ srf'[s].alive => sess' \notin {"gone", "none"}
                      /\ srf'[s].alive /\ sess' \in {"open", "live"} =>
                            \/ (At("submit") /\ s = call.s)'
                            \/ SlotsOf(s)' # {}
                            \/ /\ OwnMapping(s)' \in mapped'
                               /\ \/ WithDecoder(srf[s].pic)'
                                  \/ (Awaiting /\ s = call.s)'
                                  \/ (At("assign") /\ call.frame.pic = srf[s].pic)'
  BY DEF FenceInv
<1>3. /\ srf[s].owned
      /\ srf[s].alive => sess \notin {"gone", "none"}
      /\ srf[s].alive /\ sess \in {"open", "live"} =>
            \/ At("submit") /\ s = call.s
            \/ SlotsOf(s) # {}
            \/ /\ OwnMapping(s) \in mapped
               /\ \/ WithDecoder(srf[s].pic)
                  \/ Awaiting /\ s = call.s
                  \/ At("assign") /\ call.frame.pic = srf[s].pic
  BY <1>2, SafeParts DEF FenceInv
<1> QED
  BY <1>1, <1>3

(* A step of the call, of the decoder, or the start of a call, that leaves    *)
(* the buffers where they are.                                                *)
LEMMA MoveKeeps ==
    ASSUME CaptureSafe, TransportSafe',
           UNCHANGED <<engine, mapped, pics, opened, srf, capQueued>>,
           dec'.gen = dec.gen, dec'.capCount = dec.capCount, dec'.eos = dec.eos,
           mapped # {} => dec'.open,
           call' \in CallRecord, sess' \in {"gone", "none", "open", "live", "eos", "dead"},
           sess' = "dead" <=> sess = "dead",
           At("assign")' => At("assign") /\ call' = call, At("assign") => At("assign")',
           At("submit")' => At("submit"),
           CallInv', RingInv', PicsKnown', FenceInv'
    PROVE  CaptureSafe'
<1> USE DEF engine
<1>1. /\ KeysApart' /\ ImportsSound' /\ SlotsSound' /\ SlotsApart' /\ JobsPending'
      /\ PixelInv' /\ UsedSlots' = UsedSlots
  BY EngineStands
<1>2. MapInv'
  BY MapStands
<1>3. HandSound'
  BY <1>1, SafeParts DEF HandSound, Unfed, Awaiting, At
<1>4. OnlyLastIsLost'
  <2>1. Hand' = Hand /\ Lost' = Lost
    BY <1>1 DEF Hand, Lost
  <2> QED
    BY <2>1, SafeParts DEF OnlyLastIsLost
<1>5. TypeOK'
  BY SafeParts DEF TypeOK, TransportSafe
<1> QED
  BY <1>1, <1>2, <1>3, <1>4, <1>5 DEF CaptureSafe, CaptureInv, TransportSafe

-----------------------------------------------------------------------------
(* The decoder                                                                *)

(* There is one size, and a session that decodes has it.                      *)
LEMMA OneSize ==
    ASSUME CaptureSafe, sess \in {"live", "eos", "dead"}, vdev.out # <<>>
    PROVE  Head(vdev.out).layout = vdev.fmt
<1>1. PICK size \in Layouts : Layouts = {size}
  BY CaptureAssumption
<1>2. Head(vdev.out) \in Unit
  BY SafeParts, QueueTypes, MembersOfTail
<1>3. Head(vdev.out).layout \in Layouts
  BY <1>2 DEF Unit
<1> QED
  BY <1>1, <1>3, SafeParts DEF RingInv

LEMMA DeviceKeepsQueues ==
    ASSUME CaptureSafe, Device, UNCHANGED <<call, sess, pics, srf, pend, opened>>
    PROVE  /\ RingInv' /\ PicsKnown'
           /\ \A pic \in Nat : WithDecoder(pic) => WithDecoder(pic)'
<1>1. TypeOK /\ TransportTypeOK /\ RingInv /\ PicsKnown /\ vdev \in DeviceRecord
      /\ CallTarget /\ pics \in Nat
  BY SafeParts DEF TransportTypeOK, TypeOK
<1>2. UNCHANGED <<dec, freeOut, capQueued>> /\ vdev'.stop = vdev.stop
  BY SafeParts, DeviceKeeps
<1>3. vdev.outOn
  BY DEF Device, DeviceMeetsNewSize, DeviceDecodes, DeviceSendsLast
<1>4. sess \in {"live", "eos", "dead"} \/ (sess = "open" /\ At("starting"))
  BY <1>1, <1>3 DEF RingInv, TypeOK
<1> DEFINE Known(pic) == pic <= pics /\ (Unfed => pic < pics)
<1>5. Known(0) /\ (Unfed <=> Unfed')
  BY <1>1, SafeParts DEF CallTarget, Unfed, Awaiting, At
<1>6. /\ \A k \in DOMAIN vdev.out : Known(vdev.out[k].pic)
      /\ \A k \in DOMAIN vdev.ready :
            Known(vdev.ready[k].pic) /\ (vdev.ready[k].last => vdev.ready[k].pic = 0)
  BY <1>1 DEF PicsKnown
<1>7. CASE DeviceMeetsNewSize
  <2>1. sess = "open" /\ At("starting")
    BY <1>4, <1>7, OneSize DEF DeviceMeetsNewSize
  <2>2. vdev'.fmt \in Layouts /\ vdev'.out = vdev.out /\ vdev'.ready = vdev.ready
        /\ vdev'.capOn = vdev.capOn
    <3>1. Head(vdev.out) \in Unit
      BY <1>1, <1>7, QueueTypes, MembersOfTail DEF DeviceMeetsNewSize
    <3> QED
      BY <1>1, <1>7, <3>1 DEF DeviceMeetsNewSize, DeviceRecord, Unit
  <2>3. RingInv'
    BY <1>1, <1>2, <2>1, <2>2 DEF RingInv, At
  <2> QED
    BY <1>5, <1>6, <2>2, <2>3 DEF PicsKnown, WithDecoder
<1>8. CASE DeviceDecodes
  <2> DEFINE unit == Head(vdev.out)
             units == Tail(vdev.out)
             P(i) == [index |-> i, pic |-> unit.pic, layout |-> vdev.fmt, last |-> FALSE]
  <2>1. PICK i \in vdev.cap :
           vdev' = [vdev EXCEPT !.out = units, !.outDone = Append(@, unit.buf), !.cap = @ \ {i},
                                !.ready = Append(@, P(i))]
    BY <1>8 DEF DeviceDecodes
  <2> DEFINE p == P(i)
  <2>2. /\ unit \in Unit /\ 1 \in DOMAIN vdev.out /\ unit = vdev.out[1]
        /\ DOMAIN units = 1 .. Len(vdev.out) - 1 /\ DOMAIN vdev.out = 1 .. Len(vdev.out)
        /\ Len(vdev.out) \in Nat
        /\ \A k \in DOMAIN units : k + 1 \in DOMAIN vdev.out /\ units[k] = vdev.out[k + 1]
    BY <1>1, <1>8, QueueTypes, MembersOfTail DEF DeviceDecodes
  <2>3. p \in Picture /\ p.pic = unit.pic /\ p.last = FALSE
    <3>1. unit.pic \in Nat /\ i \in CapSlots
      BY <1>1, <2>2 DEF Unit, DeviceRecord
    <3> QED
      BY <1>1, <3>1 DEF Picture, DeviceRecord
  <2>4. vdev'.out = units /\ vdev'.ready = Append(vdev.ready, p) /\ vdev'.fmt = vdev.fmt
        /\ vdev'.capOn = vdev.capOn /\ vdev'.outOn = vdev.outOn /\ vdev'.events = vdev.events
    BY <1>1, <2>1 DEF DeviceRecord
  <2> HIDE DEF units, P, p
  <2>5. /\ DOMAIN Append(vdev.ready, p) = 1 .. Len(vdev.ready) + 1
        /\ DOMAIN vdev.ready = 1 .. Len(vdev.ready) /\ Len(vdev.ready) \in Nat
        /\ Append(vdev.ready, p)[Len(vdev.ready) + 1] = p
        /\ \A k \in 1 .. Len(vdev.ready) : Append(vdev.ready, p)[k] = vdev.ready[k]
    BY <1>1, <2>3, QueueTypes, AppendProperties
  <2>6. sess \in {"live", "eos", "dead"}
    BY <1>1, <1>4, <1>8 DEF RingInv, DeviceDecodes
  <2>7. RingInv'
    BY <1>1, <1>2, <2>4, <2>6 DEF RingInv
  <2>8. PicsKnown'
    <3>1. ASSUME NEW k \in DOMAIN vdev'.out
          PROVE  Known(vdev'.out[k].pic)
      BY <1>6, <2>2, <2>4
    <3>2. Known(p.pic) /\ p.last = FALSE
      BY <1>6, <2>2, <2>3
    <3>3. ASSUME NEW k \in DOMAIN vdev'.ready
          PROVE  Known(vdev'.ready[k].pic) /\ (vdev'.ready[k].last => vdev'.ready[k].pic = 0)
      <4>1. CASE k = Len(vdev.ready) + 1
        BY <2>4, <2>5, <3>2, <4>1
      <4>2. CASE k # Len(vdev.ready) + 1
        <5>1. k \in DOMAIN vdev.ready /\ vdev'.ready[k] = vdev.ready[k]
          BY <2>4, <2>5, <4>2
        <5> QED
          BY <1>6, <5>1
      <4> QED
        BY <4>1, <4>2
    <3> QED
      BY <1>5, <3>1, <3>3 DEF PicsKnown
  <2>9. ASSUME NEW pic \in Nat, WithDecoder(pic)
        PROVE  WithDecoder(pic)'
    <3>1. CASE \E k \in DOMAIN vdev.ready : vdev.ready[k].pic = pic
      BY <2>4, <2>5, <3>1 DEF WithDecoder
    <3>2. CASE \E k \in DOMAIN vdev.out : vdev.out[k].pic = pic
      <4>1. PICK k \in DOMAIN vdev.out : vdev.out[k].pic = pic
        BY <3>2
      <4>2. CASE k = 1
        <5>1. p.pic = pic /\ Len(vdev.ready) + 1 \in DOMAIN vdev'.ready
              /\ vdev'.ready[Len(vdev.ready) + 1] = p
          BY <2>2, <2>3, <2>4, <2>5, <4>1, <4>2
        <5> QED
          BY <5>1 DEF WithDecoder
      <4>3. CASE k # 1
        <5>1. k - 1 \in DOMAIN units /\ units[k - 1] = vdev.out[k]
          BY <2>2, <4>1, <4>3
        <5> QED
          BY <2>4, <4>1, <5>1 DEF WithDecoder
      <4> QED
        BY <4>2, <4>3
    <3> QED
      BY <2>9, <3>1, <3>2 DEF WithDecoder
  <2> QED
    BY <2>7, <2>8, <2>9
<1>9. CASE DeviceSendsLast
  <2> DEFINE P(i) == [index |-> i, pic |-> 0, layout |-> vdev.fmt, last |-> TRUE]
  <2>1. PICK i \in vdev.cap :
           vdev' = [vdev EXCEPT !.cap = @ \ {i}, !.lastSent = TRUE, !.ready = Append(@, P(i))]
    BY <1>9 DEF DeviceSendsLast
  <2> DEFINE p == P(i)
  <2>2. p \in Picture /\ p.pic = 0
    BY <1>1 DEF Picture, DeviceRecord
  <2>3. vdev'.out = vdev.out /\ vdev'.ready = Append(vdev.ready, p) /\ vdev'.fmt = vdev.fmt
        /\ vdev'.capOn = vdev.capOn /\ vdev'.outOn = vdev.outOn /\ vdev'.events = vdev.events
    BY <1>1, <2>1 DEF DeviceRecord
  <2> HIDE DEF P, p
  <2>4. /\ DOMAIN Append(vdev.ready, p) = 1 .. Len(vdev.ready) + 1
        /\ DOMAIN vdev.ready = 1 .. Len(vdev.ready) /\ Len(vdev.ready) \in Nat
        /\ Append(vdev.ready, p)[Len(vdev.ready) + 1] = p
        /\ \A k \in 1 .. Len(vdev.ready) : Append(vdev.ready, p)[k] = vdev.ready[k]
    BY <1>1, <2>2, QueueTypes, AppendProperties
  <2>5. sess \in {"live", "eos", "dead"}
    BY <1>1, <1>4, <1>9 DEF RingInv, DeviceSendsLast
  <2>6. RingInv'
    BY <1>1, <1>2, <2>3, <2>5 DEF RingInv
  <2>7. PicsKnown'
    <3>1. ASSUME NEW k \in DOMAIN vdev'.ready
          PROVE  Known(vdev'.ready[k].pic) /\ (vdev'.ready[k].last => vdev'.ready[k].pic = 0)
      BY <1>5, <1>6, <2>2, <2>3, <2>4
    <3> QED
      BY <1>5, <1>6, <2>3, <3>1 DEF PicsKnown
  <2>8. \A pic \in Nat : WithDecoder(pic) => WithDecoder(pic)'
    BY <2>3, <2>4 DEF WithDecoder
  <2> QED
    BY <2>6, <2>7, <2>8
<1> QED
  BY <1>7, <1>8, <1>9 DEF Device

(* The decoder moves between any two steps.                                   *)
LEMMA DeviceMoves ==
    ASSUME CaptureSafe, Device, UNCHANGED <<engine, context, srf, call>>
    PROVE  CaptureSafe'
<1> USE DEF context
<1>1. TransportSafe' /\ UNCHANGED <<dec, freeOut, capQueued>>
  BY SafeParts, DeviceKeeps
<1>2. UNCHANGED <<call, sess, pics, srf, pend, mapped, opened>>
  BY DEF engine
<1>3. CallInv'
  <2>1. CallPlace /\ CallSession /\ CallTarget
    BY SafeParts
  <2>2. CallPlace' /\ CallSession'
    BY <1>2, <2>1 DEF CallPlace, CallSession, At, Idle
  <2>3. CallTarget'
    BY <1>2, <2>1 DEF CallTarget, Unfed, Awaiting, At, Idle, SlotsOf, UsedSlots
  <2> QED
    BY <2>2, <2>3 DEF CallInv
<1>4. RingInv' /\ PicsKnown' /\ \A pic \in Nat : WithDecoder(pic) => WithDecoder(pic)'
  BY <1>2, DeviceKeepsQueues
<1>5. FenceInv'
  <2>1. \A s \in Surfaces : srf[s].pic \in Nat
    BY SafeParts, FieldTypes
  <2> QED
    BY <1>2, <1>4, <2>1, FenceStands DEF At, Awaiting
<1>6. call' \in CallRecord /\ sess' \in {"gone", "none", "open", "live", "eos", "dead"}
  BY <1>2, SafeParts DEF TypeOK
<1>7. mapped # {} => dec'.open
  BY <1>1, SafeParts DEF MapInv
<1> QED
  BY <1>1, <1>2, <1>3, <1>4, <1>5, <1>6, <1>7, MoveKeeps DEF At

-----------------------------------------------------------------------------
(* Steps of the call that leave the buffers alone                             *)

LEMMA TargetStands ==
    ASSUME CaptureSafe, UNCHANGED <<srf, pend, pics>>, call'.s = call.s,
           ~Idle' /\ call'.op # "destroy" => ~Idle /\ call.op # "destroy",
           Unfed' => Unfed
    PROVE  CallTarget'
<1>1. \A s : SlotsOf(s)' = SlotsOf(s)
  BY DEF SlotsOf, UsedSlots
<1> QED
  BY <1>1, SafeParts DEF CallTarget

(* Its queues are not touched either.                                         *)
QuietTransport ==
    /\ UNCHANGED capQueued
    /\ dec'.open = dec.open /\ dec'.gen = dec.gen /\ dec'.capCount = dec.capCount
    /\ dec'.eos = dec.eos /\ dec'.layout = dec.layout
    /\ vdev'.out = vdev.out /\ vdev'.ready = vdev.ready /\ vdev'.fmt = vdev.fmt
    /\ vdev'.capOn = vdev.capOn /\ (vdev'.events = vdev.events \/ vdev'.events = 0)

LEMMA QuietMoveKeeps ==
    ASSUME CaptureSafe, TransportSafe',
           UNCHANGED <<engine, mapped, pics, opened, srf>>, QuietTransport,
           vdev'.outOn => vdev.outOn \/ At("starting")',
           vdev'.stop => vdev.stop \/ sess' = "eos",
           \/ sess' = sess
           \/ sess = "live" /\ sess' = "eos"
           \/ sess = "gone" /\ sess' = "none",
           sess' = "open" => /\ ~At("submit")' /\ ~At("feed")'
                             /\ At("starting") => At("starting")',
           call' \in CallRecord, CallPlace', CallSession', CallTarget',
           ~At("assign"), ~At("assign")', ~At("submit")', Unfed' => Unfed,
           sess' \in {"open", "live"} =>
               ~At("submit") /\ (Awaiting => Awaiting' /\ call'.s = call.s)
    PROVE  CaptureSafe'
<1> USE DEF QuietTransport
<1>1. TypeOK /\ RingInv /\ PicsKnown /\ MapInv /\ vdev \in DeviceRecord
  BY SafeParts DEF TransportTypeOK
<1>2. sess' \in {"gone", "none", "open", "live", "eos", "dead"}
  BY <1>1 DEF TypeOK
<1>3. RingInv'
  <2>1. At("starting")' => sess' = "open"
    BY DEF CallSession
  <2>2. vdev'.events > 0 => vdev.events > 0
    OBVIOUS
  <2>3. vdev.events \in Nat
    BY <1>1 DEF DeviceRecord
  <2> QED
    BY <1>1, <2>1, <2>2, <2>3 DEF RingInv
<1>4. PicsKnown' /\ \A pic : WithDecoder(pic)' <=> WithDecoder(pic)
  BY <1>1 DEF PicsKnown, WithDecoder
<1>5. FenceInv'
  BY <1>4, FenceStands DEF engine
<1>6. CallInv'
  BY DEF CallInv
<1> QED
  BY <1>1, <1>2, <1>3, <1>4, <1>5, <1>6, MoveKeeps DEF MapInv

(* The calls of the transport that are quiet; a report of the size that is    *)
(* known is one.                                                              *)
LEMMA QuietCalls ==
    ASSUME CaptureSafe, \/ UNCHANGED transport
                        \/ StopDecoder \/ Poll \/ StartOutput \/ DequeueNothing
                        \/ HandleEvents /\ SameSize
    PROVE  /\ TransportSafe' /\ QuietTransport
           /\ StartOutput \/ ~StopDecoder => vdev'.stop = vdev.stop
           /\ StopDecoder \/ ~StartOutput => vdev'.outOn = vdev.outOn
<1> DEFINE pri == vdev.events > 0
<1>1. dec \in DecRecord /\ vdev \in DeviceRecord /\ pri \in BOOLEAN /\ TransportSafe
  BY SafeParts DEF TransportSafe, TransportTypeOK
<1>2. Poll => dec' = [dec EXCEPT !.pri = pri]
  BY DEF Poll
<1> HIDE DEF pri
<1> USE DEF QuietTransport, DecRecord, DeviceRecord
<1>3. CASE UNCHANGED transport
  BY <1>1, <1>3 DEF transport, TransportSafe, TransportTypeOK, TransportInv, OutputInv,
                    CaptureAccounted, CaptureApart, RingHasLayout, LastIsLast
<1>4. CASE StopDecoder \/ StartOutput
  <2>1. TransportSafe'
    BY <1>1, <1>4, FlagCallsKeep
  <2> QED
    BY <1>1, <1>4, <2>1 DEF StopDecoder, StartOutput
<1>5. CASE Poll
  <2>1. TransportSafe'
    BY <1>1, <1>5, FlagCallsKeep
  <2> QED
    BY <1>1, <1>2, <1>5, <2>1 DEF Poll
<1>6. CASE DequeueNothing
  <2>1. TransportSafe'
    BY <1>1, <1>6, RecyclingCallsKeep
  <2> QED
    BY <1>1, <1>6, <2>1 DEF DequeueNothing, Emptied
<1>7. CASE HandleEvents /\ SameSize
  <2>1. TransportSafe'
    BY <1>1, <1>7, HandleEventsKeeps
  <2> QED
    BY <1>1, <1>7, <2>1 DEF HandleEvents, NoMorePri
<1> QED
  BY <1>3, <1>4, <1>5, <1>6, <1>7

LEMMA CreateContextKeeps == CaptureSafe /\ CreateContext => CaptureSafe'
<1> SUFFICES ASSUME CaptureSafe, CreateContext PROVE CaptureSafe'
  OBVIOUS
<1> USE DEF CreateContext, Idle, At
<1>1. TransportSafe' /\ QuietTransport /\ UNCHANGED vdev
  BY QuietCalls DEF transport
<1>2. CallPlace' /\ CallSession' /\ CallTarget'
  <2>1. CallPlace' /\ CallSession'
    BY SafeParts DEF CallPlace, CallSession, Looping
  <2> QED
    BY <2>1, TargetStands DEF engine, Unfed, Awaiting
<1>3. call' \in CallRecord /\ ~At("assign") /\ ~At("submit") /\ (Unfed' <=> Unfed)
  BY SafeParts DEF TypeOK, Unfed, Awaiting
<1> QED
  BY <1>1, <1>2, <1>3, QuietMoveKeeps

(* A call begins: at its place, with its operation and surface.               *)
LEMMA CallBegins ==
    ASSUME TypeOK, NEW pc, NEW op, NEW s \in Surfaces \cup {NoSurface},
           pc \in {"submit", "drain", "capture", "teardown"},
           op \in {"end", "wait", "ready", "destroy"},
           call' = [NoCall EXCEPT !.pc = pc, !.op = op, !.s = s]
    PROVE  /\ call' \in CallRecord /\ call'.pc = pc /\ call'.op = op /\ call'.s = s
           /\ call'.capture = FALSE
<1>1. NoFrame \in Frame
  BY TransportAssumption DEF NoFrame, Frame, CapSlots
<1> QED
  BY <1>1 DEF NoCall, CallRecord

LEMMA SyncSurfaceKeeps ==
    ASSUME CaptureSafe, NEW s \in Surfaces, SyncSurface(s)
    PROVE  CaptureSafe'
<1>1. /\ TransportSafe' /\ QuietTransport /\ UNCHANGED <<vdev, engine, context, srf>>
      /\ Idle /\ srf[s].alive /\ sess \in {"live", "eos"} /\ TypeOK
  BY SafeParts, QuietCalls DEF transport, SyncSurface
<1>2. PICK op \in {"wait", "ready"} :
         /\ op = (IF sess = "live" THEN "wait" ELSE "ready")
         /\ call' = [NoCall EXCEPT !.pc = "drain", !.op = op, !.s = s]
  BY DEF SyncSurface
<1>3. call' \in CallRecord /\ call'.pc = "drain" /\ call'.op = op /\ call'.s = s
  BY <1>1, <1>2, CallBegins
<1> USE DEF Idle, At
<1>4. call.op = "none" /\ call.pc = "idle"
  BY <1>1, SafeParts DEF CallPlace
<1>5. CallPlace' /\ CallSession' /\ CallTarget'
  BY <1>1, <1>2, <1>3, SafeParts
  DEF CallPlace, CallSession, CallTarget, Looping, Unfed, Awaiting, context
<1> QED
  BY <1>1, <1>3, <1>4, <1>5, QuietMoveKeeps DEF Unfed, Awaiting, context

(* The final flush of vpu_decode_destroy begins with STOP.                    *)
LEMMA DestroyContextKeeps == CaptureSafe /\ DestroyContext => CaptureSafe'
<1> SUFFICES ASSUME CaptureSafe, DestroyContext PROVE CaptureSafe'
  OBVIOUS
<1> USE DEF DestroyContext, Idle, At
<1>1. /\ TransportSafe' /\ QuietTransport /\ vdev'.outOn = vdev.outOn
      /\ vdev'.stop => vdev.stop \/ sess' = "eos"
  BY QuietCalls DEF transport
<1>2. /\ call' \in CallRecord /\ call'.pc \in {"capture", "teardown"} /\ call'.op = "destroy"
      /\ call'.pc = "capture" <=> sess = "live"
  <2>1. CASE sess = "live"
    <3>1. call' = [NoCall EXCEPT !.pc = "capture", !.op = "destroy", !.s = NoSurface] /\ TypeOK
      BY <2>1, SafeParts DEF NoCall
    <3> QED
      BY <2>1, <3>1, CallBegins
  <2>2. CASE sess # "live"
    <3>1. call' = [NoCall EXCEPT !.pc = "teardown", !.op = "destroy", !.s = NoSurface] /\ TypeOK
      BY <2>2, SafeParts DEF NoCall
    <3> QED
      BY <2>2, <3>1, CallBegins
  <2> QED
    BY <2>1, <2>2
<1>3. call.op = "none" /\ call.pc = "idle" /\ CallSession
  BY SafeParts DEF CallPlace
<1>4. CallPlace' /\ CallSession' /\ CallTarget'
  BY <1>2, <1>3 DEF CallPlace, CallSession, CallTarget, Looping, Unfed, Awaiting
<1> QED
  BY <1>1, <1>2, <1>3, <1>4, QuietMoveKeeps DEF Unfed, Awaiting, CallSession

(* stream_boundary_restart begins with STOP too.                              *)
LEMMA BoundaryKeeps == CaptureSafe /\ Boundary => CaptureSafe'
<1> SUFFICES ASSUME CaptureSafe, Boundary PROVE CaptureSafe'
  OBVIOUS
<1>1. /\ TransportSafe' /\ QuietTransport /\ vdev'.outOn = vdev.outOn
      /\ UNCHANGED <<engine, mapped, pics, opened, srf>>
      /\ At("submit") /\ sess = "live" /\ sess' = "eos"
      /\ TypeOK /\ CallPlace /\ CallTarget
  BY SafeParts, QuietCalls DEF Boundary
<1>2. /\ call' \in CallRecord /\ call'.pc = "capture" /\ call'.op = "boundary"
      /\ call'.s = call.s
  BY <1>1 DEF Boundary, TypeOK, CallRecord
<1> USE DEF Idle, At
<1>3. CallPlace' /\ CallSession' /\ CallTarget'
  <2>1. CallPlace' /\ CallSession'
    BY <1>1, <1>2 DEF CallPlace, CallSession, Looping
  <2>2. call.op \in {"end", "boundary"}
    BY <1>1 DEF CallPlace
  <2> QED
    BY <1>1, <1>2, <2>1, <2>2, TargetStands DEF Unfed, Awaiting, engine
<1> QED
  BY <1>1, <1>2, <1>3, QuietMoveKeeps DEF Unfed, Awaiting

(* v4l2_dec_start: the stream is on, CAPTURE is not there yet.                *)
LEMMA StartSessionKeeps == CaptureSafe /\ StartSession => CaptureSafe'
<1> SUFFICES ASSUME CaptureSafe, StartSession PROVE CaptureSafe'
  OBVIOUS
<1>1. /\ TransportSafe' /\ QuietTransport /\ vdev'.stop = vdev.stop
      /\ UNCHANGED <<engine, context, srf>> /\ At("start") /\ Continue("starting")
      /\ TypeOK /\ CallPlace /\ CallSession /\ CallTarget
  BY SafeParts, QuietCalls DEF StartSession
<1>2. /\ call' \in CallRecord /\ call'.pc = "starting" /\ call'.op = call.op
      /\ call'.s = call.s
  BY <1>1, CallMoves
<1> USE DEF Idle, At, context
<1>3. CallPlace' /\ CallSession' /\ CallTarget'
  <2>1. call.op = "end" /\ sess = "open"
    BY <1>1 DEF CallPlace, CallSession
  <2>2. CallPlace' /\ CallSession'
    BY <1>1, <1>2, <2>1 DEF CallPlace, CallSession, Looping
  <2> QED
    BY <1>1, <1>2, <2>1, <2>2, TargetStands DEF Unfed, Awaiting, engine
<1>4. call.op = "end"
  BY <1>1 DEF CallPlace
<1> QED
  BY <1>1, <1>2, <1>3, <1>4, QuietMoveKeeps DEF Unfed, Awaiting

(* Where a loop of a call goes on is a place of its operation.                *)
LoopStep ==
    \/ AfterDrain
    \/ Continue("drain") /\ call.op = "wait"
    \/ Continue("capture") /\ call.op \in {"wait", "ready", "boundary", "destroy"}
    \/ call' = [call EXCEPT !.pc = "events", !.capture = FALSE]
       /\ call.op \in {"feed", "end", "wait"}
    \/ call' = [call EXCEPT !.pc = "events", !.capture = TRUE]
       /\ call.op \in {"wait", "ready", "boundary", "destroy"}
    \/ call' = [call EXCEPT !.pc = "take"] /\ At("events")

LEMMA LoopStepKeeps ==
    ASSUME CaptureSafe, TransportSafe', UNCHANGED <<engine, context, srf>>, QuietTransport,
           call.pc \in Looping \ {"assign"}, LoopStep,
           vdev'.outOn = vdev.outOn, vdev'.stop = vdev.stop,
           AfterDrain => call.op \in {"feed", "end", "wait"}
    PROVE  CaptureSafe'
<1>1. TypeOK /\ CallPlace /\ CallSession /\ CallTarget
  BY SafeParts
<1> USE DEF Idle, At, context
<1>2. sess = (IF call.op \in {"feed", "end", "wait"} THEN "live" ELSE "eos")
  BY <1>1 DEF CallSession
<1>3. CASE Return
  <2>1. call' \in CallRecord /\ call'.pc = "idle" /\ call'.op = "none"
    BY <1>1, <1>3, CallMoves
  <2>2. call.op # "feed"
    <3>1. \A next \in {"feed", "drain", "capture"} : ~Continue(next)
      BY <1>1, <2>1, CallMoves
    <3>2. call' # [call EXCEPT !.pc = "events", !.capture = FALSE]
      BY <1>1, <2>1 DEF TypeOK, CallRecord
    <3>3. call' # [call EXCEPT !.pc = "take"]
      BY <1>1, <2>1 DEF TypeOK, CallRecord
    <3> QED
      BY <3>1, <3>2, <3>3 DEF LoopStep, AfterDrain
  <2>3. CallPlace' /\ CallSession' /\ CallTarget'
    BY <1>2, <2>1 DEF CallPlace, CallSession, CallTarget, Looping, Unfed, Awaiting
  <2> QED
    BY <1>2, <2>1, <2>2, <2>3, QuietMoveKeeps DEF Unfed, Awaiting, Looping
<1>4. CASE ~Return
  <2>1. /\ call' \in CallRecord /\ call'.s = call.s
        /\ call'.pc \in {"feed", "check", "drain", "capture", "events", "take"}
        /\ \/ call'.op = call.op
           \/ call.op = "end" /\ call'.op = "wait" /\ call'.pc = "drain"
        /\ call'.pc = "feed" => call.op = "feed"
        /\ call'.pc = "check" => call.op = "wait"
        /\ call'.pc = "capture" => call.op \in {"wait", "ready", "boundary", "destroy"}
        /\ call'.pc = "drain" => call.op \in {"end", "wait"}
        /\ call'.pc = "events" =>
              call.op \in (IF call'.capture THEN {"wait", "ready", "boundary", "destroy"}
                                            ELSE {"feed", "end", "wait"})
        /\ call'.pc = "take" => call.pc = "events" /\ call'.capture = call.capture
    <3>1. CASE AfterDrain
      <4>1. CASE call.op = "end"
        <5>1. call' = [call EXCEPT !.pc = "drain", !.op = "wait"]
          BY <1>4, <3>1, <4>1 DEF AfterDrain
        <5> QED
          BY <1>1, <4>1, <5>1 DEF TypeOK, CallRecord
      <4>2. CASE call.op # "end"
        BY <1>1, <3>1, <4>2, CallMoves DEF AfterDrain
      <4> QED
        BY <4>1, <4>2
    <3>2. CASE ~AfterDrain
      BY <1>1, <3>2, CallMoves DEF LoopStep, TypeOK, CallRecord
    <3> QED
      BY <3>1, <3>2
  <2>2. CallPlace' /\ CallSession'
    BY <1>1, <1>2, <2>1 DEF CallPlace, CallSession, Looping
  <2>3. CallTarget'
    BY <1>1, <2>1, TargetStands DEF Unfed, Awaiting, engine, CallPlace, Looping
  <2>4. Awaiting => call.op = "feed"
    BY DEF Awaiting, Looping
  <2>5. call.op = "feed" => call'.op = "feed"
    BY <2>1
  <2> QED
    BY <1>1, <1>2, <2>1, <2>2, <2>3, <2>4, <2>5, QuietMoveKeeps
    DEF Unfed, Awaiting, Looping
<1> QED
  BY <1>3, <1>4

LEMMA PollDeviceKeeps == CaptureSafe /\ PollDevice => CaptureSafe'
<1> SUFFICES ASSUME CaptureSafe, PollDevice PROVE CaptureSafe'
  OBVIOUS
<1>1. /\ UNCHANGED <<engine, context, srf>> /\ (Poll \/ UNCHANGED transport)
      /\ call.pc \in {"poll", "capture"} /\ CallPlace /\ TypeOK
  BY SafeParts DEF PollDevice, At
<1>2. /\ TransportSafe' /\ QuietTransport /\ vdev'.outOn = vdev.outOn /\ vdev'.stop = vdev.stop
  BY <1>1, QuietCalls DEF Poll, transport
<1>3. LoopStep
  BY <1>1 DEF PollDevice, LoopStep, CallPlace, At
<1>4. AfterDrain => call.op \in {"feed", "end", "wait"}
  BY DEF AfterDrain
<1> QED
  BY <1>1, <1>2, <1>3, <1>4, LoopStepKeeps DEF Looping

(* A source change reported while the session decodes is of the known size.   *)
LEMMA EventsKeep == CaptureSafe /\ Events => CaptureSafe'
<1> SUFFICES ASSUME CaptureSafe, Events PROVE CaptureSafe'
  OBVIOUS
<1>1. /\ UNCHANGED <<engine, context, srf>> /\ HandleEvents /\ At("events")
      /\ call' = [call EXCEPT !.pc = "take"] /\ CallSession /\ RingInv /\ CallPlace
  BY SafeParts DEF Events
<1>2. SameSize
  BY <1>1 DEF CallSession, RingInv, SameSize, At, Looping
<1>3. /\ TransportSafe' /\ QuietTransport /\ vdev'.outOn = vdev.outOn /\ vdev'.stop = vdev.stop
  <2>1. vdev \in DeviceRecord
    BY SafeParts DEF TransportTypeOK
  <2>2. vdev'.outOn = vdev.outOn /\ vdev'.stop = vdev.stop
    BY <1>1, <1>2, <2>1 DEF HandleEvents, DeviceRecord
  <2> QED
    BY <1>1, <1>2, <2>2, QuietCalls
<1>4. AfterDrain => call.op \in {"feed", "end", "wait"}
  BY DEF AfterDrain
<1> QED
  BY <1>1, <1>3, <1>4, LoopStepKeeps DEF Looping, LoopStep, At

LEMMA TakeNothingKeeps == CaptureSafe /\ TakeNothing => CaptureSafe'
<1> SUFFICES ASSUME CaptureSafe, TakeNothing PROVE CaptureSafe'
  OBVIOUS
<1>1. /\ UNCHANGED <<engine, context, srf>> /\ DequeueNothing /\ At("take") /\ CallPlace
  BY SafeParts DEF TakeNothing
<1>2. /\ TransportSafe' /\ QuietTransport /\ vdev'.outOn = vdev.outOn /\ vdev'.stop = vdev.stop
  <2>1. vdev \in DeviceRecord
    BY SafeParts DEF TransportTypeOK
  <2>2. vdev'.outOn = vdev.outOn /\ vdev'.stop = vdev.stop
    BY <1>1, <2>1 DEF DequeueNothing, Emptied, DeviceRecord
  <2> QED
    BY <1>1, <2>2, QuietCalls
<1>3. LoopStep
  BY <1>1 DEF TakeNothing, LoopStep, CallPlace, At
<1>4. AfterDrain => call.op \in {"feed", "end", "wait"}
  BY DEF AfterDrain
<1> QED
  BY <1>1, <1>2, <1>3, <1>4, LoopStepKeeps DEF Looping, At

(* A deadline ends the call, or the flush of vpu_decode_destroy.              *)
LEMMA GiveUpKeeps == CaptureSafe /\ GiveUp => CaptureSafe'
<1> SUFFICES ASSUME CaptureSafe, GiveUp PROVE CaptureSafe'
  OBVIOUS
<1>1. /\ UNCHANGED <<transport, engine, context, srf>> /\ At("capture")
      /\ IF call.op = "destroy" THEN Continue("teardown") ELSE Return
      /\ CallPlace /\ CallSession /\ CallTarget /\ TypeOK
  BY SafeParts DEF GiveUp
<1>2. TransportSafe' /\ QuietTransport /\ UNCHANGED vdev
  BY <1>1, QuietCalls DEF transport
<1> USE DEF Idle, At, context
<1>3. /\ call.op \in {"wait", "ready", "boundary", "destroy"}
      /\ sess = (IF call.op = "wait" THEN "live" ELSE "eos")
  BY <1>1 DEF CallPlace, CallSession, Looping
<1>4. /\ call' \in CallRecord
      /\ \/ call'.pc = "teardown" /\ call'.op = "destroy" /\ call.op = "destroy"
         \/ call'.pc = "idle" /\ call'.op = "none"
  BY <1>1, CallMoves
<1>5. CallPlace' /\ CallSession' /\ CallTarget'
  BY <1>1, <1>3, <1>4 DEF CallPlace, CallSession, CallTarget, Looping, Unfed, Awaiting
<1> QED
  BY <1>1, <1>2, <1>3, <1>4, <1>5, QuietMoveKeeps DEF Unfed, Awaiting

(* No OUTPUT buffer: only a session that decodes can meet that.               *)
LEMMA InputFullKeeps == CaptureSafe /\ InputFull => CaptureSafe'
<1> SUFFICES ASSUME CaptureSafe, InputFull PROVE CaptureSafe'
  OBVIOUS
<1>1. /\ UNCHANGED <<transport, engine, context, srf>> /\ At("feed") /\ ~CanFeed
      /\ call' = [call EXCEPT !.pc = "drain", !.op = "feed"]
      /\ CallPlace /\ CallSession /\ CallTarget /\ TypeOK /\ RingInv
  BY SafeParts DEF InputFull
<1>2. TransportSafe' /\ QuietTransport /\ UNCHANGED vdev
  BY <1>1, QuietCalls DEF transport
<1>3. call' \in CallRecord /\ call'.pc = "drain" /\ call'.op = "feed" /\ call'.s = call.s
  BY <1>1 DEF TypeOK, CallRecord
<1> USE DEF Idle, At, context
<1>4. sess = "live" /\ call.op # "destroy"
  BY <1>1 DEF CallSession, CallPlace, RingInv
<1>5. CallPlace' /\ CallSession' /\ CallTarget'
  <2>1. CallPlace' /\ CallSession'
    BY <1>1, <1>3, <1>4 DEF CallPlace, CallSession, Looping
  <2> QED
    BY <1>1, <1>3, <1>4, <2>1, TargetStands DEF Unfed, Awaiting, engine
<1> QED
  BY <1>1, <1>2, <1>3, <1>4, <1>5, QuietMoveKeeps DEF Unfed, Awaiting

(* The unit is with the decoder, and its picture was the last begun.          *)
LEMMA FeedUnitKeeps == CaptureSafe /\ FeedUnit => CaptureSafe'
<1> SUFFICES ASSUME CaptureSafe, FeedUnit PROVE CaptureSafe'
  OBVIOUS
<1> DEFINE pic == srf[call.s].pic
           next == IF sess = "open" THEN "start" ELSE "drain"
<1>1. /\ UNCHANGED <<engine, context, srf>> /\ At("feed")
      /\ call' = [call EXCEPT !.op = "end", !.pc = next]
      /\ CallPlace /\ CallSession /\ CallTarget /\ TypeOK /\ RingInv /\ PicsKnown
      /\ TransportSafe /\ vdev \in DeviceRecord /\ MapInv /\ TransportTypeOK
  BY SafeParts DEF FeedUnit, TransportTypeOK
<1>2. PICK size \in Layouts : Feed(pic, size)
  BY DEF FeedUnit
<1> USE DEF Idle, At, context
<1>3. sess \in {"open", "live"} /\ call.op \in {"end", "boundary", "feed"}
  BY <1>1 DEF CallSession, CallPlace
<1>4. call.s \in Surfaces /\ srf[call.s].alive /\ pic = pics /\ pics # 0 /\ pic \in Nat
      /\ SlotsOf(call.s) = {}
  <2>1. call.s \in Surfaces /\ srf[call.s].alive /\ pic = pics /\ pics # 0
        /\ SlotsOf(call.s) = {}
    BY <1>1, <1>3 DEF CallTarget, Unfed, Awaiting
  <2> QED
    BY <1>1, <2>1 DEF TypeOK
<1>5. /\ call' \in CallRecord /\ call'.pc = next /\ call'.op = "end" /\ call'.s = call.s
      /\ next \in {"start", "drain"} /\ (next = "start" <=> sess = "open")
  <2>1. next \in {"start", "drain"} /\ (next = "start" <=> sess = "open")
    OBVIOUS
  <2> HIDE DEF next
  <2> QED
    BY <1>1, <2>1 DEF TypeOK, CallRecord
<1> HIDE DEF next
<1>6. TransportSafe'
  <2>1. ~vdev.stop
    BY <1>1, <1>3 DEF RingInv
  <2> QED
    BY <1>1, <1>2, <1>4, <2>1, FeedKeeps
<1> DEFINE unit == [buf |-> Last(Recycled), pic |-> pic, layout |-> size]
           units == Append(vdev.out, unit)
<1>7. /\ UNCHANGED <<dec, capQueued>>
      /\ vdev' = [Emptied EXCEPT !.out = units] /\ unit.pic = pic /\ unit \in Unit
  <2>1. Last(Recycled) \in OutSlots
    BY <1>1, <1>2, RecycledTyped, MembersOfFront DEF Feed, CanFeed
  <2> QED
    BY <1>2, <1>4, <2>1 DEF Feed, Unit, Emptied, DeviceRecord
<1> HIDE DEF unit
<1>8. /\ DOMAIN units = 1 .. Len(vdev.out) + 1 /\ units[Len(vdev.out) + 1] = unit
      /\ DOMAIN vdev.out = 1 .. Len(vdev.out) /\ Len(vdev.out) \in Nat
      /\ \A k \in 1 .. Len(vdev.out) : units[k] = vdev.out[k]
  BY <1>1, <1>7, QueueTypes, AppendProperties
<1> HIDE DEF units
<1>9. /\ vdev'.out = units /\ vdev'.ready = vdev.ready /\ vdev'.fmt = vdev.fmt
      /\ vdev'.capOn = vdev.capOn /\ vdev'.outOn = vdev.outOn /\ vdev'.stop = vdev.stop
      /\ vdev'.events = vdev.events
  BY <1>1, <1>7 DEF Emptied, DeviceRecord
<1>10. CallInv'
  <2>1. CallPlace' /\ CallSession'
    BY <1>1, <1>3, <1>5 DEF CallPlace, CallSession, Looping
  <2>2. CallTarget'
    BY <1>1, <1>4, <1>5 DEF CallTarget, Unfed, Awaiting
  <2> QED
    BY <2>1, <2>2 DEF CallInv
<1>11. RingInv'
  BY <1>1, <1>3, <1>5, <1>7, <1>9 DEF RingInv
<1>12. PicsKnown'
  <2>1. ASSUME NEW k \in DOMAIN units
        PROVE  units[k].pic <= pics
    <3>1. CASE k = Len(vdev.out) + 1
      BY <1>4, <1>7, <1>8, <3>1
    <3>2. CASE k # Len(vdev.out) + 1
      <4>1. k \in DOMAIN vdev.out /\ units[k] = vdev.out[k]
        BY <1>8, <3>2
      <4> QED
        BY <1>1, <4>1 DEF PicsKnown
    <3> QED
      BY <3>1, <3>2
  <2> QED
    BY <1>1, <1>5, <1>9, <2>1 DEF PicsKnown, Unfed, Awaiting
<1>13. FenceInv'
  <2>1. Len(vdev.out) + 1 \in DOMAIN units /\ units[Len(vdev.out) + 1].pic = pic
    BY <1>7, <1>8
  <2>2. \A k \in DOMAIN vdev.out : k \in DOMAIN units /\ units[k] = vdev.out[k]
    BY <1>8
  <2>3. \A other : other = pic \/ WithDecoder(other) => WithDecoder(other)'
    BY <1>9, <2>1, <2>2 DEF WithDecoder
  <2> QED
    BY <1>1, <1>4, <2>3, FenceStands DEF engine
<1> QED
  BY <1>1, <1>3, <1>5, <1>6, <1>7, <1>10, <1>11, <1>12, <1>13, MoveKeeps DEF MapInv, TypeOK

-----------------------------------------------------------------------------
(* Surfaces                                                                   *)

(* What does not change when only surfaces do.                                *)
LEMMA SurfacesMove ==
    ASSUME CaptureSafe, UNCHANGED <<transport, context, call, pend, jobs, imports, vk>>
    PROVE  /\ TransportSafe' /\ CallPlace' /\ CallSession' /\ RingInv' /\ PicsKnown'
           /\ HandSound' /\ OnlyLastIsLost' /\ SlotsApart' /\ JobsPending'
           /\ UsedSlots' = UsedSlots /\ CaptureKeys' = CaptureKeys
           /\ \A s : SlotsOf(s)' = SlotsOf(s) /\ (s \in Surfaces => OwnMapping(s)' = OwnMapping(s)
                                                \/ srf'[s] # srf[s])
           /\ \A pic : WithDecoder(pic)' <=> WithDecoder(pic)
           /\ (Unfed <=> Unfed') /\ (Awaiting <=> Awaiting')
           /\ \A pc : At(pc)' <=> At(pc)
<1>1. UsedSlots' = UsedSlots /\ CaptureKeys' = CaptureKeys
      /\ (\A pc : At(pc)' <=> At(pc)) /\ (Unfed <=> Unfed') /\ (Awaiting <=> Awaiting')
  BY DEF UsedSlots, CaptureKeys, At, Unfed, Awaiting
<1>2. \A s : SlotsOf(s)' = SlotsOf(s)
  BY <1>1 DEF SlotsOf
<1>3. TransportSafe'
  BY QuietCalls
<1>4. CallPlace' /\ CallSession'
  BY SafeParts DEF CallPlace, CallSession, At, Idle, context
<1>5. RingInv' /\ PicsKnown' /\ \A pic : WithDecoder(pic)' <=> WithDecoder(pic)
  <2>1. CanFeed' <=> CanFeed
    BY DEF CanFeed, Recycled, transport
  <2>2. RingInv'
    BY <2>1, SafeParts DEF RingInv, context, transport, At
  <2> QED
    BY <1>1, <2>2, SafeParts DEF PicsKnown, WithDecoder, context, transport
<1>6. HandSound' /\ OnlyLastIsLost' /\ SlotsApart' /\ JobsPending'
  <2>1. Hand' = Hand /\ Lost' = Lost
    BY <1>1 DEF Hand, Lost, transport
  <2> QED
    BY <1>1, <2>1, SafeParts
    DEF HandSound, OnlyLastIsLost, SlotsApart, JobsPending, context, transport
<1> QED
  BY <1>1, <1>2, <1>3, <1>4, <1>5, <1>6 DEF OwnMapping

LEMMA AllocSurfaceKeeps ==
    ASSUME CaptureSafe, NEW s \in Surfaces, AllocSurface(s)
    PROVE  CaptureSafe'
<1> DEFINE n == serial + 1
           new == NewSurface(n)
<1>1. /\ TypeOK /\ n \in Nat /\ Idle /\ srf[s].serial = 0
      /\ serial' = n /\ srf' = [srf EXCEPT ![s] = new]
      /\ UNCHANGED <<transport, context, pend, jobs, imports, vk, call>>
  BY SafeParts DEF AllocSurface, TypeOK
<1>3. n # 0 /\ n > serial /\ serial \in Nat
  BY <1>1 DEF TypeOK
<1> HIDE DEF n
<1>2. /\ new \in SurfaceRecord /\ new.alive /\ new.serial = n /\ new.gen = 0 /\ new.fence = 0
      /\ ~new.decoded
  BY <1>1, <1>3, NewSurfaceTyped
<1> HIDE DEF new
<1>4. /\ srf'[s] = new /\ \A t \in Surfaces : t # s => srf'[t] = srf[t]
      /\ srf' \in [Surfaces -> SurfaceRecord]
  BY <1>1, <1>2 DEF TypeOK
<1>5. ~srf[s].alive /\ \A k \in UsedSlots : pend[k].s # s
  BY <1>1, SafeParts DEF KeysApart, SlotsSound, SlotSound
<1>6. /\ TransportSafe' /\ CallPlace' /\ CallSession' /\ RingInv' /\ PicsKnown'
      /\ HandSound' /\ OnlyLastIsLost' /\ SlotsApart' /\ JobsPending'
      /\ UsedSlots' = UsedSlots /\ CaptureKeys' = CaptureKeys
      /\ \A t : SlotsOf(t)' = SlotsOf(t)
      /\ \A pic : WithDecoder(pic)' <=> WithDecoder(pic)
      /\ Idle' /\ ~Unfed'
  <2>1. ~Unfed /\ Idle
    BY <1>1, SafeParts DEF Unfed, Awaiting, Idle, At, CallPlace
  <2> QED
    BY <1>1, <2>1, SurfacesMove DEF Idle
<1>7. CallTarget'
  BY <1>6 DEF CallTarget
<1>8. KeysApart'
  <2>1. KeysApart /\ \A t \in Surfaces : srf[t].serial \in Nat
    BY SafeParts, FieldTypes
  <2>2. \A i \in CapSlots : vk.keys[i] \in Nat
    BY <1>1 DEF TypeOK, VkRecord
  <2>3. \A t \in Surfaces : srf'[t].serial <= n /\ (srf'[t].alive => srf'[t].serial # 0)
    BY <1>1, <1>2, <1>3, <1>4, <2>1 DEF KeysApart
  <2>4. \A t \in Surfaces : t # s => srf'[t].serial # n
    BY <1>3, <1>4, <2>1 DEF KeysApart
  <2>5. \A t, u \in Surfaces : srf'[t].serial = srf'[u].serial /\ srf'[t].serial # 0 => t = u
    BY <1>2, <1>4, <2>1, <2>4 DEF KeysApart
  <2>6. \A i \in CapSlots : vk.keys[i] # n /\ vk.keys[i] <= n
    BY <1>1, <1>3, <2>1, <2>2 DEF KeysApart
  <2> QED
    BY <1>1, <1>2, <1>4, <2>1, <2>3, <2>5, <2>6 DEF KeysApart, transport
<1>9. ImportsSound'
  <2>1. \A e \in imports : e.key \in Nat
    BY <1>1 DEF TypeOK, Import
  <2>2. \A e \in imports : e.key <= n
    BY <1>1, <1>3, <2>1, SafeParts DEF ImportsSound
  <2> QED
    BY <1>1, <1>6, <2>2, SafeParts DEF ImportsSound, context
<1>10. SlotsSound'
  <2>1. ASSUME NEW k \in UsedSlots
        PROVE  SlotSound(k)'
    <3>1. SlotSound(k)
      BY SafeParts DEF SlotsSound
    <3>2. srf'[pend[k].s] = srf[pend[k].s]
      BY <1>4, <1>5, <3>1 DEF SlotSound
    <3> QED
      BY <1>1, <3>1, <3>2 DEF SlotSound, context, transport
  <2> QED
    BY <1>6, <2>1 DEF SlotsSound
<1>11. MapInv'
  <2>1. MapInv /\ mapped \subseteq Mapping
    BY SafeParts DEF TypeOK
  <2>2. \A m \in mapped : m.s # s /\ m.s \in Surfaces /\ srf'[m.s] = srf[m.s]
    BY <1>1, <1>4, <2>1 DEF MapInv, Mapping
  <2>3. \A m \in mapped : Fits(m)' <=> Fits(m)
    BY <2>2 DEF Fits
  <2> QED
    BY <1>1, <1>6, <2>1, <2>2, <2>3 DEF MapInv, context, transport, At
<1>12. PixelInv'
  <2>1. \A k \in UsedSlots : srf'[pend[k].s] = srf[pend[k].s]
    BY <1>4, <1>5, SafeParts DEF SlotsSound, SlotSound
  <2> QED
    BY <1>1, <1>2, <1>4, <1>6, <2>1, SafeParts DEF PixelInv, DecodedHoldsTheCopy
<1>13. FenceInv'
  <2>1. \A t \in Surfaces : t # s => OwnMapping(t)' = OwnMapping(t)
    BY <1>4 DEF OwnMapping
  <2>2. ~At("submit") /\ ~At("assign") /\ ~Awaiting
    BY <1>1, SafeParts DEF Idle, At, Awaiting, CallPlace
  <2> QED
    BY <1>1, <1>2, <1>4, <1>6, <2>1, <2>2, SafeParts DEF FenceInv, context
<1>14. TypeOK'
  BY <1>1, <1>4, <1>6 DEF TypeOK, TransportSafe, context
<1> QED
  BY <1>6, <1>7, <1>8, <1>9, <1>10, <1>11, <1>12, <1>13, <1>14
  DEF CaptureSafe, CaptureInv, CallInv, TransportSafe

LEMMA ExportSurfaceKeeps ==
    ASSUME CaptureSafe, NEW s \in Surfaces, ExportSurface(s)
    PROVE  CaptureSafe'
<1> DEFINE px == IF srf[s].init THEN srf[s].px ELSE Black
           new == [srf[s] EXCEPT !.exported = TRUE, !.init = TRUE, !.px = px]
<1>1. /\ TypeOK /\ Idle /\ srf[s] \in SurfaceRecord /\ px \in 0 .. Torn
      /\ UNCHANGED <<transport, context, engine, call>>
      /\ EarlyExport \/ ~srf[s].queued \/ srf[s].decoded
  <2>1. Black \in 0 .. Torn /\ TypeOK
    BY SafeParts, CaptureAssumption DEF Black, Torn
  <2> QED
    BY <2>1, FieldTypes DEF ExportSurface
<1>2. srf' = [srf EXCEPT ![s] = new]
  BY DEF ExportSurface
<1>3. srf[s].init => px = srf[s].px
  OBVIOUS
<1> HIDE DEF px
<1>4. /\ new \in SurfaceRecord /\ new.alive = srf[s].alive /\ new.gen = srf[s].gen
      /\ new.queued = srf[s].queued /\ new.decoded = srf[s].decoded /\ new.init
      /\ new.fence = srf[s].fence /\ new.owned = srf[s].owned
      /\ new.serial = srf[s].serial /\ new.pic = srf[s].pic /\ new.px = px
  BY <1>1 DEF SurfaceRecord
<1> HIDE DEF new
<1>5. /\ srf' \in [Surfaces -> SurfaceRecord]
      /\ srf'[s] = new /\ \A t \in Surfaces : t # s => srf'[t] = srf[t]
  BY <1>1, <1>2, <1>4 DEF TypeOK
<1>6. \A t \in Surfaces :
         /\ srf'[t].alive = srf[t].alive /\ srf'[t].gen = srf[t].gen
         /\ srf'[t].queued = srf[t].queued /\ srf'[t].decoded = srf[t].decoded
         /\ srf'[t].fence = srf[t].fence /\ srf'[t].owned = srf[t].owned
         /\ srf'[t].serial = srf[t].serial /\ srf'[t].pic = srf[t].pic
         /\ srf[t].init => srf'[t].init /\ srf'[t].px = srf[t].px
  BY <1>3, <1>4, <1>5
<1>7. /\ TransportSafe' /\ CallPlace' /\ CallSession' /\ RingInv' /\ PicsKnown'
      /\ HandSound' /\ OnlyLastIsLost' /\ SlotsApart' /\ JobsPending'
      /\ UsedSlots' = UsedSlots /\ CaptureKeys' = CaptureKeys
      /\ \A t : SlotsOf(t)' = SlotsOf(t)
      /\ \A pic : WithDecoder(pic)' <=> WithDecoder(pic)
      /\ Idle' /\ ~Unfed'
  <2>1. ~Unfed /\ Idle
    BY <1>1, SafeParts DEF Unfed, Awaiting, Idle, At, CallPlace
  <2> QED
    BY <1>1, <2>1, SurfacesMove DEF Idle, engine
<1> USE DEF engine, context
<1>8. CallTarget'
  BY <1>7 DEF CallTarget
<1>9. KeysApart' /\ ImportsSound'
  <2>1. UNCHANGED <<dec, vk, serial, imports, opened>>
    BY <1>1 DEF transport
  <2>2. KeysApart'
    BY <1>6, <2>1, SafeParts DEF KeysApart
  <2>3. ImportsSound'
    BY <1>7, <2>1, SafeParts DEF ImportsSound
  <2> QED
    BY <2>2, <2>3
<1>10. SlotsSound'
  <2>1. ASSUME NEW k \in UsedSlots
        PROVE  SlotSound(k)'
    <3>1. SlotSound(k)
      BY SafeParts DEF SlotsSound
    <3> QED
      BY <1>1, <1>6, <3>1 DEF SlotSound, transport
  <2> QED
    BY <1>7, <2>1 DEF SlotsSound
<1>11. MapInv'
  <2>1. \A m \in mapped : m.s \in Surfaces
    BY <1>1 DEF TypeOK, Mapping
  <2>2. \A m \in mapped : Fits(m)' <=> Fits(m)
    BY <1>6, <2>1 DEF Fits
  <2> QED
    BY <1>1, <1>6, <1>7, <2>1, <2>2, SafeParts DEF MapInv, transport, At
(* With no early exports a surface with a pending copy is not exported.       *)
<1>12. PixelInv'
  <2>1. ASSUME NEW k \in UsedSlots, pend[k].s = s
        PROVE  EarlyExport
    BY <1>1, <2>1, SafeParts DEF SlotsSound, SlotSound
  <2>2. \A k \in UsedSlots : pend[k].s \in Surfaces
    BY SafeParts DEF SlotsSound, SlotSound
  <2>3. ASSUME ~EarlyExport
        PROVE  \A k \in UsedSlots : srf'[pend[k].s] = srf[pend[k].s]
    BY <1>5, <2>1, <2>2, <2>3
  <2> QED
    BY <1>1, <1>6, <1>7, <2>3, SafeParts DEF PixelInv, DecodedHoldsTheCopy
<1>13. FenceInv'
  <2>1. \A t \in Surfaces : OwnMapping(t)' = OwnMapping(t)
    BY <1>6 DEF OwnMapping
  <2> QED
    BY <1>1, <1>6, <1>7, <2>1, SafeParts DEF FenceInv, At, Awaiting
<1>14. TypeOK'
  BY <1>1, <1>5, <1>7 DEF TypeOK, TransportSafe
<1> QED
  BY <1>7, <1>8, <1>9, <1>10, <1>11, <1>12, <1>13, <1>14
  DEF CaptureSafe, CaptureInv, CallInv, TransportSafe

-----------------------------------------------------------------------------
(* Copies that are finished                                                   *)

(* job_wait returned: the jobs of K no longer run, their slots are given up   *)
(* and nothing else of the engine moves.                                      *)
LEMMA ReleaseFrees ==
    ASSUME CaptureSafe, NEW K \in SUBSET UsedSlots, Done(K), Release(K)
    PROVE  /\ pend' \in [Slots -> PendingRecord] /\ jobs' \in [Jobs -> JobRecord]
           /\ UsedSlots' = UsedSlots \ K /\ \A s : SlotsOf(s)' = SlotsOf(s) \ K
           /\ \A j \in Jobs : jobs'[j].running = jobs[j].running
           /\ \A k \in UsedSlots \ K :
                 /\ pend'[k] = pend[k] /\ jobs'[pend[k].job] = jobs[pend[k].job]
                 /\ \A l \in K : pend[l].s # pend[k].s /\ pend[l].index # pend[k].index
           /\ SlotsApart' /\ JobsPending'
<1> DEFINE freed == {pend[k].job : k \in K}
<1>1. TypeOK /\ pend \in [Slots -> PendingRecord] /\ jobs \in [Jobs -> JobRecord]
      /\ SlotsApart /\ JobsPending /\ SlotsSound
  BY SafeParts DEF TypeOK
<1>2. \A k \in UsedSlots : k \in Slots /\ pend[k].job \in Jobs /\ pend[k].used
  BY <1>1, FieldTypes DEF UsedSlots
<1>3. \A k \in K : k \in UsedSlots /\ jobs[pend[k].job].running = FALSE
  <2>1. \A j \in Jobs : jobs[j].running \in BOOLEAN
    BY <1>1, FieldTypes
  <2> QED
    BY <1>2, <2>1 DEF Done
<1>4. NoCopy \in PendingRecord /\ NoCopy.used = FALSE /\ NoJob \in JobRecord
      /\ NoJob.running = FALSE
  <2>1. 0 \in Jobs /\ 0 \in CapSlots /\ 0 \in 0 .. MaxPictures /\ 0 \in 0 .. Torn
    BY TransportAssumption, CaptureAssumption DEF Jobs, CapSlots, Torn
  <2> QED
    BY <2>1 DEF NoCopy, PendingRecord, NoJob, JobRecord, Backing, Memory
<1>5. pend' = [k \in Slots |-> IF k \in K THEN NoCopy ELSE pend[k]]
  BY DEF Release
<1>6. jobs' = [j \in Jobs |-> IF j \in freed THEN NoJob ELSE jobs[j]]
  <2>1. \A j \in Jobs : (\E k \in K : pend[k].job = j) <=> j \in freed
    OBVIOUS
  <2>2. \A j \in freed : Released(jobs[j]) = NoJob
    BY <1>3 DEF Released
  <2> QED
    BY <2>1, <2>2 DEF Release
<1>7. pend' \in [Slots -> PendingRecord] /\ jobs' \in [Jobs -> JobRecord]
  BY <1>1, <1>4, <1>5, <1>6
<1>8. UsedSlots' = UsedSlots \ K
  BY <1>2, <1>3, <1>4, <1>5 DEF UsedSlots
<1>9. \A s : SlotsOf(s)' = SlotsOf(s) \ K
  <2>1. \A k \in UsedSlots \ K : pend'[k] = pend[k]
    BY <1>2, <1>5
  <2> QED
    BY <1>8, <2>1 DEF SlotsOf
<1>10. \A j \in Jobs : jobs'[j].running = jobs[j].running
  BY <1>3, <1>4, <1>6
<1>11. ASSUME NEW k \in UsedSlots \ K
       PROVE  /\ pend'[k] = pend[k] /\ jobs'[pend[k].job] = jobs[pend[k].job]
              /\ \A l \in K : pend[l].s # pend[k].s /\ pend[l].index # pend[k].index
  <2>1. pend'[k] = pend[k]
    BY <1>2, <1>5
  <2>2. \A l \in K : pend[l].s # pend[k].s /\ pend[l].index # pend[k].index
                     /\ pend[l].job # pend[k].job
    BY <1>1, <1>3 DEF SlotsApart
  <2>3. pend[k].job \in Jobs /\ pend[k].job \notin freed
    BY <1>2, <2>2
  <2> QED
    BY <1>6, <2>1, <2>2, <2>3
<1>12. SlotsApart'
  BY <1>1, <1>8, <1>11 DEF SlotsApart
<1>13. JobsPending'
  <2>1. ASSUME NEW j \in Jobs, jobs[j].running
        PROVE  \E k \in UsedSlots \ K : pend'[k].job = j
    <3>1. PICK k \in UsedSlots : pend[k].job = j
      BY <1>1, <2>1 DEF JobsPending
    <3>2. k \notin K
      BY <1>3, <2>1, <3>1
    <3> QED
      BY <1>11, <3>1, <3>2
  <2> QED
    BY <1>8, <1>10, <2>1 DEF JobsPending
<1> QED
  BY <1>7, <1>8, <1>9, <1>10, <1>11, <1>12, <1>13

(* The frames of the copies go back to the decoder, those and no others.      *)
LEMMA FinishCopiesGiveBack ==
    ASSUME CaptureSafe, NEW K \in SUBSET UsedSlots, FinishCopies(K)
    PROVE  /\ TransportSafe' /\ UNCHANGED <<dec, freeOut>>
           /\ vdev'.out = vdev.out /\ vdev'.ready = vdev.ready /\ vdev'.fmt = vdev.fmt
           /\ vdev'.capOn = vdev.capOn /\ vdev'.outOn = vdev.outOn
           /\ vdev'.events = vdev.events /\ vdev'.stop = vdev.stop
           /\ vdev'.outDone = vdev.outDone
           /\ \A i \in CapSlots : capQueued'[i] <=> capQueued[i] \/ \E k \in K : pend[k].index = i
           /\ \A k \in UsedSlots \ K : ~capQueued'[pend[k].index]
           /\ At("assign") => ~capQueued'[call.frame.index]
           /\ Hand' = Hand => Lost' = Lost
<1> DEFINE I == {pend[k].index : k \in K}
<1>1. TypeOK /\ vdev \in DeviceRecord /\ SlotsSound /\ HandSound /\ TransportSafe
      /\ call.frame.index \in CapSlots
  BY SafeParts DEF TransportTypeOK, TypeOK, CallRecord, Frame
<1>2. \A k \in UsedSlots : k \in Slots /\ pend[k].index \in CapSlots
                           /\ pend[k].index < dec.capCount /\ ~capQueued[pend[k].index]
  BY <1>1, FieldTypes DEF UsedSlots, SlotsSound, SlotSound
<1>3. I \in SUBSET CapSlots /\ RequeueFrames(I)
  BY <1>2 DEF FinishCopies
<1>4. Returnable(I) = I
  BY <1>2, <1>3 DEF Returnable
<1>5. TransportSafe'
  BY <1>1, <1>3, RequeueFramesKeep
<1> DEFINE cap == vdev.cap \cup I
<1>6. /\ UNCHANGED <<dec, freeOut>> /\ vdev' = [vdev EXCEPT !.cap = cap]
      /\ capQueued' = [i \in CapSlots |-> capQueued[i] \/ i \in I]
  BY <1>1, <1>3, <1>4 DEF RequeueFrames, DeviceRecord
<1> HIDE DEF cap
<1>7. /\ vdev'.out = vdev.out /\ vdev'.ready = vdev.ready /\ vdev'.fmt = vdev.fmt
      /\ vdev'.capOn = vdev.capOn /\ vdev'.outOn = vdev.outOn
      /\ vdev'.events = vdev.events /\ vdev'.stop = vdev.stop /\ vdev'.outDone = vdev.outDone
  BY <1>1, <1>6 DEF DeviceRecord
<1>8. \A i \in CapSlots : capQueued'[i] <=> capQueued[i] \/ \E k \in K : pend[k].index = i
  BY <1>6
<1>9. Release(K) /\ Done(K)
  BY DEF FinishCopies
<1>10. /\ UsedSlots' = UsedSlots \ K
       /\ \A k \in UsedSlots \ K : pend'[k] = pend[k] /\ \A l \in K : pend[l].index # pend[k].index
  BY <1>9, ReleaseFrees
<1>11. \A k \in UsedSlots \ K : ~capQueued'[pend[k].index]
  BY <1>2, <1>8, <1>10
<1>12. At("assign") => ~capQueued'[call.frame.index]
  BY <1>1, <1>8 DEF HandSound
<1>13. Hand' = Hand => Lost' = Lost
  <2>1. ASSUME NEW i \in CapSlots, Hand' = Hand
        PROVE  i \in Lost' <=> i \in Lost
    BY <1>6, <1>8, <1>10, <2>1 DEF Lost
  <2> QED
    BY <2>1 DEF Lost
<1> QED
  BY <1>5, <1>6, <1>7, <1>8, <1>11, <1>12, <1>13

(* The surface of a finished copy is always still the one it was made for.    *)
LEMMA FinishedSurfaces ==
    ASSUME CaptureSafe, NEW K \in SUBSET UsedSlots
    PROVE  /\ Finished(K) \in [Surfaces -> SurfaceRecord]
           /\ \A s \in Surfaces :
                 /\ (\A k \in K : pend[k].s # s) => Finished(K)[s] = srf[s]
                 /\ (\E k \in K : pend[k].s = s) => Finished(K)[s] = Landed(srf[s])
                 /\ LET x == Finished(K)[s]
                    IN  /\ x.alive = srf[s].alive /\ x.gen = srf[s].gen
                        /\ x.serial = srf[s].serial /\ x.pic = srf[s].pic
                        /\ x.px = srf[s].px /\ x.exported = srf[s].exported
<1>1. \A k \in K : StillFor(k)
  BY SafeParts DEF SlotsSound, SlotSound, StillFor
<1>2. \A s \in Surfaces : srf[s] \in SurfaceRecord
  BY SafeParts, FieldTypes
<1>3. ASSUME NEW s \in Surfaces
      PROVE  /\ Finished(K)[s] \in SurfaceRecord
             /\ (\A k \in K : pend[k].s # s) => Finished(K)[s] = srf[s]
             /\ (\E k \in K : pend[k].s = s) => Finished(K)[s] = Landed(srf[s])
             /\ LET x == Finished(K)[s]
                IN  /\ x.alive = srf[s].alive /\ x.gen = srf[s].gen
                    /\ x.serial = srf[s].serial /\ x.pic = srf[s].pic
                    /\ x.px = srf[s].px /\ x.exported = srf[s].exported
  <2>1. CASE \A k \in K : pend[k].s # s
    <3>1. Finished(K)[s] = srf[s]
      BY <2>1 DEF Finished
    <3> QED
      BY <1>2, <2>1, <3>1
  <2>2. CASE \E k \in K : pend[k].s = s
    <3>1. Finished(K)[s] = Landed(srf[s])
      BY <1>1, <2>2 DEF Finished
    <3> QED
      BY <1>2, <2>2, <3>1, SurfacesTyped
  <2> QED
    BY <2>1, <2>2
<1>4. Finished(K) \in [Surfaces -> SurfaceRecord]
  <2>1. Finished(K) = [s \in Surfaces |-> Finished(K)[s]]
    BY DEF Finished
  <2> QED
    BY <1>3, <2>1
<1> QED
  BY <1>3, <1>4

(* A copy that is still pending is as sound as it was.                        *)
LEMMA SlotsLeft ==
    ASSUME CaptureSafe, NEW K \in SUBSET UsedSlots, FinishCopies(K),
           UNCHANGED <<vk, opened>>,
           \A k \in UsedSlots \ K :
              /\ srf'[pend[k].s] = srf[pend[k].s]
              /\ jobs[pend[k].job].running =>
                    jobs[pend[k].job].keys \subseteq {e.key : e \in imports'}
    PROVE  SlotsSound'
<1>1. Release(K) /\ Done(K)
  BY DEF FinishCopies
<1>2. UsedSlots' = UsedSlots \ K /\ UNCHANGED dec
  BY <1>1, ReleaseFrees, FinishCopiesGiveBack
<1>3. ASSUME NEW k \in UsedSlots \ K
      PROVE  SlotSound(k)'
  <2>1. SlotSound(k)
    BY SafeParts DEF SlotsSound
  <2>2. pend'[k] = pend[k] /\ jobs'[pend[k].job] = jobs[pend[k].job]
    BY <1>1, ReleaseFrees
  <2>3. ~capQueued'[pend[k].index]
    BY FinishCopiesGiveBack
  <2> QED
    BY <1>2, <2>1, <2>2, <2>3 DEF SlotSound
<1> QED
  BY <1>2, <1>3 DEF SlotsSound

(* finish_vk_copy of some slots, in a call that goes on.                      *)
LEMMA FinishingKeeps ==
    ASSUME CaptureSafe, NEW K \in SUBSET UsedSlots, FinishCopies(K), srf' = Finished(K),
           UNCHANGED <<context, serial>>, imports' \subseteq imports, vk' \in VkRecord,
           KeysApart', ImportsSound', SlotsSound',
           call' \in CallRecord, CallPlace', CallSession',
           ~Idle' /\ call'.op # "destroy" =>
               ~Idle /\ call.op # "destroy" /\ call'.s = call.s,
           Unfed' => Unfed, Awaiting => Awaiting' /\ call'.s = call.s,
           ~At("submit"), ~At("submit")', ~At("feed"), ~At("feed")',
           At("assign")' => At("assign") /\ call' = call, At("assign") => At("assign")',
           sess # "open"
    PROVE  CaptureSafe'
<1> USE DEF context
<1>1. TypeOK /\ Release(K) /\ Done(K)
  BY SafeParts DEF FinishCopies
<1>2. /\ pend' \in [Slots -> PendingRecord] /\ jobs' \in [Jobs -> JobRecord]
      /\ UsedSlots' = UsedSlots \ K /\ \A s : SlotsOf(s)' = SlotsOf(s) \ K
      /\ \A j \in Jobs : jobs'[j].running = jobs[j].running
      /\ \A k \in UsedSlots \ K :
            /\ pend'[k] = pend[k]
            /\ \A l \in K : pend[l].s # pend[k].s
      /\ SlotsApart' /\ JobsPending'
  BY <1>1, ReleaseFrees
<1>3. /\ TransportSafe' /\ UNCHANGED <<dec, freeOut>>
      /\ vdev'.out = vdev.out /\ vdev'.ready = vdev.ready /\ vdev'.fmt = vdev.fmt
      /\ vdev'.capOn = vdev.capOn /\ vdev'.outOn = vdev.outOn
      /\ vdev'.events = vdev.events /\ vdev'.stop = vdev.stop
      /\ At("assign") => ~capQueued'[call.frame.index]
      /\ Hand' = Hand => Lost' = Lost
  BY FinishCopiesGiveBack
<1>4. /\ srf' \in [Surfaces -> SurfaceRecord]
      /\ \A s \in Surfaces :
            /\ (\A k \in K : pend[k].s # s) => srf'[s] = srf[s]
            /\ (\E k \in K : pend[k].s = s) =>
                  srf'[s].fence = 0 /\ srf'[s].decoded /\ srf'[s].init /\ srf'[s].queued
            /\ srf'[s].alive = srf[s].alive /\ srf'[s].gen = srf[s].gen
            /\ srf'[s].serial = srf[s].serial /\ srf'[s].pic = srf[s].pic
            /\ srf'[s].px = srf[s].px
  <2>1. \A s \in Surfaces : srf[s] \in SurfaceRecord
    BY <1>1, FieldTypes
  <2> QED
    BY <2>1, FinishedSurfaces, SurfacesTyped
<1>5. TypeOK'
  <2>1. IsFiniteSet(imports) /\ Cardinality(imports) <= MaxImports /\ MaxImports \in Nat
        /\ imports' \subseteq Import
    BY <1>1, SafeParts, CaptureAssumption DEF ImportsSound, TypeOK
  <2>2. imports' \in SUBSET imports
    OBVIOUS
  <2>3. IsFiniteSet(imports') /\ Cardinality(imports') <= Cardinality(imports)
    BY <2>1, <2>2, FS_Subset
  <2>4. Cardinality(imports') <= MaxImports
    BY <2>1, <2>3, FS_CardinalityType
  <2> QED
    BY <1>1, <1>2, <1>3, <1>4, <2>1, <2>4 DEF TypeOK, TransportSafe
<1>6. CallInv'
  <2>1. CallTarget
    BY SafeParts
  <2>2. ~Idle' /\ call'.op # "destroy" => call'.s \in Surfaces /\ srf'[call'.s].alive
    BY <1>4, <2>1 DEF CallTarget
  <2>3. ASSUME Unfed'
        PROVE  (srf[call.s].pic = pics /\ pics # 0 /\ ~srf[call.s].decoded
                /\ SlotsOf(call.s) = {})'
    <3>1. call.op # "destroy" /\ ~Idle' /\ call'.op # "destroy" /\ call'.s = call.s
          /\ call.s \in Surfaces
      BY <2>1, <2>3 DEF CallTarget, Unfed, Awaiting, CallPlace, At, Idle
    <3>2. PICK t \in Surfaces : t = call.s
      BY <3>1
    <3>3. srf[t].pic = pics /\ pics # 0 /\ ~srf[t].decoded /\ SlotsOf(t) = {}
      BY <2>1, <2>3, <3>2 DEF CallTarget
    <3>4. \A k \in K : pend[k].s # t
      BY <3>3 DEF SlotsOf
    <3>5. SlotsOf(t)' = {}
      BY <1>2, <3>3
    <3> QED
      BY <1>4, <3>1, <3>2, <3>3, <3>4, <3>5
  <2> QED
    BY <2>2, <2>3 DEF CallInv, CallTarget
<1>7. RingInv' /\ PicsKnown' /\ \A pic : WithDecoder(pic)' <=> WithDecoder(pic)
  <2>1. RingInv'
    BY <1>3, SafeParts DEF RingInv
  <2>2. PicsKnown'
    BY <1>3, SafeParts DEF PicsKnown
  <2> QED
    BY <1>3, <2>1, <2>2 DEF WithDecoder
<1>8. HandSound'
  BY <1>2, <1>3, SafeParts DEF HandSound, Unfed, Awaiting, At
<1>9. OnlyLastIsLost'
  <2>1. Hand' = Hand
    BY DEF Hand, At
  <2>2. Lost' = Lost
    BY <1>3, <2>1
  <2> QED
    BY <1>3, <2>2, SafeParts DEF OnlyLastIsLost, At
<1>10. MapInv'
  <2>1. MapInv /\ \A m \in mapped : m.s \in Surfaces
    BY <1>1, SafeParts DEF TypeOK, Mapping
  <2>2. \A m \in mapped : Fits(m)' <=> Fits(m)
    BY <1>4, <2>1 DEF Fits
  <2>3. ASSUME NEW m \in mapped, Fits(m)
        PROVE  srf'[m.s] = srf[m.s] /\ SlotsOf(m.s)' = {}
    <3>1. SlotsOf(m.s) = {}
      BY <2>1, <2>3 DEF MapInv
    <3>2. \A k \in K : pend[k].s # m.s
      BY <3>1 DEF SlotsOf
    <3> QED
      BY <1>2, <1>4, <2>1, <3>1, <3>2
  <2>4. mapped' = mapped /\ pics' = pics /\ UNCHANGED dec
    BY <1>3
  <2>5. ASSUME NEW m \in mapped
        PROVE  /\ m.pic <= pics'
               /\ srf'[m.s].serial # 0 /\ (srf'[m.s].alive => m.gen <= srf'[m.s].gen)
               /\ Fits(m)' => LET x == srf'[m.s]
                              IN  /\ x.pic = m.pic /\ x.fence = m.pic /\ x.owned /\ x.queued
                                  /\ ~x.decoded /\ SlotsOf(m.s)' = {}
    BY <1>4, <2>1, <2>2, <2>3, <2>4 DEF MapInv
  <2> QED
    BY <2>1, <2>4, <2>5 DEF MapInv
(* A copy that is done and was not reaped yet has written the picture.        *)
<1>11. PixelInv'
  <2>1. PixelInv /\ SlotsSound
    BY SafeParts
  <2>2. \A s \in Surfaces : srf'[s].decoded => srf'[s].init /\ srf'[s].queued
    BY <1>4, <2>1 DEF PixelInv
  <2>3. ASSUME ~EarlyExport, NEW s \in Surfaces, srf'[s].alive, srf'[s].decoded
        PROVE  srf'[s].px = srf'[s].pic
    <3>1. CASE \E k \in K : pend[k].s = s
      BY <1>1, <1>4, <2>1, <2>3, <3>1 DEF PixelInv, Done
    <3>2. CASE \A k \in K : pend[k].s # s
      BY <1>4, <2>1, <2>3, <3>2 DEF PixelInv, DecodedHoldsTheCopy
    <3> QED
      BY <3>1, <3>2
  <2>4. ASSUME ~EarlyExport, NEW k \in UsedSlots \ K, ~jobs'[pend[k].job].running
        PROVE  srf'[pend[k].s].px = srf'[pend[k].s].pic
    <3>1. pend[k].s \in Surfaces /\ pend[k].job \in Jobs
      BY <1>1, <2>1, FieldTypes DEF SlotsSound, SlotSound, UsedSlots
    <3> QED
      BY <1>2, <1>4, <2>1, <2>4, <3>1 DEF PixelInv
  <2> QED
    BY <1>2, <2>2, <2>3, <2>4 DEF PixelInv, DecodedHoldsTheCopy
<1>12. FenceInv'
  <2>1. \A s \in Surfaces : OwnMapping(s)' = OwnMapping(s)
    BY <1>4 DEF OwnMapping
  <2>2. ASSUME NEW s \in Surfaces, srf'[s].fence # 0
        PROVE  srf'[s] = srf[s] /\ SlotsOf(s)' = SlotsOf(s)
    <3>1. \A k \in K : pend[k].s # s
      BY <1>4, <2>2
    <3> QED
      BY <1>2, <1>4, <3>1 DEF SlotsOf
  <2> QED
    BY <1>4, <1>7, <2>1, <2>2, SafeParts DEF FenceInv, At
<1> QED
  BY <1>2, <1>3, <1>5, <1>6, <1>7, <1>8, <1>9, <1>10, <1>11, <1>12
  DEF CaptureSafe, CaptureInv, TransportSafe

(* The engine is as sound as it was when the cache is not touched.            *)
LEMMA FinishingKeepsKeys ==
    ASSUME CaptureSafe, NEW K \in SUBSET UsedSlots, FinishCopies(K), srf' = Finished(K),
           UNCHANGED <<context, imports, vk, serial>>
    PROVE  KeysApart' /\ ImportsSound' /\ SlotsSound'
<1>1. Release(K) /\ Done(K) /\ UNCHANGED dec
  BY FinishCopiesGiveBack DEF FinishCopies
<1>2. \A s \in Surfaces : srf'[s].serial = srf[s].serial /\ srf'[s].alive = srf[s].alive
  BY FinishedSurfaces
<1>3. KeysApart'
  BY <1>1, <1>2, SafeParts DEF KeysApart
<1>4. ImportsSound'
  BY SafeParts DEF ImportsSound, CaptureKeys, context
<1>5. SlotsSound'
  <2>1. ASSUME NEW k \in UsedSlots \ K
        PROVE  /\ srf'[pend[k].s] = srf[pend[k].s]
               /\ jobs[pend[k].job].running =>
                     jobs[pend[k].job].keys \subseteq {e.key : e \in imports'}
    <3>1. SlotSound(k)
      BY SafeParts DEF SlotsSound
    <3>2. \A l \in K : pend[l].s # pend[k].s
      BY <1>1, ReleaseFrees
    <3> QED
      BY <3>1, <3>2, FinishedSurfaces DEF SlotSound
  <2> QED
    BY <2>1, SlotsLeft DEF context
<1> QED
  BY <1>3, <1>4, <1>5

(* reap_vk_copies(ctx, 0) of drain_available.                                 *)
LEMMA ReapKeeps == CaptureSafe /\ Reap => CaptureSafe'
<1> SUFFICES ASSUME CaptureSafe, Reap PROVE CaptureSafe'
  OBVIOUS
<1>1. /\ TypeOK /\ CallPlace /\ CallSession /\ CallTarget
      /\ At("drain") /\ FinishCopies(DoneSlots) /\ srf' = Finished(DoneSlots)
      /\ UNCHANGED <<context, imports, vk, serial>>
      /\ IF call.op # "ready" THEN Continue("poll")
         ELSE IF srf'[call.s].decoded THEN Return ELSE Continue("capture")
  BY SafeParts DEF Reap
<1>2. DoneSlots \in SUBSET UsedSlots
  BY DEF DoneSlots
<1>3. KeysApart' /\ ImportsSound' /\ SlotsSound'
  BY <1>1, <1>2, FinishingKeepsKeys
<1> USE DEF Idle, At
<1>4. /\ call.op \in {"feed", "end", "wait", "ready"}
      /\ sess = (IF call.op \in {"feed", "end", "wait"} THEN "live" ELSE "eos")
  BY <1>1 DEF CallPlace, CallSession, Looping
<1>5. /\ call' \in CallRecord
      /\ \/ /\ call'.s = call.s /\ call'.op = call.op
            /\ call'.pc = (IF call.op = "ready" THEN "capture" ELSE "poll")
         \/ call'.pc = "idle" /\ call'.op = "none" /\ call.op = "ready"
  BY <1>1, CallMoves
<1>6. CallPlace' /\ CallSession'
  BY <1>1, <1>4, <1>5 DEF CallPlace, CallSession, Looping, context
<1>7. vk' \in VkRecord
  BY <1>1 DEF TypeOK
<1> QED
  BY <1>1, <1>2, <1>3, <1>4, <1>5, <1>6, <1>7, FinishingKeeps DEF Unfed, Awaiting

(* wait_surface_ready.                                                        *)
LEMMA CheckSurfaceKeeps == CaptureSafe /\ CheckSurface => CaptureSafe'
<1> SUFFICES ASSUME CaptureSafe, CheckSurface PROVE CaptureSafe'
  OBVIOUS
<1> DEFINE K == SlotsOf(call.s)
<1>1. /\ TypeOK /\ CallPlace /\ CallSession /\ CallTarget
      /\ At("check") /\ FinishCopies(K) /\ srf' = Finished(K)
      /\ UNCHANGED <<context, imports, vk, serial>>
      /\ IF srf'[call.s].decoded THEN Return ELSE Continue("capture")
  BY SafeParts DEF CheckSurface
<1>2. K \in SUBSET UsedSlots
  BY DEF SlotsOf
<1> HIDE DEF K
<1>3. KeysApart' /\ ImportsSound' /\ SlotsSound'
  BY <1>1, <1>2, FinishingKeepsKeys
<1> USE DEF Idle, At
<1>4. call.op = "wait" /\ sess = "live"
  BY <1>1 DEF CallPlace, CallSession, Looping
<1>5. /\ call' \in CallRecord
      /\ \/ call'.s = call.s /\ call'.op = call.op /\ call'.pc = "capture"
         \/ call'.pc = "idle" /\ call'.op = "none"
  BY <1>1, CallMoves
<1>6. CallPlace' /\ CallSession'
  BY <1>1, <1>4, <1>5 DEF CallPlace, CallSession, Looping, context
<1>7. vk' \in VkRecord
  BY <1>1 DEF TypeOK
<1> QED
  BY <1>1, <1>2, <1>3, <1>4, <1>5, <1>6, <1>7, FinishingKeeps DEF Unfed, Awaiting

(* reap_vk_copies or a wait for slot 0, before a copy is submitted.           *)
LEMMA MakeRoomKeeps == CaptureSafe /\ MakeRoom => CaptureSafe'
<1> SUFFICES ASSUME CaptureSafe, MakeRoom PROVE CaptureSafe'
  OBVIOUS
<1> DEFINE K == IF DoneSlots # {} THEN DoneSlots ELSE {0}
<1>1. /\ TypeOK /\ CallPlace /\ CallSession /\ CallTarget
      /\ At("assign") /\ FinishCopies(K) /\ srf' = Finished(K)
      /\ UNCHANGED <<context, imports, vk, serial, call>> /\ FreeSlots = {}
  BY SafeParts DEF MakeRoom
<1>2. K \in SUBSET UsedSlots
  <2>1. 0 \in Slots
    BY CaptureAssumption DEF Slots
  <2> QED
    BY <1>1, <2>1 DEF DoneSlots, FreeSlots
<1> HIDE DEF K
<1>3. KeysApart' /\ ImportsSound' /\ SlotsSound'
  BY <1>1, <1>2, FinishingKeepsKeys
<1> USE DEF Idle, At
<1>4. CallPlace' /\ CallSession' /\ sess # "open"
  BY <1>1 DEF CallPlace, CallSession, Looping, context
<1>5. vk' \in VkRecord /\ call' \in CallRecord
  BY <1>1 DEF TypeOK
<1> QED
  BY <1>1, <1>2, <1>3, <1>4, <1>5, FinishingKeeps DEF Unfed, Awaiting

(* The first frame of a ring: no copy is left, and no capture key.            *)
LEMMA NewRingKeeps == CaptureSafe /\ NewRing => CaptureSafe'
<1> SUFFICES ASSUME CaptureSafe, NewRing PROVE CaptureSafe'
  OBVIOUS
<1>1. /\ TypeOK /\ CallPlace /\ CallSession /\ CallTarget /\ KeysApart /\ ImportsSound
      /\ At("assign") /\ FinishCopies(UsedSlots) /\ srf' = Finished(UsedSlots)
      /\ imports' = Forgotten(CaptureKeys) /\ vk' = [FreshVk EXCEPT !.gen = call.frame.gen]
      /\ UNCHANGED <<context, serial, call>>
  BY SafeParts DEF NewRing
<1>2. UsedSlots \in SUBSET UsedSlots /\ imports' \subseteq imports
  BY <1>1 DEF Forgotten
<1>3. vk' \in VkRecord /\ \A i \in CapSlots : vk'.keys[i] = 0
  <2>1. call.frame.gen \in Nat
    BY <1>1 DEF TypeOK, CallRecord, Frame
  <2> QED
    BY <1>1, <2>1 DEF FreshVk, VkRecord
<1>4. KeysApart'
  <2>1. \A s \in Surfaces : srf'[s].serial = srf[s].serial /\ srf'[s].alive = srf[s].alive
    BY <1>1, FinishedSurfaces
  <2> QED
    BY <1>1, <1>3, <2>1 DEF KeysApart, TypeOK
<1>5. ImportsSound'
  <2>1. IsFiniteSet(imports')
    BY <1>1, <1>2, FS_Subset DEF ImportsSound
  <2>2. \A e \in imports' : e.key # 0 /\ e.key <= serial /\ e.mem = Backing(e.key)
    BY <1>1 DEF ImportsSound, Forgotten, CaptureKeys
  <2>3. \A e \in imports' : e.key \notin CaptureKeys'
    BY <1>3, <2>2 DEF CaptureKeys
  <2> QED
    BY <1>1, <2>1, <2>2, <2>3 DEF ImportsSound
<1>6. SlotsSound'
  <2>1. UsedSlots' = {}
    BY <1>1, ReleaseFrees DEF FinishCopies
  <2> QED
    BY <2>1 DEF SlotsSound
<1> USE DEF Idle, At
<1>7. CallPlace' /\ CallSession' /\ sess # "open"
  BY <1>1 DEF CallPlace, CallSession, Looping, context
<1>8. call' \in CallRecord
  BY <1>1 DEF TypeOK
<1> QED
  BY <1>1, <1>2, <1>3, <1>4, <1>5, <1>6, <1>7, <1>8, FinishingKeeps DEF Unfed, Awaiting

(* Between calls a surface is given up, or begun again, once its copies are   *)
(* reaped.                                                                    *)
LEMMA SurfaceFinished ==
    ASSUME CaptureSafe, Idle, NEW s \in Surfaces, NEW K \in SUBSET UsedSlots,
           \A k \in UsedSlots : k \in K <=> pend[k].s = s,
           FinishCopies(K), NEW new \in SurfaceRecord, srf' = [srf EXCEPT ![s] = new],
           new.serial = srf[s].serial, new.alive => srf[s].alive,
           ~new.decoded, new.alive => new.gen > srf[s].gen,
           new.fence # 0 => new.owned /\ srf[s].fence # 0 /\ new.alive
                            /\ At("submit")' /\ call'.s = s,
           UNCHANGED <<mapped, sess, opened, vk, serial>>, imports' \subseteq imports,
           ImportsSound',
           \A k \in UsedSlots \ K :
              jobs[pend[k].job].running =>
                 jobs[pend[k].job].keys \subseteq {e.key : e \in imports'},
           pics' \in 0 .. MaxPictures, pics' = pics \/ (pics' > pics /\ At("submit")'),
           call' \in CallRecord, CallPlace', CallSession', CallTarget',
           ~At("assign")', ~At("feed")', At("submit")' => pics' > pics,
           Unfed' => At("submit")', sess # "open"
    PROVE  CaptureSafe'
<1>1. TypeOK /\ Release(K) /\ Done(K) /\ ~At("assign") /\ ~At("submit") /\ ~Awaiting /\ ~Unfed
      /\ pics \in Nat /\ pics' \in Nat
  BY SafeParts DEF FinishCopies, Idle, At, Awaiting, Unfed, CallPlace, TypeOK
<1>2. /\ pend' \in [Slots -> PendingRecord] /\ jobs' \in [Jobs -> JobRecord]
      /\ UsedSlots' = UsedSlots \ K /\ \A t : SlotsOf(t)' = SlotsOf(t) \ K
      /\ \A j \in Jobs : jobs'[j].running = jobs[j].running
      /\ \A k \in UsedSlots \ K : pend'[k] = pend[k]
      /\ SlotsApart' /\ JobsPending'
  BY <1>1, ReleaseFrees
<1>3. /\ TransportSafe' /\ UNCHANGED <<dec, freeOut>>
      /\ vdev'.out = vdev.out /\ vdev'.ready = vdev.ready /\ vdev'.fmt = vdev.fmt
      /\ vdev'.capOn = vdev.capOn /\ vdev'.outOn = vdev.outOn
      /\ vdev'.events = vdev.events /\ vdev'.stop = vdev.stop
      /\ Hand' = Hand => Lost' = Lost
  BY FinishCopiesGiveBack
<1>4. /\ srf' \in [Surfaces -> SurfaceRecord] /\ srf'[s] = new
      /\ \A t \in Surfaces : t # s => srf'[t] = srf[t]
  BY <1>1 DEF TypeOK
<1>5. SlotsOf(s)' = {} /\ \A t \in Surfaces : t # s => SlotsOf(t)' = SlotsOf(t)
  BY <1>2 DEF SlotsOf
<1>6. \A t \in Surfaces : srf'[t].serial = srf[t].serial /\ (srf'[t].alive => srf[t].alive)
  BY <1>4
<1>7. KeysApart'
  BY <1>3, <1>6, SafeParts DEF KeysApart
<1>8. SlotsSound'
  <2>1. \A k \in UsedSlots \ K : pend[k].s \in Surfaces /\ pend[k].s # s
    BY SafeParts DEF SlotsSound, SlotSound
  <2> QED
    BY <1>4, <2>1, SlotsLeft
<1>9. TypeOK'
  <2>1. IsFiniteSet(imports) /\ Cardinality(imports) <= MaxImports /\ MaxImports \in Nat
        /\ imports' \subseteq Import
    BY <1>1, SafeParts, CaptureAssumption DEF ImportsSound, TypeOK
  <2>2. imports' \in SUBSET imports
    OBVIOUS
  <2>3. IsFiniteSet(imports') /\ Cardinality(imports') <= Cardinality(imports)
    BY <2>1, <2>2, FS_Subset
  <2>4. Cardinality(imports') <= MaxImports
    BY <2>1, <2>3, FS_CardinalityType
  <2> QED
    BY <1>1, <1>2, <1>3, <1>4, <2>1, <2>4 DEF TypeOK, TransportSafe
<1>10. RingInv' /\ PicsKnown' /\ \A pic : WithDecoder(pic)' <=> WithDecoder(pic)
  <2>1. RingInv'
    BY <1>1, <1>3, SafeParts DEF RingInv, CallSession
  <2>2. PicsKnown'
    <3>1. /\ \A k \in DOMAIN vdev.out : vdev.out[k] \in Unit
          /\ \A k \in DOMAIN vdev.ready : vdev.ready[k] \in Picture
      BY SafeParts, QueueTypes
    <3>2. /\ \A k \in DOMAIN vdev.out : vdev.out[k].pic \in Nat
          /\ \A k \in DOMAIN vdev.ready : vdev.ready[k].pic \in Nat
      BY <3>1 DEF Unit, Picture
    <3> QED
      BY <1>1, <1>3, <3>2, SafeParts DEF PicsKnown
  <2> QED
    BY <1>3, <2>1, <2>2 DEF WithDecoder
<1>11. HandSound' /\ OnlyLastIsLost'
  <2>1. Hand' = Hand
    BY <1>1 DEF Hand
  <2>2. Lost' = Lost
    BY <1>3, <2>1
  <2> QED
    BY <1>1, <1>3, <2>2, SafeParts DEF HandSound, OnlyLastIsLost
<1>12. MapInv'
  <2>1. MapInv /\ \A m \in mapped : m.s \in Surfaces /\ m.pic \in Nat /\ m.gen \in Nat
    BY <1>1, SafeParts DEF TypeOK, Mapping
  <2>2. new.gen \in Nat /\ srf[s].gen \in Nat
    BY <1>1, FieldTypes DEF SurfaceRecord
  <2>3. ASSUME NEW m \in mapped, m.s = s
        PROVE  ~Fits(m)' /\ (srf'[m.s].alive => m.gen <= srf'[m.s].gen)
               /\ srf'[m.s].serial # 0
    BY <1>4, <2>1, <2>2, <2>3 DEF Fits, MapInv
  <2>4. ASSUME NEW m \in mapped, m.s # s
        PROVE  (Fits(m)' <=> Fits(m)) /\ srf'[m.s] = srf[m.s]
               /\ SlotsOf(m.s)' = SlotsOf(m.s)
    BY <1>4, <1>5, <2>1, <2>4 DEF Fits
  <2>5. ASSUME NEW m \in mapped
        PROVE  /\ m.pic <= pics' /\ (At("submit")' => m.pic < pics')
               /\ srf'[m.s].serial # 0 /\ (srf'[m.s].alive => m.gen <= srf'[m.s].gen)
               /\ Fits(m)' => LET x == srf'[m.s]
                              IN  /\ x.pic = m.pic /\ x.fence = m.pic /\ x.owned /\ x.queued
                                  /\ ~x.decoded /\ SlotsOf(m.s)' = {}
    <3>1. m.pic <= pics' /\ (At("submit")' => m.pic < pics')
      BY <1>1, <2>1 DEF MapInv
    <3> QED
      BY <2>1, <2>3, <2>4, <3>1 DEF MapInv
  <2> QED
    BY <1>3, <2>1, <2>5 DEF MapInv
<1>13. PixelInv'
  <2>1. PixelInv /\ SlotsSound
    BY SafeParts
  <2>2. ASSUME NEW k \in UsedSlots \ K
        PROVE  /\ pend[k].s \in Surfaces /\ pend[k].s # s /\ pend[k].job \in Jobs
               /\ srf'[pend[k].s] = srf[pend[k].s]
    BY <1>1, <1>4, <2>1, FieldTypes DEF SlotsSound, SlotSound, UsedSlots
  <2>3. ASSUME ~EarlyExport, NEW k \in UsedSlots \ K, ~jobs'[pend[k].job].running
        PROVE  srf'[pend[k].s].px = srf'[pend[k].s].pic
    BY <1>2, <2>1, <2>2, <2>3 DEF PixelInv
  <2> QED
    BY <1>2, <1>4, <2>1, <2>3 DEF PixelInv, DecodedHoldsTheCopy
<1>14. FenceInv'
  <2>1. FenceInv
    BY SafeParts
  <2>2. ASSUME NEW t \in Surfaces, t # s
        PROVE  OwnMapping(t)' = OwnMapping(t) /\ srf'[t] = srf[t] /\ SlotsOf(t)' = SlotsOf(t)
    BY <1>4, <1>5, <2>2 DEF OwnMapping
  <2>3. CASE new.fence = 0
    BY <1>1, <1>4, <1>10, <2>1, <2>2, <2>3 DEF FenceInv
  <2>4. CASE new.fence # 0
    <3>1. new.owned /\ At("submit")' /\ call'.s = s /\ srf[s].fence # 0 /\ srf[s].alive
      BY <2>4 DEF SurfaceRecord
    <3> QED
      BY <1>1, <1>4, <1>10, <2>1, <2>2, <3>1 DEF FenceInv
  <2> QED
    BY <2>3, <2>4
<1>15. CallInv'
  BY DEF CallInv
<1> QED
  BY <1>2, <1>3, <1>7, <1>8, <1>9, <1>10, <1>11, <1>12, <1>13, <1>14, <1>15
  DEF CaptureSafe, CaptureInv, TransportSafe

(* vpu_surfaces_free.                                                         *)
LEMMA FreeSurfaceKeeps ==
    ASSUME CaptureSafe, NEW s \in Surfaces, FreeSurface(s)
    PROVE  CaptureSafe'
<1> DEFINE K == IF srf[s].owned THEN SlotsOf(s) ELSE {}
           n == srf[s].serial
           new == FreedSurface(n)
<1>1. /\ TypeOK /\ CallPlace /\ CallSession /\ KeysApart /\ ImportsSound /\ SlotsSound
      /\ Idle /\ srf[s].alive /\ FinishCopies(K) /\ srf' = [srf EXCEPT ![s] = new]
      /\ imports' = (IF srf[s].owned THEN Forgotten({n}) ELSE imports)
      /\ UNCHANGED <<context, vk, serial, call>> /\ n \in Nat /\ serial \in Nat
  BY SafeParts, FieldTypes DEF FreeSurface, TypeOK
<1>2. K \in SUBSET UsedSlots /\ \A k \in UsedSlots : k \in K <=> pend[k].s = s
  BY <1>1 DEF SlotsOf, SlotsSound, SlotSound
<1>3. /\ new \in SurfaceRecord /\ ~new.alive /\ new.serial = n /\ new.fence = 0
      /\ ~new.decoded
  BY <1>1, NewSurfaceTyped
<1>4. imports' \subseteq imports /\ \A e \in imports : e.key # n => e \in imports'
  BY <1>1 DEF Forgotten
<1> HIDE DEF K, n, new
<1>5. ImportsSound'
  <2>1. IsFiniteSet(imports')
    BY <1>1, <1>4, FS_Subset DEF ImportsSound
  <2>2. CaptureKeys' = CaptureKeys
    BY <1>1 DEF CaptureKeys
  <2> QED
    BY <1>1, <1>4, <2>1, <2>2 DEF ImportsSound, context
(* No other job reads or writes what is forgotten.                            *)
<1>6. ASSUME NEW k \in UsedSlots \ K, jobs[pend[k].job].running
      PROVE  jobs[pend[k].job].keys \subseteq {e.key : e \in imports'}
  <2>1. SlotSound(k) /\ pend[k].s # s /\ pend[k].index \in CapSlots
    BY <1>1, <1>2, FieldTypes DEF SlotsSound, UsedSlots
  <2>2. n \notin jobs[pend[k].job].keys
    <3>1. vk.keys[pend[k].index] # n
      BY <1>1, <2>1 DEF KeysApart, SlotSound, n
    <3>2. srf[pend[k].s].serial # n
      BY <1>1, <2>1 DEF KeysApart, SlotSound, n
    <3> QED
      BY <2>1, <3>1, <3>2 DEF SlotSound
  <2>3. jobs[pend[k].job].keys \subseteq {e.key : e \in imports}
    BY <1>6, <2>1 DEF SlotSound
  <2> QED
    BY <1>4, <2>2, <2>3
<1> USE DEF Idle, At, context
<1>7. call'.pc = "idle" /\ call.op = "none" /\ sess # "open" /\ call' \in CallRecord
      /\ pics' = pics /\ pics \in 0 .. MaxPictures
  BY <1>1 DEF CallPlace, CallSession, TypeOK
<1>8. CallPlace' /\ CallSession' /\ CallTarget' /\ ~Unfed'
  BY <1>1, <1>7 DEF CallPlace, CallSession, CallTarget, Looping, Unfed, Awaiting
<1> QED
  BY <1>1, <1>2, <1>3, <1>4, <1>5, <1>6, <1>7, <1>8, SurfaceFinished DEF n

(* vpu_decode_begin.                                                          *)
LEMMA BeginPictureKeeps ==
    ASSUME CaptureSafe, NEW s \in Surfaces, BeginPicture(s)
    PROVE  CaptureSafe'
<1> DEFINE K == SlotsOf(s)
           x == Finished(K)[s]
           gen == x.gen + 1
           pic == pics + 1
           new == [x EXCEPT !.gen = gen, !.decoded = FALSE, !.queued = FALSE, !.pic = pic]
<1>1. /\ TypeOK /\ CallPlace /\ CallSession /\ KeysApart /\ ImportsSound /\ SlotsSound
      /\ Idle /\ srf[s].alive /\ sess \in {"none", "live", "eos"}
      /\ FinishCopies(K) /\ srf' = [srf EXCEPT ![s] = new]
      /\ pics' = pic /\ pic \in 0 .. MaxPictures /\ pic > pics /\ pic # 0
      /\ call' = [NoCall EXCEPT !.pc = "submit", !.op = "end", !.s = s]
      /\ UNCHANGED <<mapped, sess, opened, imports, vk, serial>>
  BY SafeParts, CaptureAssumption DEF BeginPicture, TypeOK
<1>2. K \in SUBSET UsedSlots /\ \A k \in UsedSlots : k \in K <=> pend[k].s = s
  BY DEF SlotsOf
<1>3. /\ x \in SurfaceRecord /\ x.alive = srf[s].alive /\ x.gen = srf[s].gen /\ x.gen \in Nat
      /\ x.serial = srf[s].serial
      /\ x.fence # 0 => x.owned /\ srf[s].fence # 0
  <2>1. FenceInv /\ srf[s] \in SurfaceRecord
    BY <1>1, SafeParts, FieldTypes
  <2>2. /\ Finished(K) \in [Surfaces -> SurfaceRecord]
        /\ x.alive = srf[s].alive /\ x.gen = srf[s].gen /\ x.serial = srf[s].serial
    BY <1>2, FinishedSurfaces
  <2>3. x = srf[s] \/ x = Landed(srf[s])
    BY <1>2, FinishedSurfaces
  <2>4. x.fence # 0 => x = srf[s]
    BY <2>1, <2>3, SurfacesTyped
  <2> HIDE DEF x
  <2>5. x \in SurfaceRecord
    BY <2>2 DEF x
  <2> QED
    BY <2>1, <2>2, <2>4, <2>5 DEF FenceInv, SurfaceRecord
<1> HIDE DEF x, K
<1>4. gen \in Nat /\ gen > srf[s].gen
  BY <1>3
<1> HIDE DEF gen, pic
<1>5. /\ new \in SurfaceRecord /\ new.alive /\ new.serial = srf[s].serial
      /\ new.gen = gen /\ ~new.decoded /\ new.pic = pic
      /\ new.fence # 0 => new.owned /\ srf[s].fence # 0
  BY <1>1, <1>3, <1>4 DEF SurfaceRecord
<1> HIDE DEF new
<1> USE DEF Idle, At
<1>6. call' \in CallRecord /\ call'.pc = "submit" /\ call'.op = "end" /\ call'.s = s
  BY <1>1, CallBegins
<1>7. ImportsSound' /\ CallPlace' /\ CallSession'
  <2>1. ImportsSound'
    BY <1>1 DEF ImportsSound, CaptureKeys
  <2> QED
    BY <1>1, <1>6, <2>1 DEF CallPlace, CallSession, Looping
<1>8. CallTarget'
  <2>1. SlotsOf(s)' = {}
    <3>1. Release(K) /\ Done(K)
      BY <1>1 DEF FinishCopies
    <3> QED
      BY <1>2, <3>1, ReleaseFrees DEF K
  <2>2. srf'[s] = new
    BY <1>1, <1>5 DEF TypeOK
  <2> QED
    BY <1>1, <1>5, <1>6, <2>1, <2>2 DEF CallTarget
<1>9. \A k \in UsedSlots \ K :
         jobs[pend[k].job].running =>
            jobs[pend[k].job].keys \subseteq {e.key : e \in imports'}
  BY <1>1 DEF SlotsSound, SlotSound
<1> QED
  BY <1>1, <1>2, <1>4, <1>5, <1>6, <1>7, <1>8, <1>9, SurfaceFinished

-----------------------------------------------------------------------------
(* Sessions                                                                   *)

(* close_decoder_session: every copy is finished, every mapping and capture   *)
(* key forgotten, no fence left and the descriptor closed.                    *)
LEMMA CloseSessionKeeps ==
    ASSUME CaptureSafe, CloseSession, sess' \in {"gone", "none"},
           srf' \in [Surfaces -> SurfaceRecord],
           \A s \in Surfaces :
              LET x == Finished(UsedSlots)[s]
              IN  /\ srf'[s].alive = x.alive /\ srf'[s].serial = x.serial
                  /\ srf'[s].pic = x.pic /\ srf'[s].px = x.px
                  /\ srf'[s].decoded = x.decoded /\ srf'[s].init = x.init
                  /\ x.decoded => srf'[s].queued = x.queued
                  /\ srf'[s].fence = 0,
           call' \in CallRecord, CallPlace', CallSession', CallTarget', ~At("assign")'
    PROVE  CaptureSafe'
<1>1. /\ TypeOK /\ KeysApart /\ ImportsSound /\ PixelInv /\ SlotsSound
      /\ Done(UsedSlots) /\ Release(UsedSlots) /\ imports' = Forgotten(CaptureKeys)
      /\ vk' = FreshVk /\ mapped' = {} /\ CloseDevice /\ UNCHANGED <<serial, pics, opened>>
  BY SafeParts DEF CloseSession
<1>2. /\ pend' \in [Slots -> PendingRecord] /\ jobs' \in [Jobs -> JobRecord]
      /\ UsedSlots' = {} /\ SlotsApart' /\ JobsPending'
  BY <1>1, ReleaseFrees
<1>3. TransportSafe'
  BY <1>1, CloseDeviceKeeps
<1>4. /\ dec'.open = FALSE /\ dec'.capCount = 0 /\ dec'.eos = FALSE
      /\ vdev'.out = <<>> /\ vdev'.ready = <<>> /\ vdev'.outOn = FALSE
      /\ vdev'.capOn = FALSE /\ vdev'.stop = FALSE /\ vdev'.events = 0
  BY <1>1 DEF CloseDevice, ClosedDec, FreshDevice
<1>5. \A s \in Surfaces :
         /\ srf'[s].alive = srf[s].alive /\ srf'[s].serial = srf[s].serial
         /\ srf'[s].pic = srf[s].pic /\ srf'[s].px = srf[s].px /\ srf'[s].fence = 0
         /\ srf'[s].decoded => srf'[s].init /\ srf'[s].queued
         /\ srf'[s].decoded => srf[s].decoded \/ \E k \in UsedSlots : pend[k].s = s
  <2>1. UsedSlots \in SUBSET UsedSlots /\ \A s \in Surfaces : srf[s] \in SurfaceRecord
    BY <1>1, FieldTypes
  <2>2. ASSUME NEW s \in Surfaces
        PROVE  /\ Finished(UsedSlots)[s].decoded =>
                     Finished(UsedSlots)[s].init /\ Finished(UsedSlots)[s].queued
               /\ Finished(UsedSlots)[s].decoded =>
                     srf[s].decoded \/ \E k \in UsedSlots : pend[k].s = s
    BY <1>1, <2>1, FinishedSurfaces, SurfacesTyped DEF PixelInv
  <2>3. \A s \in Surfaces :
           LET x == Finished(UsedSlots)[s]
           IN  /\ x.alive = srf[s].alive /\ x.serial = srf[s].serial
               /\ x.pic = srf[s].pic /\ x.px = srf[s].px
    BY <2>1, FinishedSurfaces
  <2> QED
    BY <2>2, <2>3
<1>6. vk' \in VkRecord /\ \A i \in CapSlots : vk'.keys[i] = 0
  BY <1>1 DEF FreshVk, VkRecord
<1>7. KeysApart'
  BY <1>1, <1>5, <1>6 DEF KeysApart, TypeOK
<1>8. ImportsSound' /\ imports' \subseteq Import /\ Cardinality(imports') <= MaxImports
  <2>1. imports' \in SUBSET imports
    BY <1>1 DEF Forgotten
  <2>2. IsFiniteSet(imports') /\ Cardinality(imports') <= Cardinality(imports)
        /\ IsFiniteSet(imports)
    BY <1>1, <2>1, FS_Subset DEF ImportsSound
  <2>3. \A e \in imports' : e.key # 0 /\ e.key <= serial /\ e.mem = Backing(e.key)
    BY <1>1 DEF ImportsSound, Forgotten, CaptureKeys
  <2>4. \A e \in imports' : e.key \notin CaptureKeys'
    BY <1>6, <2>3 DEF CaptureKeys
  <2>5. Cardinality(imports') <= MaxImports
    BY <1>1, <2>2, FS_CardinalityType, CaptureAssumption DEF TypeOK
  <2> QED
    BY <1>1, <2>1, <2>2, <2>3, <2>4, <2>5 DEF ImportsSound, TypeOK
<1>9. TypeOK'
  BY <1>1, <1>2, <1>3, <1>6, <1>8 DEF TypeOK, TransportSafe
<1>10. CallInv' /\ SlotsSound' /\ HandSound'
  BY <1>2 DEF CallInv, SlotsSound, HandSound
<1>11. RingInv' /\ PicsKnown'
  BY <1>4 DEF RingInv, PicsKnown
<1>12. OnlyLastIsLost'
  <2>1. \A i \in CapSlots : ~(i < 0)
    BY TransportAssumption DEF CapSlots
  <2> QED
    BY <1>4, <2>1 DEF OnlyLastIsLost, Lost
<1>13. MapInv' /\ FenceInv'
  BY <1>1, <1>5 DEF MapInv, FenceInv
<1>14. PixelInv'
  <2>1. ASSUME ~EarlyExport, NEW s \in Surfaces, srf'[s].alive, srf'[s].decoded
        PROVE  srf'[s].px = srf'[s].pic
    <3>1. CASE srf[s].decoded
      BY <1>1, <1>5, <2>1, <3>1 DEF PixelInv, DecodedHoldsTheCopy
    <3>2. CASE \E k \in UsedSlots : pend[k].s = s
      BY <1>1, <1>5, <2>1, <3>2 DEF PixelInv, Done
    <3> QED
      BY <1>5, <2>1, <3>1, <3>2
  <2> QED
    BY <1>2, <1>5, <2>1 DEF PixelInv, DecodedHoldsTheCopy
<1> QED
  BY <1>2, <1>3, <1>7, <1>8, <1>9, <1>10, <1>11, <1>12, <1>13, <1>14
  DEF CaptureSafe, CaptureInv, TransportSafe

(* finish_pending_writes leaves the surface as its copy did, without a fence. *)
LEMMA SettledSurfaces ==
    ASSUME CaptureSafe, NEW s \in Surfaces
    PROVE  LET x == Finished(UsedSlots)[s]
           IN  /\ Settled(s) \in SurfaceRecord
               /\ Settled(s).alive = x.alive /\ Settled(s).serial = x.serial
               /\ Settled(s).pic = x.pic /\ Settled(s).px = x.px
               /\ Settled(s).decoded = x.decoded /\ Settled(s).init = x.init
               /\ Settled(s).queued = x.queued /\ Settled(s).fence = 0
<1> DEFINE x == Finished(UsedSlots)[s]
<1>1. UsedSlots \in SUBSET UsedSlots /\ srf[s] \in SurfaceRecord /\ FenceInv
      /\ 0 \in 0 .. MaxPictures
  BY SafeParts, FieldTypes, CaptureAssumption
<1>2. x \in SurfaceRecord
  BY <1>1, FinishedSurfaces
<1>3. x = srf[s] \/ x = Landed(srf[s])
  BY <1>1, FinishedSurfaces
<1>4. x.fence # 0 => x.owned
  BY <1>1, <1>3, SurfacesTyped DEF FenceInv
<1>5. Settled(s) = (IF x.owned THEN [x EXCEPT !.fence = 0] ELSE x)
  BY DEF Settled
<1> HIDE DEF x
<1>6. /\ Settled(s) \in SurfaceRecord
      /\ Settled(s).alive = x.alive /\ Settled(s).serial = x.serial
      /\ Settled(s).pic = x.pic /\ Settled(s).px = x.px
      /\ Settled(s).decoded = x.decoded /\ Settled(s).init = x.init
      /\ Settled(s).queued = x.queued /\ Settled(s).fence = 0
  BY <1>1, <1>2, <1>4, <1>5 DEF SurfaceRecord
<1> QED
  BY <1>6 DEF x

(* restart_decoder_session and ensure_decoder: the picture being submitted    *)
(* waits for the session that replaces this one.                              *)
LEMMA ReopenKeeps ==
    ASSUME CaptureSafe, NEW disown \in BOOLEAN, Reopen(disown),
           At("restart") \/ At("submit")
    PROVE  CaptureSafe'
<1> DEFINE kept(s) == Settled(s).queued /\ ~(disown /\ Settled(s).owned /\ ~Settled(s).decoded)
           new(s) == [Settled(s) EXCEPT !.queued = kept(s)]
<1>1. /\ TypeOK /\ CallPlace /\ CallSession /\ CallTarget
      /\ CloseSession /\ sess' = "none" /\ Continue("submit")
      /\ srf' = [s \in Surfaces |-> new(s)] /\ UNCHANGED pics
  BY SafeParts DEF Reopen, CloseSession
<1>2. ASSUME NEW s \in Surfaces
      PROVE  LET x == Finished(UsedSlots)[s]
             IN  /\ new(s) \in SurfaceRecord
                 /\ new(s).alive = x.alive /\ new(s).serial = x.serial
                 /\ new(s).pic = x.pic /\ new(s).px = x.px
                 /\ new(s).decoded = x.decoded /\ new(s).init = x.init
                 /\ x.decoded => new(s).queued = x.queued
                 /\ new(s).fence = 0
  <2> DEFINE x == Finished(UsedSlots)[s]
             y == Settled(s)
             q == kept(s)
  <2>1. /\ y \in SurfaceRecord /\ y.alive = x.alive /\ y.serial = x.serial
        /\ y.pic = x.pic /\ y.px = x.px /\ y.decoded = x.decoded /\ y.init = x.init
        /\ y.queued = x.queued /\ y.fence = 0
    BY SettledSurfaces
  <2>2. y.queued \in BOOLEAN
    BY <2>1 DEF SurfaceRecord
  <2>3. q \in BOOLEAN /\ (y.decoded => q = y.queued)
    BY <2>2
  <2> HIDE DEF x, y, q
  <2>4. LET z == [y EXCEPT !.queued = q]
        IN  /\ z \in SurfaceRecord /\ z.alive = x.alive /\ z.serial = x.serial
            /\ z.pic = x.pic /\ z.px = x.px /\ z.decoded = x.decoded /\ z.init = x.init
            /\ x.decoded => z.queued = x.queued
            /\ z.fence = 0
    BY <2>1, <2>3 DEF SurfaceRecord
  <2> QED
    BY <2>4 DEF x, y, q
<1> HIDE DEF new
<1>3. srf' \in [Surfaces -> SurfaceRecord] /\ \A s \in Surfaces : srf'[s] = new(s)
  BY <1>1, <1>2
<1> USE DEF Idle, At
<1>4. call' \in CallRecord /\ call'.pc = "submit" /\ call'.op = call.op /\ call'.s = call.s
      /\ call.op \in {"end", "boundary"}
  BY <1>1, CallMoves DEF CallPlace
<1>5. CallPlace' /\ CallSession'
  BY <1>1, <1>4 DEF CallPlace, CallSession, Looping
<1>6. CallTarget'
  <2>1. PICK t \in Surfaces : t = call.s
    BY <1>1, <1>4 DEF CallTarget
  <2>2. /\ srf[t].alive /\ srf[t].pic = pics /\ pics # 0 /\ ~srf[t].decoded /\ SlotsOf(t) = {}
    <3>1. Unfed /\ ~Idle /\ call.op # "destroy"
      BY <1>1, <1>4 DEF CallPlace, Unfed
    <3> QED
      BY <1>1, <2>1, <3>1 DEF CallTarget
  <2>3. Finished(UsedSlots)[t] = srf[t]
    <3>1. \A k \in UsedSlots : pend[k].s # t
      BY <2>2 DEF SlotsOf
    <3> QED
      BY <3>1, FinishedSurfaces
  <2>4. srf'[t].alive /\ srf'[t].pic = pics /\ ~srf'[t].decoded
    BY <1>2, <1>3, <2>2, <2>3
  <2>5. SlotsOf(t)' = {}
    <3>1. UsedSlots' = {}
      BY <1>1, ReleaseFrees DEF CloseSession
    <3> QED
      BY <3>1 DEF SlotsOf
  <2> QED
    BY <1>1, <1>4, <2>1, <2>2, <2>4, <2>5 DEF CallTarget
<1> QED
  BY <1>1, <1>2, <1>3, <1>4, <1>5, <1>6, CloseSessionKeeps

LEMMA ReopeningKeeps == CaptureSafe /\ (Restart \/ ReopenAfterEos) => CaptureSafe'
<1> SUFFICES ASSUME CaptureSafe, Restart \/ ReopenAfterEos PROVE CaptureSafe'
  OBVIOUS
<1> QED
  BY ReopenKeeps DEF Restart, ReopenAfterEos

(* The end of vpu_decode_destroy.                                             *)
LEMMA TeardownKeeps == CaptureSafe /\ Teardown => CaptureSafe'
<1> SUFFICES ASSUME CaptureSafe, Teardown PROVE CaptureSafe'
  OBVIOUS
<1> DEFINE new(s) == [Settled(s) EXCEPT !.owned = FALSE]
<1>1. /\ TypeOK /\ CloseSession /\ sess' = "gone" /\ Return
      /\ srf' = [s \in Surfaces |-> new(s)]
  BY SafeParts DEF Teardown
<1>2. ASSUME NEW s \in Surfaces
      PROVE  LET x == Finished(UsedSlots)[s]
             IN  /\ new(s) \in SurfaceRecord
                 /\ new(s).alive = x.alive /\ new(s).serial = x.serial
                 /\ new(s).pic = x.pic /\ new(s).px = x.px
                 /\ new(s).decoded = x.decoded /\ new(s).init = x.init
                 /\ x.decoded => new(s).queued = x.queued
                 /\ new(s).fence = 0
  <2> DEFINE x == Finished(UsedSlots)[s]
             y == Settled(s)
  <2>1. /\ y \in SurfaceRecord /\ y.alive = x.alive /\ y.serial = x.serial
        /\ y.pic = x.pic /\ y.px = x.px /\ y.decoded = x.decoded /\ y.init = x.init
        /\ y.queued = x.queued /\ y.fence = 0
    BY SettledSurfaces
  <2> HIDE DEF x, y
  <2>2. LET z == [y EXCEPT !.owned = FALSE]
        IN  /\ z \in SurfaceRecord /\ z.alive = x.alive /\ z.serial = x.serial
            /\ z.pic = x.pic /\ z.px = x.px /\ z.decoded = x.decoded /\ z.init = x.init
            /\ x.decoded => z.queued = x.queued
            /\ z.fence = 0
    BY <2>1 DEF SurfaceRecord
  <2> QED
    BY <2>2 DEF x, y
<1> HIDE DEF new
<1>3. srf' \in [Surfaces -> SurfaceRecord] /\ \A s \in Surfaces : srf'[s] = new(s)
  BY <1>1, <1>2
<1> USE DEF Idle, At
<1>4. call' \in CallRecord /\ call'.pc = "idle" /\ call'.op = "none"
  BY <1>1, CallMoves
<1>5. CallPlace' /\ CallSession' /\ CallTarget'
  BY <1>1, <1>4 DEF CallPlace, CallSession, CallTarget, Looping, Unfed, Awaiting
<1> QED
  BY <1>1, <1>2, <1>3, <1>4, <1>5, CloseSessionKeeps

(* Nothing of the engine is the old session's when one is opened.             *)
LEMMA NothingCaptured ==
    ASSUME CaptureSafe, dec.capCount = 0
    PROVE  /\ UsedSlots = {} /\ Lost = {}
           /\ \A i \in CapSlots : vk.keys[i] = 0
           /\ \A e \in imports : e.mem = Backing(e.key)
           /\ ~At("assign") /\ sess # "dead" => ~dec.eos
<1>1. \A i \in CapSlots : ~(i < 0)
  BY TransportAssumption DEF CapSlots
<1>2. UsedSlots = {}
  BY <1>1, SafeParts, FieldTypes DEF SlotsSound, SlotSound, UsedSlots
<1>3. Lost = {}
  BY <1>1 DEF Lost
<1>4. \A i \in CapSlots : vk.keys[i] = 0
  BY SafeParts DEF KeysApart
<1>5. \A e \in imports : e.mem = Backing(e.key)
  BY <1>4, SafeParts DEF ImportsSound
<1>6. ~At("assign") /\ sess # "dead" => ~dec.eos
  BY <1>3, SafeParts DEF OnlyLastIsLost
<1> QED
  BY <1>2, <1>3, <1>4, <1>5, <1>6

(* open_decoder_session.                                                      *)
LEMMA OpenSessionKeeps == CaptureSafe /\ OpenSession => CaptureSafe'
<1> SUFFICES ASSUME CaptureSafe, OpenSession PROVE CaptureSafe'
  OBVIOUS
<1>1. /\ TypeOK /\ CallPlace /\ CallSession /\ CallTarget /\ RingInv /\ MapInv /\ FenceInv
      /\ KeysApart /\ ImportsSound /\ PixelInv /\ JobsPending
      /\ At("submit") /\ sess = "none" /\ opened < MaxSessions /\ OpenDevice
      /\ sess' = "open" /\ opened' = opened + 1
      /\ UNCHANGED <<engine, mapped, pics, srf, call>>
  BY SafeParts DEF OpenSession
<1>2. TransportSafe'
  BY <1>1, OpenDeviceKeeps
<1>3. /\ dec'.open = TRUE /\ dec'.capCount = 0 /\ dec'.eos = FALSE
      /\ vdev' = FreshDevice /\ Len(freeOut') = OutCount
  <2>1. freeOut' = [i \in 1 .. OutCount |-> OutCount - i]
    BY <1>1 DEF OpenDevice
  <2>2. Len(freeOut') = OutCount
    BY <2>1, TransportAssumption
  <2> QED
    BY <1>1, <2>2 DEF OpenDevice, ClosedDec
<1>4. /\ ~dec.open /\ dec.capCount = 0 /\ mapped = {} /\ opened \in Nat
      /\ opened' \in 0 .. MaxSessions /\ opened' # 0
  BY <1>1, CaptureAssumption DEF RingInv, MapInv, TypeOK
<1>5. /\ UsedSlots = {} /\ \A i \in CapSlots : vk.keys[i] = 0
      /\ \A e \in imports : e.mem = Backing(e.key)
  BY <1>4, NothingCaptured
<1>6. UsedSlots' = {} /\ (\A t : SlotsOf(t)' = SlotsOf(t)) /\ CaptureKeys' = CaptureKeys
  BY <1>1, <1>5 DEF UsedSlots, SlotsOf, CaptureKeys, engine
<1> USE DEF Idle, At
<1>7. CallInv'
  <2>1. CallPlace' /\ CallSession'
    BY <1>1 DEF CallPlace, CallSession, Looping
  <2>2. CallTarget'
    BY <1>1, TargetStands DEF Unfed, Awaiting, engine
  <2> QED
    BY <2>1, <2>2 DEF CallInv
<1>8. CanFeed'
  <2>1. freeOut' \in Seq(OutSlots) /\ vdev'.outDone = <<>>
    BY <1>2, <1>3 DEF TransportSafe, TransportTypeOK, FreshDevice
  <2>2. Recycled' = freeOut'
    <3>1. \A q \in Seq(OutSlots) : q \o <<>> = q
      OBVIOUS
    <3> QED
      BY <2>1, <3>1 DEF Recycled
  <2>3. Len(freeOut') # 0
    BY <1>3, TransportAssumption
  <2>4. freeOut' # <<>>
    BY <2>3
  <2> QED
    BY <2>2, <2>4 DEF CanFeed
<1>9. RingInv' /\ PicsKnown'
  BY <1>1, <1>3, <1>4, <1>8 DEF RingInv, PicsKnown, FreshDevice
<1>10. KeysApart' /\ JobsPending'
  BY <1>1, <1>5, <1>6 DEF KeysApart, JobsPending, engine
<1>11. ImportsSound'
  BY <1>1, <1>5, <1>6 DEF ImportsSound, engine, CaptureKeys
<1>12. SlotsSound' /\ SlotsApart' /\ HandSound'
  BY <1>1, <1>6 DEF SlotsSound, SlotsApart, HandSound
<1>13. OnlyLastIsLost'
  <2>1. \A i \in CapSlots : ~(i < 0)
    BY TransportAssumption DEF CapSlots
  <2> QED
    BY <1>3, <2>1 DEF OnlyLastIsLost, Lost
<1>14. MapInv'
  BY <1>1, <1>4 DEF MapInv
<1>15. PixelInv'
  BY <1>1, <1>5, <1>6 DEF PixelInv, DecodedHoldsTheCopy
(* Without a session only freed surfaces have a fence.                        *)
<1>16. FenceInv'
  BY <1>1 DEF FenceInv
<1>17. TypeOK'
  BY <1>1, <1>2, <1>4 DEF TypeOK, TransportSafe, engine
<1> QED
  BY <1>2, <1>7, <1>9, <1>10, <1>11, <1>12, <1>13, <1>14, <1>15, <1>16, <1>17
  DEF CaptureSafe, CaptureInv, TransportSafe

(* The first source change: the CAPTURE ring is set up and queued.            *)
LEMMA SessionStartedKeeps == CaptureSafe /\ SessionStarted => CaptureSafe'
<1> SUFFICES ASSUME CaptureSafe, SessionStarted PROVE CaptureSafe'
  OBVIOUS
<1>1. /\ TypeOK /\ CallPlace /\ CallSession /\ CallTarget /\ RingInv /\ MapInv /\ FenceInv
      /\ PicsKnown /\ vdev \in DeviceRecord /\ dec \in DecRecord /\ TransportSafe
      /\ KeysApart /\ ImportsSound /\ PixelInv /\ JobsPending
      /\ At("starting") /\ StartReady /\ StartCapture /\ sess' = "live" /\ Continue("drain")
      /\ UNCHANGED <<engine, mapped, pics, opened, srf>>
  BY SafeParts DEF SessionStarted, TransportTypeOK
<1>2. TransportSafe'
  BY <1>1, StartCaptureKeeps
<1> USE DEF Idle, At
<1>3. call.op = "end" /\ sess = "open"
  BY <1>1 DEF CallPlace, CallSession
<1>4. /\ call' \in CallRecord /\ call'.pc = "drain" /\ call'.op = "end" /\ call'.s = call.s
  BY <1>1, <1>3, CallMoves
<1>5. dec.capCount = 0 /\ ~vdev.capOn /\ vdev.ready = <<>> /\ ~vdev.stop /\ vdev.fmt \in Layouts
      /\ dec.open
  BY <1>1, <1>3 DEF RingInv, StartReady
<1>6. /\ UsedSlots = {} /\ \A i \in CapSlots : vk.keys[i] = 0
      /\ \A e \in imports : e.mem = Backing(e.key)
      /\ ~dec.eos
  BY <1>3, <1>1, <1>5, NothingCaptured
<1>7. /\ dec'.open = TRUE /\ dec'.eos = FALSE /\ dec'.capCount = CapCount
      /\ dec'.layout = vdev.fmt /\ \A i \in CapSlots : capQueued'[i] = TRUE
      /\ vdev'.fmt = vdev.fmt /\ vdev'.out = vdev.out /\ vdev'.ready = <<>>
      /\ vdev'.capOn = TRUE /\ vdev'.stop = vdev.stop /\ vdev'.outOn = vdev.outOn
  <2> DEFINE left == vdev.events - 1
             gen == dec.gen + 1
  <2>1. left \in Nat /\ gen \in Nat
    BY <1>1 DEF StartReady, DeviceRecord, DecRecord
  <2>2. OneEventLess = [vdev EXCEPT !.events = left]
    BY <1>1 DEF OneEventLess, DeviceRecord
  <2>3. SetupCapture(dec, OneEventLess)
    BY <1>1 DEF StartCapture
  <2> HIDE DEF left
  <2>4. OneEventLess.fmt = vdev.fmt /\ OneEventLess.out = vdev.out
        /\ OneEventLess.stop = vdev.stop /\ OneEventLess.outOn = vdev.outOn
        /\ OneEventLess \in DeviceRecord
    BY <1>1, <2>1, <2>2 DEF DeviceRecord
  <2>5. /\ vdev'.fmt = vdev.fmt /\ vdev'.out = vdev.out /\ vdev'.ready = <<>>
        /\ vdev'.capOn = TRUE /\ vdev'.stop = vdev.stop /\ vdev'.outOn = vdev.outOn
    <3> HIDE DEF gen
    <3> QED
      BY <2>3, <2>4 DEF SetupCapture, DeviceRecord
  <2>6. /\ dec'.open = dec.open /\ dec'.eos = dec.eos /\ dec'.capCount = CapCount
        /\ dec'.layout = vdev.fmt /\ \A i \in CapSlots : capQueued'[i] = TRUE
    BY <1>1, <2>3, <2>4 DEF SetupCapture, DecRecord
  <2>7. dec.open \in BOOLEAN /\ dec.eos \in BOOLEAN
    BY <1>1 DEF DecRecord
  <2> QED
    BY <1>5, <1>6, <2>5, <2>6, <2>7
<1>8. UsedSlots' = {} /\ (\A t : SlotsOf(t)' = SlotsOf(t)) /\ CaptureKeys' = CaptureKeys
  BY <1>1, <1>6 DEF UsedSlots, SlotsOf, CaptureKeys, engine
<1>9. CallInv'
  <2>1. CallPlace' /\ CallSession'
    BY <1>1, <1>4 DEF CallPlace, CallSession, Looping
  <2>2. CallTarget'
    BY <1>1, <1>3, <1>4, TargetStands DEF Unfed, Awaiting, engine
  <2> QED
    BY <2>1, <2>2 DEF CallInv
<1>10. RingInv'
  BY <1>1, <1>3, <1>4, <1>5, <1>7 DEF RingInv
<1>11. PicsKnown' /\ \A pic : WithDecoder(pic)' <=> WithDecoder(pic)
  BY <1>1, <1>4, <1>5, <1>7 DEF PicsKnown, WithDecoder, Unfed, Awaiting
<1>12. KeysApart' /\ JobsPending' /\ ImportsSound'
  BY <1>1, <1>6, <1>8 DEF KeysApart, JobsPending, engine, ImportsSound, CaptureKeys
<1>13. SlotsSound' /\ SlotsApart' /\ HandSound'
  BY <1>4, <1>8 DEF SlotsSound, SlotsApart, HandSound
<1>14. OnlyLastIsLost'
  BY <1>7 DEF OnlyLastIsLost, Lost
<1>15. MapInv'
  BY <1>1, <1>4, <1>7, MapStands DEF engine
<1>16. PixelInv'
  BY <1>1, <1>6, <1>8 DEF PixelInv, DecodedHoldsTheCopy
<1>17. FenceInv'
  BY <1>1, <1>3, <1>4, <1>11, FenceStands DEF engine, Awaiting
<1>18. TypeOK'
  BY <1>1, <1>2, <1>4 DEF TypeOK, TransportSafe, engine
<1> QED
  BY <1>2, <1>9, <1>10, <1>11, <1>12, <1>13, <1>14, <1>15, <1>16, <1>17, <1>18
  DEF CaptureSafe, CaptureInv, TransportSafe

-----------------------------------------------------------------------------
(* Pictures: claimed, copied, dropped                                         *)

(* The target is fenced for its own picture before the unit is fed.           *)
LEMMA ClaimTargetKeeps == CaptureSafe /\ ClaimTarget => CaptureSafe'
<1> SUFFICES ASSUME CaptureSafe, ClaimTarget PROVE CaptureSafe'
  OBVIOUS
<1> USE DEF Idle, At
<1>1. /\ TypeOK /\ CallPlace /\ CallSession /\ CallTarget /\ RingInv /\ MapInv /\ FenceInv
      /\ PicsKnown /\ KeysApart /\ ImportsSound /\ PixelInv /\ SlotsSound /\ SlotsApart
      /\ JobsPending /\ OnlyLastIsLost
      /\ call.pc = "submit" /\ sess \in {"open", "live"} /\ Continue("feed")
      /\ UNCHANGED <<transport, engine, sess, pics, opened>>
  BY SafeParts DEF ClaimTarget
<1>2. /\ call' \in CallRecord /\ call'.pc = "feed" /\ call'.op = call.op /\ call'.s = call.s
      /\ call.op \in {"end", "boundary"}
  BY <1>1, CallMoves DEF CallPlace
<1>3. PICK t \in Surfaces : t = call.s
  BY <1>1, <1>2 DEF CallTarget
<1>4. srf[t].alive /\ srf[t].pic = pics /\ pics # 0 /\ ~srf[t].decoded /\ SlotsOf(t) = {}
  BY <1>1, <1>2, <1>3 DEF CallTarget, Unfed
<1> DEFINE x == srf[t]
           new == [x EXCEPT !.queued = TRUE, !.owned = TRUE, !.fence = x.pic]
           own == [pic |-> x.pic, s |-> t, gen |-> x.gen]
<1>5. /\ x \in SurfaceRecord /\ x.pic \in 1 .. MaxPictures /\ x.gen \in Nat /\ pics \in Nat
  BY <1>1, <1>4, FieldTypes DEF TypeOK
<1>6. srf' = [srf EXCEPT ![t] = new] /\ mapped' = mapped \cup {own}
  BY <1>3 DEF ClaimTarget
<1>7. /\ new \in SurfaceRecord /\ new.alive = x.alive /\ new.gen = x.gen /\ new.queued
      /\ new.decoded = x.decoded /\ new.init = x.init /\ new.fence = x.pic /\ new.owned
      /\ new.serial = x.serial /\ new.pic = x.pic /\ new.px = x.px
  BY <1>5 DEF SurfaceRecord
<1>8. own \in Mapping /\ own.pic = pics /\ own.s = t /\ own.gen = x.gen
  BY <1>4, <1>5 DEF Mapping
<1> HIDE DEF new, own
<1>9. /\ srf' \in [Surfaces -> SurfaceRecord] /\ srf'[t] = new
      /\ \A u \in Surfaces : u # t => srf'[u] = srf[u]
  BY <1>1, <1>6, <1>7 DEF TypeOK
<1>10. \A u \in Surfaces :
          /\ srf'[u].alive = srf[u].alive /\ srf'[u].gen = srf[u].gen
          /\ srf'[u].decoded = srf[u].decoded /\ srf'[u].init = srf[u].init
          /\ srf'[u].serial = srf[u].serial /\ srf'[u].pic = srf[u].pic
          /\ srf'[u].px = srf[u].px
  BY <1>7, <1>9
<1>11. /\ UsedSlots' = UsedSlots /\ CaptureKeys' = CaptureKeys
       /\ \A u : SlotsOf(u)' = SlotsOf(u)
       /\ \A pic : WithDecoder(pic)' <=> WithDecoder(pic)
  BY <1>1 DEF UsedSlots, CaptureKeys, SlotsOf, WithDecoder, engine, transport
<1>12. TransportSafe'
  BY <1>1, QuietCalls
<1>13. CallInv'
  <2>1. CallPlace' /\ CallSession'
    BY <1>1, <1>2 DEF CallPlace, CallSession, Looping
  <2>2. CallTarget'
    BY <1>1, <1>2, <1>3, <1>4, <1>10, <1>11 DEF CallTarget, Unfed
  <2> QED
    BY <2>1, <2>2 DEF CallInv
<1>14. RingInv' /\ PicsKnown'
  <2>1. CanFeed' <=> CanFeed
    BY <1>1 DEF CanFeed, Recycled, transport
  <2>2. RingInv'
    BY <1>1, <1>2, <2>1 DEF RingInv, transport
  <2> QED
    BY <1>1, <1>2, <2>2 DEF PicsKnown, Unfed, transport
<1>15. KeysApart' /\ ImportsSound'
  <2>1. UNCHANGED <<dec, vk, serial, imports, opened>>
    BY <1>1 DEF transport, engine
  <2>2. KeysApart'
    BY <1>1, <1>10, <2>1 DEF KeysApart
  <2>3. ImportsSound'
    BY <1>1, <1>11, <2>1 DEF ImportsSound
  <2> QED
    BY <2>2, <2>3
<1>16. ASSUME NEW k \in UsedSlots
       PROVE  pend[k].s \in Surfaces /\ srf'[pend[k].s] = srf[pend[k].s]
  <2>1. SlotSound(k) /\ pend[k].s # t
    BY <1>1, <1>4 DEF SlotsSound, SlotsOf
  <2> QED
    BY <1>9, <2>1 DEF SlotSound
<1>17. SlotsSound' /\ SlotsApart' /\ JobsPending'
  <2>1. ASSUME NEW k \in UsedSlots
        PROVE  SlotSound(k)'
    BY <1>1, <1>16 DEF SlotsSound, SlotSound, engine, transport
  <2> QED
    BY <1>1, <1>11, <2>1 DEF SlotsSound, SlotsApart, JobsPending, engine
<1>18. HandSound' /\ OnlyLastIsLost'
  <2>1. Hand' = Hand /\ Lost' = Lost
    BY <1>1, <1>2, <1>11 DEF Hand, Lost, transport, engine
  <2> QED
    BY <1>1, <1>2, <2>1 DEF HandSound, OnlyLastIsLost, transport
<1>19. MapInv'
  <2>1. \A m \in mapped : m.s \in Surfaces /\ m.pic \in Nat /\ m.pic < pics
    BY <1>1 DEF TypeOK, Mapping, MapInv
  <2>2. \A m \in mapped : (Fits(m)' <=> Fits(m)) /\ (Fits(m) => m.s # t)
    BY <1>1, <1>4, <1>5, <1>10, <2>1 DEF Fits, MapInv
  <2>3. ASSUME NEW m \in mapped'
        PROVE  /\ m.pic <= pics'
               /\ srf'[m.s].serial # 0 /\ (srf'[m.s].alive => m.gen <= srf'[m.s].gen)
               /\ Fits(m)' => LET y == srf'[m.s]
                              IN  /\ y.pic = m.pic /\ y.fence = m.pic /\ y.owned /\ y.queued
                                  /\ ~y.decoded /\ SlotsOf(m.s)' = {}
    <3>1. CASE m \in mapped
      <4>1. Fits(m) => srf'[m.s] = srf[m.s]
        BY <1>9, <2>1, <2>2, <3>1
      <4> QED
        BY <1>1, <1>5, <1>10, <1>11, <2>1, <2>2, <3>1, <4>1 DEF MapInv
    <3>2. CASE m = own
      BY <1>1, <1>4, <1>5, <1>7, <1>8, <1>9, <1>11, <3>2 DEF KeysApart
    <3> QED
      BY <1>6, <3>1, <3>2
  <2>4. \A m, n \in mapped' : m.pic = n.pic => m = n
    BY <1>1, <1>5, <1>6, <1>8, <2>1 DEF MapInv
  <2>5. dec'.open
    BY <1>1 DEF RingInv, transport
  <2> QED
    BY <1>2, <2>3, <2>4, <2>5 DEF MapInv
<1>20. PixelInv'
  <2>1. \A u \in Surfaces : srf'[u].decoded => srf'[u].init /\ srf'[u].queued
    BY <1>1, <1>4, <1>9 , <1>7 DEF PixelInv
  <2>2. DecodedHoldsTheCopy => DecodedHoldsTheCopy'
    BY <1>10 DEF DecodedHoldsTheCopy
  <2> QED
    BY <1>1, <1>11, <1>16, <2>1, <2>2 DEF PixelInv, engine
<1>21. FenceInv'
  <2>1. ASSUME NEW u \in Surfaces, u # t
        PROVE  OwnMapping(u)' = OwnMapping(u) /\ srf'[u] = srf[u] /\ SlotsOf(u)' = SlotsOf(u)
    BY <1>9, <1>11, <2>1 DEF OwnMapping
  <2>2. OwnMapping(t)' \in mapped'
    BY <1>6, <1>7, <1>9 DEF OwnMapping, own
  <2>3. Awaiting'
    BY <1>2 DEF Awaiting
  <2>4. ~Awaiting
    BY <1>1, <1>2 DEF Awaiting
  <2> QED
    BY <1>1, <1>2, <1>3, <1>6, <1>7, <1>9, <1>11, <2>1, <2>2, <2>3, <2>4 DEF FenceInv
<1>22. TypeOK'
  BY <1>1, <1>2, <1>6, <1>8, <1>9, <1>12 DEF TypeOK, TransportSafe, engine
<1> QED
  BY <1>12, <1>13, <1>14, <1>15, <1>17, <1>18, <1>19, <1>20, <1>21, <1>22
  DEF CaptureSafe, CaptureInv, TransportSafe

(* v4l2_dec_dqcap: the buffer is with the call now, or lost with LAST.        *)
LEMMA TakeFrameKeeps == CaptureSafe /\ TakeFrame => CaptureSafe'
<1> SUFFICES ASSUME CaptureSafe, TakeFrame PROVE CaptureSafe'
  OBVIOUS
<1> USE DEF Idle, At
<1> DEFINE p == Head(vdev.ready)
           left == Tail(vdev.ready)
           f == DequeuedFrame
           over == Flushing /\ f.last
<1>1. /\ TypeOK /\ CallPlace /\ CallSession /\ CallTarget /\ RingInv /\ MapInv /\ FenceInv
      /\ PicsKnown /\ SlotsSound /\ OnlyLastIsLost /\ TransportSafe /\ TransportInv
      /\ dec \in DecRecord /\ vdev \in DeviceRecord /\ capQueued \in [CapSlots -> BOOLEAN]
      /\ call.pc = "take" /\ DequeueFrame /\ vdev.ready # <<>>
      /\ UNCHANGED <<engine, context, srf>>
  BY SafeParts DEF TakeFrame, TransportTypeOK, DequeueFrame
<1>2. TransportSafe' /\ f \in Frame /\ (dec'.eos <=> dec.eos \/ f.last) /\ f.gen = dec'.gen
  BY <1>1, DequeueFrameKeeps
<1>3. /\ p \in Picture /\ left \in Seq(Picture) /\ 1 \in DOMAIN vdev.ready /\ p = vdev.ready[1]
      /\ DOMAIN left = 1 .. Len(vdev.ready) - 1 /\ DOMAIN vdev.ready = 1 .. Len(vdev.ready)
      /\ Len(vdev.ready) \in Nat
      /\ \A k \in DOMAIN left : k + 1 \in DOMAIN vdev.ready /\ left[k] = vdev.ready[k + 1]
  BY <1>1, QueueTypes, MembersOfTail DEF TransportSafe
<1>4. /\ f.index = p.index /\ f.pic = p.pic /\ f.last = p.last /\ f.gen = dec.gen
      /\ p.index \in CapSlots /\ p.pic \in Nat
  BY <1>3 DEF DequeuedFrame, Picture
<1> DEFINE eos == dec.eos \/ p.last
<1>5. /\ dec' = [dec EXCEPT !.eos = eos] /\ eos \in BOOLEAN
      /\ capQueued' = [capQueued EXCEPT ![p.index] = FALSE]
      /\ vdev' = [Emptied EXCEPT !.ready = left]
  <2>1. eos \in BOOLEAN
    BY <1>1, <1>3 DEF DecRecord, Picture
  <2> QED
    BY <1>1, <2>1 DEF DequeueFrame, Emptied, DeviceRecord
<1> HIDE DEF eos, left
<1>6. /\ dec'.open = dec.open /\ dec'.gen = dec.gen /\ dec'.capCount = dec.capCount
      /\ dec'.layout = dec.layout
      /\ vdev'.out = vdev.out /\ vdev'.ready = left /\ vdev'.fmt = vdev.fmt
      /\ vdev'.capOn = vdev.capOn /\ vdev'.outOn = vdev.outOn /\ vdev'.events = vdev.events
      /\ vdev'.stop = vdev.stop
  BY <1>1, <1>5 DEF DecRecord, DeviceRecord, Emptied
<1>7. /\ sess \in {"live", "eos"} /\ sess = (IF Flushing THEN "eos" ELSE sess)
      /\ dec.capCount = CapCount
  BY <1>1 DEF CallSession, CallPlace, Looping, RingInv, Flushing
(* It is the decoder's no more: it was with it, so no copy reads it.          *)
<1>8. /\ capQueued[p.index] /\ ~capQueued'[p.index]
      /\ \A i \in CapSlots : i # p.index => capQueued'[i] = capQueued[i]
      /\ \A k \in UsedSlots : pend[k].index # p.index
  <2>1. capQueued[p.index]
    BY <1>1, <1>3, <1>4 DEF TransportInv, CaptureAccounted
  <2> QED
    BY <1>1, <1>4, <1>5, <2>1 DEF SlotsSound, SlotSound
<1>9. ~dec.eos /\ (dec'.eos <=> f.last)
  BY <1>1, <1>2 DEF TransportInv, LastIsLast
<1>10. /\ KeysApart' /\ ImportsSound' /\ SlotsSound' /\ SlotsApart' /\ JobsPending'
       /\ PixelInv' /\ UsedSlots' = UsedSlots
       /\ \A s \in Surfaces : SlotsOf(s)' = SlotsOf(s)
  <2>1. \A i \in CapSlots : ~capQueued[i] => ~capQueued'[i]
    BY <1>8
  <2> QED
    BY <1>1, <1>6, <2>1, EngineStands DEF engine, context
<1>11. /\ call' \in CallRecord /\ call'.s = call.s /\ call'.op = call.op
       /\ over => call'.pc = (IF call.op = "boundary" THEN "restart" ELSE "teardown")
       /\ ~over => call'.pc = "assign" /\ call'.frame = f
  <2>1. CASE over
    <3>1. Continue(IF call.op = "boundary" THEN "restart" ELSE "teardown")
      BY <2>1 DEF TakeFrame
    <3> QED
      BY <1>1, <2>1, <3>1, CallMoves
  <2>2. CASE ~over
    <3>1. call' = [call EXCEPT !.pc = "assign", !.capture = FALSE, !.frame = f]
      BY <2>2 DEF TakeFrame
    <3> QED
      BY <1>1, <1>2, <2>2, <3>1 DEF TypeOK, CallRecord
  <2> QED
    BY <2>1, <2>2
<1>12. CallInv'
  <2>1. CallPlace' /\ CallSession'
    BY <1>1, <1>7, <1>11 DEF CallPlace, CallSession, Looping, Flushing, context
  <2>2. CallTarget'
    BY <1>1, <1>11, TargetStands DEF Unfed, Awaiting, engine, context
  <2> QED
    BY <2>1, <2>2 DEF CallInv
<1>13. Unfed' => Unfed
  BY <1>11 DEF Unfed, Awaiting
<1>14. RingInv'
  <2>1. ~vdev.capOn => left = <<>>
    BY <1>1 DEF DequeueFrame
  <2> QED
    BY <1>1, <1>6, <1>7, <2>1 DEF RingInv, context
<1>15. PicsKnown' /\ f.pic <= pics /\ (Unfed => f.pic < pics) /\ (f.last => f.pic = 0)
  BY <1>1, <1>3, <1>4, <1>6, <1>13 DEF PicsKnown, context
<1>16. HandSound'
  BY <1>2, <1>4, <1>8, <1>9, <1>10, <1>11, <1>13, <1>15, <1>1 DEF HandSound, engine, context
<1>17. OnlyLastIsLost'
  <2>1. Lost = {}
    BY <1>1, <1>9 DEF OnlyLastIsLost
  <2>2. \A i \in CapSlots : i # p.index => i \notin Lost'
    <3>1. ASSUME NEW i \in CapSlots, i # p.index
          PROVE  i \notin Lost'
      <4>1. i \notin Lost /\ Hand = {}
        BY <1>1, <2>1 DEF Hand
      <4> QED
        BY <1>1, <1>6, <1>8, <1>10, <3>1, <4>1 DEF Lost, engine
    <3> QED
      BY <3>1
  <2>3. CASE over
    <3>1. p.index \in Lost'
      <4>1. p.index < CapCount
        BY <1>4, TransportAssumption DEF CapSlots
      <4>2. Hand' = {}
        BY <1>11, <2>3 DEF Hand
      <4> QED
        BY <1>1, <1>4, <1>6, <1>7, <1>8, <1>10, <4>1, <4>2 DEF Lost, engine
    <3>2. Lost' = {p.index}
      BY <2>2, <3>1 DEF Lost
    <3>3. dec'.eos /\ sess' # "dead" /\ call'.pc # "assign"
      BY <1>1, <1>7, <1>9, <1>11, <2>3 DEF context
    <3> QED
      BY <1>4, <3>2, <3>3 DEF OnlyLastIsLost
  <2>4. CASE ~over
    <3>1. p.index \notin Lost'
      BY <1>4, <1>11, <2>4 DEF Lost, Hand
    <3>2. Lost' = {}
      BY <2>2, <3>1 DEF Lost
    <3> QED
      BY <1>11, <2>4, <3>2 DEF OnlyLastIsLost
  <2> QED
    BY <2>3, <2>4
<1>18. MapInv'
  BY <1>1, <1>6, <1>11, MapStands DEF engine, context, MapInv
<1>19. FenceInv'
  <2>1. ASSUME NEW pic, WithDecoder(pic), sess' \in {"open", "live"}
        PROVE  WithDecoder(pic)' \/ (At("assign") /\ call.frame.pic = pic)'
    <3>1. ~over
      BY <1>1, <1>7, <2>1 DEF context
    <3>2. CASE \E n \in DOMAIN vdev.out : vdev.out[n].pic = pic
      BY <1>6, <3>2 DEF WithDecoder
    <3>3. CASE \E n \in DOMAIN vdev.ready : vdev.ready[n].pic = pic
      <4>1. PICK n \in DOMAIN vdev.ready : vdev.ready[n].pic = pic
        BY <3>3
      <4>2. CASE n = 1
        BY <1>3, <1>4, <1>11, <3>1, <4>1, <4>2
      <4>3. CASE n # 1
        <5>1. n - 1 \in DOMAIN left /\ left[n - 1] = vdev.ready[n]
          BY <1>3, <4>1, <4>3
        <5> QED
          BY <1>6, <4>1, <5>1 DEF WithDecoder
      <4> QED
        BY <4>2, <4>3
    <3> QED
      BY <2>1, <3>2, <3>3 DEF WithDecoder
  <2> QED
    BY <1>1, <1>11, <2>1, FenceStands DEF engine, context, Awaiting
<1>20. TypeOK'
  BY <1>1, <1>2, <1>11 DEF TypeOK, TransportSafe, engine, context
<1> QED
  BY <1>2, <1>10, <1>12, <1>14, <1>15, <1>16, <1>17, <1>18, <1>19, <1>20
  DEF CaptureSafe, CaptureInv, TransportSafe

-----------------------------------------------------------------------------
(* A frame and its target                                                     *)

(* The first free slot, and the first free job, are free ones.                *)
LEMMA FirstIsMember ==
    ASSUME NEW S \in SUBSET Nat, S # {}
    PROVE  First(S) \in S
<1> DEFINE R == OpToRel(<, Nat)
<1>1. IsWellFoundedOn(R, Nat)
  BY NatLessThanWellFounded
<1>2. R = {p \in Nat \X Nat : p[1] < p[2]}
  BY DEF OpToRel
<1> HIDE DEF R
<1>3. PICK x \in S : \A y \in S : <<y, x>> \notin R
  BY <1>1, WFMin
<1>4. ASSUME NEW y \in S
      PROVE  x <= y
  <2>1. x \in Nat /\ y \in Nat
    OBVIOUS
  <2>2. ASSUME y < x
        PROVE  <<y, x>> \in R
    <3> DEFINE p == <<y, x>>
    <3>1. p \in Nat \X Nat /\ p[1] = y /\ p[2] = x
      BY <2>1
    <3> HIDE DEF p
    <3>2. p \in R
      BY <1>2, <2>2, <3>1
    <3> QED
      BY <3>2 DEF p
  <2>3. ~(y < x)
    BY <1>3, <2>2
  <2> QED
    BY <2>1, <2>3
<1> QED
  BY <1>3, <1>4 DEF First

(* The call goes back to its loop without the frame.                          *)
LEMMA LoopGoesOn ==
    ASSUME CaptureSafe, At("assign"), AfterFrame, UNCHANGED <<sess, pics>>
    PROVE  /\ call' \in CallRecord /\ call'.s = call.s /\ call'.op = call.op
           /\ CallPlace' /\ CallSession' /\ (Unfed' <=> Unfed) /\ (Awaiting' <=> Awaiting)
           /\ ~Idle /\ ~Idle' /\ ~At("assign")' /\ ~At("submit") /\ ~At("submit")'
           /\ ~At("feed") /\ ~At("feed")' /\ ~At("starting")'
           /\ sess \in {"live", "eos"} /\ dec.open /\ dec.capCount = CapCount
           /\ call.frame \in Frame /\ call.frame.index \in CapSlots
           /\ call.frame.index < dec.capCount
<1> USE DEF Idle, At
<1>1. TypeOK /\ CallPlace /\ CallSession /\ RingInv /\ call \in CallRecord
  BY SafeParts DEF TypeOK
<1>2. NoFrame \in Frame
  BY TransportAssumption DEF NoFrame, Frame, CapSlots
<1> DEFINE next == IF Flushing THEN "capture" ELSE "drain"
<1>3. next \in {"capture", "drain"} /\ call' = [call EXCEPT !.pc = next, !.frame = NoFrame]
  BY DEF AfterFrame
<1> HIDE DEF next
<1>4. call' \in CallRecord /\ call'.s = call.s /\ call'.op = call.op /\ call'.pc = next
  BY <1>1, <1>2, <1>3 DEF CallRecord
<1>5. call.op \in {"feed", "end", "wait", "ready", "boundary", "destroy"}
  BY <1>1 DEF CallRecord, CallPlace
<1>6. next = IF call.op \in {"boundary", "destroy"} THEN "capture" ELSE "drain"
  BY DEF next, Flushing
<1>7. sess = (IF call.op \in {"feed", "end", "wait"} THEN "live" ELSE "eos")
  BY <1>1 DEF CallSession, Looping
<1>8. CallPlace' /\ CallSession'
  BY <1>4, <1>5, <1>6, <1>7 DEF CallPlace, CallSession, Looping
<1>9. call.frame \in Frame /\ call.frame.index \in CapSlots /\ dec.capCount = CapCount
      /\ call.frame.index < dec.capCount /\ dec.open
  BY <1>1, <1>7, TransportAssumption DEF CallRecord, Frame, RingInv, CapSlots
<1> QED
  BY <1>3, <1>4, <1>5, <1>7, <1>8, <1>9 DEF Unfed, Awaiting

(* The buffer of the frame in hand goes back to the decoder, no other.        *)
LEMMA HandGivenBack ==
    ASSUME CaptureSafe, At("assign"), ~At("assign")', UNCHANGED pend,
           dec.capCount = CapCount, RequeueFrames({call.frame.index})
    PROVE  /\ TransportSafe' /\ UNCHANGED <<dec, freeOut>>
           /\ vdev'.out = vdev.out /\ vdev'.ready = vdev.ready /\ vdev'.fmt = vdev.fmt
           /\ vdev'.capOn = vdev.capOn /\ vdev'.outOn = vdev.outOn
           /\ vdev'.events = vdev.events /\ vdev'.stop = vdev.stop
           /\ \A k \in UsedSlots : ~capQueued'[pend[k].index]
           /\ UsedSlots' = UsedSlots /\ \A s : SlotsOf(s)' = SlotsOf(s)
           /\ \A pic : WithDecoder(pic)' <=> WithDecoder(pic)
           /\ HandSound' /\ Lost = {} /\ Lost' = {}
<1> DEFINE i == call.frame.index
<1>1. TypeOK /\ vdev \in DeviceRecord /\ SlotsSound /\ HandSound /\ TransportSafe
      /\ OnlyLastIsLost /\ i \in CapSlots /\ capQueued \in [CapSlots -> BOOLEAN]
  BY SafeParts DEF TransportTypeOK, TypeOK, CallRecord, Frame
<1>2. i < dec.capCount /\ ~capQueued[i] /\ \A k \in UsedSlots : pend[k].index # i
  BY <1>1, TransportAssumption DEF HandSound, CapSlots
<1>3. Returnable({i}) = {i}
  BY <1>2 DEF Returnable
<1>4. TransportSafe'
  BY <1>1, RequeueFramesKeep
<1> DEFINE cap == vdev.cap \cup {i}
<1>5. /\ UNCHANGED <<dec, freeOut>> /\ vdev' = [vdev EXCEPT !.cap = cap]
      /\ capQueued' = [n \in CapSlots |-> capQueued[n] \/ n \in {i}]
  BY <1>1, <1>3 DEF RequeueFrames, DeviceRecord
<1> HIDE DEF cap, i
<1>6. /\ vdev'.out = vdev.out /\ vdev'.ready = vdev.ready /\ vdev'.fmt = vdev.fmt
      /\ vdev'.capOn = vdev.capOn /\ vdev'.outOn = vdev.outOn
      /\ vdev'.events = vdev.events /\ vdev'.stop = vdev.stop
  BY <1>1, <1>5 DEF DeviceRecord
<1>7. UsedSlots' = UsedSlots
  BY DEF UsedSlots
<1>8. \A s : SlotsOf(s)' = SlotsOf(s)
  BY <1>7 DEF SlotsOf
<1>9. \A k \in UsedSlots : ~capQueued'[pend[k].index]
  <2>1. \A k \in UsedSlots : pend[k].index \in CapSlots /\ ~capQueued[pend[k].index]
    BY <1>1, FieldTypes DEF SlotsSound, SlotSound, UsedSlots
  <2> QED
    BY <1>2, <1>5, <2>1
<1>10. Lost = {}
  BY <1>1 DEF OnlyLastIsLost
<1>11. Lost' = {}
  <2>1. ASSUME NEW n \in CapSlots
        PROVE  n \notin Lost'
    <3>1. n # i => n \notin Hand
      BY DEF Hand, i
    <3>2. n # i /\ n < dec.capCount /\ ~capQueued[n] => \E k \in UsedSlots : pend[k].index = n
      BY <1>10, <3>1 DEF Lost
    <3> QED
      BY <1>1, <1>5, <1>7, <3>2 DEF Lost
  <2> QED
    BY <2>1 DEF Lost
<1>12. HandSound' /\ \A pic : WithDecoder(pic)' <=> WithDecoder(pic)
  BY <1>6 DEF HandSound, WithDecoder
<1> QED
  BY <1>4, <1>5, <1>6, <1>7, <1>8, <1>9, <1>10, <1>11, <1>12

(* The mapping a frame finds is of its picture, and the surface still waits   *)
(* for it; it is the only one.                                                *)
LEMMA TargetOfFrame ==
    ASSUME CaptureSafe, At("assign"), NEW m \in Owed, Fits(m)
    PROVE  /\ m \in mapped /\ m.s \in Surfaces /\ m.pic = call.frame.pic
           /\ ~call.frame.last /\ ~dec.eos
           /\ LET x == srf[m.s]
              IN  /\ x \in SurfaceRecord /\ x.alive /\ x.gen = m.gen /\ x.owned /\ x.queued
                  /\ ~x.decoded /\ x.pic = call.frame.pic /\ x.fence = call.frame.pic
                  /\ x.fence # 0 /\ x.serial # 0 /\ x.serial <= serial /\ x.serial \in Nat
           /\ SlotsOf(m.s) = {} /\ (Unfed => call.s # m.s)
           /\ \A n \in mapped \ Owed : Fits(n) => n.s # m.s
           /\ \A u \in Surfaces :
                 srf[u].alive /\ OwnMapping(u) \in mapped /\ srf[u].pic = call.frame.pic
                 => u = m.s
           /\ Owed = {m}
<1>1. TypeOK /\ MapInv /\ HandSound /\ CallTarget /\ KeysApart
  BY SafeParts
<1>2. m \in mapped /\ m \in Mapping /\ m.s \in Surfaces /\ m.pic \in 1 .. MaxPictures
      /\ m.pic = call.frame.pic
  BY <1>1 DEF Owed, TypeOK, Mapping
<1>3. ~call.frame.last /\ ~dec.eos
  BY <1>1, <1>2 DEF HandSound
<1>4. /\ srf[m.s].alive /\ srf[m.s].gen = m.gen /\ srf[m.s].pic = m.pic
      /\ srf[m.s].fence = m.pic /\ srf[m.s].owned /\ srf[m.s].queued /\ ~srf[m.s].decoded
      /\ SlotsOf(m.s) = {}
  BY <1>1, <1>2 DEF MapInv, Fits
<1>5. Unfed => call.s # m.s
  BY <1>1, <1>2, <1>4 DEF CallTarget, HandSound, TypeOK
<1>6. \A n \in mapped \ Owed : Fits(n) => n.s # m.s
  BY <1>1, <1>2, <1>4 DEF MapInv, Owed
<1>7. Owed = {m}
  BY <1>1, <1>2 DEF MapInv, Owed
<1>8. \A u \in Surfaces :
         OwnMapping(u) \in mapped /\ srf[u].pic = call.frame.pic => u = m.s
  <2>1. ASSUME NEW u \in Surfaces, OwnMapping(u) \in mapped, srf[u].pic = call.frame.pic
        PROVE  u = m.s
    <3>1. OwnMapping(u) = m
      BY <1>1, <1>2, <2>1 DEF MapInv, OwnMapping
    <3> QED
      BY <3>1 DEF OwnMapping
  <2> QED
    BY <2>1
<1> QED
  BY <1>1, <1>2, <1>3, <1>4, <1>5, <1>6, <1>7, <1>8, FieldTypes DEF KeysApart

(* What the copy of a frame, or the CPU, or nobody, leaves once its buffer is *)
(* back: at most the target changed, and it is decoded.                       *)
LEMMA FrameDone ==
    ASSUME CaptureSafe, At("assign"), ~call.frame.last, RequeueFrames({call.frame.index}),
           mapped' = mapped \ Owed, AfterFrame, UNCHANGED <<pend, jobs, sess, pics, opened>>,
           \/ srf' = srf /\ \A m \in Owed : ~Fits(m)
           \/ \E m \in Owed, x \in SurfaceRecord :
                 /\ Fits(m) /\ srf' = [srf EXCEPT ![m.s] = x]
                 /\ x.alive /\ x.gen = srf[m.s].gen /\ x.serial = srf[m.s].serial
                 /\ x.pic = srf[m.s].pic /\ x.px = srf[m.s].pic
                 /\ x.decoded /\ x.init /\ x.queued /\ x.owned /\ x.fence = 0,
           KeysApart', ImportsSound', imports' \subseteq Import,
           Cardinality(imports') <= MaxImports, vk' \in VkRecord, serial' \in Nat,
           imports \subseteq imports',
           \A k \in UsedSlots : vk'.keys[pend[k].index] = vk.keys[pend[k].index]
    PROVE  CaptureSafe'
<1>1. /\ TypeOK /\ MapInv /\ FenceInv /\ SlotsSound /\ SlotsApart /\ JobsPending /\ PixelInv
      /\ RingInv /\ PicsKnown /\ CallTarget /\ OnlyLastIsLost /\ HandSound /\ KeysApart
  BY SafeParts
<1>2. /\ call' \in CallRecord /\ call'.s = call.s /\ call'.op = call.op
      /\ CallPlace' /\ CallSession' /\ (Unfed' <=> Unfed) /\ (Awaiting' <=> Awaiting)
      /\ ~Idle /\ ~At("assign")' /\ ~At("submit") /\ ~At("submit")'
      /\ ~At("feed") /\ ~At("feed")' /\ ~At("starting")'
      /\ sess \in {"live", "eos"} /\ dec.open /\ dec.capCount = CapCount
  BY LoopGoesOn
<1>3. /\ TransportSafe' /\ UNCHANGED <<dec, freeOut>>
      /\ vdev'.out = vdev.out /\ vdev'.ready = vdev.ready /\ vdev'.fmt = vdev.fmt
      /\ vdev'.capOn = vdev.capOn /\ vdev'.outOn = vdev.outOn
      /\ vdev'.events = vdev.events /\ vdev'.stop = vdev.stop
      /\ \A k \in UsedSlots : ~capQueued'[pend[k].index]
      /\ UsedSlots' = UsedSlots /\ \A s : SlotsOf(s)' = SlotsOf(s)
      /\ \A pic : WithDecoder(pic)' <=> WithDecoder(pic)
      /\ HandSound' /\ Lost' = {}
  BY <1>2, HandGivenBack
(* Either nobody is the target, or one surface is, and it is decoded.         *)
<1> DEFINE hit == \E m \in Owed : Fits(m)
           Target(u) == hit /\ \E m \in Owed : Fits(m) /\ u = m.s
<1> HIDE DEF Target
<1>4. \A u \in Surfaces :
         /\ srf'[u] \in SurfaceRecord
         /\ srf'[u].alive = srf[u].alive /\ srf'[u].gen = srf[u].gen
         /\ srf'[u].serial = srf[u].serial /\ srf'[u].pic = srf[u].pic
         /\ ~Target(u) => srf'[u] = srf[u]
         /\ Target(u) => /\ srf'[u].decoded /\ srf'[u].init /\ srf'[u].queued
                         /\ srf'[u].owned /\ srf'[u].fence = 0 /\ srf'[u].px = srf'[u].pic
                         /\ SlotsOf(u) = {} /\ (Unfed => call.s # u)
  <2>1. CASE srf' = srf /\ \A m \in Owed : ~Fits(m)
    BY <1>1, <2>1, FieldTypes DEF Target
  <2>2. CASE \E m \in Owed, x \in SurfaceRecord :
                 /\ Fits(m) /\ srf' = [srf EXCEPT ![m.s] = x]
                 /\ x.alive /\ x.gen = srf[m.s].gen /\ x.serial = srf[m.s].serial
                 /\ x.pic = srf[m.s].pic /\ x.px = srf[m.s].pic
                 /\ x.decoded /\ x.init /\ x.queued /\ x.owned /\ x.fence = 0
    <3>1. PICK m \in Owed, x \in SurfaceRecord :
                 /\ Fits(m) /\ srf' = [srf EXCEPT ![m.s] = x]
                 /\ x.alive /\ x.gen = srf[m.s].gen /\ x.serial = srf[m.s].serial
                 /\ x.pic = srf[m.s].pic /\ x.px = srf[m.s].pic
                 /\ x.decoded /\ x.init /\ x.queued /\ x.owned /\ x.fence = 0
      BY <2>2
    <3>2. m.s \in Surfaces /\ Owed = {m} /\ SlotsOf(m.s) = {} /\ (Unfed => call.s # m.s)
          /\ srf[m.s].alive
      BY <3>1, TargetOfFrame
    <3>3. \A u \in Surfaces : Target(u) <=> u = m.s
      BY <3>1, <3>2 DEF Target
    <3>4. \A u \in Surfaces : srf'[u] = IF u = m.s THEN x ELSE srf[u]
      BY <1>1, <3>1, <3>2 DEF TypeOK
    <3>5. \A u \in Surfaces : srf[u] \in SurfaceRecord /\ srf[u].alive \in BOOLEAN
      BY <1>1, FieldTypes
    <3>6. x.alive = srf[m.s].alive
      BY <3>1, <3>2, <3>5 DEF SurfaceRecord
    <3>7. ASSUME NEW u \in Surfaces
          PROVE  /\ Target(u) => u = m.s /\ srf'[u] = x
                 /\ ~Target(u) => u # m.s /\ srf'[u] = srf[u]
      BY <3>3, <3>4
    <3> QED
      BY <3>1, <3>2, <3>5, <3>6, <3>7
  <2> QED
    BY <2>1, <2>2
<1>5. hit => \A u \in Surfaces :
               srf[u].alive /\ OwnMapping(u) \in mapped /\ srf[u].pic = call.frame.pic
               => Target(u)
  BY TargetOfFrame DEF Target
<1>6. srf' \in [Surfaces -> SurfaceRecord]
  <2>1. DOMAIN srf' = Surfaces /\ srf' = [u \in Surfaces |-> srf'[u]]
    BY <1>1 DEF TypeOK
  <2> QED
    BY <1>4, <2>1
<1>7. CallInv'
  <2>1. CASE call.op = "destroy"
    <3>1. ~Unfed
      BY <1>1, <1>2, <2>1 DEF Unfed, Awaiting, CallPlace
    <3> QED
      BY <1>2, <2>1, <3>1 DEF CallInv, CallTarget
  <2>2. CASE call.op # "destroy"
    <3>1. PICK t \in Surfaces : t = call.s
      BY <1>1, <1>2, <2>2 DEF CallTarget
    <3>2. srf'[t].alive
      BY <1>1, <1>2, <1>4, <2>2, <3>1 DEF CallTarget
    <3>3. Unfed => /\ srf[t].pic = pics /\ pics # 0 /\ ~srf[t].decoded /\ SlotsOf(t) = {}
                   /\ ~Target(t)
      BY <1>1, <1>4, <3>1 DEF CallTarget
    <3>4. Unfed => (srf[t].pic = pics /\ pics # 0 /\ ~srf[t].decoded /\ SlotsOf(t) = {})'
      BY <1>3, <1>4, <3>3
    <3> QED
      BY <1>2, <3>1, <3>2, <3>4 DEF CallInv, CallTarget
  <2> QED
    BY <2>1, <2>2
<1>8. RingInv' /\ PicsKnown'
  BY <1>1, <1>2, <1>3 DEF RingInv, PicsKnown
<1>9. SlotsSound'
  <2>1. ASSUME NEW k \in UsedSlots
        PROVE  SlotSound(k)'
    <3>1. SlotSound(k) /\ pend[k].s \in Surfaces /\ k \in SlotsOf(pend[k].s)
      BY <1>1 DEF SlotsSound, SlotSound, SlotsOf
    <3>2. srf'[pend[k].s] = srf[pend[k].s]
      BY <1>4, <3>1
    <3>3. {e.key : e \in imports} \subseteq {e.key : e \in imports'}
      OBVIOUS
    <3> QED
      BY <1>3, <3>1, <3>2, <3>3 DEF SlotSound
  <2> QED
    BY <1>3, <2>1 DEF SlotsSound
<1>10. SlotsApart' /\ JobsPending'
  BY <1>1, <1>3 DEF SlotsApart, JobsPending
<1>11. OnlyLastIsLost'
  BY <1>1, <1>2, <1>3 DEF OnlyLastIsLost, HandSound
<1>12. MapInv'
  <2>1. \A m \in mapped : m.s \in Surfaces /\ m.pic = m.pic
    BY <1>1 DEF TypeOK, Mapping
  <2>2. \A m \in mapped : Fits(m)' <=> Fits(m)
    BY <1>4, <2>1 DEF Fits
  <2>3. ASSUME NEW m \in mapped', Fits(m)
        PROVE  srf'[m.s] = srf[m.s]
    <3>1. ~Target(m.s)
      BY <2>3, TargetOfFrame DEF Target
    <3> QED
      BY <1>4, <2>1, <2>3, <3>1
  <2> QED
    BY <1>1, <1>2, <1>3, <1>4, <2>1, <2>2, <2>3 DEF MapInv
<1>13. PixelInv'
  <2>1. \A u \in Surfaces : srf'[u].decoded => srf'[u].init /\ srf'[u].queued
    BY <1>1, <1>4 DEF PixelInv
  <2>2. DecodedHoldsTheCopy => DecodedHoldsTheCopy'
    BY <1>4 DEF DecodedHoldsTheCopy
  <2>3. \A k \in UsedSlots : pend[k].s \in Surfaces /\ srf'[pend[k].s] = srf[pend[k].s]
    BY <1>1, <1>4 DEF SlotsSound, SlotSound, SlotsOf
  <2> QED
    BY <1>1, <1>3, <2>1, <2>2, <2>3 DEF PixelInv
<1>14. FenceInv'
  <2>1. ASSUME NEW u \in Surfaces, srf'[u].fence # 0
        PROVE  /\ srf'[u] = srf[u] /\ SlotsOf(u)' = SlotsOf(u) /\ OwnMapping(u)' = OwnMapping(u)
               /\ srf[u].alive /\ OwnMapping(u) \in mapped => OwnMapping(u) \in mapped'
                                                          /\ srf[u].pic # call.frame.pic
    <3>1. ~Target(u) /\ srf'[u] = srf[u]
      BY <1>4, <2>1
    <3>2. ASSUME srf[u].alive, OwnMapping(u) \in mapped, srf[u].pic = call.frame.pic
          PROVE  FALSE
      <4>1. OwnMapping(u) \in Owed /\ Fits(OwnMapping(u))
        BY <3>2 DEF Owed, Fits, OwnMapping
      <4> QED
        BY <1>5, <3>1, <3>2, <4>1
    <3>3. srf[u].alive /\ OwnMapping(u) \in mapped => OwnMapping(u) \in mapped'
      BY <3>2 DEF Owed, OwnMapping
    <3> QED
      BY <1>3, <3>1, <3>2, <3>3 DEF OwnMapping
  <2> QED
    BY <1>1, <1>2, <1>3, <1>4, <2>1 DEF FenceInv
<1>15. TypeOK'
  BY <1>1, <1>2, <1>3, <1>6 DEF TypeOK, TransportSafe
<1> QED
  BY <1>3, <1>7, <1>8, <1>9, <1>10, <1>11, <1>12, <1>13, <1>14, <1>15
  DEF CaptureSafe, CaptureInv, TransportSafe

(* The keys with the one of the frame among them, and g_buffer_serial then.   *)
Keyed == [vk.keys EXCEPT ![call.frame.index] = FrameKey]
Upper == IF FrameKey > serial THEN FrameKey ELSE serial

(* The key of a frame is nobody else's, old or new.                           *)
LEMMA FrameKeyIsOwn ==
    ASSUME CaptureSafe
    PROVE  /\ call.frame.index \in CapSlots
           /\ FrameKey \in Nat \ {0} /\ Upper \in Nat /\ FrameKey <= Upper /\ serial <= Upper
           /\ Keyed \in [CapSlots -> Nat] /\ Keyed[call.frame.index] = FrameKey
           /\ \A i \in CapSlots :
                 /\ i # call.frame.index => Keyed[i] = vk.keys[i] /\ Keyed[i] # FrameKey
                 /\ vk.keys[i] # 0 => Keyed[i] = vk.keys[i]
           /\ \A s \in Surfaces : srf[s].serial # FrameKey
<1> DEFINE i == call.frame.index
<1>1. /\ TypeOK /\ KeysApart /\ i \in CapSlots /\ vk.keys \in [CapSlots -> Nat] /\ serial \in Nat
      /\ \A s \in Surfaces : srf[s].serial \in Nat /\ srf[s].serial <= serial
  BY SafeParts, FieldTypes DEF TypeOK, CallRecord, Frame, VkRecord, KeysApart
<1>2. FrameKey = IF vk.keys[i] = 0 THEN serial + 1 ELSE vk.keys[i]
  BY DEF FrameKey
<1> HIDE DEF i
<1>3. /\ FrameKey \in Nat \ {0} /\ Upper \in Nat /\ FrameKey <= Upper /\ serial <= Upper
      /\ \A s \in Surfaces : srf[s].serial # FrameKey
  BY <1>1, <1>2 DEF KeysApart, Upper
<1>4. /\ Keyed \in [CapSlots -> Nat] /\ Keyed[i] = FrameKey
      /\ \A n \in CapSlots : n # i => Keyed[n] = vk.keys[n]
  BY <1>1, <1>3 DEF Keyed, i
<1>5. \A n \in CapSlots : n # i => vk.keys[n] # FrameKey
  <2>1. ASSUME NEW n \in CapSlots, n # i, vk.keys[n] = FrameKey
        PROVE  FALSE
    <3>1. vk.keys[n] <= serial /\ vk.keys[n] \in Nat /\ vk.keys[i] \in Nat
      BY <1>1 DEF KeysApart
    <3>2. vk.keys[i] # 0 /\ vk.keys[i] = FrameKey
      BY <1>1, <1>2, <2>1, <3>1
    <3> QED
      BY <1>1, <1>3, <2>1, <3>2 DEF KeysApart
  <2> QED
    BY <2>1
<1> QED
  BY <1>1, <1>2, <1>3, <1>4, <1>5 DEF i

(* An entry made for its key, with the keys the frame leaves.                 *)
EntrySound(e) ==
    /\ e.key # 0 /\ e.key <= Upper
    /\ \/ e.mem = Backing(e.key) /\ \A i \in CapSlots : Keyed[i] # e.key
       \/ \E i \in CapSlots :
             e.key = Keyed[i] /\ e.mem = [session |-> opened, gen |-> vk.gen, index |-> i]

LEMMA CacheSound ==
    ASSUME CaptureSafe, At("assign"), vk.gen = call.frame.gen, NEW m \in Owed, Fits(m)
    PROVE  \A C \in {imports, WithSource, WithBoth(m)} :
              /\ C \in SUBSET Import /\ IsFiniteSet(C) /\ imports \subseteq C
              /\ \A e \in C : EntrySound(e)
<1> DEFINE i == call.frame.index
           source == [key |-> FrameKey, mem |-> Buffer(call.frame)]
           dest == [key |-> srf[m.s].serial, mem |-> Backing(srf[m.s].serial)]
<1>1. /\ TypeOK /\ KeysApart /\ ImportsSound /\ imports \in SUBSET Import /\ serial \in Nat
      /\ call.frame.gen \in Nat /\ i \in Nat /\ opened \in Nat
  BY SafeParts, CaptureAssumption, TransportAssumption
  DEF TypeOK, CallRecord, Frame, CapSlots
<1>2. /\ i \in CapSlots
      /\ FrameKey \in Nat \ {0} /\ Upper \in Nat /\ FrameKey <= Upper /\ serial <= Upper
      /\ Keyed \in [CapSlots -> Nat] /\ Keyed[i] = FrameKey
      /\ \A n \in CapSlots :
            /\ n # i => Keyed[n] = vk.keys[n] /\ Keyed[n] # FrameKey
            /\ vk.keys[n] # 0 => Keyed[n] = vk.keys[n]
      /\ \A s \in Surfaces : srf[s].serial # FrameKey
  BY FrameKeyIsOwn
<1>3. m.s \in Surfaces /\ srf[m.s].serial \in Nat /\ srf[m.s].serial # 0
      /\ srf[m.s].serial <= serial /\ srf[m.s].serial <= Upper
  <2>1. m.s \in Surfaces /\ srf[m.s].serial \in Nat /\ srf[m.s].serial # 0
        /\ srf[m.s].serial <= serial
    BY TargetOfFrame
  <2> QED
    BY <1>1, <1>2, <2>1
<1>4. source \in Import /\ dest \in Import
  BY <1>1, <1>2, <1>3 DEF Import, Memory, Buffer, Backing
<1>5. EntrySound(source)
  BY <1>1, <1>2 DEF EntrySound, Buffer
<1>6. EntrySound(dest)
  <2>1. \A n \in CapSlots : Keyed[n] # srf[m.s].serial
    <3>1. ASSUME NEW n \in CapSlots, Keyed[n] = srf[m.s].serial
          PROVE  FALSE
      <4>1. n # i /\ vk.keys[n] = srf[m.s].serial
        BY <1>2, <1>3, <3>1
      <4> QED
        BY <1>1, <1>3, <4>1 DEF KeysApart
    <3> QED
      BY <3>1
  <2> QED
    BY <1>3, <2>1 DEF EntrySound
<1>7. \A e \in imports : EntrySound(e)
  <2>1. ASSUME NEW e \in imports
        PROVE  EntrySound(e)
    <3>1. e.key # 0 /\ e.key <= serial /\ e.key \in Nat /\ e.key <= Upper
      BY <1>1, <1>2 DEF ImportsSound, Import
    <3>2. CASE e.mem = Backing(e.key) /\ e.key \notin CaptureKeys
      <4>1. \A n \in CapSlots : Keyed[n] # e.key
        <5>1. \A n \in CapSlots : vk.keys[n] # e.key
          BY <3>2 DEF CaptureKeys
        <5>2. FrameKey # e.key
          BY <1>1, <1>2, <3>1, <5>1 DEF FrameKey
        <5> QED
          BY <1>2, <5>1, <5>2
      <4> QED
        BY <3>1, <3>2, <4>1 DEF EntrySound
    <3>3. CASE \E n \in CapSlots :
                  e.key = vk.keys[n]
                  /\ e.mem = [session |-> opened, gen |-> vk.gen, index |-> n]
      BY <1>2, <3>1, <3>3 DEF EntrySound
    <3> QED
      BY <1>1, <3>2, <3>3 DEF ImportsSound
  <2> QED
    BY <2>1
<1>8. /\ WithSource \in {imports, imports \cup {source}}
      /\ WithBoth(m) \in {WithSource, WithSource \cup {dest}}
  BY DEF WithSource, WithBoth, Imported
<1> HIDE DEF source, dest
<1>9. IsFiniteSet(imports) /\ IsFiniteSet(imports \cup {source})
      /\ IsFiniteSet(imports \cup {dest}) /\ IsFiniteSet((imports \cup {source}) \cup {dest})
  BY <1>1, FS_AddElement DEF ImportsSound
<1> QED
  BY <1>1, <1>4, <1>5, <1>6, <1>7, <1>8, <1>9

(* import_buffer leaves an entry with the key.                                *)
LEMMA ImportedHasKey ==
    ASSUME NEW cache, NEW key, NEW mem
    PROVE  /\ \E e \in Imported(cache, key, mem) : e.key = key
           /\ cache \subseteq Imported(cache, key, mem)
<1> DEFINE new == [key |-> key, mem |-> mem]
<1>1. new.key = key
  OBVIOUS
<1> HIDE DEF new
<1>2. Imported(cache, key, mem) =
         IF \E e \in cache : e.key = key THEN cache ELSE cache \cup {new}
  BY DEF Imported, new
<1> QED
  BY <1>1, <1>2

(* So the job reads the frame and writes the target.                          *)
LEMMA CopyIsWhole ==
    ASSUME CaptureSafe, At("assign"), vk.gen = call.frame.gen, NEW m \in Owed, Fits(m)
    PROVE  /\ Intact(m)
           /\ MemoryAt(WithBoth(m), srf[m.s].serial) = Backing(srf[m.s].serial)
           /\ {FrameKey, srf[m.s].serial} \subseteq {e.key : e \in WithBoth(m)}
<1> DEFINE to == srf[m.s].serial
<1>1. /\ Keyed[call.frame.index] = FrameKey /\ call.frame.index \in CapSlots
      /\ \A n \in CapSlots : n # call.frame.index => Keyed[n] # FrameKey /\ Keyed[n] = vk.keys[n]
      /\ \A s \in Surfaces : srf[s].serial # FrameKey
  BY FrameKeyIsOwn
<1>2. \A e \in WithBoth(m) : EntrySound(e)
  BY CacheSound
<1>3. m.s \in Surfaces /\ to # 0
  BY TargetOfFrame
<1>4. \E e \in WithSource : e.key = FrameKey
  BY ImportedHasKey DEF WithSource
<1>5. (\E e \in WithBoth(m) : e.key = FrameKey) /\ \E e \in WithBoth(m) : e.key = to
  <2>1. (\E e \in WithBoth(m) : e.key = to) /\ WithSource \subseteq WithBoth(m)
    BY ImportedHasKey DEF WithBoth
  <2> QED
    BY <1>4, <2>1
<1>6. MemoryAt(WithBoth(m), FrameKey) = Buffer(call.frame)
  <2> DEFINE e == CHOOSE x \in WithBoth(m) : x.key = FrameKey
  <2>1. e \in WithBoth(m) /\ e.key = FrameKey
    BY <1>5
  <2> HIDE DEF e
  <2>2. e.mem = Buffer(call.frame)
    BY <1>1, <1>2, <2>1 DEF EntrySound, Buffer
  <2> QED
    BY <2>2 DEF MemoryAt, e
<1>7. MemoryAt(WithBoth(m), to) = Backing(to)
  <2> DEFINE e == CHOOSE x \in WithBoth(m) : x.key = to
  <2>1. e \in WithBoth(m) /\ e.key = to
    BY <1>5
  <2> HIDE DEF e
  <2>2. \A n \in CapSlots : Keyed[n] # to
    <3>1. ASSUME NEW n \in CapSlots, Keyed[n] = to
          PROVE  FALSE
      <4>1. n # call.frame.index /\ vk.keys[n] = to
        BY <1>1, <1>3, <3>1
      <4> QED
        BY <1>3, <4>1, SafeParts DEF KeysApart
    <3> QED
      BY <3>1
  <2>3. e.mem = Backing(to)
    BY <1>2, <2>1, <2>2 DEF EntrySound
  <2> QED
    BY <2>3 DEF MemoryAt, e
<1> QED
  BY <1>5, <1>6, <1>7 DEF Intact

(* The frame took its key, and the cache what the copy needs or a part of it. *)
LEMMA KeyingKeeps ==
    ASSUME CaptureSafe, At("assign"), vk.gen = call.frame.gen, NEW m \in Owed, Fits(m),
           UNCHANGED <<dec, sess, opened>>, serial' = Upper,
           vk' \in VkRecord, vk'.keys = Keyed, vk'.gen = vk.gen,
           imports' \in {imports, WithSource, WithBoth(m)},
           \A s \in Surfaces : srf'[s].serial = srf[s].serial /\ srf'[s].alive = srf[s].alive
    PROVE  /\ KeysApart' /\ ImportsSound' /\ imports' \subseteq Import /\ serial' \in Nat
           /\ imports \subseteq imports'
           /\ \A k \in UsedSlots : vk'.keys[pend[k].index] = vk.keys[pend[k].index]
<1>1. /\ TypeOK /\ KeysApart /\ SlotsSound /\ HandSound /\ CallSession /\ RingInv /\ serial \in Nat
      /\ \A s \in Surfaces : srf[s].serial \in Nat
  BY SafeParts, FieldTypes DEF TypeOK
<1>2. /\ call.frame.index \in CapSlots
      /\ FrameKey \in Nat \ {0} /\ Upper \in Nat /\ FrameKey <= Upper /\ serial <= Upper
      /\ Keyed \in [CapSlots -> Nat] /\ Keyed[call.frame.index] = FrameKey
      /\ \A n \in CapSlots :
            /\ n # call.frame.index => Keyed[n] = vk.keys[n] /\ Keyed[n] # FrameKey
            /\ vk.keys[n] # 0 => Keyed[n] = vk.keys[n]
      /\ \A s \in Surfaces : srf[s].serial # FrameKey
  BY FrameKeyIsOwn
<1>3. vk.gen = dec.gen /\ dec.capCount # 0
  BY <1>1, TransportAssumption DEF HandSound, CallSession, RingInv, Looping, At
<1>4. KeysApart'
  <2>1. \A s \in Surfaces :
           srf'[s].serial <= serial' /\ (srf'[s].alive => srf'[s].serial # 0)
    BY <1>1, <1>2 DEF KeysApart
  <2>2. \A s, t \in Surfaces : srf'[s].serial = srf'[t].serial /\ srf'[s].serial # 0 => s = t
    BY <1>1 DEF KeysApart
  <2>3. ASSUME NEW n \in CapSlots
        PROVE  /\ vk'.keys[n] <= serial'
               /\ vk'.keys[n] # 0 => /\ vk'.gen = dec'.gen /\ dec'.capCount # 0
                                     /\ \A s \in Surfaces : srf'[s].serial # vk'.keys[n]
                                     /\ \A j \in CapSlots : vk'.keys[j] = vk'.keys[n] => j = n
    <3>1. CASE n = call.frame.index
      BY <1>2, <1>3, <3>1
    <3>2. CASE n # call.frame.index
      <4>1. Keyed[n] = vk.keys[n] /\ vk.keys[n] \in Nat /\ vk.keys[n] <= serial
        BY <1>1, <1>2, <3>2 DEF KeysApart
      <4>2. vk.keys[n] <= Upper
        BY <1>1, <1>2, <4>1
      <4>3. vk.keys[n] # 0 => \A j \in CapSlots : Keyed[j] = vk.keys[n] => j = n
        BY <1>1, <1>2, <3>2, <4>1 DEF KeysApart
      <4> QED
        BY <1>1, <1>3, <4>1, <4>2, <4>3 DEF KeysApart
    <3> QED
      BY <3>1, <3>2
  <2> QED
    BY <2>1, <2>2, <2>3 DEF KeysApart
<1>5. PICK C \in {imports, WithSource, WithBoth(m)} : imports' = C
  OBVIOUS
<1>6. C \in SUBSET Import /\ IsFiniteSet(C) /\ imports \subseteq C /\ \A e \in C : EntrySound(e)
  BY CacheSound
<1>7. ImportsSound'
  <2>1. CaptureKeys' = {Keyed[n] : n \in CapSlots}
    BY DEF CaptureKeys
  <2>2. ASSUME NEW e \in C
        PROVE  /\ e.key # 0 /\ e.key <= serial'
               /\ \/ e.mem = Backing(e.key) /\ e.key \notin CaptureKeys'
                  \/ \E n \in CapSlots :
                        e.key = vk'.keys[n]
                        /\ e.mem = [session |-> opened', gen |-> vk'.gen, index |-> n]
    BY <1>6, <2>1 DEF EntrySound
  <2> QED
    BY <1>5, <1>6, <2>2 DEF ImportsSound
<1>8. \A k \in UsedSlots : vk'.keys[pend[k].index] = vk.keys[pend[k].index]
  <2>1. \A k \in UsedSlots : pend[k].index \in CapSlots /\ vk.keys[pend[k].index] # 0
    BY <1>1, FieldTypes DEF SlotsSound, SlotSound, UsedSlots
  <2> QED
    BY <1>2, <2>1
<1> QED
  BY <1>2, <1>4, <1>5, <1>6, <1>7, <1>8

-----------------------------------------------------------------------------
(* assign_frame                                                               *)

LEMMA DropFrameKeeps == CaptureSafe /\ DropFrame => CaptureSafe'
<1> SUFFICES ASSUME CaptureSafe, DropFrame PROVE CaptureSafe'
  OBVIOUS
<1>1. /\ TypeOK /\ KeysApart /\ ImportsSound
      /\ At("assign") /\ ~call.frame.last /\ \A m \in Owed : ~Fits(m)
      /\ RequeueFrames({call.frame.index}) /\ mapped' = mapped \ Owed /\ AfterFrame
      /\ UNCHANGED <<engine, sess, pics, opened, srf>>
  BY SafeParts DEF DropFrame
<1>2. UNCHANGED <<dec, imports, vk, serial, pend, jobs>>
  BY <1>1 DEF RequeueFrames, engine
<1>3. KeysApart'
  BY <1>1, <1>2 DEF KeysApart
<1>4. ImportsSound'
  BY <1>1, <1>2 DEF ImportsSound, CaptureKeys
<1>5. /\ imports' \subseteq Import /\ Cardinality(imports') <= MaxImports
      /\ vk' \in VkRecord /\ serial' \in Nat
  BY <1>1, <1>2 DEF TypeOK
<1> QED
  BY <1>1, <1>2, <1>3, <1>4, <1>5, FrameDone

(* LAST that no flush waits for ends the session.                             *)
LEMMA DropLastKeeps == CaptureSafe /\ DropLast => CaptureSafe'
<1> SUFFICES ASSUME CaptureSafe, DropLast PROVE CaptureSafe'
  OBVIOUS
<1> USE DEF Idle, At
<1>1. /\ TypeOK /\ CallSession /\ RingInv /\ PicsKnown /\ SlotsSound /\ SlotsApart /\ JobsPending
      /\ KeysApart /\ ImportsSound /\ MapInv /\ PixelInv /\ FenceInv
      /\ call.pc = "assign" /\ sess' = "dead" /\ Return
      /\ RequeueFrames({call.frame.index})
      /\ UNCHANGED <<engine, mapped, pics, opened, srf>>
  BY SafeParts DEF DropLast
<1>2. sess \in {"live", "eos"} /\ dec.capCount = CapCount
  BY <1>1 DEF CallSession, RingInv, Looping
<1>3. call' \in CallRecord /\ call'.pc = "idle" /\ call'.op = "none" /\ ~Unfed' /\ ~Awaiting'
  BY <1>1, CallMoves DEF Unfed, Awaiting
<1>4. /\ TransportSafe' /\ UNCHANGED <<dec, freeOut>>
      /\ vdev'.out = vdev.out /\ vdev'.ready = vdev.ready /\ vdev'.fmt = vdev.fmt
      /\ vdev'.capOn = vdev.capOn /\ vdev'.outOn = vdev.outOn
      /\ vdev'.events = vdev.events /\ vdev'.stop = vdev.stop
      /\ \A k \in UsedSlots : ~capQueued'[pend[k].index]
      /\ UsedSlots' = UsedSlots /\ \A s : SlotsOf(s)' = SlotsOf(s)
      /\ HandSound' /\ Lost' = {}
  BY <1>1, <1>2, <1>3, HandGivenBack DEF engine
<1>5. UNCHANGED <<dec, imports, vk, serial, pend, jobs>>
  BY <1>1, <1>4 DEF engine
<1>6. KeysApart'
  BY <1>1, <1>5 DEF KeysApart
<1>7. ImportsSound'
  BY <1>1, <1>5 DEF ImportsSound, CaptureKeys
<1>8. SlotsSound' /\ SlotsApart' /\ JobsPending'
  <2>1. ASSUME NEW k \in UsedSlots
        PROVE  SlotSound(k)'
    BY <1>1, <1>4, <1>5 DEF SlotsSound, SlotSound
  <2> QED
    BY <1>1, <1>4, <1>5, <2>1 DEF SlotsSound, SlotsApart, JobsPending
<1>9. CallInv' /\ RingInv' /\ PicsKnown'
  <2>1. CallInv'
    BY <1>1, <1>3 DEF CallInv, CallPlace, CallSession, CallTarget, Looping
  <2>2. RingInv'
    BY <1>1, <1>2, <1>3, <1>4 DEF RingInv
  <2> QED
    BY <1>1, <1>3, <1>4, <2>1, <2>2 DEF PicsKnown
<1>10. OnlyLastIsLost'
  BY <1>1, <1>4 DEF OnlyLastIsLost
<1>11. MapInv'
  BY <1>1, <1>3, <1>4, <1>5, MapStands DEF MapInv
<1>12. PixelInv'
  BY <1>1, <1>4, <1>5 DEF PixelInv, DecodedHoldsTheCopy
<1>13. FenceInv'
  BY <1>1, <1>5, FenceStands
<1>14. TypeOK'
  BY <1>1, <1>3, <1>4, <1>5 DEF TypeOK, TransportSafe
<1> QED
  BY <1>4, <1>6, <1>7, <1>8, <1>9, <1>10, <1>11, <1>12, <1>13, <1>14
  DEF CaptureSafe, CaptureInv, TransportSafe

(* What AssignFrame leaves when the frame's buffer is back with the decoder.  *)
LEMMA CopiedKeeps ==
    ASSUME CaptureSafe, At("assign"), NEW m \in Owed, Fits(m), NEW x \in SurfaceRecord,
           srf' = [srf EXCEPT ![m.s] = x], x.alive, x.gen = srf[m.s].gen,
           x.serial = srf[m.s].serial, x.pic = srf[m.s].pic, x.px = srf[m.s].pic,
           x.decoded, x.init, x.queued, x.owned, x.fence = 0,
           RequeueFrames({call.frame.index}), UNCHANGED <<pend, jobs>>,
           mapped' = mapped \ Owed, AfterFrame, UNCHANGED <<sess, pics, opened>>,
           \/ UNCHANGED <<imports, vk, serial>>
           \/ /\ vk.gen = call.frame.gen /\ serial' = Upper
              /\ vk' \in VkRecord /\ vk'.keys = Keyed /\ vk'.gen = vk.gen
              /\ imports' \in {imports, WithSource, WithBoth(m)}
              /\ Cardinality(imports') <= MaxImports
    PROVE  CaptureSafe'
<1>1. TypeOK /\ KeysApart /\ ImportsSound /\ srf[m.s].alive \in BOOLEAN
      /\ m.s \in Surfaces /\ ~call.frame.last /\ srf[m.s].alive
  BY SafeParts, TargetOfFrame, FieldTypes
<1>2. UNCHANGED dec
  BY DEF RequeueFrames
<1>3. \A s \in Surfaces : srf'[s].serial = srf[s].serial /\ srf'[s].alive = srf[s].alive
  <2>1. x.alive = srf[m.s].alive
    BY <1>1 DEF SurfaceRecord
  <2>2. \A s \in Surfaces : srf'[s] = IF s = m.s THEN x ELSE srf[s]
    BY <1>1 DEF TypeOK
  <2> QED
    BY <2>1, <2>2
<1>4. /\ KeysApart' /\ ImportsSound' /\ imports' \subseteq Import /\ serial' \in Nat
      /\ imports \subseteq imports' /\ vk' \in VkRecord
      /\ Cardinality(imports') <= MaxImports
      /\ \A k \in UsedSlots : vk'.keys[pend[k].index] = vk.keys[pend[k].index]
  <2>1. CASE UNCHANGED <<imports, vk, serial>>
    <3>1. KeysApart'
      BY <1>1, <1>2, <1>3, <2>1 DEF KeysApart
    <3>2. ImportsSound'
      BY <1>1, <2>1 DEF ImportsSound, CaptureKeys
    <3> QED
      BY <1>1, <2>1, <3>1, <3>2 DEF TypeOK
  <2>2. CASE /\ vk.gen = call.frame.gen /\ serial' = Upper
             /\ vk' \in VkRecord /\ vk'.keys = Keyed /\ vk'.gen = vk.gen
             /\ imports' \in {imports, WithSource, WithBoth(m)}
             /\ Cardinality(imports') <= MaxImports
    BY <1>2, <1>3, <2>2, KeyingKeeps
  <2> QED
    BY <2>1, <2>2
<1> QED
  BY <1>1, <1>4, FrameDone

(* The target after a copy shows the picture it was begun for.                *)
LEMMA CopiedSurface ==
    ASSUME CaptureSafe, At("assign"), NEW m \in Owed, Fits(m),
           NEW x \in {[Landed(srf[m.s]) EXCEPT !.px = call.frame.pic],
                      Landed(Copied(srf[m.s]))}
    PROVE  /\ x \in SurfaceRecord /\ x.alive /\ x.gen = srf[m.s].gen
           /\ x.serial = srf[m.s].serial /\ x.pic = srf[m.s].pic /\ x.px = srf[m.s].pic
           /\ x.decoded /\ x.init /\ x.queued /\ x.owned /\ x.fence = 0
<1> DEFINE o == srf[m.s]
<1>1. /\ o \in SurfaceRecord /\ o.alive /\ o.pic = call.frame.pic
      /\ call.frame.pic \in 0 .. Torn /\ 0 \in 0 .. MaxPictures
  <2>1. o \in SurfaceRecord /\ o.alive /\ o.pic = call.frame.pic
    BY TargetOfFrame
  <2>2. o.pic \in 0 .. MaxPictures
    BY <2>1 DEF SurfaceRecord
  <2> HIDE DEF o
  <2> QED
    BY <2>1, <2>2, CaptureAssumption DEF Torn
<1> HIDE DEF o
<1>2. CASE x = [Landed(o) EXCEPT !.px = call.frame.pic]
  <2> DEFINE y == Landed(o)
  <2>1. /\ y \in SurfaceRecord /\ y.decoded /\ y.init /\ y.queued /\ y.owned /\ y.fence = 0
        /\ y.alive = o.alive /\ y.gen = o.gen /\ y.serial = o.serial /\ y.pic = o.pic
    BY <1>1, SurfacesTyped
  <2> HIDE DEF y
  <2>2. x = [y EXCEPT !.px = call.frame.pic]
    BY <1>2 DEF y
  <2>3. /\ x \in SurfaceRecord /\ x.alive = o.alive /\ x.gen = o.gen /\ x.serial = o.serial
        /\ x.pic = o.pic /\ x.px = o.pic
        /\ x.decoded /\ x.init /\ x.queued /\ x.owned /\ x.fence = 0
    BY <1>1, <2>1, <2>2 DEF SurfaceRecord
  <2> QED
    BY <1>1, <2>3 DEF o
<1>3. CASE x = Landed(Copied(o))
  <2> DEFINE y == Copied(o)
  <2>1. /\ y \in SurfaceRecord /\ y.alive = o.alive /\ y.gen = o.gen
        /\ y.serial = o.serial /\ y.pic = o.pic /\ y.px = o.pic
    BY <1>1 DEF Copied, SurfaceRecord
  <2> HIDE DEF y
  <2>2. x = Landed(y)
    BY <1>3 DEF y
  <2>3. /\ x \in SurfaceRecord /\ x.alive = o.alive /\ x.gen = o.gen /\ x.serial = o.serial
        /\ x.pic = o.pic /\ x.px = o.pic
        /\ x.decoded /\ x.init /\ x.queued /\ x.owned /\ x.fence = 0
    BY <2>1, <2>2, SurfacesTyped
  <2> QED
    BY <1>1, <2>3 DEF o
<1> QED
  BY <1>2, <1>3 DEF o

(* vpu_vk_copy_dmabuf and surface_copy, on the GPU path or after it failed.   *)
LEMMA CopyNowKeeps ==
    ASSUME CaptureSafe, At("assign"), NEW m \in Owed, Fits(m),
           \/ GpuPath /\ (DirectCopy(m) \/ CopyFails(m))
           \/ vk.failed /\ CpuCopy(m) /\ UNCHANGED <<imports, vk, serial>>,
           mapped' = mapped \ Owed, AfterFrame, UNCHANGED <<sess, pics, opened>>
    PROVE  CaptureSafe'
<1>1. /\ TypeOK /\ vk \in VkRecord /\ Cardinality(imports) <= MaxImports
      /\ Keyed \in [CapSlots -> Nat] /\ call.frame.index \in CapSlots
  BY SafeParts, FrameKeyIsOwn DEF TypeOK
<1>2. CASE GpuPath /\ DirectCopy(m)
  <2> DEFINE x == [Landed(srf[m.s]) EXCEPT !.px = call.frame.pic]
  <2>1. Intact(m) /\ vk.gen = call.frame.gen
    BY <1>2, CopyIsWhole DEF GpuPath
  <2>2. /\ srf' = [srf EXCEPT ![m.s] = x]
        /\ RequeueFrames({call.frame.index}) /\ UNCHANGED <<pend, jobs>>
        /\ imports' = WithBoth(m) /\ Cardinality(WithBoth(m)) <= MaxImports
        /\ serial' = Upper
    BY <1>2, <2>1 DEF DirectCopy, CanSubmit, KeyTaken, Upper
  <2>3. vk' \in VkRecord /\ vk'.keys = Keyed /\ vk'.gen = vk.gen
    <3>1. vk' = [vk EXCEPT !.keys = Keyed]
      BY <1>2 DEF DirectCopy, KeyTaken, Keyed
    <3> QED
      BY <1>1, <3>1 DEF VkRecord
  <2>4. /\ x \in SurfaceRecord /\ x.alive /\ x.gen = srf[m.s].gen
        /\ x.serial = srf[m.s].serial /\ x.pic = srf[m.s].pic /\ x.px = srf[m.s].pic
        /\ x.decoded /\ x.init /\ x.queued /\ x.owned /\ x.fence = 0
    BY CopiedSurface
  <2> HIDE DEF x
  <2> QED
    BY <2>1, <2>2, <2>3, <2>4, CopiedKeeps
<1> DEFINE y == Landed(Copied(srf[m.s]))
<1>3. /\ y \in SurfaceRecord /\ y.alive /\ y.gen = srf[m.s].gen
      /\ y.serial = srf[m.s].serial /\ y.pic = srf[m.s].pic /\ y.px = srf[m.s].pic
      /\ y.decoded /\ y.init /\ y.queued /\ y.owned /\ y.fence = 0
  BY CopiedSurface
<1>4. CpuCopy(m) => /\ srf' = [srf EXCEPT ![m.s] = y]
                    /\ RequeueFrames({call.frame.index}) /\ UNCHANGED <<pend, jobs>>
  BY DEF CpuCopy
<1> HIDE DEF y
<1>5. CASE GpuPath /\ CopyFails(m)
  <2>1. /\ vk.gen = call.frame.gen /\ serial' = Upper /\ CpuCopy(m)
        /\ imports' \in {imports, WithSource, WithBoth(m)}
        /\ Cardinality(imports') <= MaxImports
    BY <1>5 DEF GpuPath, CopyFails, Upper
  <2>2. vk' \in VkRecord /\ vk'.keys = Keyed /\ vk'.gen = vk.gen
    <3>1. vk' = [vk EXCEPT !.keys = Keyed, !.failed = TRUE]
      BY <1>5 DEF CopyFails, Keyed
    <3> QED
      BY <1>1, <3>1 DEF VkRecord
  <2> QED
    BY <1>3, <1>4, <2>1, <2>2, CopiedKeeps
<1>6. CASE vk.failed /\ CpuCopy(m) /\ UNCHANGED <<imports, vk, serial>>
  BY <1>3, <1>4, <1>6, CopiedKeeps
<1> QED
  BY <1>2, <1>5, <1>6

(* The asynchronous path: the frame stays out with a slot of its own.         *)
LEMMA AsyncCopyKeeps ==
    ASSUME CaptureSafe, At("assign"), NEW m \in Owed, Fits(m), GpuPath, AsyncCopy(m),
           mapped' = mapped \ Owed, AfterFrame, UNCHANGED <<sess, pics, opened>>
    PROVE  CaptureSafe'
<1> DEFINE f == call.frame
           t == m.s
           job == QueuedJob(m)
<1>1. /\ TypeOK /\ MapInv /\ FenceInv /\ SlotsSound /\ SlotsApart /\ JobsPending /\ PixelInv
      /\ RingInv /\ PicsKnown /\ CallTarget /\ OnlyLastIsLost /\ HandSound /\ KeysApart
      /\ TransportSafe /\ vk \in VkRecord
  BY SafeParts DEF TypeOK
<1>2. /\ call' \in CallRecord /\ call'.s = call.s /\ call'.op = call.op
      /\ CallPlace' /\ CallSession' /\ (Unfed' <=> Unfed) /\ (Awaiting' <=> Awaiting)
      /\ ~Idle /\ ~At("assign")' /\ ~At("submit") /\ ~At("submit")'
      /\ ~At("feed") /\ ~At("feed")' /\ ~At("starting")'
      /\ sess \in {"live", "eos"} /\ dec.open /\ f.index \in CapSlots /\ f.index < dec.capCount
      /\ f \in Frame
  BY LoopGoesOn
<1>3. /\ m \in mapped /\ t \in Surfaces /\ m.pic = f.pic /\ ~f.last /\ ~dec.eos
      /\ srf[t] \in SurfaceRecord /\ srf[t].alive /\ srf[t].gen = m.gen /\ srf[t].owned
      /\ srf[t].queued /\ ~srf[t].decoded /\ srf[t].pic = f.pic /\ srf[t].fence = f.pic
      /\ srf[t].fence # 0 /\ srf[t].serial # 0 /\ srf[t].serial \in Nat
      /\ SlotsOf(t) = {} /\ (Unfed => call.s # t)
      /\ \A n \in mapped \ Owed : Fits(n) => n.s # t
      /\ \A u \in Surfaces :
            srf[u].alive /\ OwnMapping(u) \in mapped /\ srf[u].pic = f.pic => u = t
  BY TargetOfFrame
<1>4. PICK k \in Slots, j \in Jobs :
         /\ k = First(FreeSlots) /\ k \notin UsedSlots
         /\ j = First(FreeJobs) /\ ~jobs[j].inUse
  <2>1. FreeSlots \in SUBSET Nat /\ FreeJobs \in SUBSET Nat
    BY CaptureAssumption DEF FreeSlots, FreeJobs, Slots, Jobs
  <2>2. FreeSlots # {} /\ FreeJobs # {}
    BY DEF AsyncCopy, CanSubmit
  <2>3. First(FreeSlots) \in FreeSlots /\ First(FreeJobs) \in FreeJobs
    <3>1. \A S \in SUBSET Nat : S # {} => First(S) \in S
      BY FirstIsMember
    <3> QED
      BY <2>1, <2>2, <3>1
  <2> QED
    BY <2>3 DEF FreeSlots, FreeJobs
<1> DEFINE rec == [used |-> TRUE, job |-> j, s |-> m.s, gen |-> m.gen,
                   token |-> srf[m.s].fence, index |-> f.index]
<1>5. /\ pend' = [pend EXCEPT ![k] = rec] /\ jobs' = [jobs EXCEPT ![j] = job]
      /\ UNCHANGED <<transport, srf>> /\ imports' = WithBoth(m)
      /\ Cardinality(imports') <= MaxImports /\ serial' = Upper /\ vk.gen = f.gen
  BY <1>4 DEF AsyncCopy, CanSubmit, KeyTaken, Upper, GpuPath
<1>6. /\ vk' \in VkRecord /\ vk'.keys = Keyed /\ vk'.gen = vk.gen
      /\ Keyed[f.index] = FrameKey /\ FrameKey \in Nat \ {0}
  <2>1. Keyed \in [CapSlots -> Nat] /\ Keyed[f.index] = FrameKey /\ FrameKey \in Nat \ {0}
    BY FrameKeyIsOwn
  <2>2. vk' = [vk EXCEPT !.keys = Keyed]
    BY DEF AsyncCopy, KeyTaken, Keyed
  <2> QED
    BY <1>1, <2>1, <2>2 DEF VkRecord
<1>7. UNCHANGED <<dec, freeOut, capQueued, vdev, srf>>
  BY <1>5 DEF transport
<1>8. /\ KeysApart' /\ ImportsSound' /\ imports' \subseteq Import /\ serial' \in Nat
      /\ imports \subseteq imports'
      /\ \A l \in UsedSlots : vk'.keys[pend[l].index] = vk.keys[pend[l].index]
  BY <1>5, <1>6, <1>7, KeyingKeeps
<1>9. /\ job.inUse /\ job.running /\ job.from = Buffer(f) /\ job.to = Backing(srf[t].serial)
      /\ job.keys = {FrameKey, srf[t].serial} /\ job.pic = f.pic
      /\ job.keys \subseteq {e.key : e \in imports'}
  BY <1>5, CopyIsWhole DEF QueuedJob, Intact
<1>10. job \in JobRecord
  <2>1. Buffer(f) \in Memory /\ Backing(srf[t].serial) \in Memory
    <3>1. opened \in Nat /\ f.gen \in Nat /\ f.index \in Nat
      BY <1>1, <1>2, CaptureAssumption, TransportAssumption DEF TypeOK, Frame, CapSlots
    <3> QED
      BY <1>3, <3>1 DEF Memory, Buffer, Backing
  <2>2. f.pic \in 0 .. Torn
    BY <1>3, CaptureAssumption DEF SurfaceRecord, Torn
  <2>3. {FrameKey, srf[t].serial} \in SUBSET Nat
    BY <1>3, <1>6
  <2>4. /\ MemoryAt(WithBoth(m), FrameKey) = Buffer(f)
        /\ MemoryAt(WithBoth(m), srf[t].serial) = Backing(srf[t].serial) /\ Intact(m)
    BY <1>5, CopyIsWhole DEF Intact
  <2>5. job = [inUse |-> TRUE, running |-> TRUE, from |-> Buffer(f),
               to |-> Backing(srf[t].serial), keys |-> {FrameKey, srf[t].serial},
               pic |-> f.pic]
    BY <2>4 DEF QueuedJob
  <2> HIDE DEF job, t, f
  <2> QED
    BY <2>1, <2>2, <2>3, <2>5 DEF JobRecord
<1>11. rec \in PendingRecord /\ rec.used /\ rec.job = j /\ rec.s = t /\ rec.gen = m.gen
       /\ rec.token = srf[t].fence /\ rec.index = f.index
  BY <1>2, <1>3, <1>4 DEF PendingRecord, SurfaceRecord
<1> HIDE DEF job, rec
<1>12. /\ pend' \in [Slots -> PendingRecord] /\ pend'[k] = rec
       /\ \A l \in Slots : l # k => pend'[l] = pend[l]
       /\ jobs' \in [Jobs -> JobRecord] /\ jobs'[j] = job
       /\ \A l \in Jobs : l # j => jobs'[l] = jobs[l]
  BY <1>1, <1>4, <1>5, <1>10, <1>11 DEF TypeOK
<1>13. UsedSlots' = UsedSlots \cup {k}
  BY <1>4, <1>11, <1>12 DEF UsedSlots
<1>14. ASSUME NEW l \in UsedSlots
       PROVE  /\ l # k /\ l \in Slots /\ pend'[l] = pend[l]
              /\ pend[l].job # j /\ pend[l].job \in Jobs /\ jobs'[pend[l].job] = jobs[pend[l].job]
              /\ pend[l].s # t /\ pend[l].index # f.index /\ SlotSound(l)
  <2>1. l # k /\ l \in Slots /\ SlotSound(l) /\ pend[l].job \in Jobs
    BY <1>1, <1>4, FieldTypes DEF UsedSlots, SlotsSound
  <2>2. pend[l].job # j
    BY <1>4, <2>1 DEF SlotSound
  <2>3. pend[l].s # t
    BY <1>3 DEF SlotsOf
  <2>4. pend[l].index # f.index
    BY <1>1 DEF HandSound
  <2> QED
    BY <1>12, <2>1, <2>2, <2>3, <2>4
<1>15. /\ \A u : u # t => SlotsOf(u)' = SlotsOf(u)
       /\ SlotsOf(t)' # {}
  <2>1. \A u : u # t => SlotsOf(u)' = SlotsOf(u)
    BY <1>11, <1>12, <1>13, <1>14 DEF SlotsOf
  <2>2. k \in SlotsOf(t)'
    BY <1>11, <1>12, <1>13 DEF SlotsOf
  <2> QED
    BY <2>1, <2>2
<1>16. SlotsSound'
  <2>1. ASSUME NEW l \in UsedSlots
        PROVE  SlotSound(l)'
    <3>1. {e.key : e \in imports} \subseteq {e.key : e \in imports'}
      BY <1>8
    <3>2. UNCHANGED <<opened, dec, capQueued, srf>>
      BY <1>7
    <3>3. /\ SlotSound(l) /\ pend'[l] = pend[l] /\ jobs'[pend[l].job] = jobs[pend[l].job]
          /\ vk'.keys[pend[l].index] = vk.keys[pend[l].index]
      BY <1>8, <1>14
    <3>4. jobs[pend[l].job].running =>
             jobs[pend[l].job].keys \subseteq {e.key : e \in imports'}
      BY <3>1, <3>3 DEF SlotSound
    <3> QED
      BY <3>2, <3>3, <3>4 DEF SlotSound
  <2>2. SlotSound(k)'
    <3>1. f.gen = dec.gen /\ ~capQueued[f.index]
      BY <1>1 DEF HandSound
    <3>2. job.from = [session |-> opened, gen |-> dec.gen, index |-> f.index]
      BY <1>9, <3>1 DEF Buffer
    <3>3. UNCHANGED <<opened, dec, capQueued, srf>>
      BY <1>7
    <3>4. /\ pend'[k] = rec /\ jobs'[rec.job] = job /\ rec.s = t /\ rec.index = f.index
          /\ rec.gen = srf[t].gen /\ rec.token = srf[t].fence
          /\ vk'.keys[rec.index] = FrameKey /\ FrameKey # 0
      BY <1>3, <1>6, <1>11, <1>12
    <3> HIDE DEF t, f
    <3> QED
      BY <1>2, <1>3, <1>9, <3>1, <3>2, <3>3, <3>4 DEF SlotSound
  <2> QED
    BY <1>13, <2>1, <2>2 DEF SlotsSound
<1>17. SlotsApart'
  BY <1>1, <1>11, <1>12, <1>13, <1>14 DEF SlotsApart
<1>18. JobsPending'
  <2>1. ASSUME NEW l \in Jobs, jobs'[l].running
        PROVE  \E n \in UsedSlots' : pend'[n].job = l
    <3>1. CASE l = j
      BY <1>11, <1>12, <1>13, <3>1
    <3>2. CASE l # j
      BY <1>1, <1>12, <1>13, <1>14, <2>1, <3>2 DEF JobsPending
    <3> QED
      BY <3>1, <3>2
  <2> QED
    BY <2>1 DEF JobsPending
<1>19. CallInv'
  <2>1. CASE call.op = "destroy"
    <3>1. ~Unfed
      BY <1>1, <1>2, <2>1, SafeParts DEF Unfed, Awaiting, CallPlace
    <3> QED
      BY <1>2, <2>1, <3>1 DEF CallInv, CallTarget
  <2>2. CASE call.op # "destroy"
    <3>1. PICK u \in Surfaces : u = call.s
      BY <1>1, <1>2, <2>2 DEF CallTarget
    <3>2. srf[u].alive
      BY <1>1, <1>2, <2>2, <3>1 DEF CallTarget
    <3>3. Unfed => /\ srf[u].pic = pics /\ pics # 0 /\ ~srf[u].decoded /\ SlotsOf(u) = {}
                   /\ u # t
      BY <1>1, <1>3, <3>1 DEF CallTarget
    <3>4. Unfed => (srf[u].pic = pics /\ pics # 0 /\ ~srf[u].decoded /\ SlotsOf(u) = {})'
      BY <1>7, <1>15, <3>3
    <3> QED
      BY <1>2, <1>7, <3>1, <3>2, <3>4 DEF CallInv, CallTarget
  <2> QED
    BY <2>1, <2>2
<1>20. RingInv' /\ PicsKnown' /\ \A pic : WithDecoder(pic)' <=> WithDecoder(pic)
  BY <1>1, <1>2, <1>7 DEF RingInv, PicsKnown, WithDecoder
<1>21. HandSound' /\ OnlyLastIsLost'
  <2>1. Lost = {}
    BY <1>1, <1>2, <1>3 DEF OnlyLastIsLost
  <2>2. ASSUME NEW i \in CapSlots
        PROVE  i \notin Lost'
    <3>1. CASE i = f.index
      BY <1>11, <1>12, <1>13, <3>1 DEF Lost
    <3>2. CASE i # f.index
      <4>1. i \notin Hand
        BY <3>2 DEF Hand
      <4>2. i < dec.capCount /\ ~capQueued[i] => \E l \in UsedSlots : pend[l].index = i
        BY <2>1, <4>1 DEF Lost
      <4> QED
        BY <1>7, <1>13, <1>14, <4>2 DEF Lost
    <3> QED
      BY <3>1, <3>2
  <2>3. Lost' = {}
    BY <2>2 DEF Lost
  <2> QED
    BY <1>2, <1>3, <1>7, <2>3 DEF HandSound, OnlyLastIsLost
<1>22. MapInv'
  <2>1. \A n \in mapped : Fits(n)' <=> Fits(n)
    BY <1>7 DEF Fits
  <2>2. \A n \in mapped' : n \in mapped /\ (Fits(n) => SlotsOf(n.s)' = SlotsOf(n.s))
    BY <1>3, <1>15
  <2> QED
    BY <1>1, <1>2, <1>7, <2>1, <2>2 DEF MapInv
<1>23. PixelInv'
  <2>1. \A l \in UsedSlots' :
           ~jobs'[pend'[l].job].running => l \in UsedSlots
    BY <1>9, <1>11, <1>12, <1>13
  <2> QED
    BY <1>1, <1>7, <1>14, <2>1 DEF PixelInv, DecodedHoldsTheCopy
<1>24. FenceInv'
  <2>1. ASSUME NEW u \in Surfaces, srf[u].fence # 0, u # t
        PROVE  /\ SlotsOf(u)' = SlotsOf(u) /\ OwnMapping(u)' = OwnMapping(u)
               /\ srf[u].alive /\ OwnMapping(u) \in mapped => OwnMapping(u) \in mapped'
                                                          /\ srf[u].pic # f.pic
    <3>1. srf[u].alive /\ OwnMapping(u) \in mapped => srf[u].pic # f.pic
      BY <1>3, <2>1
    <3>2. srf[u].alive /\ OwnMapping(u) \in mapped => OwnMapping(u) \in mapped'
      BY <3>1 DEF Owed, OwnMapping
    <3> QED
      BY <1>7, <1>15, <2>1, <3>1, <3>2 DEF OwnMapping
  <2> QED
    BY <1>1, <1>2, <1>3, <1>7, <1>15, <1>20, <2>1 DEF FenceInv
<1>25. TypeOK'
  <2>1. mapped' \subseteq Mapping
    BY <1>1 DEF TypeOK
  <2> QED
    BY <1>1, <1>2, <1>5, <1>6, <1>7, <1>8, <1>12, <2>1 DEF TypeOK, TransportTypeOK
<1>26. TransportSafe'
  BY <1>5, QuietCalls
<1> QED
  BY <1>8, <1>16, <1>17, <1>18, <1>19, <1>20, <1>21, <1>22, <1>23, <1>24, <1>25, <1>26
  DEF CaptureSafe, CaptureInv, TransportSafe

LEMMA AssignFrameKeeps == CaptureSafe /\ AssignFrame => CaptureSafe'
<1> SUFFICES ASSUME CaptureSafe, AssignFrame PROVE CaptureSafe'
  OBVIOUS
<1>1. /\ At("assign") /\ mapped' = mapped \ Owed /\ AfterFrame
      /\ UNCHANGED <<sess, pics, opened>>
  BY DEF AssignFrame
<1>2. PICK m \in Owed :
         /\ Fits(m)
         /\ \/ GpuPath /\ (AsyncCopy(m) \/ DirectCopy(m) \/ CopyFails(m))
            \/ vk.failed /\ CpuCopy(m) /\ UNCHANGED <<imports, vk, serial>>
  BY DEF AssignFrame
<1> QED
  BY <1>1, <1>2, AsyncCopyKeeps, CopyNowKeeps

-----------------------------------------------------------------------------
(* The GPU                                                                    *)

(* A job that runs is of a pending copy: it reads a frame the decoder does    *)
(* not have and writes the surface of its slot and no other.                  *)
LEMMA GpuRunsKeeps ==
    ASSUME CaptureSafe, NEW j \in Jobs, GpuRuns(j)
    PROVE  CaptureSafe'
<1>1. /\ TypeOK /\ CallPlace /\ CallSession /\ CallTarget /\ RingInv /\ PicsKnown /\ KeysApart
      /\ ImportsSound /\ SlotsSound /\ SlotsApart /\ JobsPending /\ HandSound
      /\ OnlyLastIsLost /\ MapInv /\ PixelInv /\ FenceInv
      /\ jobs[j].running /\ UNCHANGED <<transport, context, call, pend, imports, vk, serial>>
  BY SafeParts DEF GpuRuns
<1>2. PICK k \in UsedSlots : pend[k].job = j
  BY <1>1 DEF JobsPending
<1>3. PICK t \in Surfaces : t = pend[k].s
  BY <1>1 DEF SlotsSound, SlotSound
<1> DEFINE done == [jobs[j] EXCEPT !.running = FALSE]
           x == [srf[t] EXCEPT !.px = srf[t].pic]
<1>4. /\ SlotSound(k) /\ srf[t].alive /\ ~srf[t].decoded /\ jobs[j].pic = srf[t].pic
      /\ jobs[j].from = [session |-> opened, gen |-> dec.gen, index |-> pend[k].index]
      /\ jobs[j].to = Backing(srf[t].serial) /\ ~capQueued[pend[k].index]
      /\ srf[t] \in SurfaceRecord /\ jobs[j] \in JobRecord /\ srf[t].serial # 0
  BY <1>1, <1>2, <1>3, FieldTypes DEF SlotsSound, SlotSound, KeysApart
<1>5. ~WithDevice(jobs[j].from)
  BY <1>4 DEF WithDevice
<1>6. \A s \in Surfaces : Backing(srf[s].serial) = jobs[j].to <=> s = t
  <2>1. \A s \in Surfaces : Backing(srf[s].serial) = jobs[j].to => srf[s].serial = srf[t].serial
    BY <1>4 DEF Backing
  <2> QED
    BY <1>1, <1>4, <2>1 DEF KeysApart
<1>7. \A s \in Surfaces : srf'[s] = IF s = t THEN x ELSE srf[s]
  BY <1>4, <1>5, <1>6 DEF GpuRuns
<1>8. jobs' = [jobs EXCEPT ![j] = done]
  BY DEF GpuRuns
<1>9. /\ x \in SurfaceRecord /\ x.alive = srf[t].alive /\ x.gen = srf[t].gen
      /\ x.serial = srf[t].serial /\ x.pic = srf[t].pic /\ x.px = srf[t].pic
      /\ x.decoded = srf[t].decoded /\ x.init = srf[t].init /\ x.queued = srf[t].queued
      /\ x.owned = srf[t].owned /\ x.fence = srf[t].fence
  <2>1. srf[t].pic \in 0 .. Torn
    BY <1>4, CaptureAssumption DEF SurfaceRecord, Torn
  <2> QED
    BY <1>4, <2>1 DEF SurfaceRecord
<1>10. /\ done \in JobRecord /\ ~done.running /\ done.inUse = jobs[j].inUse
       /\ done.from = jobs[j].from /\ done.to = jobs[j].to /\ done.keys = jobs[j].keys
       /\ done.pic = jobs[j].pic
  BY <1>4 DEF JobRecord
<1> HIDE DEF done, x
<1>11. /\ srf' \in [Surfaces -> SurfaceRecord]
       /\ \A s \in Surfaces :
             /\ srf'[s].alive = srf[s].alive /\ srf'[s].gen = srf[s].gen
             /\ srf'[s].serial = srf[s].serial /\ srf'[s].pic = srf[s].pic
             /\ srf'[s].decoded = srf[s].decoded /\ srf'[s].init = srf[s].init
             /\ srf'[s].queued = srf[s].queued /\ srf'[s].owned = srf[s].owned
             /\ srf'[s].fence = srf[s].fence
             /\ s # t => srf'[s].px = srf[s].px
             /\ s = t => srf'[s].px = srf[s].pic
  <2>1. DOMAIN srf' = Surfaces /\ srf' = [s \in Surfaces |-> srf'[s]]
    BY DEF GpuRuns
  <2>2. \A s \in Surfaces : srf'[s] \in SurfaceRecord
    BY <1>1, <1>7, <1>9, FieldTypes
  <2> QED
    BY <1>7, <1>9, <2>1, <2>2
<1>12. /\ jobs' \in [Jobs -> JobRecord]
       /\ \A l \in Jobs :
             /\ jobs'[l].inUse = jobs[l].inUse /\ jobs'[l].from = jobs[l].from
             /\ jobs'[l].to = jobs[l].to /\ jobs'[l].keys = jobs[l].keys
             /\ jobs'[l].pic = jobs[l].pic
             /\ jobs'[l].running => jobs[l].running
             /\ l # j => jobs'[l].running = jobs[l].running
  BY <1>1, <1>8, <1>10 DEF TypeOK
<1>13. /\ UNCHANGED <<dec, freeOut, capQueued, vdev, mapped, sess, pics, opened>>
       /\ UsedSlots' = UsedSlots /\ CaptureKeys' = CaptureKeys
       /\ \A s : SlotsOf(s)' = SlotsOf(s)
       /\ (Unfed' <=> Unfed) /\ (Awaiting' <=> Awaiting)
  BY <1>1 DEF transport, context, UsedSlots, CaptureKeys, SlotsOf, Unfed, Awaiting, At
<1>14. TransportSafe'
  BY <1>1, QuietCalls
<1>15. CallInv'
  <2>1. CallPlace' /\ CallSession'
    BY <1>1, <1>13 DEF CallPlace, CallSession, At, Idle
  <2>2. CASE Idle \/ call.op = "destroy"
    <3>1. ~Unfed
      BY <1>1, <2>2 DEF Unfed, Awaiting, CallPlace, At, Idle
    <3> QED
      BY <1>1, <1>13, <2>1, <2>2, <3>1 DEF CallInv, CallTarget, At, Idle
  <2>3. CASE ~(Idle \/ call.op = "destroy")
    <3>1. PICK u \in Surfaces : u = call.s
      BY <1>1, <2>3 DEF CallTarget
    <3>2. call'.s = u /\ srf[u].alive /\ srf'[u].alive
      BY <1>1, <1>11, <2>3, <3>1 DEF CallTarget
    <3>3. Unfed => /\ srf[u].pic = pics /\ pics # 0 /\ ~srf[u].decoded /\ SlotsOf(u) = {}
      BY <1>1, <3>1 DEF CallTarget
    <3>4. Unfed => (srf[u].pic = pics /\ pics # 0 /\ ~srf[u].decoded /\ SlotsOf(u) = {})'
      BY <1>11, <1>13, <3>3
    <3> QED
      BY <1>13, <2>1, <3>1, <3>2, <3>4 DEF CallInv, CallTarget
  <2> QED
    BY <2>2, <2>3
<1>16. RingInv' /\ PicsKnown' /\ \A pic : WithDecoder(pic)' <=> WithDecoder(pic)
  <2>1. CanFeed' <=> CanFeed
    BY <1>13 DEF CanFeed, Recycled
  <2> QED
    BY <1>1, <1>13, <2>1 DEF RingInv, PicsKnown, WithDecoder, At
<1>17. KeysApart'
  BY <1>1, <1>11, <1>13 DEF KeysApart
<1>18. ImportsSound'
  BY <1>1, <1>13 DEF ImportsSound
<1>19. SlotsSound'
  <2>1. ASSUME NEW l \in UsedSlots
        PROVE  SlotSound(l)'
    <3>1. SlotSound(l) /\ pend[l].s \in Surfaces /\ pend[l].job \in Jobs
      BY <1>1, FieldTypes DEF SlotsSound, SlotSound, UsedSlots
    <3>2. UNCHANGED <<opened, dec, capQueued, pend, vk, imports>>
      BY <1>1, <1>13
    <3> QED
      BY <1>11, <1>12, <3>1, <3>2 DEF SlotSound
  <2> QED
    BY <1>13, <2>1 DEF SlotsSound
<1>20. SlotsApart' /\ JobsPending'
  BY <1>1, <1>12, <1>13 DEF SlotsApart, JobsPending
<1>21. HandSound' /\ OnlyLastIsLost'
  <2>1. Hand' = Hand /\ Lost' = Lost
    BY <1>1, <1>13 DEF Hand, Lost, At
  <2> QED
    BY <1>1, <1>13, <2>1 DEF HandSound, OnlyLastIsLost, At
<1>22. MapInv'
  <2>1. \A m \in mapped : m.s \in Surfaces
    BY <1>1 DEF TypeOK, Mapping
  <2>2. \A m \in mapped : Fits(m)' <=> Fits(m)
    BY <1>11, <2>1 DEF Fits
  <2>3. ASSUME NEW m \in mapped
        PROVE  /\ m.pic <= pics' /\ (At("submit")' => m.pic < pics')
               /\ srf'[m.s].serial # 0 /\ (srf'[m.s].alive => m.gen <= srf'[m.s].gen)
               /\ Fits(m)' => LET y == srf'[m.s]
                              IN  /\ y.pic = m.pic /\ y.fence = m.pic /\ y.owned /\ y.queued
                                  /\ ~y.decoded /\ SlotsOf(m.s)' = {}
    BY <1>1, <1>11, <1>13, <2>1, <2>2 DEF MapInv, At
  <2>4. \A m, n \in mapped : m.pic = n.pic => m = n
    BY <1>1 DEF MapInv
  <2>5. mapped # {} => dec'.open
    BY <1>1, <1>13 DEF MapInv
  <2> QED
    BY <1>13, <2>3, <2>4, <2>5 DEF MapInv
<1>23. PixelInv'
  <2>1. \A s \in Surfaces : srf'[s].decoded => srf'[s].init /\ srf'[s].queued
    BY <1>1, <1>11 DEF PixelInv
  <2>2. DecodedHoldsTheCopy => DecodedHoldsTheCopy'
    BY <1>4, <1>11 DEF DecodedHoldsTheCopy
  <2>3. ASSUME ~EarlyExport, NEW l \in UsedSlots, ~jobs'[pend[l].job].running
        PROVE  srf'[pend[l].s].px = srf'[pend[l].s].pic
    <3>1. pend[l].s \in Surfaces /\ pend[l].job \in Jobs
      BY <1>1, FieldTypes DEF SlotsSound, SlotSound, UsedSlots
    <3>2. CASE pend[l].s = t
      BY <1>11, <3>1, <3>2
    <3>3. CASE pend[l].s # t
      <4>1. pend[l].job # j
        BY <1>1, <1>2, <1>3, <3>3 DEF SlotsApart
      <4> QED
        BY <1>1, <1>11, <1>12, <2>3, <3>1, <3>3, <4>1 DEF PixelInv
    <3> QED
      BY <3>2, <3>3
  <2> QED
    BY <1>1, <1>13, <2>1, <2>2, <2>3 DEF PixelInv
<1>24. FenceInv'
  <2>1. \A s \in Surfaces : OwnMapping(s)' = OwnMapping(s)
    BY <1>11 DEF OwnMapping
  <2> QED
    BY <1>1, <1>11, <1>13, <1>16, <2>1 DEF FenceInv, At
<1>25. TypeOK'
  BY <1>1, <1>11, <1>12, <1>13, <1>14 DEF TypeOK, TransportSafe
<1> QED
  BY <1>14, <1>15, <1>16, <1>17, <1>18, <1>19, <1>20, <1>21, <1>22, <1>23, <1>24, <1>25
  DEF CaptureSafe, CaptureInv, TransportSafe

-----------------------------------------------------------------------------
(* Every step                                                                 *)

LEMMA ClientCallKeeps == CaptureSafe /\ ClientCall => CaptureSafe'
<1> SUFFICES ASSUME CaptureSafe, ClientCall PROVE CaptureSafe'
  OBVIOUS
<1>1. CASE \E s \in Surfaces : AllocSurface(s) \/ ExportSurface(s) \/ FreeSurface(s)
                               \/ BeginPicture(s) \/ SyncSurface(s)
  BY <1>1, AllocSurfaceKeeps, ExportSurfaceKeeps, FreeSurfaceKeeps, BeginPictureKeeps,
     SyncSurfaceKeeps
<1>2. CASE CreateContext \/ DestroyContext
  BY <1>2, CreateContextKeeps, DestroyContextKeeps
<1> QED
  BY <1>1, <1>2 DEF ClientCall

LEMMA CallStepKeeps == CaptureSafe /\ CallStep => CaptureSafe'
<1> SUFFICES ASSUME CaptureSafe, CallStep PROVE CaptureSafe'
  OBVIOUS
<1>1. CASE Boundary \/ Restart \/ ReopenAfterEos \/ OpenSession \/ ClaimTarget \/ FeedUnit
           \/ InputFull \/ StartSession \/ SessionStarted
  BY <1>1, BoundaryKeeps, ReopeningKeeps, OpenSessionKeeps, ClaimTargetKeeps, FeedUnitKeeps,
     InputFullKeeps, StartSessionKeeps, SessionStartedKeeps
<1>2. CASE Reap \/ PollDevice \/ Events \/ TakeFrame \/ TakeNothing \/ CheckSurface \/ GiveUp
  BY <1>2, ReapKeeps, PollDeviceKeeps, EventsKeep, TakeFrameKeeps, TakeNothingKeeps,
     CheckSurfaceKeeps, GiveUpKeeps
<1>3. CASE DropFrame \/ DropLast \/ NewRing \/ MakeRoom \/ AssignFrame \/ Teardown
  BY <1>3, DropFrameKeeps, DropLastKeeps, NewRingKeeps, MakeRoomKeeps, AssignFrameKeeps,
     TeardownKeeps
<1> QED
  BY <1>1, <1>2, <1>3 DEF CallStep

LEMMA StutterKeeps == CaptureSafe /\ UNCHANGED vars => CaptureSafe'
<1> SUFFICES ASSUME CaptureSafe, UNCHANGED vars PROVE CaptureSafe'
  OBVIOUS
<1>1. /\ UNCHANGED <<engine, context, srf, call>> /\ UNCHANGED transport
      /\ UNCHANGED <<dec, freeOut, capQueued, vdev, mapped, sess, pics, opened>>
      /\ UNCHANGED <<pend, jobs, imports, vk, serial>>
  BY DEF vars, transport, context, engine
<1>2. TransportSafe'
  BY <1>1, QuietCalls
<1>3. CallInv'
  <2>1. CallPlace' /\ CallSession'
    BY <1>1, SafeParts DEF CallPlace, CallSession, At, Idle
  <2>2. CallTarget'
    BY <1>1, SafeParts DEF CallTarget, Unfed, Awaiting, At, Idle, SlotsOf, UsedSlots
  <2> QED
    BY <2>1, <2>2 DEF CallInv
<1>4. RingInv' /\ PicsKnown' /\ \A pic : WithDecoder(pic)' <=> WithDecoder(pic)
  <2>1. CanFeed' <=> CanFeed
    BY <1>1 DEF CanFeed, Recycled
  <2>2. RingInv'
    BY <1>1, <2>1, SafeParts DEF RingInv, At
  <2> QED
    BY <1>1, <2>2, SafeParts DEF PicsKnown, Unfed, Awaiting, At, WithDecoder
<1>5. FenceInv'
  BY <1>1, <1>4, FenceStands DEF At, Awaiting
<1>6. call' \in CallRecord /\ sess' \in {"gone", "none", "open", "live", "eos", "dead"}
  BY <1>1, SafeParts DEF TypeOK
<1>7. mapped # {} => dec'.open
  BY <1>1, SafeParts DEF MapInv
<1> QED
  BY <1>1, <1>2, <1>3, <1>4, <1>5, <1>6, <1>7, MoveKeeps DEF At

LEMMA CaptureStep == CaptureSafe /\ [Next]_vars => CaptureSafe'
<1> SUFFICES ASSUME CaptureSafe, [Next]_vars PROVE CaptureSafe'
  OBVIOUS
<1>1. CASE \E j \in Jobs : GpuRuns(j)
  BY <1>1, GpuRunsKeeps
<1>2. CASE Device /\ UNCHANGED <<engine, context, srf, call>>
  BY <1>2, DeviceMoves
<1> QED
  BY <1>1, <1>2, ClientCallKeeps, CallStepKeeps, StutterKeeps DEF Next

(* The surfaces, buffers, copies, imports and pictures of a context are as    *)
(* CaptureInv says in every state: of any number of surfaces, CAPTURE         *)
(* buffers, slots, jobs, imports and sessions, whatever fails.                *)
THEOREM CaptureHolds == Spec => []CaptureSafe
<1>1. Init => CaptureSafe
  BY CaptureInitially
<1>2. CaptureSafe /\ [Next]_vars => CaptureSafe'
  BY CaptureStep
<1> QED
  BY <1>1, <1>2, PTL DEF Spec

(* Every variable keeps its type, and the import cache its bound.             *)
THEOREM CaptureTyped == Spec => []TypeOK
<1>1. CaptureSafe => TypeOK
  BY DEF CaptureSafe
<1> QED
  BY <1>1, CaptureHolds, PTL

-----------------------------------------------------------------------------
(* What it means                                                              *)

(* vpu_vk_copy_forget destroys no import a job still uses.                    *)
THEOREM ImportsAreKept == Spec => []ImportsOutliveJobs
<1>1. CaptureSafe => ImportsOutliveJobs
  BY SafeParts DEF JobsPending, SlotsSound, SlotSound, ImportsOutliveJobs
<1> QED
  BY <1>1, CaptureHolds, PTL

(* A surface a job writes is fenced with the token of the copy.               *)
THEOREM CopiesAreFenced == Spec => []FenceCoversTheCopy
<1>1. CaptureSafe => FenceCoversTheCopy
  <2> SUFFICES ASSUME CaptureSafe PROVE FenceCoversTheCopy
    OBVIOUS
  <2>1. \A k \in UsedSlots : SlotSound(k)
    BY SafeParts DEF SlotsSound
  <2> QED
    BY <2>1 DEF SlotSound, FenceCoversTheCopy
<1> QED
  BY <1>1, CaptureHolds, PTL

(* The cache keeps no import of a ring whose session is closed.               *)
THEOREM NoImportIsLeft == Spec => []CaptureImportsCurrent
<1>1. CaptureSafe => CaptureImportsCurrent
  <2> SUFFICES ASSUME CaptureSafe, NEW e \in imports, e.mem.session # 0
               PROVE  dec.open /\ e.mem.session = opened /\ e.key \in CaptureKeys
    BY DEF CaptureImportsCurrent
  <2>1. TypeOK /\ KeysApart /\ ImportsSound /\ RingInv
    BY SafeParts
  <2>2. e.mem # Backing(e.key)
    BY DEF Backing
  <2>3. PICK i \in CapSlots :
           /\ e.key = vk.keys[i]
           /\ e.mem = [session |-> opened, gen |-> vk.gen, index |-> i]
    BY <2>1, <2>2 DEF ImportsSound
  <2>4. dec.capCount # 0
    BY <2>1, <2>3 DEF ImportsSound, KeysApart
  <2>5. dec.open
    BY <2>1, <2>4 DEF RingInv, TypeOK
  <2> QED
    BY <2>3, <2>5 DEF CaptureKeys
<1> QED
  BY <1>1, CaptureHolds, PTL

(* Between calls an unsignalled fence has a picture that will signal it.      *)
THEOREM FencesWillSignal == Spec => []FenceWillSignal
<1>1. CaptureSafe => FenceWillSignal
  <2> SUFFICES ASSUME CaptureSafe, NEW s \in Surfaces, Idle, sess = "live", srf[s].alive,
                      srf[s].fence # 0
               PROVE  UnderWay(s)
    BY DEF FenceWillSignal
  <2>1. CallPlace /\ FenceInv /\ SlotsSound
    BY SafeParts
  <2>2. ~At("submit") /\ ~Awaiting /\ ~At("assign")
    BY <2>1 DEF CallPlace, Awaiting, Idle, At
  <2>3. CASE SlotsOf(s) # {}
    <3>1. PICK k \in SlotsOf(s) : TRUE
      BY <2>3
    <3>2. k \in UsedSlots /\ pend[k].s = s
      BY <3>1 DEF SlotsOf
    <3>3. pend[k].gen = srf[s].gen /\ pend[k].token = srf[s].fence
      BY <2>1, <3>2 DEF SlotsSound, SlotSound
    <3> QED
      BY <3>1, <3>3 DEF UnderWay
  <2>4. CASE OwnMapping(s) \in mapped /\ WithDecoder(srf[s].pic)
    BY <2>4 DEF UnderWay, OwnMapping
  <2> QED
    BY <2>1, <2>2, <2>3, <2>4 DEF FenceInv
<1> QED
  BY <1>1, CaptureHolds, PTL

(* The sizes of three sets apart from each other add up.                      *)
LEMMA ApartAddUp ==
    ASSUME NEW A, NEW B, NEW C, IsFiniteSet(A), IsFiniteSet(B), IsFiniteSet(C),
           A \cap B = {}, (A \cup B) \cap C = {}
    PROVE  Cardinality((A \cup B) \cup C) = Cardinality(A) + Cardinality(B) + Cardinality(C)
<1>1. IsFiniteSet(A \cup B)
      /\ Cardinality(A \cup B) = Cardinality(A) + Cardinality(B) - Cardinality(A \cap B)
  BY FS_Union
<1>2. Cardinality((A \cup B) \cup C)
         = Cardinality(A \cup B) + Cardinality(C) - Cardinality((A \cup B) \cap C)
  BY <1>1, FS_Union
<1>3. Cardinality(A) \in Nat /\ Cardinality(B) \in Nat /\ Cardinality(C) \in Nat
  BY FS_CardinalityType
<1>4. Cardinality({}) = 0
  BY FS_EmptySet
<1>5. Cardinality(A \cup B) = Cardinality(A) + Cardinality(B)
  BY <1>1, <1>3, <1>4
<1>6. Cardinality((A \cup B) \cup C) = Cardinality(A \cup B) + Cardinality(C)
  <2>1. Cardinality((A \cup B) \cap C) = 0
    BY <1>4
  <2>2. Cardinality(A \cup B) \in Nat
    BY <1>1, FS_CardinalityType
  <2> QED
    BY <1>2, <1>3, <2>1, <2>2
<1> QED
  BY <1>5, <1>6

(* Every CAPTURE buffer the decoder does not have is with the frame in hand,  *)
(* with a pending copy or gone with LAST, and no job reads one it has.        *)
THEOREM CaptureIsConserved == Spec => []CaptureConserved
<1>1. CaptureSafe => CaptureConserved
  <2> SUFFICES ASSUME CaptureSafe PROVE CaptureConserved
    OBVIOUS
  <2> DEFINE out  == {i \in CapSlots : i < dec.capCount /\ ~capQueued[i]}
             hand == IF At("assign") THEN {call.frame.index} ELSE {}
             held == {pend[k].index : k \in UsedSlots}
             one  == IF dec.eos /\ sess # "dead" /\ hand = {} THEN 1 ELSE 0
  <2>1. /\ TypeOK /\ HandSound /\ SlotsSound /\ SlotsApart /\ JobsPending /\ OnlyLastIsLost
        /\ CallSession /\ RingInv
    BY SafeParts
  <2>2. \A k \in UsedSlots : /\ pend[k].index \in CapSlots /\ pend[k].index < dec.capCount
                             /\ ~capQueued[pend[k].index]
    BY <2>1, FieldTypes DEF SlotsSound, SlotSound, UsedSlots
  <2>3. At("assign") => /\ call.frame.index \in CapSlots /\ call.frame.index < dec.capCount
                        /\ ~capQueued[call.frame.index]
    BY <2>1, TransportAssumption
    DEF HandSound, CallSession, RingInv, Looping, At, TypeOK, CallRecord, Frame, CapSlots
  <2>4. hand = Hand /\ hand \cup held \subseteq out /\ held \cap hand = {}
    BY <2>1, <2>2, <2>3 DEF Hand, HandSound
  <2>5. out = (held \cup hand) \cup Lost /\ (held \cup hand) \cap Lost = {}
    <3>1. \A i \in CapSlots : i \in held <=> \E k \in UsedSlots : pend[k].index = i
      OBVIOUS
    <3>2. \A i \in CapSlots : i \in Lost <=> i \in out /\ i \notin hand /\ i \notin held
      BY <2>4, <3>1 DEF Lost
    <3>3. Lost \subseteq CapSlots /\ held \subseteq CapSlots /\ hand \subseteq CapSlots
      BY <2>2, <2>3 DEF Lost
    <3> QED
      BY <2>4, <3>2, <3>3
  <2>6. IsFiniteSet(UsedSlots)
    <3>1. IsFiniteSet(Slots)
      BY FS_Interval, CaptureAssumption DEF Slots
    <3>2. UsedSlots \in SUBSET Slots
      BY DEF UsedSlots
    <3> QED
      BY <3>1, <3>2, FS_Subset
  <2>7. IsFiniteSet(held) /\ Cardinality(held) = Cardinality(UsedSlots)
    <3> DEFINE f == [k \in UsedSlots |-> pend[k].index]
    <3>1. f \in [UsedSlots -> held]
      OBVIOUS
    <3>2. \A k, l \in UsedSlots : f[k] = f[l] => k = l
      BY <2>1 DEF SlotsApart
    <3>3. \A i \in held : \E k \in UsedSlots : f[k] = i
      OBVIOUS
    <3> HIDE DEF f, held
    <3>4. f \in Bijection(UsedSlots, held)
      BY <3>1, <3>2, <3>3 DEF Bijection, Injection, Surjection, IsInjective
    <3>5. ExistsBijection(UsedSlots, held)
      BY <3>4 DEF ExistsBijection
    <3> QED
      BY <2>6, <3>5, FS_Bijection
  <2>8. IsFiniteSet(hand)
    BY FS_Singleton, FS_EmptySet
  <2>9. hand = {} <=> ~At("assign")
    OBVIOUS
  <2>10. IsFiniteSet(Lost) /\ Cardinality(Lost) = one
    BY <2>1, <2>9, FS_Singleton, FS_EmptySet DEF OnlyLastIsLost
  <2>11. Cardinality(out) = Cardinality(UsedSlots) + Cardinality(hand) + one
    <3> HIDE DEF out, hand, held, one
    <3> QED
      BY <2>4, <2>5, <2>7, <2>8, <2>10, ApartAddUp
  <2>12. SourceStaysOut
    <3> SUFFICES ASSUME NEW j \in Jobs, jobs[j].running
                 PROVE  ~WithDevice(jobs[j].from)
      BY DEF SourceStaysOut
    <3>1. PICK k \in UsedSlots : pend[k].job = j
      BY <2>1 DEF JobsPending
    <3>2. /\ jobs[j].from = [session |-> opened, gen |-> dec.gen, index |-> pend[k].index]
          /\ ~capQueued[pend[k].index]
      BY <2>1, <3>1 DEF SlotsSound, SlotSound
    <3> QED
      BY <3>2 DEF WithDevice
  <2>13. hand \cup held \subseteq out
    BY <2>4
  <2> QED
    BY <2>11, <2>12, <2>13 DEF CaptureConserved
<1> QED
  BY <1>1, CaptureHolds, PTL

(* Without early exports a surface reported decoded shows its own picture.    *)
(* With them it need not: the EarlyExport run shows how.                      *)
THEOREM CopiesAreRight ==
    ASSUME ~EarlyExport
    PROVE  Spec => []DecodedHoldsTheCopy
<1>1. CaptureSafe => DecodedHoldsTheCopy
  BY SafeParts DEF PixelInv
<1> QED
  BY <1>1, CaptureHolds, PTL
=============================================================================
