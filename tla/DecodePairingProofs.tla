-------------------------- MODULE DecodePairingProofs --------------------------
(* What is in the surfaces, for every value of the constants.                 *)
(*                                                                            *)
(* Sessions and epochs: a session only ever holds access units and frames of  *)
(* the stream its context is playing.  With one client thread, and without    *)
(* the HEVC FIFO, pre-seek pixels never carry the current epoch and           *)
(* vaSyncSurface never reports them ready.                                    *)
(*                                                                            *)
(* Pictures, with any number of client threads and in decode or display       *)
(* order: without PAFF field pairs, and as long as STREAMON does not fail     *)
(* after the first access unit was queued, the pictures of a session have     *)
(* their own timestamps; on a platform that keeps timestamps (no              *)
(* HEVC_CAPTURE_FIFO) a surface reported ready then shows the picture the     *)
(* client last began on it.  PairingInv is the inductive invariant: a ring    *)
(* slot is believed only if the surface still has the generation the slot was *)
(* filled for, so what must be carried along is that a believed slot and the  *)
(* frame with its timestamp are the same picture, from vaBeginPicture through *)
(* the firmware to assign_frame.                                              *)
(*                                                                            *)
(* Fences, with any number of contexts and client threads: as long as a       *)
(* client leaves a surface to the context that has it in flight, whoever      *)
(* writes into a surface finds no token there but its own, so that signalling *)
(* it through its own session reaches the kernel's fence.                     *)
EXTENDS DecodeOwnershipProofs

-----------------------------------------------------------------------------
(* Sessions                                                                   *)

(* Queue q holds access units (frames) of stream n of context c; an empty     *)
(* LAST frame belongs to none and carries no timestamp.                       *)
UnitsOf(c, n, q) == \A i \in DOMAIN q : q[i].px.ctx = c /\ q[i].px.stream = n
FrameOf(c, n, f) == IF f.last THEN f.ts = 0 ELSE f.px.ctx = c /\ f.px.stream = n
FramesOf(c, n, q) == \A i \in DOMAIN q : FrameOf(c, n, q[i])

SessionsOf(d, n) ==
    \A c \in Contexts : UnitsOf(c, n[c], d[c].fw) /\ FramesOf(c, n[c], d[c].cap)

SessionInv == StreamsDoNotMix /\ LastHasNoTimestamp

(* The two session invariants, said of the queues themselves.                 *)
LEMMA SessionInvMeans ==
    /\ SessionInv <=> SessionsOf(dev, stream)
    /\ SessionInv' <=> SessionsOf(dev', stream')
<1>1. SessionInv <=> SessionsOf(dev, stream)
  BY DEF SessionInv, StreamsDoNotMix, LastHasNoTimestamp, OfThisStream, SessionsOf,
         UnitsOf, FramesOf, FrameOf
<1>2. SessionInv' <=> SessionsOf(dev', stream')
  BY DEF SessionInv, StreamsDoNotMix, LastHasNoTimestamp, OfThisStream, SessionsOf,
         UnitsOf, FramesOf, FrameOf
<1> QED
  BY <1>1, <1>2

(* Feeding appends a unit of the stream.                                      *)
LEMMA FeedKeepsStream ==
    ASSUME NEW c, NEW n, NEW q \in Seq(AccessUnit), NEW u \in AccessUnit,
           UnitsOf(c, n, q), u.px.ctx = c, u.px.stream = n
    PROVE  UnitsOf(c, n, Append(q, u))
  BY AppendProperties, LenProperties DEF UnitsOf

(* The firmware appends a frame of the stream.                                *)
LEMMA EmitKeepsStream ==
    ASSUME NEW c, NEW n, NEW q \in Seq(Frame), NEW f \in Frame,
           FramesOf(c, n, q), FrameOf(c, n, f)
    PROVE  FramesOf(c, n, Append(q, f))
  BY AppendProperties, LenProperties DEF FramesOf

(* Taking a frame leaves frames of the stream.                                *)
LEMMA PopKeepsStream ==
    ASSUME NEW c, NEW n, NEW q \in Seq(Frame), q # <<>>, FramesOf(c, n, q)
    PROVE  FramesOf(c, n, Tail(q)) /\ FrameOf(c, n, Head(q))
<1>1. /\ Tail(q) \in Seq(Frame) /\ Len(Tail(q)) = Len(q) - 1
      /\ \A i \in 1 .. Len(Tail(q)) : Tail(q)[i] = q[i + 1]
  BY HeadTailProperties
<1>2. Len(q) \in Nat \ {0} /\ DOMAIN q = 1 .. Len(q) /\ Head(q) = q[1]
  BY EmptySeq, LenProperties
<1>3. DOMAIN Tail(q) = 1 .. Len(q) - 1
  BY <1>1, LenProperties
<1> QED
  BY <1>1, <1>2, <1>3 DEF FramesOf

(* Decoding removes access units of the stream.                               *)
LEMMA RemovalKeepsStream ==
    ASSUME TypeOK, NEW c \in Contexts, NEW n, UnitsOf(c, n, dev[c].fw),
           NEW i \in 1 .. Len(dev[c].fw)
    PROVE  UnitsOf(c, n, Removed(dev[c].fw, i, Fields(c, i)))
<1> DEFINE q == dev[c].fw
           k == Fields(c, i)
           r == Removed(q, i, k)
<1>1. q \in Seq(AccessUnit) /\ k \in 1 .. 2 /\ i + k - 1 <= Len(q)
  BY FieldsInQueue DEF TypeOK, SessionRecord
<1>2. /\ r \in Seq(AccessUnit) /\ Len(r) = Len(q) - k
      /\ \A m \in 1 .. Len(q) - k : \E j \in 1 .. Len(q) : r[m] = q[j]
  BY <1>1, RemovedLemma
<1>3. DOMAIN r = 1 .. Len(r) /\ DOMAIN q = 1 .. Len(q)
  BY <1>1, <1>2, LenProperties
<1> HIDE DEF r
<1> QED
  BY <1>2, <1>3 DEF UnitsOf, r

(* The session of one context changes to one of its stream, the others stay.  *)
LEMMA OneSession ==
    ASSUME TypeOK, SessionInv, NEW c \in Contexts, NEW x,
           dev' = [dev EXCEPT ![c] = x],
           \A d \in Contexts \ {c} : stream'[d] = stream[d],
           UnitsOf(c, stream'[c], x.fw), FramesOf(c, stream'[c], x.cap)
    PROVE  SessionInv'
<1>1. SessionsOf(dev, stream)
  BY SessionInvMeans
<1>2. SessionsOf(dev', stream')
  BY <1>1 DEF TypeOK, SessionsOf
<1> QED
  BY <1>2, SessionInvMeans

(* The steps that touch a session keep old and new streams apart              *)
(* (decode.c:589-594).                                                        *)
LEMMA SessionStep ==
    ASSUME TypeOK, SessionInv, [Next]_vars
    PROVE  SessionInv'
<1>1. ASSUME NEW c \in Contexts
      PROVE  /\ dev[c].fw \in Seq(AccessUnit) /\ dev[c].cap \in Seq(Frame)
             /\ UnitsOf(c, stream[c], dev[c].fw) /\ FramesOf(c, stream[c], dev[c].cap)
  BY <1>1, SessionInvMeans DEF TypeOK, SessionRecord, SessionsOf
<1>2. CASE UNCHANGED <<dev, stream>>
  BY <1>2, SessionInvMeans
<1>3. ASSUME NEW c \in Contexts, Feed(c) \/ StartFails(c)
      PROVE  SessionInv'
  <2> DEFINE q == Append(dev[c].fw, Unit(c))
             x == [dev[c] EXCEPT !.fw = q]
  <2>1. Unit(c).px.ctx = c /\ Unit(c).px.stream = stream[c]
    BY DEF Unit
  <2>2. UnitsOf(c, stream[c], q)
    BY <1>1, <2>1, UnitTyped, FeedKeepsStream
  <2>3. dev' = [dev EXCEPT ![c] = x] /\ UNCHANGED stream
    BY <1>3 DEF TypeOK, Feed, StartFails, history
  <2>4. dev[c] \in SessionRecord
    BY DEF TypeOK
  <2> HIDE DEF q
  <2>5. x.fw = q /\ x.cap = dev[c].cap
    BY <2>4 DEF SessionRecord
  <2> HIDE DEF x
  <2> QED
    BY <1>1, <2>2, <2>3, <2>5, OneSession
<1>4. ASSUME NEW c \in Contexts, TakeFrame(c) \/ FlushDone(c)
      PROVE  SessionInv'
  <2> DEFINE q == Tail(dev[c].cap)
             x == [dev[c] EXCEPT !.cap = q]
  <2>1. FramesOf(c, stream[c], q)
    BY <1>1, <1>4, PopKeepsStream DEF TakeFrame, FlushDone
  <2>2. dev' = [dev EXCEPT ![c] = x] /\ UNCHANGED stream
    BY <1>4 DEF TypeOK, TakeFrame, FlushDone, history
  <2>3. dev[c] \in SessionRecord
    BY DEF TypeOK
  <2> HIDE DEF q
  <2>4. x.cap = q /\ x.fw = dev[c].fw
    BY <2>3 DEF SessionRecord
  <2> HIDE DEF x
  <2> QED
    BY <1>1, <2>1, <2>2, <2>4, OneSession
<1>5. ASSUME NEW c \in Contexts, Restart(c) \/ OpenSession(c) \/ Teardown(c)
      PROVE  SessionInv'
  <2>1. /\ dev' = [dev EXCEPT ![c] = NoSession]
        /\ \A d \in Contexts \ {c} : stream'[d] = stream[d]
    BY <1>5 DEF TypeOK, Restart, OpenSession, Teardown, history
  <2>2. UnitsOf(c, stream'[c], NoSession.fw) /\ FramesOf(c, stream'[c], NoSession.cap)
    BY DEF NoSession, UnitsOf, FramesOf
  <2> QED
    BY <2>1, <2>2, OneSession
<1>6. ASSUME NEW c \in Contexts, NEW next, StopSession(c, next), UNCHANGED stream
      PROVE  SessionInv'
  <2> DEFINE x == [dev[c] EXCEPT !.stop = TRUE]
  <2>1. dev' = [dev EXCEPT ![c] = x]
    BY <1>6 DEF TypeOK, StopSession
  <2>2. x.fw = dev[c].fw /\ x.cap = dev[c].cap
    BY DEF TypeOK, SessionRecord
  <2> HIDE DEF x
  <2> QED
    BY <1>1, <1>6, <2>1, <2>2, OneSession
<1>7. ASSUME NEW c \in Contexts, Firmware(c)
      PROVE  SessionInv'
  <2>1. UNCHANGED stream
    BY <1>7 DEF Firmware, FwDecode, FwDrop, FwLast, history
  <2>2. ASSUME NEW q, NEW p, NEW b, UnitsOf(c, stream[c], q), FramesOf(c, stream[c], p),
               dev' = [dev EXCEPT ![c] = [dev[c] EXCEPT !.fw = q, !.cap = p, !.lastSent = b]]
        PROVE  SessionInv'
    <3> DEFINE x == [dev[c] EXCEPT !.fw = q, !.cap = p, !.lastSent = b]
    <3>1. x.fw = q /\ x.cap = p
      BY DEF TypeOK, SessionRecord
    <3>2. dev' = [dev EXCEPT ![c] = x]
      BY <2>2
    <3> HIDE DEF x
    <3> QED
      BY <2>1, <2>2, <3>1, <3>2, OneSession
  <2>3. CASE FwDecode(c)
    <3>1. PICK i \in 1 .. Len(dev[c].fw) :
            dev' = [dev EXCEPT
                     ![c].fw  = Removed(@, i, Fields(c, i)),
                     ![c].cap = Append(@, [ts |-> dev[c].fw[i].ts, px |-> dev[c].fw[i].px,
                                           last |-> FALSE])]
      BY <2>3 DEF FwDecode
    <3> DEFINE f == [ts |-> dev[c].fw[i].ts, px |-> dev[c].fw[i].px, last |-> FALSE]
               q == Removed(dev[c].fw, i, Fields(c, i))
               p == Append(dev[c].cap, f)
    <3>2. UnitsOf(c, stream[c], q)
      BY <1>1, RemovalKeepsStream
    <3>3. dev[c].fw[i] \in AccessUnit /\ i \in DOMAIN dev[c].fw
      BY <1>1, ElementOfSeq, LenProperties
    <3>4. f \in Frame /\ FrameOf(c, stream[c], f)
      BY <1>1, <3>3 DEF AccessUnit, Frame, FrameOf, UnitsOf
    <3>5. FramesOf(c, stream[c], p)
      BY <1>1, <3>4, EmitKeepsStream
    <3>6. dev' = [dev EXCEPT ![c] = [dev[c] EXCEPT
                                       !.fw = q, !.cap = p, !.lastSent = dev[c].lastSent]]
      BY <3>1 DEF TypeOK, SessionRecord
    <3> HIDE DEF q, p
    <3> QED
      BY <2>2, <3>2, <3>5, <3>6
  <2>4. CASE FwDrop(c)
    <3>1. PICK i \in 1 .. Len(dev[c].fw) :
            dev' = [dev EXCEPT ![c].fw = Removed(@, i, Fields(c, i))]
      BY <2>4 DEF FwDrop
    <3> DEFINE q == Removed(dev[c].fw, i, Fields(c, i))
    <3>2. UnitsOf(c, stream[c], q)
      BY <1>1, RemovalKeepsStream
    <3>3. dev' = [dev EXCEPT ![c] = [dev[c] EXCEPT
                     !.fw = q, !.cap = dev[c].cap, !.lastSent = dev[c].lastSent]]
      BY <3>1 DEF TypeOK, SessionRecord
    <3> HIDE DEF q
    <3> QED
      BY <1>1, <2>2, <3>2, <3>3
  <2>5. CASE FwLast(c)
    <3> DEFINE p == Append(dev[c].cap, LastMarker)
    <3>1. LastMarker \in Frame /\ FrameOf(c, stream[c], LastMarker)
      BY DEF LastMarker, Frame, FrameOf, Black, Pixels
    <3>2. FramesOf(c, stream[c], p)
      BY <1>1, <3>1, EmitKeepsStream
    <3>3. dev' = [dev EXCEPT ![c] = [dev[c] EXCEPT
                     !.fw = dev[c].fw, !.cap = p, !.lastSent = TRUE]]
      BY <2>5 DEF TypeOK, SessionRecord, FwLast
    <3> HIDE DEF p
    <3> QED
      BY <1>1, <2>2, <3>2, <3>3
  <2> QED
    BY <1>7, <2>3, <2>4, <2>5 DEF Firmware
<1>8. ASSUME NEW c \in Contexts, Client(c)
      PROVE  SessionInv'
  <2>1. CASE EndPictureFails(c) \/ CreateContext(c) \/
             \E s \in Surfaces, field \in 0 .. 2, poc \in Pocs : BeginPicture(c, s, field, poc)
    BY <1>2, <2>1 DEF EndPictureFails, CreateContext, BeginPicture, history
  <2>2. CASE \E ra, cue \in BOOLEAN : EndPicture(c, ra, cue)
    BY <1>2, <1>6, <2>2 DEF EndPicture, history
  <2>3. CASE DestroyContext(c)
    BY <1>2, <1>6, <2>3 DEF DestroyContext, history
  <2> QED
    BY <1>8, <2>1, <2>2, <2>3 DEF Client
<1>9. ASSUME NEW c \in Contexts, CallStep(c)
      PROVE  SessionInv'
  <2>1. CASE \/ ClaimTarget(c) \/ SubmitFails(c) \/ Unwind(c) \/ DrainDone(c)
             \/ WaitDone(c) \/ CallFails(c) \/ TimesOut(c) \/ SyncReturn(c)
    <3>1. UNCHANGED <<dev, stream>>
      BY <2>1 DEF ClaimTarget, SubmitFails, Unwind, DrainDone, WaitDone, CallFails,
                  TimesOut, SyncReturn, history
    <3> QED
      BY <1>2, <3>1
  <2> QED
    BY <1>3, <1>4, <1>5, <1>9, <2>1 DEF CallStep
<1>10. ASSUME NEW s \in Surfaces, SurfaceCall(s)
       PROVE  SessionInv'
  BY <1>2, <1>10
  DEF SurfaceCall, AllocSurface, ExportSurface, FreeSurface, SyncSurface, history
<1>11. CASE SyncStep
  BY <1>2, <1>11 DEF SyncStep, SyncFilled, SyncEnter, history
<1>12. CASE UNCHANGED vars
  BY <1>2, <1>12 DEF vars
<1> QED
  BY <1>7, <1>8, <1>9, <1>10, <1>11, <1>12 DEF Next

(* Closed sessions hold nothing.                                              *)
LEMMA SessionInit == Init => SessionInv
  BY DEF Init, NoSession, SessionInv, StreamsDoNotMix, LastHasNoTimestamp

(* What a session holds is of the stream its context is playing, and an empty *)
(* LAST frame carries no timestamp (v4l2_decoder.c:743-757).                  *)
THEOREM SessionsHold == Spec => []SessionInv
<1>1. Init => SessionInv
  BY SessionInit
<1>2. TypeOK /\ SessionInv /\ [Next]_vars => SessionInv'
  BY SessionStep
<1>3. Spec => []TypeOK
  BY TypeCorrect
<1> QED
  BY <1>1, <1>2, <1>3, PTL DEF Spec

(* The VPU never holds access units of two streams of one context at a time,  *)
(* whatever fails and however many threads the client has (decode.c:589-594). *)
THEOREM StreamsNeverMix == Spec => []StreamsDoNotMix
<1>1. SessionInv => StreamsDoNotMix
  BY DEF SessionInv
<1> QED
  BY <1>1, SessionsHold, PTL

-----------------------------------------------------------------------------
(* One client thread                                                          *)

(* A step inside a call leaves the sync alone, unless the call is the sync's  *)
(* own, which then either goes on or ends.                                    *)
LEMMA CallStepMoves ==
    ASSUME TypeOK, NEW c \in Contexts, CallStep(c)
    PROVE  /\ pc[c] # "idle"
           /\ \/ /\ pc' = pc /\ sync' = sync
              \/ /\ pc[c] # "sync" /\ sync' = sync
                 /\ \E p \in Calls \ {"sync"} : pc' = [pc EXCEPT ![c] = p]
              \/ /\ pc[c] = "sync"
                 /\ sync' = NoSync \/ (SyncReturn(c) /\ sync' = [sync EXCEPT !.st = "returned"])
                 /\ pc' = [pc EXCEPT ![c] = "idle"]
<1>1. CASE Failing(c) /\ pc[c] # "idle"
  <2>1. AfterError(pc[c]) \in Calls \ {"sync"}
        /\ (pc[c] = "sync" => AfterError(pc[c]) = "idle")
    BY DEF AfterError, Calls
  <2> QED
    BY <1>1, <2>1 DEF Failing
<1>2. CASE TakeFrame(c)
  <2>1. pc[c] # "idle" /\ (Failing(c) \/ UNCHANGED <<pc, sync>>)
    BY <1>2 DEF TakeFrame, Looping
  <2> QED
    BY <1>1, <2>1
<1>3. CASE CallFails(c) \/ TimesOut(c)
  BY <1>1, <1>3 DEF CallFails, TimesOut, Looping
<1>4. CASE SyncReturn(c)
  BY <1>4 DEF SyncReturn
<1>5. CASE \/ FlushDone(c) \/ Restart(c) \/ OpenSession(c) \/ ClaimTarget(c) \/ Feed(c)
           \/ SubmitFails(c) \/ StartFails(c) \/ Unwind(c) \/ DrainDone(c)
           \/ WaitDone(c) \/ Teardown(c)
  BY <1>5 DEF FlushDone, Restart, OpenSession, ClaimTarget, Feed, SubmitFails,
              StartFails, Unwind, DrainDone, WaitDone, Teardown, Calls
<1> QED
  BY <1>2, <1>3, <1>4, <1>5 DEF CallStep

(* A client that is alone starts nothing while something is under way.        *)
LEMMA ClientMoves ==
    ASSUME TypeOK, NEW c \in Contexts, ~ConcurrentClient, Client(c)
    PROVE  /\ AllIdle /\ SyncIdle /\ sync' = sync
           /\ \/ pc' = pc
              \/ \E p \in Calls \ {"sync"} : pc' = [pc EXCEPT ![c] = p]
  BY DEF Client, CreateContext, BeginPicture, EndPicture, EndPictureFails, DestroyContext,
         StopSession, MayCall, Calls

(* Nor does it call on a surface then.                                        *)
LEMMA SurfaceCallMoves ==
    ASSUME NEW s \in Surfaces, ~ConcurrentClient, SurfaceCall(s)
    PROVE  AllIdle /\ SyncIdle /\ pc' = pc
  BY DEF SurfaceCall, AllocSurface, ExportSurface, FreeSurface, SyncSurface, MaySync

(* One client thread makes one call at a time.                                *)
LEMMA OneCallStep ==
    ASSUME TypeOK, OneCall, ~ConcurrentClient, [Next]_vars
    PROVE  OneCall'
<1>1. ASSUME NEW c \in Contexts, Client(c) PROVE OneCall'
  BY <1>1, ClientMoves DEF TypeOK, OneCall, AllIdle, SyncIdle
<1>2. ASSUME NEW c \in Contexts, CallStep(c) PROVE OneCall'
  <2>1. \A d \in Contexts \ {c} : pc[d] = "idle"
    BY <1>2, CallStepMoves DEF OneCall
  <2>2. sync.st \notin {"filling", "blocked"}
    BY <1>2, CallStepMoves DEF OneCall, AllIdle
  <2>3. CASE pc' = pc /\ sync' = sync
    BY <2>3 DEF OneCall, AllIdle, SyncIdle
  <2>4. CASE /\ pc[c] # "sync" /\ sync' = sync
             /\ \E p \in Calls \ {"sync"} : pc' = [pc EXCEPT ![c] = p]
    <3>1. SyncIdle
      BY <1>2, <2>4, CallStepMoves DEF OneCall
    <3> QED
      BY <2>1, <2>2, <2>4, <3>1 DEF TypeOK, OneCall, AllIdle, SyncIdle
  <2>5. CASE /\ pc[c] = "sync" /\ sync'.st \in {"none", "returned"}
             /\ pc' = [pc EXCEPT ![c] = "idle"]
    BY <2>1, <2>5 DEF TypeOK, OneCall, AllIdle, SyncIdle
  <2>6. /\ NoSync.st = "none"
        /\ [sync EXCEPT !.st = "returned"].st = "returned"
    BY DEF TypeOK, SyncRecord, NoSync
  <2> QED
    BY <1>2, <2>3, <2>4, <2>5, <2>6, CallStepMoves
<1>3. ASSUME NEW c \in Contexts, Firmware(c) PROVE OneCall'
  BY <1>3 DEF Firmware, FwDecode, FwDrop, FwLast, OneCall, AllIdle, SyncIdle
<1>4. ASSUME NEW s \in Surfaces, SurfaceCall(s) PROVE OneCall'
  BY <1>4, SurfaceCallMoves DEF OneCall, AllIdle, SyncIdle
<1>5. CASE SyncFilled
  BY <1>5 DEF TypeOK, SyncRecord, SyncFilled, OneCall, AllIdle, SyncIdle
<1>6. ASSUME NEW c \in Contexts, SyncEnter(c) PROVE OneCall'
  <2>1. AllIdle /\ sync.st = "blocked" /\ sync.c = c
    BY <1>6 DEF SyncEnter, OneCall
  <2>2. \/ pc' = pc /\ sync'.st \in {"none", "returned"}
        \/ pc' = [pc EXCEPT ![c] = "sync"] /\ sync'.st = "inside" /\ sync'.c = c
    BY <1>6, <2>1 DEF TypeOK, SyncRecord, SyncEnter, NoSync
  <2> QED
    BY <2>1, <2>2 DEF TypeOK, OneCall, AllIdle, SyncIdle
<1>7. CASE UNCHANGED vars
  BY <1>7 DEF vars, OneCall, AllIdle, SyncIdle
<1> QED
  BY <1>1, <1>2, <1>3, <1>4, <1>5, <1>6, <1>7 DEF Next, SyncStep

-----------------------------------------------------------------------------
(* Pixels and epochs                                                          *)

SamePixels(x, y) == x.life = y.life /\ x.epoch = y.epoch /\ x.px = y.px

(* A step leaves surface s as it is, or takes it away.                        *)
KeptAt(s) ==
    /\ surf'[s].epoch = surf[s].epoch /\ surf'[s].px = surf[s].px
    /\ surf'[s].life = "live" => surf[s].life = "live"

(* After a step surface s may carry the current epoch only with pixels that   *)
(* are current.                                                               *)
StampedAt(s) ==
    /\ surf'[s].epoch <= reg.epoch
    /\ surf'[s].life = "live" /\ surf'[s].epoch = reg.epoch => CurrentPixels(surf'[s].px)

StreamsGoOn ==
    \A c \in Contexts :
        /\ ctx[c].life = "live" => ctx'[c].life = "live"
        /\ stream'[c] = stream[c]

(* Begin, finish, export and detach leave pixels and epoch alone; a backfill  *)
(* claims the current epoch and leaves the pixels alone.                      *)
LEMMA PixelEffects ==
    ASSUME NEW x \in SurfaceRecord
    PROVE  /\ SamePixels(Begun(x), x)
           /\ SamePixels(Finished(x), x)
           /\ SamePixels([x EXCEPT !.exported = TRUE], x)
           /\ SamePixels([x EXCEPT !.owner = None], x)
           /\ \A b : SamePixels([x EXCEPT !.queued = b], x)
           /\ Backfilled(x).life = x.life /\ Backfilled(x).px = x.px
           /\ Backfilled(x).epoch = reg.epoch
  BY DEF SurfaceRecord, SamePixels, Begun, Finished, Backfilled

(* A submission leaves pixels and epoch of its target alone.                  *)
LEMMA ClaimedPixels ==
    ASSUME NEW x \in SurfaceRecord, NEW c \in Contexts, NEW n
    PROVE  SamePixels(Claimed(x, c, n), x)
  BY DEF SurfaceRecord, SamePixels, Finished, Claimed

(* A frame that lands brings its pixels and the current epoch.                *)
LEMMA LandedPixels ==
    ASSUME NEW x \in SurfaceRecord, NEW c \in Contexts, NEW px
    PROVE  /\ Landed(x, c, px).life = x.life /\ Landed(x, c, px).px = px
           /\ Landed(x, c, px).epoch = reg.epoch
           /\ [x EXCEPT !.px = px].life = x.life /\ [x EXCEPT !.px = px].px = px
           /\ [x EXCEPT !.px = px].epoch = x.epoch
  BY DEF SurfaceRecord, Finished, Landed

(* The sweeps of a close and of a destruction touch no pixels and no epoch.   *)
LEMMA SweepPixels ==
    ASSUME TypeOK, NEW c \in Contexts, NEW s \in Surfaces
    PROVE  /\ SamePixels(AllFinished(c)[s], surf[s])
           /\ SamePixels(Disowned(c)[s], surf[s])
           /\ SamePixels(Detached(c)[s], surf[s])
<1>1. surf[s] \in SurfaceRecord /\ Finished(surf[s]) \in SurfaceRecord
  BY WritesTyped DEF TypeOK
<1>2. SamePixels(AllFinished(c)[s], surf[s])
  BY <1>1, PixelEffects DEF AllFinished, SamePixels
<1>3. SamePixels(Disowned(c)[s], surf[s])
  <2> DEFINE q == IF Abandoned(surf[s], c) THEN FALSE ELSE Finished(surf[s]).queued
  <2>1. Disowned(c)[s] = IF Live(s) /\ surf[s].owner = c
                         THEN [Finished(surf[s]) EXCEPT !.queued = q] ELSE surf[s]
    BY DEF Disowned
  <2> HIDE DEF q
  <2>2. SamePixels([Finished(surf[s]) EXCEPT !.queued = q], Finished(surf[s]))
    BY <1>1, PixelEffects
  <2> QED
    BY <1>1, <2>1, <2>2, PixelEffects DEF SamePixels
<1>4. SamePixels(Detached(c)[s], surf[s])
  <2> DEFINE x == IF ctx[c].open THEN Finished(surf[s]) ELSE surf[s]
  <2>1. Detached(c)[s] = IF Live(s) /\ surf[s].owner = c
                         THEN [x EXCEPT !.owner = None] ELSE surf[s]
    BY DEF Detached
  <2>2. x \in SurfaceRecord /\ SamePixels(x, surf[s])
    BY <1>1, PixelEffects DEF SamePixels
  <2> HIDE DEF x
  <2>3. SamePixels([x EXCEPT !.owner = None], x)
    BY <2>2, PixelEffects
  <2> QED
    BY <2>1, <2>2, <2>3 DEF SamePixels
<1> QED
  BY <1>2, <1>3, <1>4

(* A surface that is left alone keeps its stamp.                              *)
LEMMA KeptIsStamped ==
    ASSUME TypeOK, EpochsPast, NoAbandonedPixels, NEW s \in Surfaces, KeptAt(s)
    PROVE  StampedAt(s)
  BY DEF KeptAt, StampedAt, EpochsPast, NoAbandonedPixels, Live, Stale

(* A step within an epoch.                                                    *)
LEMMA StampedStep ==
    ASSUME TypeOK, TypeOK', StreamsGoOn, reg'.epoch = reg.epoch,
           \A s \in Surfaces : StampedAt(s)
    PROVE  EpochsPast' /\ NoAbandonedPixels'
<1>1. EpochsPast'
  BY DEF StampedAt, EpochsPast
<1>2. NoAbandonedPixels'
  <2> SUFFICES ASSUME NEW s \in Surfaces, surf'[s].life = "live",
                      surf'[s].epoch = reg'.epoch
               PROVE  CurrentPixels(surf[s].px)'
    BY DEF NoAbandonedPixels, Live, Stale
  <2>1. CurrentPixels(surf'[s].px)
    BY DEF StampedAt
  <2>2. surf'[s].px.ctx \in Contexts \cup {None}
    BY DEF TypeOK, SurfaceRecord, Pixels
  <2> QED
    BY <2>1, <2>2 DEF CurrentPixels, StreamsGoOn
<1> QED
  BY <1>1, <1>2

(* A step into a new epoch: every surface is stale.                           *)
LEMMA NewEpochStep ==
    ASSUME TypeOK, EpochsPast, reg' = NextEpoch,
           \A s \in Surfaces : SamePixels(surf'[s], surf[s])
    PROVE  EpochsPast' /\ NoAbandonedPixels'
<1>1. reg'.epoch = reg.epoch + 1 /\ reg.epoch \in Nat
  BY DEF TypeOK, RegistryRecord, NextEpoch
<1>2. \A s \in Surfaces : surf'[s].epoch <= reg.epoch /\ surf'[s].epoch \in Nat
  BY DEF TypeOK, SurfaceRecord, EpochsPast, SamePixels
<1> QED
  BY <1>1, <1>2 DEF EpochsPast, NoAbandonedPixels, Stale

-----------------------------------------------------------------------------
(* Actions                                                                    *)

Safe ==
    /\ TypeOK
    /\ OwnershipInv
    /\ SessionInv
    /\ OneCall
    /\ SyncedSurfaceCurrent
    /\ EpochsPast
    /\ NoAbandonedPixels

(* A surface is born black into the current epoch.                            *)
LEMMA AllocStamps ==
    ASSUME Safe, NEW s \in Surfaces, AllocSurface(s) \/ ExportSurface(s) \/ FreeSurface(s)
    PROVE  \A t \in Surfaces : StampedAt(t)
<1>1. reg.epoch \in Nat /\ surf \in [Surfaces -> SurfaceRecord]
  BY DEF Safe, TypeOK, RegistryRecord
<1> SUFFICES ASSUME NEW t \in Surfaces PROVE StampedAt(t)
  OBVIOUS
<1>2. CASE surf'[t] = surf[t]
  BY <1>2, KeptIsStamped DEF Safe, KeptAt
<1>3. CASE AllocSurface(s) /\ t = s
  <2>1. surf'[s] = Allocated
    BY <1>1, <1>3 DEF AllocSurface
  <2>2. Allocated.epoch = reg.epoch /\ Allocated.px = Black
    BY DEF Allocated, UnbornSurface
  <2> QED
    BY <1>1, <1>3, <2>1, <2>2 DEF StampedAt, CurrentPixels
<1>4. CASE ExportSurface(s) /\ t = s
  <2>1. surf'[s] = [surf[s] EXCEPT !.exported = TRUE]
    BY <1>1, <1>4 DEF ExportSurface
  <2> QED
    BY <1>1, <1>4, <2>1, PixelEffects, KeptIsStamped DEF Safe, KeptAt, SamePixels
<1>5. CASE FreeSurface(s) /\ t = s
  <2>1. surf'[s] = [UnbornSurface EXCEPT !.life = "freed"]
    BY <1>1, <1>5 DEF FreeSurface
  <2>2. surf'[s].epoch = 0 /\ surf'[s].life # "live"
    BY <2>1 DEF UnbornSurface
  <2> QED
    BY <1>1, <1>5, <2>2 DEF StampedAt
<1>6. surf'[t] = surf[t] \/ t = s
  BY <1>1 DEF AllocSurface, ExportSurface, FreeSurface
<1> QED
  BY <1>2, <1>3, <1>4, <1>5, <1>6

(* vaSyncSurface fills a stale surface with the newest frame of this epoch,   *)
(* or with black, and leaves it stale.                                        *)
LEMMA FillIsCurrent ==
    ASSUME Safe, NEW s \in Surfaces
    PROVE  CurrentPixels(FillPixels(s))
<1>1. CASE Repeatable(s)
  <2>1. /\ FillPixels(s) = surf[reg.lastFrame].px
        /\ Live(reg.lastFrame) /\ ~Stale(reg.lastFrame)
    BY <1>1 DEF FillPixels, Repeatable, Stale
  <2> QED
    BY <2>1 DEF Safe, NoAbandonedPixels, Live
<1>2. CASE ~Repeatable(s)
  BY <1>2 DEF FillPixels, CurrentPixels
<1> QED
  BY <1>1, <1>2

(* The first half of a backfill claims nothing: the surface stays stale.      *)
LEMMA SyncSurfaceStamps ==
    ASSUME Safe, NEW s \in Surfaces, SyncSurface(s)
    PROVE  \A t \in Surfaces : StampedAt(t)
<1> SUFFICES ASSUME NEW t \in Surfaces PROVE StampedAt(t)
  OBVIOUS
<1>1. CASE surf'[t] = surf[t]
  BY <1>1, KeptIsStamped DEF Safe, KeptAt
<1>2. CASE surf'[t] # surf[t]
  <2>1. /\ surf[s] \in SurfaceRecord /\ t = s /\ Stale(s)
        /\ surf'[s] = [surf[s] EXCEPT !.px = FillPixels(s)]
    BY <1>2 DEF Safe, TypeOK, SyncSurface
  <2>2. surf'[s].epoch = surf[s].epoch
    BY <2>1 DEF SurfaceRecord
  <2> QED
    BY <2>1, <2>2 DEF Safe, EpochsPast, Stale, StampedAt
<1> QED
  BY <1>1, <1>2

(* The second half of a backfill claims the epoch for the pixels of the first *)
(* half.                                                                      *)
LEMMA SyncFilledStamps ==
    ASSUME Safe, SyncFilled
    PROVE  /\ \A t \in Surfaces : StampedAt(t)
           /\ sync.s \in Surfaces /\ CurrentPixels(surf'[sync.s].px)
<1>1. /\ sync.s \in Surfaces /\ CurrentPixels(surf[sync.s].px)
      /\ surf \in [Surfaces -> SurfaceRecord] /\ reg.epoch \in Nat
  BY DEF Safe, TypeOK, RegistryRecord, SyncFilled, SyncedSurfaceCurrent, SyncIdle, Live
<1>2. /\ surf'[sync.s] = Backfilled(surf[sync.s])
      /\ \A t \in Surfaces \ {sync.s} : surf'[t] = surf[t]
  BY <1>1 DEF SyncFilled
<1>3. surf'[sync.s].px = surf[sync.s].px /\ surf'[sync.s].epoch = reg.epoch
  BY <1>1, <1>2, PixelEffects
<1>4. StampedAt(sync.s)
  BY <1>1, <1>3 DEF StampedAt
<1>5. \A t \in Surfaces \ {sync.s} : StampedAt(t)
  BY <1>2, KeptIsStamped DEF Safe, KeptAt
<1> QED
  BY <1>1, <1>3, <1>4, <1>5

(* A frame that lands is a picture of the stream its context is playing.      *)
LEMMA TakeFrameStamps ==
    ASSUME Safe, ~HevcFifo, NEW c \in Contexts, TakeFrame(c)
    PROVE  /\ \A t \in Surfaces : StampedAt(t)
           /\ \A t \in Surfaces : surf'[t].life = surf[t].life
                                  /\ (~Stale(t) => surf'[t].epoch = reg.epoch)
           /\ reg'.epoch = reg.epoch
<1> DEFINE f == Head(dev[c].cap)
           s == MappedTo(c, f).target
           px == IF f.last THEN surf[s].px ELSE f.px
<1>1. ctx[c].life = "live" /\ dev[c].cap # <<>>
  BY DEF Safe, TakeFrame, Looping, OwnershipInv, CallsOnLive
<1>2. PICK copied \in BOOLEAN : Assign(c, f, copied)
  BY DEF TakeFrame
<1>3. surf \in [Surfaces -> SurfaceRecord] /\ reg.epoch \in Nat /\ reg \in RegistryRecord
  BY DEF Safe, TypeOK, RegistryRecord
<1>4. CASE ~Lands(c, f)
  <2>1. surf' = surf /\ reg' = reg
    BY <1>2, <1>4 DEF Assign
  <2>2. \A t \in Surfaces : StampedAt(t)
    BY <2>1, KeptIsStamped DEF Safe, KeptAt
  <2> QED
    BY <2>1, <2>2 DEF Stale
<1>5. CASE Lands(c, f)
  <2>1. FrameOf(c, stream[c], f)
    <3>1. /\ dev[c].cap \in Seq(Frame)
          /\ FramesOf(c, stream[c], dev[c].cap)
      BY SessionInvMeans DEF Safe, TypeOK, SessionRecord, SessionsOf
    <3> QED
      BY <1>1, <3>1, PopKeepsStream
  <2>2. ~f.last
    BY <1>5, <2>1 DEF Lands, Unassignable, FrameOf
  <2>3. px = f.px /\ CurrentPixels(px)
    BY <1>1, <2>1, <2>2, RegistryAssumption DEF FrameOf, CurrentPixels
  <2>4. s \in Surfaces /\ surf[s] \in SurfaceRecord /\ Finished(surf[s]) \in SurfaceRecord
    BY <1>3, <1>5, WritesTyped DEF Lands, Live
  <2>5. /\ reg'.epoch = reg.epoch
        /\ \E x \in {Landed(surf[s], c, px), surf[s], Finished(surf[s]),
                     [Finished(surf[s]) EXCEPT !.px = px]} : surf' = [surf EXCEPT ![s] = x]
    BY <1>2, <1>3, <1>5 DEF Assign, LastFrameIs, RegistryRecord
  <2> HIDE DEF s, px, f
  <2>6. ASSUME NEW x \in {Landed(surf[s], c, px), surf[s], Finished(surf[s]),
                          [Finished(surf[s]) EXCEPT !.px = px]}
        PROVE  /\ x.life = surf[s].life /\ x.epoch \in {surf[s].epoch, reg.epoch}
               /\ \/ x.epoch = surf[s].epoch /\ x.px = surf[s].px
                  \/ x.px = px
    <3>1. CASE x = Landed(surf[s], c, px)
      BY <2>4, <3>1, LandedPixels
    <3>2. CASE x \in {surf[s], Finished(surf[s])}
      BY <2>4, <3>2, PixelEffects DEF SamePixels
    <3>3. CASE x = [Finished(surf[s]) EXCEPT !.px = px]
      <4>1. x.life = Finished(surf[s]).life /\ x.px = px /\ x.epoch = Finished(surf[s]).epoch
        BY <2>4, <3>3, LandedPixels
      <4> QED
        BY <2>4, <4>1, PixelEffects DEF SamePixels
    <3> QED
      BY <2>6, <3>1, <3>2, <3>3
  <2>7. /\ \A t \in Surfaces \ {s} : surf'[t] = surf[t]
        /\ surf'[s].life = surf[s].life /\ surf'[s].epoch \in {surf[s].epoch, reg.epoch}
        /\ \/ surf'[s].epoch = surf[s].epoch /\ surf'[s].px = surf[s].px
           \/ surf'[s].px = px
    BY <1>3, <2>4, <2>5, <2>6
  <2>8. \A t \in Surfaces \ {s} : StampedAt(t)
    BY <2>7, KeptIsStamped DEF Safe, KeptAt
  <2>9. StampedAt(s)
    <3>1. CASE surf'[s].epoch = surf[s].epoch /\ surf'[s].px = surf[s].px
      BY <2>4, <2>7, <3>1, KeptIsStamped DEF Safe, KeptAt
    <3>2. CASE surf'[s].px = px
      BY <1>3, <2>3, <2>4, <2>7, <3>2 DEF Safe, EpochsPast, StampedAt
    <3> QED
      BY <2>7, <3>1, <3>2
  <2> QED
    BY <2>4, <2>5, <2>7, <2>8, <2>9 DEF Stale
<1> QED
  BY <1>4, <1>5

(* The other steps inside a call leave every pixel and epoch alone.           *)
LEMMA OtherCallSteps ==
    ASSUME Safe, NEW c \in Contexts, CallStep(c), ~TakeFrame(c)
    PROVE  /\ \A s \in Surfaces : SamePixels(surf'[s], surf[s])
           /\ reg' = reg \/ reg' = NextEpoch
           /\ reg' = reg => StreamsGoOn
<1>1. \A s \in Surfaces : SamePixels(surf'[s], surf[s])
  <2>1. \/ surf' \in {surf, AllFinished(c), Disowned(c), Detached(c)}
        \/ ClaimTarget(c)
    BY DEF CallStep, FlushDone, Restart, OpenSession, Feed, SubmitFails, StartFails,
           Unwind, DrainDone, WaitDone, CallFails, TimesOut, SyncReturn, Teardown
  <2>2. CASE surf' \in {surf, AllFinished(c), Disowned(c), Detached(c)}
    BY <2>2, SweepPixels DEF Safe, SamePixels
  <2>3. CASE ClaimTarget(c)
    <3> SUFFICES ASSUME NEW s \in Surfaces PROVE SamePixels(surf'[s], surf[s])
      OBVIOUS
    <3>1. surf[s] \in SurfaceRecord
      BY DEF Safe, TypeOK
    <3>2. surf'[s] \in {surf[s], Claimed(surf[s], c, Token(c))}
      BY <2>3 DEF ClaimTarget
    <3> QED
      BY <3>1, <3>2, ClaimedPixels DEF SamePixels
  <2> QED
    BY <2>1, <2>2, <2>3
<1>2. \/ /\ reg' = NextEpoch /\ NextEpoch # reg
      \/ /\ reg' = reg /\ UNCHANGED stream
         /\ \A d \in Contexts : ctx'[d].life = ctx[d].life
  <2>1. CASE Restart(c) \/ Teardown(c)
    <3>1. NextEpoch.epoch = reg.epoch + 1 /\ reg.epoch \in Nat
      BY DEF Safe, TypeOK, RegistryRecord, NextEpoch
    <3> QED
      BY <2>1, <3>1 DEF Restart, Teardown
  <2>2. CASE \/ FlushDone(c) \/ ClaimTarget(c) \/ SubmitFails(c) \/ StartFails(c)
             \/ Unwind(c) \/ DrainDone(c) \/ WaitDone(c) \/ TimesOut(c) \/ SyncReturn(c)
    BY <2>2 DEF FlushDone, ClaimTarget, SubmitFails, StartFails, Unwind, DrainDone,
                WaitDone, TimesOut, SyncReturn, history
  <2>3. CASE OpenSession(c)
    BY <2>3 DEF Safe, TypeOK, ContextRecord, OpenSession, Closed, history
  <2>4. CASE Feed(c)
    <3>1. /\ ctx' = [ctx EXCEPT ![c].started = TRUE, ![c].seq = NextSeq(c)]
          /\ reg' = reg /\ UNCHANGED stream
      BY <2>4 DEF Feed, history
    <3> QED
      BY <3>1 DEF Safe, TypeOK, ContextRecord
  <2>5. CASE CallFails(c)
    <3>1. /\ \E fatal : ctx' = [ctx EXCEPT ![c].fatal = fatal]
          /\ reg' = reg /\ UNCHANGED stream
      BY <2>5 DEF CallFails, history
    <3> QED
      BY <3>1 DEF Safe, TypeOK, ContextRecord
  <2> QED
    BY <2>1, <2>2, <2>3, <2>4, <2>5 DEF CallStep
<1> QED
  BY <1>1, <1>2 DEF StreamsGoOn

(* The client's calls on contexts leave pixels, epochs and streams alone.     *)
LEMMA ClientKeepsPixels ==
    ASSUME Safe, NEW c \in Contexts, Client(c)
    PROVE  /\ \A s \in Surfaces : SamePixels(surf'[s], surf[s])
           /\ reg' = reg /\ StreamsGoOn
<1>1. \A s \in Surfaces : SamePixels(surf'[s], surf[s])
  <2>1. surf' = surf \/ \E s \in Surfaces : surf' = [surf EXCEPT ![s] = Begun(surf[s])]
    BY DEF Client, CreateContext, BeginPicture, EndPicture, EndPictureFails,
           DestroyContext
  <2>2. \A s \in Surfaces : SamePixels(Begun(surf[s]), surf[s])
    BY PixelEffects DEF Safe, TypeOK
  <2> QED
    BY <2>1, <2>2 DEF Safe, TypeOK, SamePixels
<1>2. reg' = reg /\ UNCHANGED stream
  BY DEF Client, CreateContext, BeginPicture, EndPicture, EndPictureFails,
         DestroyContext, history
<1>3. ASSUME NEW d \in Contexts, ctx[d].life = "live"
      PROVE  ctx'[d].life = "live"
  <2>1. \/ ctx' = ctx
        \/ ctx' = [ctx EXCEPT ![c].life = "live"]
        \/ ctx' = [ctx EXCEPT ![c].eos = TRUE]
    BY DEF Client, CreateContext, BeginPicture, EndPicture, EndPictureFails,
           DestroyContext, StopSession
  <2> QED
    BY <1>3, <2>1 DEF Safe, TypeOK, ContextRecord
<1> QED
  BY <1>1, <1>2, <1>3 DEF StreamsGoOn

(* Every step keeps epochs and pixels together.                               *)
LEMMA PixelStep ==
    ASSUME Safe, TypeOK', ~ConcurrentClient, ~HevcFifo, [Next]_vars
    PROVE  EpochsPast' /\ NoAbandonedPixels'
<1>1. ASSUME reg' = reg, StreamsGoOn, \A s \in Surfaces : SamePixels(surf'[s], surf[s])
      PROVE  EpochsPast' /\ NoAbandonedPixels'
  BY <1>1, KeptIsStamped, StampedStep DEF Safe, KeptAt, SamePixels
<1>2. ASSUME NEW c \in Contexts, Client(c) PROVE EpochsPast' /\ NoAbandonedPixels'
  BY <1>1, <1>2, ClientKeepsPixels
<1>3. ASSUME NEW c \in Contexts, TakeFrame(c) PROVE EpochsPast' /\ NoAbandonedPixels'
  <2>1. StreamsGoOn
    <3>1. UNCHANGED stream
          /\ (UNCHANGED ctx \/ ctx' = [ctx EXCEPT ![c].fatal = TRUE])
      BY <1>3 DEF TakeFrame
    <3> QED
      BY <3>1 DEF Safe, TypeOK, ContextRecord, StreamsGoOn
  <2> QED
    BY <1>3, <2>1, TakeFrameStamps, StampedStep DEF Safe
<1>4. ASSUME NEW c \in Contexts, CallStep(c), ~TakeFrame(c)
      PROVE  EpochsPast' /\ NoAbandonedPixels'
  <2>1. CASE reg' = reg
    BY <1>1, <1>4, <2>1, OtherCallSteps
  <2>2. CASE reg' = NextEpoch
    BY <1>4, <2>2, OtherCallSteps, NewEpochStep DEF Safe
  <2> QED
    BY <1>4, <2>1, <2>2, OtherCallSteps
<1>5. ASSUME NEW c \in Contexts, Firmware(c) PROVE EpochsPast' /\ NoAbandonedPixels'
  <2>1. UNCHANGED <<surf, reg, ctx, stream>>
    BY <1>5 DEF Firmware, FwDecode, FwDrop, FwLast, history
  <2> QED
    BY <1>1, <2>1 DEF SamePixels, StreamsGoOn
<1>6. ASSUME NEW s \in Surfaces, SurfaceCall(s) PROVE EpochsPast' /\ NoAbandonedPixels'
  <2>1. UNCHANGED <<reg, ctx, stream>>
    BY <1>6 DEF SurfaceCall, AllocSurface, ExportSurface, FreeSurface, SyncSurface, history
  <2>2. \A t \in Surfaces : StampedAt(t)
    BY <1>6, AllocStamps, SyncSurfaceStamps DEF SurfaceCall
  <2> QED
    BY <2>1, <2>2, StampedStep DEF Safe, StreamsGoOn
<1>7. CASE SyncFilled
  <2>1. UNCHANGED <<reg, ctx, stream>>
    BY <1>7 DEF SyncFilled, history
  <2> QED
    BY <1>7, <2>1, SyncFilledStamps, StampedStep DEF Safe, StreamsGoOn
<1>8. ASSUME NEW c \in Contexts, SyncEnter(c) PROVE EpochsPast' /\ NoAbandonedPixels'
  <2>1. UNCHANGED <<surf, reg, ctx, stream>>
    BY <1>8 DEF SyncEnter, history
  <2> QED
    BY <1>1, <2>1 DEF SamePixels, StreamsGoOn
<1>9. CASE UNCHANGED vars
  BY <1>1, <1>9 DEF vars, SamePixels, StreamsGoOn
<1> QED
  BY <1>2, <1>3, <1>4, <1>5, <1>6, <1>7, <1>8, <1>9 DEF Next, SyncStep

-----------------------------------------------------------------------------
(* The surface being synced                                                   *)

(* A step outside the sync's own ones happens while no sync is under way.     *)
LEMMA SyncedStep ==
    ASSUME Safe, NoAbandonedPixels', ~ConcurrentClient, ~HevcFifo, [Next]_vars
    PROVE  /\ SyncedSurfaceCurrent'
           /\ \A s \in Surfaces :
                 sync.st # "returned" /\ sync'.st = "returned" /\ sync'.s = s
                     => CurrentPixels(surf[s].px)'
<1> DEFINE Goal == /\ SyncedSurfaceCurrent'
                   /\ \A s \in Surfaces :
                         sync.st # "returned" /\ sync'.st = "returned" /\ sync'.s = s
                             => CurrentPixels(surf[s].px)'
<1>1. ASSUME sync' = sync, SyncIdle PROVE Goal
  BY <1>1 DEF SyncedSurfaceCurrent, SyncIdle
<1>2. ASSUME sync' = NoSync PROVE Goal
  BY <1>2 DEF SyncedSurfaceCurrent, SyncIdle, NoSync
<1>3. ASSUME UNCHANGED <<surf, reg, ctx, stream, sync>> PROVE Goal
  BY <1>3 DEF Safe, SyncedSurfaceCurrent, SyncIdle, CurrentPixels, Live, Stale
<1>4. ASSUME sync'.st = "returned", sync'.s \in Surfaces,
             CurrentPixels(surf[sync.s].px)' \/ (Live(sync.s) /\ ~Stale(sync.s))'
      PROVE  Goal
  BY <1>4 DEF NoAbandonedPixels, SyncedSurfaceCurrent, SyncIdle
<1>5. ASSUME NEW c \in Contexts, Client(c) PROVE Goal
  BY <1>1, <1>5, ClientMoves DEF Safe
<1>6. ASSUME NEW c \in Contexts, TakeFrame(c) PROVE Goal
  <2>1. CASE sync' = sync /\ SyncIdle
    BY <1>1, <2>1
  <2>2. CASE sync' = NoSync
    BY <1>2, <2>2
  <2>3. CASE sync' = sync /\ ~SyncIdle
    <3>1. sync.st = "inside"
      <4>1. pc[c] = "sync"
        BY <1>6, <2>3, CallStepMoves DEF Safe, OneCall, CallStep
      <4> QED
        BY <4>1 DEF Safe, OneCall
    <3>2. Live(sync.s) /\ ~Stale(sync.s)
      BY <2>3, <3>1 DEF Safe, SyncedSurfaceCurrent
    <3>3. (Live(sync.s) /\ ~Stale(sync.s))'
      BY <1>6, <2>3, <3>2, TakeFrameStamps DEF Live, Stale
    <3> QED
      BY <2>3, <3>1, <3>3 DEF SyncedSurfaceCurrent, SyncIdle
  <2>4. sync' = sync \/ sync' = NoSync
    BY <1>6 DEF TakeFrame, Failing
  <2> QED
    BY <2>1, <2>2, <2>3, <2>4
<1>7. ASSUME NEW c \in Contexts, SyncReturn(c) PROVE Goal
  <2>1. /\ sync.st = "inside" /\ sync'.st = "returned" /\ sync'.s = sync.s
        /\ UNCHANGED <<surf, reg>>
    BY <1>7 DEF Safe, TypeOK, SyncRecord, OneCall, SyncReturn
  <2>2. Live(sync.s) /\ ~Stale(sync.s)
    BY <2>1 DEF Safe, SyncedSurfaceCurrent, SyncIdle
  <2> QED
    BY <1>4, <2>1, <2>2 DEF Live, Stale
<1>8. ASSUME NEW c \in Contexts, CallStep(c), ~TakeFrame(c), ~SyncReturn(c) PROVE Goal
  <2>1. CASE sync' = NoSync
    BY <1>2, <2>1
  <2>2. CASE sync' = sync /\ SyncIdle
    BY <1>1, <2>2
  <2>3. CASE sync' = sync /\ ~SyncIdle
    <3>1. pc[c] = "sync" /\ pc' = pc
      BY <1>8, <2>3, CallStepMoves DEF Safe, OneCall, SyncIdle, NoSync
    <3>2. FALSE
      BY <1>8, <3>1 DEF CallStep, FlushDone, Restart, OpenSession, ClaimTarget, Feed,
         SubmitFails, StartFails, Unwind, DrainDone, WaitDone, CallFails, TimesOut,
         Teardown, Failing, AfterError, Safe, TypeOK
    <3> QED
      BY <3>2
  <2> QED
    BY <1>8, <2>1, <2>2, <2>3, CallStepMoves DEF Safe
<1>9. ASSUME NEW c \in Contexts, Firmware(c) PROVE Goal
  BY <1>3, <1>9 DEF Firmware, FwDecode, FwDrop, FwLast, history
<1>10. ASSUME NEW s \in Surfaces, AllocSurface(s) \/ ExportSurface(s) \/ FreeSurface(s)
       PROVE  Goal
  BY <1>1, <1>10, SurfaceCallMoves
  DEF SurfaceCall, AllocSurface, ExportSurface, FreeSurface
<1>11. ASSUME NEW s \in Surfaces, SyncSurface(s) PROVE Goal
  <2>1. CASE Stale(s)
    <3>1. /\ sync'.st = "filling" /\ sync'.s = s /\ UNCHANGED <<ctx, stream>>
          /\ surf' = [surf EXCEPT ![s].px = FillPixels(s)]
      BY <1>11, <2>1 DEF SyncSurface
    <3>2. surf'[s].px = FillPixels(s) /\ surf'[s].life = surf[s].life
      BY <3>1 DEF Safe, TypeOK, SurfaceRecord
    <3>3. CurrentPixels(surf[s].px)'
      BY <3>1, <3>2, FillIsCurrent DEF CurrentPixels
    <3>4. Live(s)'
      BY <1>11, <3>2 DEF SyncSurface, Live
    <3> QED
      BY <3>1, <3>3, <3>4 DEF SyncedSurfaceCurrent, SyncIdle
  <2>2. CASE ~Stale(s)
    <3>1. /\ sync'.st \in {"blocked", "returned"} /\ sync'.s = s
          /\ UNCHANGED <<surf, reg>>
      BY <1>11, <2>2 DEF SyncSurface
    <3>2. (Live(s) /\ ~Stale(s))'
      BY <1>11, <2>2, <3>1 DEF SyncSurface, Live, Stale
    <3> QED
      BY <3>1, <3>2 DEF NoAbandonedPixels, SyncedSurfaceCurrent, SyncIdle
  <2> QED
    BY <2>1, <2>2
<1>12. CASE SyncFilled
  <2>1. /\ sync'.st = "returned" /\ sync'.s = sync.s /\ UNCHANGED <<ctx, stream>>
    BY <1>12 DEF Safe, TypeOK, SyncRecord, SyncFilled, history
  <2>2. sync.s \in Surfaces /\ CurrentPixels(surf'[sync.s].px)
    BY <1>12, SyncFilledStamps
  <2>3. CurrentPixels(surf[sync.s].px)'
    BY <2>1, <2>2 DEF CurrentPixels
  <2> QED
    BY <1>4, <2>1, <2>2, <2>3
<1>13. ASSUME NEW c \in Contexts, SyncEnter(c) PROVE Goal
  <2>1. Live(sync.s) /\ ~Stale(sync.s) /\ UNCHANGED <<surf, reg>>
    BY <1>13 DEF Safe, SyncEnter, SyncedSurfaceCurrent, SyncIdle
  <2>2. \/ sync' = NoSync
        \/ sync'.st \in {"returned", "inside"} /\ sync'.s = sync.s
    BY <1>13 DEF Safe, TypeOK, SyncRecord, SyncEnter
  <2>3. CASE sync' = NoSync
    BY <1>2, <2>3
  <2>4. CASE sync'.st \in {"returned", "inside"} /\ sync'.s = sync.s
    <3>1. (Live(sync.s) /\ ~Stale(sync.s))'
      BY <2>1, <2>4 DEF Live, Stale
    <3> QED
      BY <2>4, <3>1 DEF NoAbandonedPixels, SyncedSurfaceCurrent, SyncIdle
  <2> QED
    BY <2>2, <2>3, <2>4
<1>14. CASE UNCHANGED vars
  BY <1>3, <1>14 DEF vars
<1> QED
  BY <1>5, <1>6, <1>7, <1>8, <1>9, <1>10, <1>11, <1>12, <1>13, <1>14
  DEF Next, SyncStep, SurfaceCall

-----------------------------------------------------------------------------
(* The theorems                                                               *)

PixelInv == OneCall /\ SyncedSurfaceCurrent /\ EpochsPast /\ NoAbandonedPixels

(* Before the first surface there are no pixels.                              *)
LEMMA PixelInit == Init => PixelInv
  BY DEF Init, RegistryInit, UnbornSurface, EmptyRegistry, NoSync, PixelInv, OneCall,
         AllIdle, SyncIdle, SyncedSurfaceCurrent, EpochsPast, NoAbandonedPixels, Live

(* Every step keeps the pixels current.                                       *)
LEMMA PixelNext ==
    ASSUME ~ConcurrentClient, ~HevcFifo
    PROVE  Safe /\ TypeOK' /\ [Next]_vars => PixelInv'
<1> SUFFICES ASSUME Safe, TypeOK', [Next]_vars PROVE PixelInv'
  OBVIOUS
<1>1. OneCall'
  BY OneCallStep DEF Safe
<1>2. EpochsPast' /\ NoAbandonedPixels'
  BY PixelStep
<1>3. SyncedSurfaceCurrent'
  BY <1>2, SyncedStep
<1> QED
  BY <1>1, <1>2, <1>3 DEF PixelInv

(* The invariant the pixels rest on, with one client thread and without the   *)
(* HEVC FIFO.                                                                 *)
THEOREM PixelsHold ==
    ASSUME ~ConcurrentClient, ~HevcFifo
    PROVE  Spec => []CurrentPixelsInv
<1>1. Init => PixelInv
  BY PixelInit
<1>2. TypeOK /\ OwnershipInv /\ SessionInv /\ PixelInv <=> Safe
  BY DEF Safe, PixelInv
<1>3. Safe /\ TypeOK' /\ [Next]_vars => PixelInv'
  BY PixelNext
<1>4. Spec => []TypeOK /\ []OwnershipInv /\ []SessionInv
  BY TypeCorrect, OwnershipHolds, SessionsHold
<1>5. Safe => CurrentPixelsInv
  BY DEF Safe, OwnershipInv, SessionInv, CurrentPixelsInv
<1> QED
  BY <1>1, <1>2, <1>3, <1>4, <1>5, PTL DEF Spec

(* A surface that carries the current epoch never shows a picture of an       *)
(* abandoned stream or of a destroyed context (decode_internal.h:65-70).      *)
THEOREM NoPreSeekPixels ==
    ASSUME ~ConcurrentClient, ~HevcFifo
    PROVE  Spec => []NoAbandonedPixels
<1>1. CurrentPixelsInv => NoAbandonedPixels
  BY DEF CurrentPixelsInv
<1> QED
  BY <1>1, PixelsHold, PTL

(* vaSyncSurface never reports a surface with pre-seek pixels ready           *)
(* (surface.c:613-618, test_surfaces_epoch.c:2-6).                            *)
THEOREM SyncIsCurrent ==
    ASSUME ~ConcurrentClient, ~HevcFifo
    PROVE  Spec => SyncShowsCurrentStream
<1>1. CurrentPixelsInv /\ OwnershipInv /\ TypeOK => Safe
  BY DEF Safe, SessionInv, CurrentPixelsInv
<1>2. CurrentPixelsInv' => NoAbandonedPixels'
  BY DEF CurrentPixelsInv
<1>3. Safe /\ NoAbandonedPixels' /\ [Next]_vars =>
        [\A s \in Surfaces :
            sync.st # "returned" /\ sync'.st = "returned" /\ sync'.s = s
                => CurrentPixels(surf[s].px)']_vars
  BY SyncedStep
<1> QED
  BY <1>1, <1>2, <1>3, TypeCorrect, OwnershipHolds, PixelsHold, PTL
  DEF Spec, SyncShowsCurrentStream

-----------------------------------------------------------------------------
(* What a session holds                                                       *)

UnitPair(u) == [ts |-> u.ts, pic |-> u.px.pic]

(* Appending to a queue adds one unit, taking the head or removing access     *)
(* units adds none.                                                           *)
LEMMA UnitsOfAppend ==
    ASSUME NEW S, NEW q \in Seq(S), NEW u \in S
    PROVE  Units(Append(q, u)) = Units(q) \cup {UnitPair(u)}
<1> DEFINE r == Append(q, u)
<1>1. /\ Len(q) \in Nat /\ Len(r) = Len(q) + 1
      /\ \A i \in 1 .. Len(q) : r[i] = q[i]
      /\ r[Len(q) + 1] = u
      /\ DOMAIN q = 1 .. Len(q) /\ DOMAIN r = 1 .. Len(q) + 1
  BY AppendProperties, LenProperties
<1> HIDE DEF r
<1> QED
  BY <1>1 DEF Units, UnitPair, r

LEMMA UnitsOfTail ==
    ASSUME NEW S, NEW q \in Seq(S), q # <<>>
    PROVE  Units(Tail(q)) \subseteq Units(q)
<1>1. /\ Tail(q) \in Seq(S) /\ Len(Tail(q)) = Len(q) - 1 /\ Len(q) \in Nat
      /\ \A i \in 1 .. Len(Tail(q)) : Tail(q)[i] = q[i + 1]
  BY HeadTailProperties, LenProperties
<1>2. DOMAIN q = 1 .. Len(q) /\ DOMAIN Tail(q) = 1 .. Len(q) - 1
  BY <1>1, LenProperties
<1> QED
  BY <1>1, <1>2 DEF Units

LEMMA UnitsOfRemoved ==
    ASSUME TypeOK, NEW c \in Contexts, NEW i \in 1 .. Len(dev[c].fw)
    PROVE  Units(Removed(dev[c].fw, i, Fields(c, i))) \subseteq Units(dev[c].fw)
<1> DEFINE q == dev[c].fw
           k == Fields(c, i)
           r == Removed(q, i, k)
<1>1. q \in Seq(AccessUnit) /\ k \in 1 .. 2 /\ i + k - 1 <= Len(q)
  BY FieldsInQueue DEF TypeOK, SessionRecord
<1>2. /\ r \in Seq(AccessUnit) /\ Len(r) = Len(q) - k
      /\ \A m \in 1 .. Len(q) - k : \E j \in 1 .. Len(q) : r[m] = q[j]
  BY <1>1, RemovedLemma
<1>3. DOMAIN r = 1 .. Len(r) /\ DOMAIN q = 1 .. Len(q)
  BY <1>1, <1>2, LenProperties
<1> HIDE DEF r
<1> QED
  BY <1>2, <1>3 DEF Units, r

(* A step leaves the session of d what it held, or less, and its sequence     *)
(* number; or it closes the session.                                          *)
UnitsKept(d) ==
    \/ /\ InSession(d)' \subseteq InSession(d) \cup {NoUnit}
       /\ ctx'[d].seq = ctx[d].seq
    \/ InSession(d)' = {}

SeqsKept == \A d \in Contexts : ctx'[d].seq = ctx[d].seq

(* One session loses units.                                                   *)
LEMMA OneSessionKept ==
    ASSUME TypeOK, NEW c \in Contexts, NEW x, dev' = [dev EXCEPT ![c] = x], SeqsKept,
           Units(x.fw) \cup Units(x.cap) \subseteq InSession(c) \cup {NoUnit}
    PROVE  \A d \in Contexts : UnitsKept(d)
<1>1. dev'[c] = x /\ \A d \in Contexts \ {c} : dev'[d] = dev[d]
  BY DEF TypeOK
<1> QED
  BY <1>1 DEF UnitsKept, SeqsKept, InSession

(* The sequence numbers survive every change of a flag.                       *)
LEMMA FlagsKeepSeq ==
    ASSUME TypeOK, NEW c \in Contexts, NEW b,
           \/ ctx' = [ctx EXCEPT ![c].eos = b]
           \/ ctx' = [ctx EXCEPT ![c].fatal = b]
           \/ ctx' = [ctx EXCEPT ![c].life = b]
           \/ UNCHANGED ctx
    PROVE  SeqsKept
<1>1. ctx[c] \in ContextRecord
  BY DEF TypeOK
<1>2. /\ [ctx[c] EXCEPT !.eos = b].seq = ctx[c].seq
      /\ [ctx[c] EXCEPT !.fatal = b].seq = ctx[c].seq
      /\ [ctx[c] EXCEPT !.life = b].seq = ctx[c].seq
  BY <1>1 DEF ContextRecord
<1>3. \A d \in Contexts : ctx'[d] \in {ctx[d], [ctx[d] EXCEPT !.eos = b],
                           [ctx[d] EXCEPT !.fatal = b], [ctx[d] EXCEPT !.life = b]}
  BY DEF TypeOK
<1>4. \A d \in Contexts : d # c => ctx'[d] = ctx[d]
  BY DEF TypeOK
<1> QED
  BY <1>2, <1>3, <1>4 DEF SeqsKept

(* Closing a session empties it.                                              *)
LEMMA ClosedHoldsNothing ==
    ASSUME TypeOK, NEW c \in Contexts, Restart(c) \/ OpenSession(c) \/ Teardown(c)
    PROVE  \A d \in Contexts : UnitsKept(d)
<1>1. dev' = [dev EXCEPT ![c] = NoSession]
  BY DEF Restart, OpenSession, Teardown
<1>2. \A d \in Contexts \ {c} : ctx'[d] = ctx[d]
  BY DEF TypeOK, Restart, OpenSession, Teardown
<1>3. InSession(c)' = {}
  BY <1>1 DEF TypeOK, InSession, NoSession, Units
<1>4. \A d \in Contexts \ {c} : InSession(d)' = InSession(d)
  BY <1>1 DEF TypeOK, InSession
<1> QED
  BY <1>2, <1>3, <1>4 DEF UnitsKept

(* The frames a call dequeues leave the session.                              *)
LEMMA DequeueUnits ==
    ASSUME TypeOK, NEW c \in Contexts, TakeFrame(c) \/ FlushDone(c)
    PROVE  \A d \in Contexts : UnitsKept(d)
<1> DEFINE q == Tail(dev[c].cap)
           x == [dev[c] EXCEPT !.cap = q]
<1>1. dev' = [dev EXCEPT ![c] = x] /\ dev[c].cap # <<>>
  BY DEF TypeOK, TakeFrame, FlushDone
<1>2. SeqsKept
  BY FlagsKeepSeq DEF TakeFrame, FlushDone
<1>3. dev[c] \in SessionRecord /\ dev[c].cap \in Seq(Frame)
  BY DEF TypeOK, SessionRecord
<1>4. Units(q) \subseteq Units(dev[c].cap)
  BY <1>1, <1>3, UnitsOfTail
<1> HIDE DEF q
<1>5. x.cap = q /\ x.fw = dev[c].fw
  BY <1>3 DEF SessionRecord
<1> HIDE DEF x
<1> QED
  BY <1>1, <1>2, <1>4, <1>5, OneSessionKept DEF InSession

(* What the firmware emits is what it was given, or LAST.                     *)
LEMMA FirmwareUnits ==
    ASSUME TypeOK, NEW c \in Contexts, Firmware(c)
    PROVE  \A d \in Contexts : UnitsKept(d)
<1>1. SeqsKept
  BY FlagsKeepSeq DEF Firmware, FwDecode, FwDrop, FwLast
<1>2. /\ dev[c] \in SessionRecord /\ dev[c].fw \in Seq(AccessUnit)
      /\ dev[c].cap \in Seq(Frame) /\ DOMAIN dev[c].fw = 1 .. Len(dev[c].fw)
  BY LenProperties DEF TypeOK, SessionRecord
<1>3. ASSUME NEW q, NEW p, NEW b,
             Units(q) \cup Units(p) \subseteq InSession(c) \cup {NoUnit},
             dev' = [dev EXCEPT ![c] = [dev[c] EXCEPT !.fw = q, !.cap = p, !.lastSent = b]]
      PROVE  \A d \in Contexts : UnitsKept(d)
  <2> DEFINE x == [dev[c] EXCEPT !.fw = q, !.cap = p, !.lastSent = b]
  <2>1. x.fw = q /\ x.cap = p /\ dev' = [dev EXCEPT ![c] = x]
    BY <1>2, <1>3 DEF SessionRecord
  <2> HIDE DEF x
  <2> QED
    BY <1>1, <1>3, <2>1, OneSessionKept
<1>4. CASE FwDecode(c)
  <2>1. PICK i \in 1 .. Len(dev[c].fw) :
          dev' = [dev EXCEPT
                   ![c].fw  = Removed(@, i, Fields(c, i)),
                   ![c].cap = Append(@, [ts |-> dev[c].fw[i].ts, px |-> dev[c].fw[i].px,
                                         last |-> FALSE])]
    BY <1>4 DEF FwDecode
  <2> DEFINE f == [ts |-> dev[c].fw[i].ts, px |-> dev[c].fw[i].px, last |-> FALSE]
             q == Removed(dev[c].fw, i, Fields(c, i))
             p == Append(dev[c].cap, f)
  <2>2. dev[c].fw[i] \in AccessUnit
    BY <1>2, ElementOfSeq
  <2>3. f \in Frame /\ UnitPair(f) \in Units(dev[c].fw)
    BY <1>2, <2>2 DEF AccessUnit, Frame, UnitPair, Units
  <2>4. Units(q) \subseteq Units(dev[c].fw) /\ Units(p) = Units(dev[c].cap) \cup {UnitPair(f)}
    BY <1>2, <2>3, UnitsOfRemoved, UnitsOfAppend
  <2>5. dev' = [dev EXCEPT ![c] = [dev[c] EXCEPT
                                     !.fw = q, !.cap = p, !.lastSent = dev[c].lastSent]]
    BY <2>1 DEF TypeOK, SessionRecord
  <2> HIDE DEF f, q, p
  <2>6. Units(q) \cup Units(p) \subseteq InSession(c) \cup {NoUnit}
    BY <2>3, <2>4 DEF InSession
  <2> QED
    BY <1>3, <2>5, <2>6
<1>5. CASE FwDrop(c)
  <2>1. PICK i \in 1 .. Len(dev[c].fw) :
          dev' = [dev EXCEPT ![c].fw = Removed(@, i, Fields(c, i))]
    BY <1>5 DEF FwDrop
  <2> DEFINE q == Removed(dev[c].fw, i, Fields(c, i))
  <2>2. Units(q) \subseteq Units(dev[c].fw)
    BY UnitsOfRemoved
  <2>3. dev' = [dev EXCEPT ![c] = [dev[c] EXCEPT
                   !.fw = q, !.cap = dev[c].cap, !.lastSent = dev[c].lastSent]]
    BY <2>1 DEF TypeOK, SessionRecord
  <2> HIDE DEF q
  <2> QED
    BY <1>3, <2>2, <2>3 DEF InSession
<1>6. CASE FwLast(c)
  <2> DEFINE p == Append(dev[c].cap, LastMarker)
  <2>1. LastMarker \in Frame /\ UnitPair(LastMarker) = NoUnit
    BY DEF LastMarker, Frame, Black, Pixels, UnitPair, NoUnit
  <2>2. Units(p) = Units(dev[c].cap) \cup {NoUnit}
    BY <1>2, <2>1, UnitsOfAppend
  <2>3. dev' = [dev EXCEPT ![c] = [dev[c] EXCEPT
                   !.fw = dev[c].fw, !.cap = p, !.lastSent = TRUE]]
    BY <1>6 DEF TypeOK, SessionRecord, FwLast
  <2> HIDE DEF p
  <2> QED
    BY <1>3, <2>2, <2>3 DEF InSession
<1> QED
  BY <1>4, <1>5, <1>6 DEF Firmware

(* vpu_decode_end gives the firmware the current picture.                     *)
LEMMA FeedUnits ==
    ASSUME TypeOK, NEW c \in Contexts, Feed(c)
    PROVE  /\ InSession(c)' = InSession(c) \cup {UnitPair(Unit(c))}
           /\ ctx'[c].seq = NextSeq(c)
           /\ \A d \in Contexts \ {c} : UnitsKept(d)
<1> DEFINE q == Append(dev[c].fw, Unit(c))
           x == [dev[c] EXCEPT !.fw = q]
<1>1. dev' = [dev EXCEPT ![c] = x]
  BY DEF TypeOK, Feed
<1>2. dev[c] \in SessionRecord /\ dev[c].fw \in Seq(AccessUnit) /\ Unit(c) \in AccessUnit
  BY UnitTyped DEF TypeOK, SessionRecord
<1>3. Units(q) = Units(dev[c].fw) \cup {UnitPair(Unit(c))}
  BY <1>2, UnitsOfAppend
<1> HIDE DEF q
<1>4. x.fw = q /\ x.cap = dev[c].cap
  BY <1>2 DEF SessionRecord
<1> HIDE DEF x
<1>5. dev'[c] = x /\ \A d \in Contexts \ {c} : dev'[d] = dev[d]
  BY <1>1 DEF TypeOK
<1>6. ctx'[c].seq = NextSeq(c) /\ \A d \in Contexts \ {c} : ctx'[d] = ctx[d]
  BY DEF TypeOK, ContextRecord, Feed
<1> QED
  BY <1>3, <1>4, <1>5, <1>6 DEF InSession, UnitsKept

(* All other steps leave the sessions alone, except for the STOP command.     *)
LEMMA OtherUnits ==
    ASSUME TypeOK, NEW c \in Contexts,
           \/ UNCHANGED dev /\ SeqsKept
           \/ \E next \in Calls : StopSession(c, next)
    PROVE  \A d \in Contexts : UnitsKept(d)
<1>1. CASE UNCHANGED dev /\ SeqsKept
  BY <1>1 DEF UnitsKept, SeqsKept, InSession
<1>2. CASE \E next \in Calls : StopSession(c, next)
  <2> DEFINE x == [dev[c] EXCEPT !.stop = TRUE]
  <2>1. dev' = [dev EXCEPT ![c] = x] /\ SeqsKept
    BY <1>2, FlagsKeepSeq DEF TypeOK, StopSession
  <2>2. x.fw = dev[c].fw /\ x.cap = dev[c].cap
    BY DEF TypeOK, SessionRecord
  <2> HIDE DEF x
  <2> QED
    BY <2>1, <2>2, OneSessionKept DEF InSession
<1> QED
  BY <1>1, <1>2

(* Only vpu_decode_end adds a unit to a session, the current picture.         *)
LEMMA UnitsStep ==
    ASSUME TypeOK, "start" \notin Faults, [Next]_vars
    PROVE  \A d \in Contexts :
              \/ UnitsKept(d)
              \/ /\ Feed(d)
                 /\ InSession(d)' = InSession(d) \cup {UnitPair(Unit(d))}
                 /\ ctx'[d].seq = NextSeq(d)
<1> DEFINE Goal == \A d \in Contexts :
              \/ UnitsKept(d)
              \/ /\ Feed(d)
                 /\ InSession(d)' = InSession(d) \cup {UnitPair(Unit(d))}
                 /\ ctx'[d].seq = NextSeq(d)
<1>1. ASSUME NEW c \in Contexts, UNCHANGED dev /\ SeqsKept PROVE Goal
  BY <1>1, OtherUnits
<1>2. CASE UNCHANGED <<ctx, dev>>
  BY <1>2 DEF UnitsKept, InSession
<1>3. ASSUME NEW c \in Contexts, Client(c) PROVE Goal
  <2>1. CASE CreateContext(c)
    BY <1>1, <2>1, FlagsKeepSeq DEF CreateContext
  <2>2. CASE \E s \in Surfaces, field \in 0 .. 2, poc \in Pocs : BeginPicture(c, s, field, poc)
    BY <1>2, <2>2 DEF BeginPicture
  <2>3. CASE \E ra, cue \in BOOLEAN : EndPicture(c, ra, cue)
    <3>1. UNCHANGED <<ctx, dev>> \/ \E next \in Calls : StopSession(c, next)
      BY <2>3 DEF EndPicture, Calls
    <3> QED
      BY <1>2, <3>1, OtherUnits
  <2>4. CASE EndPictureFails(c)
    BY <1>2, <2>4 DEF EndPictureFails
  <2>5. CASE DestroyContext(c)
    <3>1. UNCHANGED <<ctx, dev>> \/ \E next \in Calls : StopSession(c, next)
      BY <2>5 DEF DestroyContext, Calls
    <3> QED
      BY <1>2, <3>1, OtherUnits
  <2> QED
    BY <1>3, <2>1, <2>2, <2>3, <2>4, <2>5 DEF Client
<1>4. ASSUME NEW c \in Contexts, CallStep(c) PROVE Goal
  <2>1. CASE FlushDone(c) \/ TakeFrame(c)
    BY <2>1, DequeueUnits
  <2>2. CASE Restart(c) \/ OpenSession(c) \/ Teardown(c)
    BY <2>2, ClosedHoldsNothing
  <2>3. CASE Feed(c)
    BY <2>3, FeedUnits
  <2>4. CASE \/ ClaimTarget(c) \/ SubmitFails(c) \/ Unwind(c) \/ DrainDone(c)
             \/ WaitDone(c) \/ TimesOut(c) \/ SyncReturn(c)
    <3>1. UNCHANGED <<ctx, dev>>
      BY <2>4 DEF ClaimTarget, SubmitFails, Unwind, DrainDone, WaitDone, TimesOut, SyncReturn
    <3> QED
      BY <1>2, <3>1
  <2>5. CASE CallFails(c)
    BY <1>1, <2>5, FlagsKeepSeq DEF CallFails
  <2>6. ~StartFails(c)
    BY DEF StartFails
  <2> QED
    BY <1>4, <2>1, <2>2, <2>3, <2>4, <2>5, <2>6 DEF CallStep
<1>5. ASSUME NEW c \in Contexts, Firmware(c) PROVE Goal
  BY <1>5, FirmwareUnits
<1>6. ASSUME NEW s \in Surfaces, SurfaceCall(s) PROVE Goal
  BY <1>2, <1>6 DEF SurfaceCall, AllocSurface, ExportSurface, FreeSurface, SyncSurface
<1>7. CASE SyncStep
  BY <1>2, <1>7 DEF SyncStep, SyncFilled, SyncEnter
<1>8. CASE UNCHANGED vars
  BY <1>2, <1>8 DEF vars
<1> QED
  BY <1>3, <1>4, <1>5, <1>6, <1>7, <1>8 DEF Next

-----------------------------------------------------------------------------
(* Timestamps                                                                 *)

(* Without field pairs no picture is taken for the second half of another.    *)
LEMMA NoPairsStep ==
    ASSUME TypeOK, NoPairs, ~FieldPictures, [Next]_vars
    PROVE  NoPairs'
<1>1. ASSUME NEW c \in Contexts
      PROVE  /\ paff[c] \in PairRecord /\ cur[c] \in PictureRecord
             /\ cur[c].field = 0 /\ ~paff[c].second /\ ~paff[c].open
  BY <1>1 DEF TypeOK, NoPairs
<1>2. CASE UNCHANGED <<cur, paff>>
  BY <1>2 DEF NoPairs
<1>3. ASSUME NEW c \in Contexts, UNCHANGED cur,
             \/ paff' = [paff EXCEPT ![c] = PairReset(c)]
             \/ paff' = [paff EXCEPT ![c] = PairTracked(c)]
             \/ paff' = [paff EXCEPT ![c] = NoPair]
             \/ Finish(c)
      PROVE  NoPairs'
  <2>1. /\ ~PairReset(c).second /\ ~PairReset(c).open
        /\ ~NoPair.second /\ ~NoPair.open
    BY <1>1 DEF PairRecord, PairReset, NoPair
  <2>2. ~PairTracked(c).second /\ ~PairTracked(c).open
    <3> DEFINE first == cur[c].field # 0 /\ ~paff[c].second
               ts == IF first THEN Timestamp(ctx[c].seq) ELSE paff[c].ts
    <3>1. PairTracked(c) = [paff[c] EXCEPT !.open = first, !.ts = ts]
      BY <1>1 DEF PairTracked, PairRecord
    <3>2. ~first
      BY <1>1
    <3> HIDE DEF first, ts
    <3> QED
      BY <1>1, <3>1, <3>2 DEF PairRecord
  <2>3. ASSUME Finish(c) PROVE \A d \in Contexts : ~paff'[d].second /\ ~paff'[d].open
    <3> DEFINE b == cur[c].field # 0
    <3>1. paff' = [paff EXCEPT ![c] = [paff[c] EXCEPT !.last = b]]
      BY <2>3 DEF TypeOK, Finish
    <3> HIDE DEF b
    <3>2. ~[paff[c] EXCEPT !.last = b].second /\ ~[paff[c] EXCEPT !.last = b].open
      BY <1>1 DEF PairRecord
    <3> QED
      BY <1>1, <3>1, <3>2 DEF TypeOK
  <2>4. ASSUME ~Finish(c)
        PROVE  \A d \in Contexts : paff'[d] \in {paff[d], PairReset(c), PairTracked(c), NoPair}
    BY <1>3, <2>4 DEF TypeOK
  <2> QED
    BY <1>1, <1>3, <2>1, <2>2, <2>3, <2>4 DEF NoPairs
<1>4. ASSUME NEW c \in Contexts, UNCHANGED paff,
             cur' = [cur EXCEPT ![c].begun = FALSE] \/ cur' = [cur EXCEPT ![c] = NoPicture]
      PROVE  NoPairs'
  <2>1. [cur[c] EXCEPT !.begun = FALSE].field = 0 /\ NoPicture.field = 0
    BY <1>1 DEF PictureRecord, NoPicture
  <2>2. \A d \in Contexts :
           cur'[d] \in {cur[d], [cur[c] EXCEPT !.begun = FALSE], NoPicture}
    BY <1>4 DEF TypeOK
  <2> QED
    BY <1>1, <1>4, <2>1, <2>2 DEF NoPairs
<1>5. ASSUME NEW c \in Contexts, NEW s \in Surfaces, NEW field \in 0 .. 2, NEW poc \in Pocs,
             BeginPicture(c, s, field, poc)
      PROVE  NoPairs'
  <2>1. field = 0 /\ ~SecondField(c, s)
    BY <1>1, <1>5 DEF BeginPicture, SecondField
  <2> DEFINE x == [paff[c] EXCEPT !.second = FALSE, !.open = FALSE]
  <2>2. \A d \in Contexts : paff'[d] \in {paff[d], x}
    BY <1>5, <2>1 DEF TypeOK, BeginPicture
  <2>3. ~x.second /\ ~x.open
    BY <1>1 DEF PairRecord
  <2> HIDE DEF x
  <2>4. \A d \in Contexts : cur'[d] = cur[d] \/ cur'[d].field = 0
    BY <1>5, <2>1 DEF TypeOK, BeginPicture
  <2> QED
    BY <1>1, <2>2, <2>3, <2>4 DEF NoPairs
<1>6. ASSUME NEW c \in Contexts, Client(c) PROVE NoPairs'
  BY <1>2, <1>4, <1>5, <1>6
  DEF Client, CreateContext, EndPicture, EndPictureFails, DestroyContext
<1>7. ASSUME NEW c \in Contexts, CallStep(c) PROVE NoPairs'
  <2>1. \/ UNCHANGED <<cur, paff>>
        \/ /\ UNCHANGED cur
           /\ \/ paff' = [paff EXCEPT ![c] = PairReset(c)]
              \/ paff' = [paff EXCEPT ![c] = PairTracked(c)]
              \/ paff' = [paff EXCEPT ![c] = NoPair]
              \/ Finish(c)
    BY <1>7
    DEF CallStep, FlushDone, Restart, OpenSession, ClaimTarget, Feed, SubmitFails,
        StartFails, Unwind, DrainDone, WaitDone, TakeFrame, CallFails, TimesOut,
        SyncReturn, Teardown
  <2> QED
    BY <1>2, <1>3, <2>1
<1>8. ASSUME NEW c \in Contexts, Firmware(c) PROVE NoPairs'
  BY <1>2, <1>8 DEF Firmware, FwDecode, FwDrop, FwLast
<1>9. ASSUME NEW s \in Surfaces, SurfaceCall(s) PROVE NoPairs'
  BY <1>2, <1>9 DEF SurfaceCall, AllocSurface, ExportSurface, FreeSurface, SyncSurface
<1>10. CASE SyncStep
  BY <1>2, <1>10 DEF SyncStep, SyncFilled, SyncEnter
<1>11. CASE UNCHANGED vars
  BY <1>2, <1>11 DEF vars
<1> QED
  BY <1>6, <1>7, <1>8, <1>9, <1>10, <1>11 DEF Next

StampInv == NoPairs /\ StampsInOrder /\ TimestampsUnique

(* Timestamps are numbers.                                                    *)
LEMMA UnitsTyped ==
    ASSUME TypeOK, NEW c \in Contexts, NEW u \in InSession(c)
    PROVE  u.ts \in Nat /\ u.pic \in Nat
<1>1. /\ dev[c].fw \in Seq(AccessUnit) /\ dev[c].cap \in Seq(Frame)
      /\ DOMAIN dev[c].fw = 1 .. Len(dev[c].fw) /\ DOMAIN dev[c].cap = 1 .. Len(dev[c].cap)
  BY LenProperties DEF TypeOK, SessionRecord
<1>2. \A i \in DOMAIN dev[c].fw : dev[c].fw[i] \in AccessUnit
  BY <1>1, ElementOfSeq
<1>3. \A i \in DOMAIN dev[c].cap : dev[c].cap[i] \in Frame
  BY <1>1, ElementOfSeq
<1> QED
  BY <1>2, <1>3 DEF InSession, Units, AccessUnit, Frame, Pixels

(* A unit that is fed has the next timestamp.                                 *)
LEMMA StampStep ==
    ASSUME TypeOK, StampInv, "start" \notin Faults, [Next]_vars
    PROVE  StampsInOrder' /\ TimestampsUnique'
<1> SUFFICES ASSUME NEW d \in Contexts
             PROVE  /\ \A u \in InSession(d)' :
                          u = NoUnit \/ (1000 <= u.ts /\ u.ts < Timestamp(ctx'[d].seq))
                    /\ \A a, b \in InSession(d)' : a.ts = b.ts => a.pic = b.pic
  BY DEF StampsInOrder, TimestampsUnique
<1>1. /\ \A u \in InSession(d) :
           u = NoUnit \/ (1000 <= u.ts /\ u.ts < Timestamp(ctx[d].seq))
      /\ \A a, b \in InSession(d) : a.ts = b.ts => a.pic = b.pic
  BY DEF StampInv, StampsInOrder, TimestampsUnique
<1>2. NoUnit.ts = 0 /\ NoUnit.pic = 0
  BY DEF NoUnit
<1>3. CASE UnitsKept(d)
  BY <1>1, <1>2, <1>3 DEF UnitsKept
<1>4. CASE InSession(d)' = InSession(d) \cup {UnitPair(Unit(d))} /\ ctx'[d].seq = NextSeq(d)
  <2>1. ~paff[d].second /\ ctx[d].seq \in Nat
    BY DEF StampInv, NoPairs, TypeOK, ContextRecord
  <2>2. /\ UnitPair(Unit(d)).ts = ctx[d].seq + 1000
        /\ ctx'[d].seq = ctx[d].seq + 1
        /\ Timestamp(ctx[d].seq) = ctx[d].seq + 1000
        /\ Timestamp(ctx'[d].seq) = ctx[d].seq + 1001
    BY <1>4, <2>1 DEF Unit, UnitPair, NextSeq, Timestamp
  <2>3. \A u \in InSession(d) :
           u = NoUnit \/ (1000 <= u.ts /\ u.ts < ctx[d].seq + 1000)
    BY <1>1, <2>2
  <2>4. \A u \in InSession(d) : u.ts # UnitPair(Unit(d)).ts
    BY <1>2, <2>1, <2>2, <2>3
  <2>5. \A a, b \in InSession(d)' : a.ts = b.ts => a.pic = b.pic
    BY <1>1, <1>4, <2>4
  <2>6. 1000 <= UnitPair(Unit(d)).ts /\ UnitPair(Unit(d)).ts < Timestamp(ctx'[d].seq)
    BY <2>1, <2>2
  <2>7. \A u \in InSession(d)' :
           u = NoUnit \/ (1000 <= u.ts /\ u.ts < Timestamp(ctx'[d].seq))
    <3> SUFFICES ASSUME NEW u \in InSession(d), u # NoUnit
                 PROVE  1000 <= u.ts /\ u.ts < Timestamp(ctx'[d].seq)
      BY <1>4, <2>6
    <3>1. 1000 <= u.ts /\ u.ts < ctx[d].seq + 1000
      BY <2>3
    <3>2. u.ts \in Nat
      BY UnitsTyped
    <3> QED
      BY <2>1, <2>2, <3>1, <3>2
  <2> QED
    BY <2>5, <2>7
<1> QED
  BY <1>3, <1>4, UnitsStep

(* An empty session shares no timestamps.                                     *)
LEMMA StampInit == Init => StampInv
  BY DEF Init, NoContext, NoPair, NoPicture, NoSession, StampInv, NoPairs, StampsInOrder,
         TimestampsUnique, InSession, Units

THEOREM StampsHold ==
    ASSUME ~FieldPictures, "start" \notin Faults
    PROVE  Spec => []StampInv
<1>1. TypeOK /\ StampInv /\ [Next]_vars => StampInv'
  BY NoPairsStep, StampStep DEF StampInv
<1> QED
  BY <1>1, StampInit, TypeCorrect, PTL DEF Spec

(* Pictures in one session never share a timestamp (decode.c:691-694).        *)
THEOREM TimestampsAreUnique ==
    ASSUME ~FieldPictures, "start" \notin Faults
    PROVE  Spec => []TimestampsUnique
<1>1. StampInv => TimestampsUnique
  BY DEF StampInv
<1> QED
  BY <1>1, StampsHold, PTL

-----------------------------------------------------------------------------
(* Mappings.  A step is plain when it neither begins, claims nor feeds a      *)
(* picture: then slots are only used up, surfaces keep their generations as   *)
(* long as they live, and the picture being submitted stays what it was.      *)

SlotsKept ==
    \A c \in Contexts : \A i \in 0 .. RingSize - 1 :
        pend'[c].ring[i] = pend[c].ring[i] \/ ~pend'[c].ring[i].used

GensKept ==
    \A s \in Surfaces :
        /\ surf'[s].life = "unborn" => surf[s].life = "unborn"
        /\ surf'[s].life = "live" =>
              surf[s].life = "unborn" \/ (surf[s].life = "live" /\ surf'[s].gen = surf[s].gen)
        /\ goal'[s].pic = goal[s].pic

CursKept ==
    \A c \in Contexts :
        \/ cur'[c].target = None
        \/ /\ cur'[c].target = cur[c].target
           /\ cur'[c].gen = cur[c].gen /\ cur'[c].pic = cur[c].pic

FeedsKept ==
    \A c \in Contexts :
        pc'[c] = "feed" =>
            /\ pc[c] = "feed"
            /\ ctx'[c].seq = ctx[c].seq
            /\ cur'[c].target = cur[c].target /\ cur'[c].gen = cur[c].gen
            /\ pend'[c].ring[SlotOf(ctx[c].seq)] = pend[c].ring[SlotOf(ctx[c].seq)]

PlainStep ==
    /\ SlotsKept /\ GensKept /\ CursKept /\ FeedsKept
    /\ \A c \in Contexts : UnitsKept(c)

MappingInv ==
    SlotsPlaced /\ GenerationsPast /\ CurrentPicture /\ TargetClaimed /\ MappedPicture

(* A slot that leads somewhere after the step led there before it.            *)
LEMMA LeadsBack ==
    ASSUME GenerationsPast, SlotsKept, GensKept, NEW c \in Contexts,
           NEW i \in 0 .. RingSize - 1, NEW s \in Surfaces, LeadsTo(pend[c].ring[i], s)'
    PROVE  pend'[c].ring[i] = pend[c].ring[i] /\ LeadsTo(pend[c].ring[i], s)
<1>1. pend'[c].ring[i] = pend[c].ring[i] /\ surf'[s].life = "live"
  BY DEF SlotsKept, LeadsTo, Live
<1>2. surf[s].life # "unborn"
  BY <1>1 DEF GenerationsPast, LeadsTo, Past
<1> QED
  BY <1>1, <1>2 DEF GensKept, LeadsTo, Live

(* What was not ahead of its surface stays so.                                *)
LEMMA GenerationsStep ==
    ASSUME GenerationsPast, SlotsKept, GensKept, CursKept
    PROVE  GenerationsPast'
<1> SUFFICES ASSUME NEW c \in Contexts, NEW s \in Surfaces
             PROVE  /\ cur'[c].target = s => Past(s, cur[c].gen)'
                    /\ \A i \in 0 .. RingSize - 1 :
                          pend'[c].ring[i].used /\ pend'[c].ring[i].target = s
                              => Past(s, pend[c].ring[i].gen)'
  BY DEF GenerationsPast
<1>1. ASSUME NEW n, Past(s, n)
      PROVE  surf'[s].life # "unborn" /\ (surf'[s].life = "live" => n <= surf'[s].gen)
  BY <1>1 DEF GensKept, Past, Live
<1>2. cur'[c].target = s => Past(s, cur[c].gen)'
  BY <1>1, RegistryAssumption DEF GenerationsPast, CursKept, Past, Live
<1>3. ASSUME NEW i \in 0 .. RingSize - 1,
             pend'[c].ring[i].used, pend'[c].ring[i].target = s
      PROVE  Past(s, pend[c].ring[i].gen)'
  <2>1. pend'[c].ring[i] = pend[c].ring[i]
    BY <1>3 DEF SlotsKept
  <2> QED
    BY <1>1, <1>3, <2>1 DEF GenerationsPast, Past, Live
<1> QED
  BY <1>2, <1>3

(* A plain step keeps the mappings right.                                     *)
LEMMA PlainMappings ==
    ASSUME TypeOK, MappingInv, PlainStep
    PROVE  MappingInv'
<1> USE DEF MappingInv, PlainStep
<1>1. SlotsPlaced'
  BY DEF SlotsPlaced, SlotsKept
<1>2. GenerationsPast'
  BY GenerationsStep
<1>3. CurrentPicture'
  <2> SUFFICES ASSUME NEW c \in Contexts, NEW s \in Surfaces, Live(s)', cur'[c].target = s,
                      cur'[c].gen = surf'[s].gen
               PROVE  goal'[s].pic = cur'[c].pic
    BY DEF CurrentPicture
  <2>1. /\ cur[c].target = s /\ cur[c].gen = surf'[s].gen /\ cur'[c].pic = cur[c].pic
    BY RegistryAssumption DEF CursKept
  <2>2. surf[s].life # "unborn"
    BY <2>1 DEF GenerationsPast, Past
  <2> QED
    BY <2>1, <2>2 DEF GensKept, CurrentPicture, Live
<1>4. TargetClaimed'
  BY DEF TargetClaimed, FeedsKept
<1>5. MappedPicture'
  <2> SUFFICES ASSUME NEW c \in Contexts, NEW s \in Surfaces, NEW i \in 0 .. RingSize - 1,
                      NEW u \in InSession(c)', LeadsTo(pend[c].ring[i], s)',
                      u.ts = Timestamp(pend'[c].ring[i].seq)
               PROVE  goal'[s].pic = u.pic
    BY DEF MappedPicture, Timestamp
  <2>1. pend'[c].ring[i] = pend[c].ring[i] /\ LeadsTo(pend[c].ring[i], s)
    BY LeadsBack
  <2>2. u # NoUnit
    <3>1. pend[c].ring[i].seq \in Nat
      BY DEF TypeOK, PendingRecord, Slot
    <3> QED
      BY <2>1, <3>1 DEF NoUnit, Timestamp
  <2>3. u \in InSession(c)
    BY <2>2 DEF UnitsKept
  <2> QED
    BY <2>1, <2>3 DEF MappedPicture, GensKept
<1> QED
  BY <1>1, <1>2, <1>3, <1>4, <1>5

(* vaBeginPicture of a frame: the target is a new picture from here on.       *)
LEMMA BeginEffects ==
    ASSUME TypeOK, NoPairs, NEW c \in Contexts, NEW s \in Surfaces,
           NEW field \in 0 .. 2, NEW poc \in Pocs, ~FieldPictures,
           BeginPicture(c, s, field, poc)
    PROVE  /\ Live(s) /\ ~Syncing(s) /\ ctx[c].life = "live" /\ pc[c] = "idle"
           /\ \A d \in Contexts \ {c} : ~RenderedBy(d, s)
           /\ surf' = [surf EXCEPT ![s] = Begun(surf[s])]
           /\ cur' = [cur EXCEPT ![c] =
                        [begun |-> TRUE, target |-> s, gen |-> surf[s].gen + 1,
                         field |-> 0, pic |-> pictures + 1, poc |-> poc]]
           /\ goal' = [goal EXCEPT ![s] = [pic |-> pictures + 1, filled |-> FALSE]]
           /\ pictures' = pictures + 1
           /\ UNCHANGED <<reg, ctx, pend, pc, dev, sync, stream>>
<1>1. field = 0 /\ ~SecondField(c, s)
  BY DEF BeginPicture, NoPairs, SecondField
<1> DEFINE pic == IF field = 2 THEN cur[c].pic ELSE pictures + 1
           gen == IF SecondField(c, s) THEN cur[c].gen ELSE surf[s].gen + 1
           filled == goal[s].filled /\ SecondField(c, s)
<1>2. pic = pictures + 1 /\ gen = surf[s].gen + 1 /\ filled = FALSE
  BY <1>1
<1>3. goal' = [goal EXCEPT ![s] = [pic |-> pic, filled |-> filled]]
  BY DEF TypeOK, BeginPicture
<1>4. cur' = [cur EXCEPT ![c] = [begun |-> TRUE, target |-> s, gen |-> gen,
                                field |-> field, pic |-> pic, poc |-> poc]]
  BY DEF BeginPicture
<1>5. /\ Live(s) /\ ~Syncing(s) /\ ctx[c].life = "live" /\ pc[c] = "idle"
      /\ \A d \in Contexts \ {c} : ~RenderedBy(d, s)
      /\ UNCHANGED <<reg, ctx, pend, pc, dev, sync, stream>>
  BY DEF BeginPicture, MayCall
<1>6. surf' = [surf EXCEPT ![s] = Begun(surf[s])] /\ pictures' = pictures + 1
  BY <1>1 DEF TypeOK, BeginPicture
<1> HIDE DEF pic, gen, filled
<1> QED
  BY <1>1, <1>2, <1>3, <1>4, <1>5, <1>6

(* Whatever was not ahead of a surface still is not after vaBeginPicture, nor *)
(* is the picture it begins.                                                  *)
LEMMA BeginGens ==
    ASSUME TypeOK, NoPairs, NEW c \in Contexts, NEW s \in Surfaces,
           NEW field \in 0 .. 2, NEW poc \in Pocs, ~FieldPictures,
           BeginPicture(c, s, field, poc), NEW t \in Surfaces, NEW n \in Nat, Past(t, n)
    PROVE  Past(t, n)'
<1>1. /\ surf \in [Surfaces -> SurfaceRecord] /\ surf[s] \in SurfaceRecord
      /\ surf[s].gen \in Nat
  BY DEF TypeOK, SurfaceRecord
<1>2. Live(s) /\ surf' = [surf EXCEPT ![s] = Begun(surf[s])]
  BY BeginEffects
<1>3. surf'[s].gen = surf[s].gen + 1 /\ surf'[s].life = surf[s].life
  BY <1>1, <1>2 DEF Begun, SurfaceRecord
<1>4. \A x \in Surfaces \ {s} : surf'[x] = surf[x]
  BY <1>1, <1>2
<1> QED
  BY <1>1, <1>3, <1>4 DEF Past, Live

LEMMA BeginPast ==
    ASSUME TypeOK, GenerationsPast, NoPairs, NEW c \in Contexts, NEW s \in Surfaces,
           NEW field \in 0 .. 2, NEW poc \in Pocs, ~FieldPictures,
           BeginPicture(c, s, field, poc)
    PROVE  GenerationsPast'
<1>1. /\ surf \in [Surfaces -> SurfaceRecord] /\ cur \in [Contexts -> PictureRecord]
      /\ surf[s] \in SurfaceRecord /\ surf[s].gen \in Nat
  BY DEF TypeOK, SurfaceRecord
<1>2. /\ Live(s) /\ surf' = [surf EXCEPT ![s] = Begun(surf[s])] /\ UNCHANGED pend
      /\ cur' = [cur EXCEPT ![c] = [begun |-> TRUE, target |-> s, gen |-> surf[s].gen + 1,
                                    field |-> 0, pic |-> pictures + 1, poc |-> poc]]
  BY BeginEffects
<1>3. surf'[s].gen = surf[s].gen + 1 /\ surf'[s].life = surf[s].life
  BY <1>1, <1>2 DEF Begun, SurfaceRecord
<1>4. /\ cur'[c].target = s /\ cur'[c].gen = surf[s].gen + 1
      /\ \A d \in Contexts \ {c} : cur'[d] = cur[d]
  BY <1>1, <1>2
<1>5. \A d \in Contexts : cur[d].gen \in Nat
                          /\ \A i \in 0 .. RingSize - 1 : pend[d].ring[i].gen \in Nat
  BY DEF TypeOK, PictureRecord, PendingRecord, Slot
<1> SUFFICES ASSUME NEW d \in Contexts, NEW t \in Surfaces
             PROVE  /\ cur'[d].target = t => Past(t, cur[d].gen)'
                    /\ \A i \in 0 .. RingSize - 1 :
                          pend[d].ring[i].used /\ pend[d].ring[i].target = t
                              => Past(t, pend[d].ring[i].gen)'
  BY <1>2 DEF GenerationsPast
<1>6. ASSUME NEW n \in Nat, Past(t, n)
      PROVE  surf'[t].life # "unborn" /\ (surf'[t].life = "live" => n <= surf'[t].gen)
  BY <1>6, BeginGens DEF Past, Live
<1>7. cur'[d].target = t => Past(t, cur[d].gen)'
  <2>1. CASE d = c
    BY <1>1, <1>2, <1>3, <1>4, <2>1 DEF Past, Live
  <2>2. CASE d # c
    <3>1. cur'[d] = cur[d]
      BY <1>4, <2>2
    <3> QED
      BY <1>5, <1>6, <3>1 DEF GenerationsPast, Past, Live
  <2> QED
    BY <2>1, <2>2
<1>8. ASSUME NEW i \in 0 .. RingSize - 1,
             pend[d].ring[i].used, pend[d].ring[i].target = t
      PROVE  Past(t, pend[d].ring[i].gen)'
  BY <1>2, <1>5, <1>6, <1>8 DEF GenerationsPast, Past, Live
<1> QED
  BY <1>7, <1>8

(* vaBeginPicture outdates every mapping of its target (decode.c:382-393).    *)
LEMMA BeginMaps ==
    ASSUME TypeOK, MappingInv, NoPairs, NEW c \in Contexts, NEW s \in Surfaces,
           NEW field \in 0 .. 2, NEW poc \in Pocs, ~FieldPictures,
           BeginPicture(c, s, field, poc)
    PROVE  MappingInv'
<1> USE DEF MappingInv
<1>2. /\ surf \in [Surfaces -> SurfaceRecord] /\ goal \in [Surfaces -> GoalRecord]
      /\ cur \in [Contexts -> PictureRecord] /\ surf[s] \in SurfaceRecord
      /\ surf[s].gen \in Nat
  BY DEF TypeOK, SurfaceRecord
<1>3. /\ Live(s) /\ surf' = [surf EXCEPT ![s] = Begun(surf[s])]
      /\ cur' = [cur EXCEPT ![c] = [begun |-> TRUE, target |-> s, gen |-> surf[s].gen + 1,
                                    field |-> 0, pic |-> pictures + 1, poc |-> poc]]
      /\ UNCHANGED <<ctx, pend, pc, dev>> /\ pc[c] = "idle"
      /\ goal' = [goal EXCEPT ![s] = [pic |-> pictures + 1, filled |-> FALSE]]
  BY BeginEffects
<1>4. surf'[s].gen = surf[s].gen + 1 /\ surf'[s].life = surf[s].life /\ Live(s)'
  BY <1>2, <1>3 DEF Begun, SurfaceRecord, Live
<1>5. \A t \in Surfaces \ {s} : surf'[t] = surf[t] /\ goal'[t] = goal[t]
  BY <1>2, <1>3
<1>6. goal'[s].pic = pictures + 1
  BY <1>2, <1>3
<1>7. /\ cur'[c].target = s /\ cur'[c].gen = surf[s].gen + 1 /\ cur'[c].pic = pictures + 1
      /\ \A d \in Contexts \ {c} : cur'[d] = cur[d]
  BY <1>2, <1>3
<1>8. \A d \in Contexts : cur[d].gen \in Nat
                          /\ \A i \in 0 .. RingSize - 1 : pend[d].ring[i].gen \in Nat
  BY DEF TypeOK, PictureRecord, PendingRecord, Slot
<1>9. SlotsPlaced'
  BY <1>3 DEF SlotsPlaced
<1>10. GenerationsPast'
  BY BeginPast
<1>11. CurrentPicture'
  <2> SUFFICES ASSUME NEW d \in Contexts, NEW t \in Surfaces, Live(t)', cur'[d].target = t,
                      cur'[d].gen = surf'[t].gen
               PROVE  goal'[t].pic = cur'[d].pic
    BY DEF CurrentPicture
  <2>1. CASE d = c
    BY <1>6, <1>7, <2>1
  <2>2. CASE d # c /\ t = s
    BY <1>2, <1>3, <1>4, <1>7, <1>8, <2>2 DEF GenerationsPast, Past
  <2>3. CASE d # c /\ t # s
    BY <1>5, <1>7, <2>3 DEF CurrentPicture, Live
  <2> QED
    BY <2>1, <2>2, <2>3
<1>12. TargetClaimed'
  <2> SUFFICES ASSUME NEW d \in Contexts, pc[d] = "feed"
               PROVE  pend[d].ring[SlotOf(ctx[d].seq)] =
                        [used |-> TRUE, seq |-> ctx[d].seq,
                         target |-> cur'[d].target, gen |-> cur'[d].gen]
    BY <1>3 DEF TargetClaimed
  <2>1. d # c
    BY <1>3
  <2> QED
    BY <1>7, <2>1 DEF TargetClaimed
<1>13. MappedPicture'
  <2> SUFFICES ASSUME NEW d \in Contexts, NEW t \in Surfaces, NEW i \in 0 .. RingSize - 1,
                      NEW u \in InSession(d)', LeadsTo(pend[d].ring[i], t)',
                      u.ts = Timestamp(pend'[d].ring[i].seq)
               PROVE  goal'[t].pic = u.pic
    BY DEF MappedPicture, Timestamp
  <2>1. u \in InSession(d) /\ pend'[d].ring[i] = pend[d].ring[i]
    BY <1>3 DEF InSession
  <2>2. t # s
    BY <1>2, <1>3, <1>4, <1>8, <2>1 DEF LeadsTo, GenerationsPast, Past
  <2>3. LeadsTo(pend[d].ring[i], t)
    BY <1>5, <2>1, <2>2 DEF LeadsTo, Live
  <2> QED
    BY <1>5, <2>1, <2>2, <2>3 DEF MappedPicture
<1> QED
  BY <1>9, <1>10, <1>11, <1>12, <1>13

(* Every sequence number has a slot.                                          *)
LEMMA SlotInRing ==
    ASSUME NEW n \in Int
    PROVE  SlotOf(n) \in 0 .. RingSize - 1
  BY DecodeAssumption DEF SlotOf

(* vpu_decode_end maps the picture before it is submitted: the slot is new    *)
(* to the session, whose units all have smaller sequence numbers.             *)
LEMMA ClaimMaps ==
    ASSUME TypeOK, MappingInv, StampInv, NEW c \in Contexts, ClaimTarget(c)
    PROVE  MappingInv'
<1> USE DEF MappingInv
<1> DEFINE k == SlotOf(ctx[c].seq)
           new == [used |-> TRUE, seq |-> ctx[c].seq, target |-> cur[c].target,
                   gen |-> cur[c].gen]
<1>1. k \in 0 .. RingSize - 1
  BY SlotInRing DEF TypeOK, ContextRecord
<1>2. ~paff[c].second
  BY DEF StampInv, NoPairs
<1>3. /\ pend'[c].ring = [pend[c].ring EXCEPT ![k] = new]
      /\ \A d \in Contexts \ {c} : pend'[d] = pend[d]
  BY <1>2 DEF TypeOK, PendingRecord, ClaimTarget
<1>4. /\ pend'[c].ring[k] = new
      /\ \A i \in 0 .. RingSize - 1 : i # k => pend'[c].ring[i] = pend[c].ring[i]
  BY <1>1, <1>3 DEF TypeOK, PendingRecord
<1>5. \A s \in Surfaces : surf'[s].life = surf[s].life /\ surf'[s].gen = surf[s].gen
  <2> SUFFICES ASSUME NEW s \in Surfaces
               PROVE  surf'[s].life = surf[s].life /\ surf'[s].gen = surf[s].gen
    OBVIOUS
  <2>1. surf'[s] = surf[s] \/ surf'[s] = Claimed(surf[s], c, Token(c))
    BY <1>2 DEF ClaimTarget
  <2>2. surf[s] \in SurfaceRecord
    BY DEF TypeOK
  <2> QED
    BY <2>1, <2>2 DEF SurfaceRecord, Claimed, Finished
<1>6. UNCHANGED <<ctx, cur, dev, goal>> /\ pc' = [pc EXCEPT ![c] = "feed"]
  BY DEF ClaimTarget, history
<1>7. \A d \in Contexts, i \in 0 .. RingSize - 1 :
         pend'[d].ring[i] = pend[d].ring[i] \/ (d = c /\ i = k /\ pend'[d].ring[i] = new)
  BY <1>3, <1>4
<1>8. /\ new.used /\ new.seq = ctx[c].seq /\ new.target = cur[c].target
      /\ new.gen = cur[c].gen
  OBVIOUS
<1>9. SlotsPlaced'
  BY <1>7, <1>8 DEF SlotsPlaced
<1>10. \A s \in Surfaces, n \in Nat : Past(s, n)' <=> Past(s, n)
  BY <1>5 DEF Past, Live
<1>11. GenerationsPast'
  <2> SUFFICES ASSUME NEW d \in Contexts, NEW t \in Surfaces
               PROVE  /\ cur[d].target = t => Past(t, cur[d].gen)'
                      /\ \A i \in 0 .. RingSize - 1 :
                            pend'[d].ring[i].used /\ pend'[d].ring[i].target = t
                                => Past(t, pend[d].ring[i].gen)'
    BY <1>6 DEF GenerationsPast
  <2>1. ASSUME NEW n, Past(t, n)
        PROVE  surf'[t].life # "unborn" /\ (surf'[t].life = "live" => n <= surf'[t].gen)
    BY <1>5, <2>1 DEF Past, Live
  <2>2. cur[d].target = t => Past(t, cur[d].gen)'
    BY <1>6, <2>1 DEF GenerationsPast, Past, Live
  <2>3. ASSUME NEW i \in 0 .. RingSize - 1,
               pend'[d].ring[i].used, pend'[d].ring[i].target = t
        PROVE  Past(t, pend[d].ring[i].gen)'
    BY <1>7, <1>8, <2>1, <2>3 DEF GenerationsPast, Past, Live
  <2> QED
    BY <2>2, <2>3
<1>12. CurrentPicture'
  BY <1>5, <1>6 DEF CurrentPicture, Live
<1>13. TargetClaimed'
  <2> SUFFICES ASSUME NEW d \in Contexts, pc'[d] = "feed"
               PROVE  pend'[d].ring[SlotOf(ctx[d].seq)] =
                        [used |-> TRUE, seq |-> ctx[d].seq,
                         target |-> cur[d].target, gen |-> cur[d].gen]
    BY <1>6 DEF TargetClaimed
  <2>1. CASE d = c
    BY <1>4, <2>1
  <2>2. CASE d # c
    BY <1>3, <1>6, <2>2 DEF TypeOK, TargetClaimed
  <2> QED
    BY <2>1, <2>2
<1>14. MappedPicture'
  <2> SUFFICES ASSUME NEW d \in Contexts, NEW t \in Surfaces, NEW i \in 0 .. RingSize - 1,
                      NEW u \in InSession(d), LeadsTo(pend[d].ring[i], t)',
                      u.ts = Timestamp(pend'[d].ring[i].seq)
               PROVE  goal[t].pic = u.pic
    BY <1>6 DEF MappedPicture, InSession, Timestamp
  <2>1. CASE pend'[d].ring[i] = pend[d].ring[i]
    BY <1>5, <2>1 DEF MappedPicture, LeadsTo, Live
  <2>2. CASE d = c /\ pend'[d].ring[i] = new
    <3>1. u = NoUnit \/ u.ts < Timestamp(ctx[c].seq)
      BY <2>2 DEF StampInv, StampsInOrder
    <3>2. u.ts = ctx[c].seq + 1000 /\ ctx[c].seq \in Nat
      BY <2>2 DEF Timestamp, TypeOK, ContextRecord
    <3> QED
      BY <3>1, <3>2 DEF NoUnit, Timestamp
  <2> QED
    BY <1>7, <2>1, <2>2
<1> QED
  BY <1>9, <1>11, <1>12, <1>13, <1>14

(* The unit fed is the picture its slot was claimed for.                      *)
LEMMA FeedMaps ==
    ASSUME TypeOK, MappingInv, StampInv, NEW c \in Contexts, Feed(c)
    PROVE  MappingInv'
<1> USE DEF MappingInv
<1>1. /\ UNCHANGED <<surf, cur, goal>> /\ pc[c] = "feed" /\ pc' = [pc EXCEPT ![c] = "drain"]
      /\ \A d \in Contexts \ {c} : ctx'[d] = ctx[d]
  BY DEF TypeOK, Feed, history
<1>2. \A d \in Contexts : pend'[d].ring = pend[d].ring
  BY DEF TypeOK, PendingRecord, Feed
<1>3. SlotsPlaced' /\ GenerationsPast' /\ CurrentPicture'
  BY <1>1, <1>2 DEF SlotsPlaced, GenerationsPast, CurrentPicture, Past, Live
<1>4. TargetClaimed'
  <2> SUFFICES ASSUME NEW d \in Contexts, pc'[d] = "feed"
               PROVE  /\ pc[d] = "feed" /\ ctx'[d] = ctx[d]
                      /\ pend'[d].ring = pend[d].ring
    BY <1>1 DEF TargetClaimed
  <2>1. d # c
    BY <1>1 DEF TypeOK
  <2> QED
    BY <1>1, <1>2, <2>1 DEF TypeOK
<1>5. MappedPicture'
  <2> SUFFICES ASSUME NEW d \in Contexts, NEW t \in Surfaces, NEW i \in 0 .. RingSize - 1,
                      NEW u \in InSession(d)', LeadsTo(pend[d].ring[i], t),
                      u.ts = Timestamp(pend[d].ring[i].seq)
               PROVE  goal[t].pic = u.pic
    BY <1>1, <1>2 DEF MappedPicture, LeadsTo, Live, Timestamp
  <2>1. CASE u \in InSession(d)
    BY <2>1 DEF MappedPicture
  <2>2. CASE u = NoUnit
    <3>1. pend[d].ring[i].seq \in Nat
      BY DEF TypeOK, PendingRecord, Slot
    <3> QED
      BY <2>2, <3>1 DEF NoUnit, Timestamp
  <2>3. CASE d = c /\ u = UnitPair(Unit(c))
    <3>1. ~paff[c].second /\ ctx[c].seq \in Nat /\ pend[c].ring[i].seq \in Nat
      BY DEF StampInv, NoPairs, TypeOK, ContextRecord, PendingRecord, Slot
    <3>2. u.pic = cur[c].pic /\ u.ts = Timestamp(ctx[c].seq)
      BY <2>3, <3>1 DEF Unit, UnitPair
    <3>3. pend[c].ring[i].seq = ctx[c].seq
      <4>1. Timestamp(pend[c].ring[i].seq) = Timestamp(ctx[c].seq)
        BY <2>3, <3>2
      <4> QED
        BY <3>1, <4>1 DEF Timestamp
    <3>4. i = SlotOf(ctx[c].seq)
      BY <2>3, <3>3 DEF SlotsPlaced, LeadsTo
    <3>5. pend[c].ring[i].target = cur[c].target /\ pend[c].ring[i].gen = cur[c].gen
      <4>1. pend[c].ring[SlotOf(ctx[c].seq)] =
              [used |-> TRUE, seq |-> ctx[c].seq,
               target |-> cur[c].target, gen |-> cur[c].gen]
        BY <1>1 DEF TargetClaimed
      <4> QED
        BY <3>4, <4>1
    <3> QED
      BY <2>3, <3>2, <3>5 DEF LeadsTo, CurrentPicture
  <2> QED
    BY <2>1, <2>2, <2>3, FeedUnits DEF UnitsKept
<1> QED
  BY <1>3, <1>4, <1>5

-----------------------------------------------------------------------------
(* The plain steps                                                            *)

SameWork(x, y) ==
    x.life = y.life /\ x.gen = y.gen /\ x.decoded = y.decoded /\ x.px = y.px

(* What ends a write, exports or sweeps surfaces touches neither their        *)
(* generation nor what is reported ready.                                     *)
LEMMA FinishedWork ==
    ASSUME NEW x \in SurfaceRecord
    PROVE  /\ SameWork(Finished(x), x) /\ SameWork(x, x)
           /\ SameWork([x EXCEPT !.exported = TRUE], x)
           /\ SameWork([x EXCEPT !.owner = None], x)
           /\ \A b : SameWork([x EXCEPT !.queued = b], x)
  BY DEF SurfaceRecord, SameWork, Finished

LEMMA SweepWork ==
    ASSUME TypeOK, NEW c \in Contexts, NEW s \in Surfaces
    PROVE  /\ SameWork(AllFinished(c)[s], surf[s])
           /\ SameWork(Disowned(c)[s], surf[s])
           /\ SameWork(Detached(c)[s], surf[s])
<1>1. surf[s] \in SurfaceRecord /\ Finished(surf[s]) \in SurfaceRecord
  BY WritesTyped DEF TypeOK
<1>2. SameWork(AllFinished(c)[s], surf[s])
  BY <1>1, FinishedWork DEF AllFinished, SameWork
<1>3. SameWork(Disowned(c)[s], surf[s])
  <2> DEFINE q == IF Abandoned(surf[s], c) THEN FALSE ELSE Finished(surf[s]).queued
  <2>1. Disowned(c)[s] = IF Live(s) /\ surf[s].owner = c
                         THEN [Finished(surf[s]) EXCEPT !.queued = q] ELSE surf[s]
    BY DEF Disowned
  <2> HIDE DEF q
  <2>2. SameWork([Finished(surf[s]) EXCEPT !.queued = q], Finished(surf[s]))
    BY <1>1, FinishedWork
  <2> QED
    BY <1>1, <2>1, <2>2, FinishedWork DEF SameWork
<1>4. SameWork(Detached(c)[s], surf[s])
  <2> DEFINE x == IF ctx[c].open THEN Finished(surf[s]) ELSE surf[s]
  <2>1. Detached(c)[s] = IF Live(s) /\ surf[s].owner = c
                         THEN [x EXCEPT !.owner = None] ELSE surf[s]
    BY DEF Detached
  <2>2. x \in SurfaceRecord /\ SameWork(x, surf[s])
    BY <1>1, FinishedWork DEF SameWork
  <2> HIDE DEF x
  <2>3. SameWork([x EXCEPT !.owner = None], x)
    BY <2>2, FinishedWork
  <2> QED
    BY <2>1, <2>2, <2>3 DEF SameWork
<1> QED
  BY <1>2, <1>3, <1>4

(* The steps inside a call that neither claim, feed nor dequeue leave the     *)
(* work on every surface alone, or drop the mappings of a closed session.     *)
LEMMA CallKeepsWork ==
    ASSUME TypeOK, NEW c \in Contexts, CallStep(c),
           ~ClaimTarget(c), ~Feed(c), ~TakeFrame(c)
    PROVE  /\ \A s \in Surfaces : SameWork(surf'[s], surf[s])
           /\ pend' = pend \/ pend' = [pend EXCEPT ![c] = NoPending]
           /\ UNCHANGED <<cur, goal, pictures>>
           /\ \A d \in Contexts :
                 pc'[d] = "feed" =>
                    pc[d] = "feed" /\ pend'[d] = pend[d] /\ ctx'[d].seq = ctx[d].seq
<1>1. \/ FlushDone(c) \/ Restart(c) \/ OpenSession(c) \/ SubmitFails(c) \/ StartFails(c)
      \/ Unwind(c) \/ DrainDone(c) \/ WaitDone(c) \/ CallFails(c) \/ TimesOut(c)
      \/ SyncReturn(c) \/ Teardown(c)
  BY DEF CallStep
<1>2. \A s \in Surfaces : SameWork(surf'[s], surf[s])
  <2>1. surf' \in {surf, AllFinished(c), Disowned(c), Detached(c)}
    BY <1>1 DEF FlushDone, Restart, OpenSession, SubmitFails, StartFails,
           Unwind, DrainDone, WaitDone, CallFails, TimesOut, SyncReturn, Teardown
  <2> QED
    BY <2>1, SweepWork DEF SameWork
<1>3. /\ pend' = pend \/ pend' = [pend EXCEPT ![c] = NoPending]
      /\ UNCHANGED <<cur, goal, pictures>>
  BY <1>1 DEF FlushDone, Restart, OpenSession, SubmitFails, StartFails, Unwind,
          DrainDone, WaitDone, CallFails, TimesOut, SyncReturn, Teardown, history
<1>4. ASSUME NEW d \in Contexts, pc'[d] = "feed"
      PROVE  pc[d] = "feed" /\ pend'[d] = pend[d] /\ ctx'[d].seq = ctx[d].seq
  <2>1. \E p \in Calls \ {"feed"} : pc' = [pc EXCEPT ![c] = p]
    <3>1. AfterError(pc[c]) \in Calls \ {"feed"}
      BY DEF AfterError, Calls
    <3>2. CASE CallFails(c) \/ TimesOut(c)
      BY <3>1, <3>2 DEF CallFails, TimesOut, Failing
    <3>3. CASE \/ FlushDone(c) \/ Restart(c) \/ SubmitFails(c) \/ StartFails(c)
               \/ Unwind(c) \/ DrainDone(c) \/ WaitDone(c) \/ SyncReturn(c) \/ Teardown(c)
      BY <3>3 DEF FlushDone, Restart, SubmitFails, StartFails, Unwind, DrainDone,
                  WaitDone, SyncReturn, Teardown, Calls
    <3>4. CASE OpenSession(c)
      <4>1. \E p \in {"prepare", "idle"} : pc' = [pc EXCEPT ![c] = p]
        BY <3>4 DEF OpenSession
      <4> QED
        BY <4>1 DEF Calls
    <3> QED
      BY <1>1, <3>2, <3>3, <3>4
  <2>2. d # c /\ pc[d] = "feed"
    BY <1>4, <2>1 DEF TypeOK
  <2>3. ctx'[d] = ctx[d]
    BY <1>1, <2>2 DEF TypeOK, FlushDone, Restart, OpenSession, SubmitFails, StartFails,
       Unwind, DrainDone, WaitDone, CallFails, TimesOut, SyncReturn, Teardown
  <2>4. pend'[d] = pend[d]
    BY <1>3, <2>2 DEF TypeOK
  <2> QED
    BY <2>2, <2>3, <2>4
<1> QED
  BY <1>2, <1>3, <1>4

(* The oldest frame of a session.                                             *)
LEMMA HeadFrame ==
    ASSUME TypeOK, SessionInv, NEW c \in Contexts, dev[c].cap # <<>>
    PROVE  LET f == Head(dev[c].cap)
           IN  /\ f \in Frame /\ UnitPair(f) \in InSession(c)
               /\ f.last => f.ts = 0
<1>1. dev[c].cap \in Seq(Frame) /\ FramesOf(c, stream[c], dev[c].cap)
  BY SessionInvMeans DEF TypeOK, SessionRecord, SessionsOf
<1>2. /\ Head(dev[c].cap) = dev[c].cap[1] /\ 1 \in DOMAIN dev[c].cap
  BY <1>1, EmptySeq, LenProperties
<1> DEFINE q == dev[c].cap
<1>3. q[1] \in Frame
  BY <1>1, <1>2
<1>4. FrameOf(c, stream[c], Head(q))
  BY <1>1, PopKeepsStream
<1>5. UnitPair(q[1]) \in Units(q)
  BY <1>2 DEF Units, UnitPair
<1>6. Units(q) \subseteq InSession(c)
  BY DEF InSession
<1>7. q[1].last => q[1].ts = 0
  BY <1>2, <1>4 DEF FrameOf
<1> QED
  BY <1>2, <1>3, <1>5, <1>6, <1>7

(* assign_frame uses up at most one slot, that of the frame's timestamp.      *)
LEMMA MappingTakenRing ==
    ASSUME TypeOK, NEW c \in Contexts, NEW f \in Frame, NEW i \in 0 .. RingSize - 1
    PROVE  \/ MappingTaken(c, f).ring[i] = pend[c].ring[i]
           \/ /\ ~MappingTaken(c, f).ring[i].used
              /\ ~HevcFifo /\ f.ts # 0
              /\ pend[c].ring[i].used /\ f.ts = Timestamp(pend[c].ring[i].seq)
              /\ i = SlotOf(FrameSeq(f))
<1> DEFINE k == SlotOf(FrameSeq(f))
           slot == [pend[c].ring[k] EXCEPT !.used = FALSE]
           ring == [pend[c].ring EXCEPT ![k] = slot]
<1>1. pend[c] \in PendingRecord /\ f.ts \in Nat
  BY DEF TypeOK, Frame
<1>2. k \in 0 .. RingSize - 1
  BY <1>1, SlotInRing DEF FrameSeq
<1>3. CASE MappingTaken(c, f) = pend[c] \/ \E q : MappingTaken(c, f) = [pend[c] EXCEPT !.fifo = q]
  BY <1>1, <1>3 DEF PendingRecord
<1>4. CASE /\ ~Unassignable(c, f) /\ ~HevcFifo /\ Matching(c, f)
           /\ MappingTaken(c, f) = [pend[c] EXCEPT !.ring = ring]
  <2>1. ring[k] = slot /\ (i # k => ring[i] = pend[c].ring[i])
    BY <1>1, <1>2 DEF PendingRecord
  <2>2. ~slot.used
    BY <1>1, <1>2 DEF PendingRecord, Slot
  <2>3. pend[c].ring[k].used /\ pend[c].ring[k].seq = FrameSeq(f)
    BY <1>4 DEF Matching
  <2>4. f.ts = Timestamp(pend[c].ring[k].seq) /\ f.ts # 0
    BY <1>1, <1>4, <2>3 DEF FrameSeq, Timestamp, Unassignable
  <2> HIDE DEF k, slot, ring
  <2>5. MappingTaken(c, f).ring = ring
    BY <1>1, <1>4 DEF PendingRecord
  <2> QED
    BY <1>4, <2>1, <2>2, <2>3, <2>4, <2>5 DEF k
<1>5. [pend[c] EXCEPT !.ring[SlotOf(FrameSeq(f))].used = FALSE] = [pend[c] EXCEPT !.ring = ring]
  BY <1>1, <1>2 DEF PendingRecord
<1> HIDE DEF ring
<1> QED
  BY <1>3, <1>4, <1>5 DEF MappingTaken

(* The mapping hevc_ring gives a frame is the one target_ring has for its     *)
(* timestamp.                                                                 *)
MappedByStamp(c, f) ==
    LET slot == pend[c].ring[SlotOf(FrameSeq(f))]
    IN  /\ ~f.last /\ Matching(c, f)
        /\ Head(pend[c].fifo) = [target |-> slot.target, gen |-> slot.gen]

(* A frame lands where the slot of its timestamp leads.                       *)
LEMMA LandingSlot ==
    ASSUME TypeOK, NEW c \in Contexts, NEW f \in Frame, Lands(c, f),
           HevcFifo => MappedByStamp(c, f)
    PROVE  LET s == MappedTo(c, f).target
               i == SlotOf(FrameSeq(f))
           IN  /\ s \in Surfaces /\ Live(s) /\ i \in 0 .. RingSize - 1
               /\ LeadsTo(pend[c].ring[i], s)
               /\ f.ts = Timestamp(pend[c].ring[i].seq)
               /\ f.ts # 0
<1> DEFINE s == MappedTo(c, f).target
           i == SlotOf(FrameSeq(f))
           slot == pend[c].ring[i]
<1>1. /\ s \in Surfaces /\ Live(s) /\ surf[s].gen = MappedTo(c, f).gen
      /\ f.ts \in Nat /\ ~Unassignable(c, f)
  BY DEF Lands, Live, Frame
<1>2. i \in 0 .. RingSize - 1
  BY <1>1, SlotInRing DEF FrameSeq
<1>3. slot \in Slot
  BY <1>2 DEF TypeOK, PendingRecord
<1>4. Matching(c, f) /\ s = slot.target /\ MappedTo(c, f).gen = slot.gen
  <2>1. CASE HevcFifo
    BY <2>1 DEF MappedByStamp, MappedTo
  <2>2. CASE ~HevcFifo
    <3>1. s = IF Matching(c, f) THEN slot.target ELSE None
      BY <2>2 DEF MappedTo
    <3> QED
      BY <1>1, <2>2, <3>1, RegistryAssumption DEF MappedTo
  <2> QED
    BY <2>1, <2>2
<1>5. slot.used /\ slot.seq = FrameSeq(f)
  BY <1>4 DEF Matching
<1>6. slot.seq \in Nat
  BY <1>3 DEF Slot
<1>7. f.ts = Timestamp(slot.seq) /\ f.ts # 0
  BY <1>1, <1>5, <1>6 DEF FrameSeq, Timestamp
<1> HIDE DEF s, slot
<1> QED
  BY <1>1, <1>2, <1>4, <1>5, <1>7 DEF LeadsTo, s, slot

(* One dequeued frame: the mapping is used up, and the frame is lost, or put  *)
(* into the surface its slot leads to, or its copy fails.                     *)
LandsIn(c, s, f) ==
    /\ surf' = [surf EXCEPT ![s] = Landed(surf[s], c, f.px)]
    /\ reg' = LastFrameIs(s)
    /\ goal' = [goal EXCEPT ![s].filled = FALSE]

HalfLanded(y, px) == {y, Finished(y), [Finished(y) EXCEPT !.px = px]}

CopyFails(s, f) ==
    /\ "copy" \in Faults
    /\ \E x \in HalfLanded(surf[s], f.px) : surf' = [surf EXCEPT ![s] = x]
    /\ UNCHANGED <<reg, goal>>

LEMMA TakeFrameEffects ==
    ASSUME TypeOK, SessionInv, NEW c \in Contexts, TakeFrame(c),
           HevcFifo => MappedByStamp(c, Head(dev[c].cap))
    PROVE  LET f == Head(dev[c].cap)
           IN  /\ f \in Frame /\ UnitPair(f) \in InSession(c)
               /\ pend' = [pend EXCEPT ![c] = MappingTaken(c, f)]
               /\ \/ UNCHANGED <<surf, reg, goal>>
                  \/ \E s \in Surfaces, i \in 0 .. RingSize - 1 :
                        /\ LeadsTo(pend[c].ring[i], s)
                        /\ f.ts = Timestamp(pend[c].ring[i].seq)
                        /\ i = SlotOf(FrameSeq(f))
                        /\ LandsIn(c, s, f) \/ CopyFails(s, f)
               /\ UNCHANGED <<cur, pictures, stream, paff>>
<1> DEFINE f == Head(dev[c].cap)
           s == MappedTo(c, f).target
           i == SlotOf(FrameSeq(f))
           px == IF f.last THEN surf[s].px ELSE f.px
<1>1. f \in Frame /\ UnitPair(f) \in InSession(c) /\ (f.last => f.ts = 0)
  BY HeadFrame DEF TakeFrame
<1>2. PICK copied \in (IF "copy" \in Faults THEN BOOLEAN ELSE {TRUE}) : Assign(c, f, copied)
  BY DEF TakeFrame
<1>3. /\ pend' = [pend EXCEPT ![c] = MappingTaken(c, f)]
      /\ UNCHANGED <<cur, pictures, stream, paff>>
  BY <1>2 DEF Assign, TakeFrame
<1>4. CASE ~Lands(c, f)
  <2>1. UNCHANGED <<surf, reg, goal>>
    BY <1>2, <1>4 DEF Assign
  <2> HIDE DEF f, s, i
  <2> QED
    BY <1>1, <1>3, <2>1 DEF f
<1>5. CASE Lands(c, f)
  <2>1. /\ s \in Surfaces /\ i \in 0 .. RingSize - 1 /\ LeadsTo(pend[c].ring[i], s)
        /\ f.ts = Timestamp(pend[c].ring[i].seq) /\ f.ts # 0
    BY <1>1, <1>5, LandingSlot
  <2>2. px = f.px
    BY <1>1, <2>1
  <2>4. CASE copied
    <3>1. /\ surf' = [surf EXCEPT ![s] = Landed(surf[s], c, px)]
          /\ reg' = LastFrameIs(s)
          /\ goal' = [goal EXCEPT ![s].filled = FALSE]
      BY <1>2, <1>5, <2>4 DEF Assign
    <3> HIDE DEF f, s, i, px
    <3>2. LandsIn(c, s, f)
      BY <2>2, <3>1 DEF LandsIn
    <3> QED
      BY <1>1, <1>3, <2>1, <3>2 DEF f, i
  <2>5. CASE ~copied
    <3>1. /\ \E x \in {surf[s], Finished(surf[s]), [Finished(surf[s]) EXCEPT !.px = px]} :
                surf' = [surf EXCEPT ![s] = x]
          /\ UNCHANGED <<reg, goal>>
      BY <1>2, <1>5, <2>5 DEF Assign
    <3>2. "copy" \in Faults
      BY <1>2, <2>5
    <3> HIDE DEF f, s, i, px
    <3>3. CopyFails(s, f)
      BY <2>2, <3>1, <3>2 DEF CopyFails, HalfLanded
    <3> QED
      BY <1>1, <1>3, <2>1, <3>3 DEF f, i
  <2> QED
    BY <2>4, <2>5
<1> QED
  BY <1>4, <1>5

(* Landing leaves life and generation of a surface alone.                     *)
LEMMA LandingWork ==
    ASSUME NEW x \in SurfaceRecord, NEW c \in Contexts, NEW px
    PROVE  /\ Landed(x, c, px).life = x.life /\ Landed(x, c, px).gen = x.gen
           /\ Landed(x, c, px).decoded /\ Landed(x, c, px).px = px
           /\ [x EXCEPT !.px = px].life = x.life /\ [x EXCEPT !.px = px].gen = x.gen
           /\ [x EXCEPT !.px = px].decoded = x.decoded /\ [x EXCEPT !.px = px].px = px
<1>1. /\ Finished(x) \in SurfaceRecord
      /\ Finished(x).life = x.life /\ Finished(x).gen = x.gen
  BY WritesTyped, FinishedWork DEF SameWork
<1>2. /\ Landed(x, c, px).life = Finished(x).life /\ Landed(x, c, px).gen = Finished(x).gen
      /\ Landed(x, c, px).decoded /\ Landed(x, c, px).px = px
  BY <1>1 DEF SurfaceRecord, Landed
<1>3. /\ [x EXCEPT !.px = px].life = x.life /\ [x EXCEPT !.px = px].gen = x.gen
      /\ [x EXCEPT !.px = px].decoded = x.decoded /\ [x EXCEPT !.px = px].px = px
  BY DEF SurfaceRecord
<1> QED
  BY <1>1, <1>2, <1>3

(* What a copy that fails leaves behind.                                      *)
LEMMA FailedCopyWork ==
    ASSUME NEW y \in SurfaceRecord, NEW px, NEW x \in HalfLanded(y, px)
    PROVE  /\ x.life = y.life /\ x.gen = y.gen /\ x.decoded = y.decoded
           /\ x.px = y.px \/ x.px = px
<1> DEFINE w == Finished(y)
           z == [w EXCEPT !.px = px]
<1>1. w \in SurfaceRecord
  BY DEF SurfaceRecord, Finished
<1>2. SameWork(w, y)
  BY FinishedWork
<1>3. z.life = w.life /\ z.gen = w.gen /\ z.decoded = w.decoded /\ z.px = px
  BY <1>1, LandingWork
<1>4. x = y \/ x = w \/ x = z
  BY DEF HalfLanded
<1> HIDE DEF w, z
<1> QED
  BY <1>2, <1>3, <1>4 DEF SameWork

(* The mapping of the picture being submitted is not used up by a frame: all  *)
(* frames of the session are older.                                           *)
LEMMA ClaimSurvives ==
    ASSUME TypeOK, StampInv, TargetClaimed, NEW c \in Contexts, pc[c] = "feed",
           NEW f \in Frame, UnitPair(f) \in InSession(c)
    PROVE  MappingTaken(c, f).ring[SlotOf(ctx[c].seq)] = pend[c].ring[SlotOf(ctx[c].seq)]
<1> DEFINE k == SlotOf(ctx[c].seq)
<1>1. ctx[c].seq \in Nat /\ k \in 0 .. RingSize - 1
  BY SlotInRing DEF TypeOK, ContextRecord
<1>2. pend[c].ring[k] = [used |-> TRUE, seq |-> ctx[c].seq, target |-> cur[c].target,
                         gen |-> cur[c].gen]
  BY DEF TargetClaimed
<1>3. UnitPair(f) = NoUnit \/ UnitPair(f).ts < Timestamp(ctx[c].seq)
  BY DEF StampInv, StampsInOrder
<1>4. UnitPair(f).ts = f.ts /\ NoUnit.ts = 0
  BY DEF UnitPair, NoUnit
<1>5. pend[c].ring[k].seq = ctx[c].seq
  BY <1>2
<1> HIDE DEF k
<1>6. f.ts # 0 => f.ts # Timestamp(pend[c].ring[k].seq)
  BY <1>1, <1>3, <1>4, <1>5 DEF Timestamp, Frame
<1>7. MappingTaken(c, f).ring[k] = pend[c].ring[k]
  BY <1>1, <1>6, MappingTakenRing
<1> QED
  BY <1>7 DEF k

LEMMA TakeFrameIsPlain ==
    ASSUME TypeOK, SessionInv, StampInv, MappingInv,
           NEW c \in Contexts, TakeFrame(c),
           HevcFifo => MappedByStamp(c, Head(dev[c].cap))
    PROVE  PlainStep
<1> DEFINE f == Head(dev[c].cap)
<1>1. /\ f \in Frame /\ UnitPair(f) \in InSession(c)
      /\ pend' = [pend EXCEPT ![c] = MappingTaken(c, f)]
      /\ \/ UNCHANGED <<surf, reg, goal>>
         \/ \E s \in Surfaces : LandsIn(c, s, f) \/ CopyFails(s, f)
      /\ UNCHANGED <<cur, pictures, stream, paff>>
  BY TakeFrameEffects
<1> HIDE DEF f
<1>2. pend'[c] = MappingTaken(c, f) /\ \A d \in Contexts \ {c} : pend'[d] = pend[d]
  BY <1>1 DEF TypeOK
<1>3. SlotsKept
  <2> SUFFICES ASSUME NEW d \in Contexts, NEW i \in 0 .. RingSize - 1
               PROVE  pend'[d].ring[i] = pend[d].ring[i] \/ ~pend'[d].ring[i].used
    BY DEF SlotsKept
  <2> QED
    BY <1>1, <1>2, MappingTakenRing
<1>4. GensKept
  <2>1. CASE UNCHANGED <<surf, reg, goal>>
    BY <2>1 DEF TypeOK, SurfaceRecord, GensKept
  <2>2. CASE \E s \in Surfaces : LandsIn(c, s, f) \/ CopyFails(s, f)
    <3>1. PICK s \in Surfaces : LandsIn(c, s, f) \/ CopyFails(s, f)
      BY <2>2
    <3>2. surf[s] \in SurfaceRecord /\ goal[s] \in GoalRecord
      BY DEF TypeOK
    <3>3. surf'[s].life = surf[s].life /\ surf'[s].gen = surf[s].gen
          /\ \A t \in Surfaces \ {s} : surf'[t] = surf[t]
      <4>1. CASE LandsIn(c, s, f)
        <5>1. surf' = [surf EXCEPT ![s] = Landed(surf[s], c, f.px)]
          BY <4>1 DEF LandsIn
        <5>2. /\ Landed(surf[s], c, f.px).life = surf[s].life
              /\ Landed(surf[s], c, f.px).gen = surf[s].gen
          BY <3>2, LandingWork
        <5>3. surf'[s] = Landed(surf[s], c, f.px)
              /\ \A t \in Surfaces \ {s} : surf'[t] = surf[t]
          BY <5>1 DEF TypeOK
        <5> QED
          BY <5>2, <5>3
      <4>2. CASE CopyFails(s, f)
        <5>1. PICK x \in HalfLanded(surf[s], f.px) : surf' = [surf EXCEPT ![s] = x]
          BY <4>2 DEF CopyFails
        <5>2. x.life = surf[s].life /\ x.gen = surf[s].gen
          BY <3>2, FailedCopyWork
        <5> QED
          BY <5>1, <5>2 DEF TypeOK
      <4> QED
        BY <3>1, <4>1, <4>2
    <3>4. \A t \in Surfaces : goal'[t].pic = goal[t].pic
      BY <3>1, <3>2 DEF LandsIn, CopyFails, TypeOK, GoalRecord
    <3>5. \A t \in Surfaces : surf[t].life \in {"unborn", "live", "freed"}
      BY DEF TypeOK, SurfaceRecord
    <3> QED
      BY <3>3, <3>4, <3>5 DEF GensKept
  <2> QED
    BY <1>1, <2>1, <2>2
<1>5. CursKept
  BY <1>1 DEF CursKept
<1>6. FeedsKept
  <2> SUFFICES ASSUME NEW d \in Contexts, pc'[d] = "feed"
               PROVE  /\ pc[d] = "feed" /\ ctx'[d].seq = ctx[d].seq
                      /\ pend'[d].ring[SlotOf(ctx[d].seq)] = pend[d].ring[SlotOf(ctx[d].seq)]
    BY <1>1 DEF FeedsKept
  <2>1. pc[d] = "feed"
    <3>1. AfterError(pc[c]) # "feed"
      BY DEF AfterError
    <3>2. pc' = pc \/ pc' = [pc EXCEPT ![c] = AfterError(pc[c])]
      BY DEF TakeFrame, Failing
    <3> QED
      BY <3>1, <3>2 DEF TypeOK
  <2>2. ctx'[d].seq = ctx[d].seq
    BY FlagsKeepSeq DEF TakeFrame, SeqsKept
  <2>3. pend'[d].ring[SlotOf(ctx[d].seq)] = pend[d].ring[SlotOf(ctx[d].seq)]
    BY <1>1, <1>2, <2>1, ClaimSurvives DEF MappingInv
  <2> QED
    BY <2>1, <2>2, <2>3
<1> QED
  BY <1>3, <1>4, <1>5, <1>6, DequeueUnits DEF PlainStep

(* The steps that leave the work on every surface alone.                      *)
LEMMA QuietIsPlain ==
    ASSUME TypeOK, SlotsKept, CursKept, FeedsKept, UNCHANGED goal,
           \A s \in Surfaces : SameWork(surf'[s], surf[s]),
           \A d \in Contexts : UnitsKept(d)
    PROVE  PlainStep
<1>1. \A s \in Surfaces : surf[s].life \in {"unborn", "live", "freed"}
  BY DEF TypeOK, SurfaceRecord
<1>2. GensKept
  BY <1>1 DEF GensKept, SameWork
<1> QED
  BY <1>2 DEF PlainStep

LEMMA SameSurface ==
    ASSUME TypeOK
    PROVE  \A s \in Surfaces : SameWork(surf[s], surf[s])
  BY FinishedWork DEF TypeOK

(* All entries of a call but vaBeginPicture.                                  *)
LEMMA ClientQuiet ==
    ASSUME TypeOK, NEW c \in Contexts,
           \/ CreateContext(c) \/ EndPictureFails(c) \/ DestroyContext(c)
           \/ \E ra, cue \in BOOLEAN : EndPicture(c, ra, cue)
    PROVE  /\ UNCHANGED <<surf, reg, pend, goal, pictures, stream, sync>>
           /\ CursKept /\ FeedsKept
           /\ \A d \in Contexts : cur'[d].begun => cur[d].begun
<1>1. UNCHANGED <<surf, reg, pend, goal, pictures, stream, sync>>
  BY DEF CreateContext, EndPictureFails, DestroyContext, EndPicture, history
<1> DEFINE x == [cur[c] EXCEPT !.begun = FALSE]
<1>2. x.target = cur[c].target /\ x.gen = cur[c].gen /\ x.pic = cur[c].pic /\ ~x.begun
  BY DEF TypeOK, PictureRecord
<1>3. \/ cur' = [cur EXCEPT ![c] = NoPicture] /\ pc[c] = "idle"
      \/ UNCHANGED cur \/ cur' = [cur EXCEPT ![c] = x]
  BY DEF TypeOK, MayCall, CreateContext, EndPictureFails, DestroyContext, EndPicture
<1> HIDE DEF x
<1>4. \A d \in Contexts :
         cur'[d] = cur[d] \/ (d = c /\ cur'[d] = x) \/ (d = c /\ cur'[d] = NoPicture /\ pc[c] = "idle")
  BY <1>3 DEF TypeOK
<1>5. CursKept /\ \A d \in Contexts : cur'[d].begun => cur[d].begun
  BY <1>2, <1>4 DEF CursKept, NoPicture
<1>6. SeqsKept
  BY FlagsKeepSeq DEF StopSession, CreateContext, EndPictureFails, DestroyContext, EndPicture
<1>7. \A d \in Contexts : pc'[d] = "feed" => pc[d] = "feed"
  <2>1. \/ UNCHANGED pc
        \/ \E p \in {"prepare", "idle", "restart", "boundary", "destroy", "teardown"} :
              pc' = [pc EXCEPT ![c] = p]
    BY DEF StopSession, CreateContext, EndPictureFails, DestroyContext, EndPicture
  <2> QED
    BY <2>1 DEF TypeOK
<1>8. FeedsKept
  BY <1>1, <1>2, <1>4, <1>6, <1>7 DEF FeedsKept, SeqsKept
<1> QED
  BY <1>1, <1>5, <1>8

(* The steps of a call but claiming, feeding and dequeueing.                  *)
LEMMA CallQuiet ==
    ASSUME TypeOK, NEW c \in Contexts, CallStep(c),
           ~ClaimTarget(c), ~Feed(c), ~TakeFrame(c)
    PROVE  SlotsKept /\ CursKept /\ FeedsKept
<1>1. /\ pend' = pend \/ pend' = [pend EXCEPT ![c] = NoPending]
      /\ UNCHANGED cur
      /\ \A d \in Contexts :
            pc'[d] = "feed" => pc[d] = "feed" /\ pend'[d] = pend[d] /\ ctx'[d].seq = ctx[d].seq
  BY CallKeepsWork
<1>2. \A d \in Contexts : pend'[d] = pend[d] \/ pend'[d] = NoPending
  BY <1>1 DEF TypeOK
<1>3. \A i \in 0 .. RingSize - 1 : ~NoPending.ring[i].used
  BY DEF NoPending, EmptyRing, EmptySlot
<1> QED
  BY <1>1, <1>2, <1>3 DEF SlotsKept, CursKept, FeedsKept

(* The firmware, the calls on surfaces and the steps of a sync.               *)
OffCall ==
    \/ \E c \in Contexts : Firmware(c)
    \/ \E s \in Surfaces : SurfaceCall(s)
    \/ SyncStep
    \/ UNCHANGED vars

LEMMA OffCallQuiet ==
    ASSUME TypeOK, OffCall
    PROVE  /\ UNCHANGED <<ctx, pend, cur, pictures, stream>>
           /\ \A c \in Contexts : pc'[c] = pc[c] \/ pc'[c] = "sync"
           /\ SlotsKept /\ CursKept /\ FeedsKept
<1>1. UNCHANGED <<ctx, pend, cur, pictures, stream>>
  BY DEF OffCall, Firmware, FwDecode, FwDrop, FwLast, SurfaceCall, AllocSurface,
         ExportSurface, FreeSurface, SyncSurface, SyncStep, SyncFilled, SyncEnter, vars, history
<1>2. \A c \in Contexts : pc'[c] = pc[c] \/ pc'[c] = "sync"
  BY DEF OffCall, Firmware, FwDecode, FwDrop, FwLast, SurfaceCall, AllocSurface,
         ExportSurface, FreeSurface, SyncSurface, SyncStep, SyncFilled, SyncEnter, vars, TypeOK
<1>3. FeedsKept
  BY <1>1, <1>2 DEF FeedsKept
<1> QED
  BY <1>1, <1>2, <1>3 DEF SlotsKept, CursKept

(* Their effect on the surfaces.                                              *)
LEMMA OffCallGens ==
    ASSUME TypeOK, OffCall
    PROVE  GensKept
<1>1. \A s \in Surfaces : surf[s].life \in {"unborn", "live", "freed"} /\ surf[s] \in SurfaceRecord
  BY DEF TypeOK, SurfaceRecord
<1>2. CASE UNCHANGED <<surf, goal>>
  BY <1>1, <1>2 DEF GensKept
<1>3. ASSUME NEW s \in Surfaces, AllocSurface(s) PROVE GensKept
  <2>1. surf' = [surf EXCEPT ![s] = Allocated] /\ surf[s].life = "unborn" /\ UNCHANGED goal
    BY <1>3 DEF AllocSurface, history
  <2>2. Allocated.life = "live"
    BY DEF Allocated, UnbornSurface
  <2>3. \A t \in Surfaces : surf'[t] = surf[t] \/ (t = s /\ surf'[t] = Allocated)
    BY <2>1 DEF TypeOK
  <2> QED
    BY <1>1, <2>1, <2>2, <2>3 DEF GensKept
<1>4. ASSUME NEW s \in Surfaces, FreeSurface(s) PROVE GensKept
  <2> DEFINE x == [UnbornSurface EXCEPT !.life = "freed"]
  <2>1. surf' = [surf EXCEPT ![s] = x] /\ UNCHANGED goal
    BY <1>4 DEF FreeSurface, history
  <2>2. x.life = "freed"
    BY DEF UnbornSurface
  <2>3. \A t \in Surfaces : surf'[t] = surf[t] \/ surf'[t] = x
    BY <2>1 DEF TypeOK
  <2> HIDE DEF x
  <2> QED
    BY <1>1, <2>1, <2>2, <2>3 DEF GensKept
<1>5. ASSUME NEW s \in Surfaces, NEW x, surf' = [surf EXCEPT ![s] = x],
             x.life = surf[s].life, x.gen = surf[s].gen,
             \A t \in Surfaces : goal'[t].pic = goal[t].pic
      PROVE  GensKept
  <2>1. surf'[s] = x /\ \A t \in Surfaces \ {s} : surf'[t] = surf[t]
    BY <1>5 DEF TypeOK
  <2> QED
    BY <1>1, <1>5, <2>1 DEF GensKept
<1>6. ASSUME NEW s \in Surfaces, ExportSurface(s) PROVE GensKept
  <2> DEFINE x == [surf[s] EXCEPT !.exported = TRUE]
  <2>1. surf' = [surf EXCEPT ![s] = x] /\ UNCHANGED goal
    BY <1>6 DEF TypeOK, ExportSurface, history
  <2>2. x.life = surf[s].life /\ x.gen = surf[s].gen
    BY <1>1 DEF SurfaceRecord
  <2> HIDE DEF x
  <2> QED
    BY <1>5, <2>1, <2>2
<1>7. ASSUME NEW s \in Surfaces, SyncSurface(s), Stale(s) PROVE GensKept
  <2> DEFINE x == [surf[s] EXCEPT !.px = FillPixels(s)]
  <2>1. surf' = [surf EXCEPT ![s] = x] /\ goal' = [goal EXCEPT ![s].filled = TRUE]
    BY <1>7 DEF TypeOK, SyncSurface
  <2>2. x.life = surf[s].life /\ x.gen = surf[s].gen
    BY <1>1, LandingWork
  <2>3. \A t \in Surfaces : goal'[t].pic = goal[t].pic
    BY <2>1 DEF TypeOK, GoalRecord
  <2> HIDE DEF x
  <2> QED
    BY <1>5, <2>1, <2>2, <2>3
<1>8. CASE SyncFilled
  <2>0. UNCHANGED goal
    BY <1>8 DEF SyncFilled, history
  <2>1. CASE sync.s \in Surfaces
    <3> DEFINE x == Backfilled(surf[sync.s])
    <3>1. surf' = [surf EXCEPT ![sync.s] = x]
      BY <1>8, <2>1 DEF TypeOK, SyncFilled
    <3>2. x.life = surf[sync.s].life /\ x.gen = surf[sync.s].gen
      BY <1>1, <2>1 DEF SurfaceRecord, Backfilled
    <3> HIDE DEF x
    <3> QED
      BY <1>5, <2>0, <2>1, <3>1, <3>2
  <2>2. CASE sync.s \notin Surfaces
    <3>1. \A t \in Surfaces : surf'[t] = surf[t]
      BY <1>8, <2>2 DEF TypeOK, SyncFilled
    <3> QED
      BY <1>1, <2>0, <3>1 DEF GensKept
  <2> QED
    BY <2>1, <2>2
<1>9. \/ UNCHANGED <<surf, goal>>
      \/ \E s \in Surfaces :
            AllocSurface(s) \/ ExportSurface(s) \/ FreeSurface(s) \/ (SyncSurface(s) /\ Stale(s))
      \/ SyncFilled
  BY DEF OffCall, Firmware, FwDecode, FwDrop, FwLast, SurfaceCall, SyncSurface, SyncStep,
         SyncEnter, vars, history
<1> QED
  BY <1>2, <1>3, <1>4, <1>6, <1>7, <1>8, <1>9

(* How a step moves.                                                          *)
LEMMA StepKinds ==
    ASSUME [Next]_vars
    PROVE  \/ OffCall
           \/ \E c \in Contexts :
                 \/ \E s \in Surfaces, field \in 0 .. 2, poc \in Pocs :
                       BeginPicture(c, s, field, poc)
                 \/ ClaimTarget(c) \/ Feed(c) \/ TakeFrame(c)
                 \/ \/ CreateContext(c) \/ EndPictureFails(c) \/ DestroyContext(c)
                    \/ \E ra, cue \in BOOLEAN : EndPicture(c, ra, cue)
                 \/ CallStep(c) /\ ~ClaimTarget(c) /\ ~Feed(c) /\ ~TakeFrame(c)
  BY DEF Next, OffCall, Client

LEMMA MappingStep ==
    ASSUME TypeOK, SessionInv, StampInv, MappingInv, [Next]_vars,
           ~FieldPictures, "start" \notin Faults,
           HevcFifo => \A c \in Contexts : TakeFrame(c) => MappedByStamp(c, Head(dev[c].cap))
    PROVE  MappingInv'
<1>1. CASE \E c \in Contexts : Feed(c)
  BY <1>1, FeedMaps
<1>2. CASE \A c \in Contexts : ~Feed(c)
  <2>0. \A d \in Contexts : UnitsKept(d)
    BY <1>2, UnitsStep
  <2>1. CASE OffCall
    BY <2>0, <2>1, OffCallQuiet, OffCallGens, PlainMappings DEF PlainStep
  <2>2. ASSUME NEW c \in Contexts, NEW s \in Surfaces, NEW field \in 0 .. 2, NEW poc \in Pocs,
               BeginPicture(c, s, field, poc)
        PROVE  MappingInv'
    BY <2>2, BeginMaps DEF StampInv
  <2>3. ASSUME NEW c \in Contexts, ClaimTarget(c) PROVE MappingInv'
    BY <2>3, ClaimMaps
  <2>4. ASSUME NEW c \in Contexts, TakeFrame(c) PROVE MappingInv'
    BY <2>4, TakeFrameIsPlain, PlainMappings
  <2>5. ASSUME NEW c \in Contexts,
               \/ CreateContext(c) \/ EndPictureFails(c) \/ DestroyContext(c)
               \/ \E ra, cue \in BOOLEAN : EndPicture(c, ra, cue)
        PROVE  MappingInv'
    <3>1. UNCHANGED <<surf, pend, goal>> /\ CursKept /\ FeedsKept
      BY <2>5, ClientQuiet
    <3>2. SlotsKept /\ \A s \in Surfaces : SameWork(surf'[s], surf[s])
      BY <3>1, SameSurface DEF SlotsKept
    <3> QED
      BY <2>0, <3>1, <3>2, QuietIsPlain, PlainMappings
  <2>6. ASSUME NEW c \in Contexts, CallStep(c), ~ClaimTarget(c), ~Feed(c), ~TakeFrame(c)
        PROVE  MappingInv'
    <3>1. UNCHANGED goal /\ \A s \in Surfaces : SameWork(surf'[s], surf[s])
      BY <2>6, CallKeepsWork
    <3> QED
      BY <2>0, <2>6, <3>1, CallQuiet, QuietIsPlain, PlainMappings
  <2> QED
    BY <1>2, <2>1, <2>2, <2>3, <2>4, <2>5, <2>6, StepKinds
<1> QED
  BY <1>1, <1>2

-----------------------------------------------------------------------------
(* What a surface shows                                                       *)

Filling(s) == sync.st = "filling" /\ sync.s = s
ShownAt(s) ==
    Live(s) /\ ~goal[s].filled /\ (surf[s].decoded \/ Filling(s)) => surf[s].px.pic = goal[s].pic

LEMMA ShownEverywhere == PicturesShown <=> \A s \in Surfaces : ShownAt(s)
  BY DEF PicturesShown, ShownAt, Filling

(* A surface whose work is left alone goes on showing it.                     *)
LEMMA KeepsShown ==
    ASSUME PicturesShown, NEW s \in Surfaces, SameWork(surf'[s], surf[s]), goal'[s] = goal[s],
           sync'.st = "filling" /\ sync'.s = s => sync' = sync
    PROVE  ShownAt(s)'
<1>1. ShownAt(s)
  BY ShownEverywhere
<1> QED
  BY <1>1 DEF ShownAt, Filling, SameWork, Live

(* The end of a sync is no fill.                                              *)
LEMMA SyncEnds ==
    ASSUME TypeOK, sync' \in {sync, NoSync, [sync EXCEPT !.st = "returned"],
                             [sync EXCEPT !.st = "inside"]}
    PROVE  sync'.st = "filling" => sync' = sync
  BY DEF TypeOK, SyncRecord, NoSync

LEMMA OffCallShows ==
    ASSUME TypeOK, PicturesShown, OffCall
    PROVE  PicturesShown'
<1> SUFFICES ASSUME NEW s \in Surfaces PROVE ShownAt(s)'
  BY DEF PicturesShown, ShownAt, Filling
<1>0. surf[s] \in SurfaceRecord /\ goal[s] \in GoalRecord /\ SameWork(surf[s], surf[s])
      /\ ShownAt(s)
  BY SameSurface, ShownEverywhere DEF TypeOK
<1>1. CASE UNCHANGED <<surf, goal, sync>>
  BY <1>0, <1>1, KeepsShown
<1>2. ASSUME NEW t \in Surfaces, AllocSurface(t) PROVE ShownAt(s)'
  <2>1. surf' = [surf EXCEPT ![t] = Allocated] /\ UNCHANGED <<goal, sync>> /\ SyncIdle
    BY <1>2 DEF AllocSurface, MaySync, history
  <2>2. ~Allocated.decoded
    BY DEF Allocated, UnbornSurface
  <2>3. CASE s = t
    BY <2>1, <2>2, <2>3 DEF TypeOK, ShownAt, Filling, SyncIdle
  <2>4. CASE s # t
    BY <1>0, <2>1, <2>4, KeepsShown DEF TypeOK
  <2> QED
    BY <2>3, <2>4
<1>3. ASSUME NEW t \in Surfaces, ExportSurface(t) PROVE ShownAt(s)'
  <2> DEFINE x == [surf[t] EXCEPT !.exported = TRUE]
  <2>1. surf' = [surf EXCEPT ![t] = x] /\ UNCHANGED <<goal, sync>>
    BY <1>3 DEF TypeOK, ExportSurface, history
  <2>2. SameWork(x, surf[t])
    BY FinishedWork DEF TypeOK
  <2> HIDE DEF x
  <2>3. SameWork(surf'[s], surf[s])
    BY <1>0, <2>1, <2>2 DEF TypeOK
  <2> QED
    BY <2>1, <2>3, KeepsShown
<1>4. ASSUME NEW t \in Surfaces, FreeSurface(t) PROVE ShownAt(s)'
  <2> DEFINE x == [UnbornSurface EXCEPT !.life = "freed"]
  <2>1. surf' = [surf EXCEPT ![t] = x] /\ UNCHANGED <<goal, sync>>
    BY <1>4 DEF FreeSurface, history
  <2>2. x.life = "freed"
    BY DEF UnbornSurface
  <2> HIDE DEF x
  <2>3. surf'[s] = surf[s] \/ surf'[s] = x
    BY <2>1 DEF TypeOK
  <2> QED
    BY <1>0, <2>1, <2>2, <2>3, KeepsShown DEF ShownAt, Live
<1>5. ASSUME NEW t \in Surfaces, SyncSurface(t), Stale(t) PROVE ShownAt(s)'
  <2>1. /\ surf' = [surf EXCEPT ![t].px = FillPixels(t)]
        /\ goal' = [goal EXCEPT ![t].filled = TRUE]
        /\ sync' = [st |-> "filling", s |-> t, c |-> None]
    BY <1>5 DEF SyncSurface
  <2>2. CASE s = t
    <3>1. goal'[s].filled
      BY <2>1, <2>2, <1>0 DEF TypeOK, GoalRecord
    <3> QED
      BY <3>1 DEF ShownAt
  <2>3. CASE s # t
    <3>1. surf'[s] = surf[s] /\ goal'[s] = goal[s]
      BY <2>1, <2>3 DEF TypeOK
    <3> QED
      BY <1>0, <2>1, <2>3, <3>1, KeepsShown
  <2> QED
    BY <2>2, <2>3
<1>6. ASSUME NEW t \in Surfaces, SyncSurface(t), ~Stale(t) PROVE ShownAt(s)'
  <2>1. UNCHANGED <<surf, goal>> /\ sync'.st # "filling"
    BY <1>6 DEF SyncSurface
  <2> QED
    BY <1>0, <2>1, KeepsShown
<1>7. CASE SyncFilled
  <2>1. UNCHANGED goal /\ sync.st = "filling" /\ sync' = [sync EXCEPT !.st = "returned"]
        /\ surf' = [surf EXCEPT ![sync.s] = Backfilled(surf[sync.s])]
    BY <1>7 DEF TypeOK, SyncFilled, history
  <2>2. sync'.st = "returned"
    BY <2>1 DEF TypeOK, SyncRecord
  <2>3. CASE s = sync.s
    <3> DEFINE x == Backfilled(surf[s])
    <3>1. surf'[s] = x
      BY <2>1, <2>3 DEF TypeOK
    <3>2. x.life = surf[s].life /\ x.px = surf[s].px
      BY <1>0 DEF Backfilled, SurfaceRecord
    <3> HIDE DEF x
    <3> QED
      BY <1>0, <2>1, <2>3, <3>1, <3>2 DEF ShownAt, Filling, Live
  <2>4. CASE s # sync.s
    <3>1. surf'[s] = surf[s]
      BY <2>1, <2>4 DEF TypeOK
    <3> QED
      BY <1>0, <2>1, <2>2, <3>1, KeepsShown
  <2> QED
    BY <2>3, <2>4
<1>8. ASSUME NEW c \in Contexts, SyncEnter(c) PROVE ShownAt(s)'
  <2>1. UNCHANGED <<surf, goal>> /\ sync' \in {sync, NoSync, [sync EXCEPT !.st = "returned"],
                                             [sync EXCEPT !.st = "inside"]}
    BY <1>8 DEF SyncEnter, history
  <2> QED
    BY <1>0, <2>1, SyncEnds, KeepsShown
<1>9. (\E c \in Contexts : Firmware(c)) \/ UNCHANGED vars => UNCHANGED <<surf, goal, sync>>
  BY DEF Firmware, FwDecode, FwDrop, FwLast, vars, history
<1> QED
  BY <1>1, <1>2, <1>3, <1>4, <1>5, <1>6, <1>7, <1>8, <1>9 DEF OffCall, SurfaceCall, SyncStep

(* A frame lands only where its own picture is awaited.                       *)
LEMMA TakeFrameShows ==
    ASSUME TypeOK, SessionInv, MappedPicture, PicturesShown,
           NEW c \in Contexts, TakeFrame(c),
           HevcFifo => MappedByStamp(c, Head(dev[c].cap))
    PROVE  PicturesShown'
<1> SUFFICES ASSUME NEW s \in Surfaces PROVE ShownAt(s)'
  BY DEF PicturesShown, ShownAt, Filling
<1>0. surf[s] \in SurfaceRecord /\ goal[s] \in GoalRecord /\ SameWork(surf[s], surf[s])
      /\ ShownAt(s)
  BY SameSurface, ShownEverywhere DEF TypeOK
<1>1. sync'.st = "filling" => sync' = sync
  <2>1. sync' \in {sync, NoSync}
    BY DEF TakeFrame, Failing
  <2> QED
    BY <2>1, SyncEnds
<1> DEFINE f == Head(dev[c].cap)
<1>2. /\ f \in Frame /\ UnitPair(f) \in InSession(c)
      /\ \/ UNCHANGED <<surf, reg, goal>>
         \/ \E t \in Surfaces, i \in 0 .. RingSize - 1 :
               /\ LeadsTo(pend[c].ring[i], t)
               /\ f.ts = Timestamp(pend[c].ring[i].seq)
               /\ LandsIn(c, t, f) \/ CopyFails(t, f)
  BY TakeFrameEffects
<1> HIDE DEF f
<1>3. CASE UNCHANGED <<surf, reg, goal>>
  BY <1>0, <1>1, <1>3, KeepsShown
<1>4. ASSUME NEW t \in Surfaces, NEW i \in 0 .. RingSize - 1,
             LeadsTo(pend[c].ring[i], t), f.ts = Timestamp(pend[c].ring[i].seq),
             LandsIn(c, t, f) \/ CopyFails(t, f)
      PROVE  ShownAt(s)'
  <2>1. goal[t].pic = f.px.pic /\ goal[t] \in GoalRecord /\ surf[t] \in SurfaceRecord
    BY <1>2, <1>4 DEF MappedPicture, UnitPair, TypeOK
  <2>2. CASE s # t
    <3>1. surf'[s] = surf[s] /\ goal'[s] = goal[s]
      BY <1>4, <2>2 DEF LandsIn, CopyFails, TypeOK
    <3> QED
      BY <1>0, <1>1, <3>1, KeepsShown
  <2>3. CASE s = t /\ LandsIn(c, t, f)
    <3>1. surf' = [surf EXCEPT ![t] = Landed(surf[t], c, f.px)]
          /\ goal' = [goal EXCEPT ![t].filled = FALSE]
      BY <2>3 DEF LandsIn
    <3>2. Landed(surf[t], c, f.px).px = f.px
      BY <2>1, LandingWork
    <3>3. surf'[s] = Landed(surf[t], c, f.px) /\ goal'[s].pic = goal[s].pic
      BY <2>1, <2>3, <3>1 DEF TypeOK, GoalRecord
    <3> QED
      BY <2>1, <2>3, <3>2, <3>3 DEF ShownAt
  <2>4. CASE s = t /\ CopyFails(t, f)
    <3>1. PICK x \in HalfLanded(surf[t], f.px) : surf' = [surf EXCEPT ![t] = x]
      BY <2>4 DEF CopyFails
    <3>2. /\ x.life = surf[t].life /\ x.gen = surf[t].gen /\ x.decoded = surf[t].decoded
          /\ x.px = surf[t].px \/ x.px = f.px
      BY <2>1, FailedCopyWork
    <3>3. surf'[s] = x /\ goal'[s] = goal[s]
      BY <2>4, <3>1 DEF TypeOK, CopyFails
    <3> QED
      BY <1>0, <1>1, <2>1, <2>4, <3>2, <3>3 DEF ShownAt, Filling, Live
  <2> QED
    BY <1>4, <2>2, <2>3, <2>4
<1> QED
  BY <1>2, <1>3, <1>4

LEMMA ShownStep ==
    ASSUME TypeOK, SessionInv, StampInv, MappingInv, PicturesShown, [Next]_vars,
           ~FieldPictures, "start" \notin Faults,
           HevcFifo => \A c \in Contexts : TakeFrame(c) => MappedByStamp(c, Head(dev[c].cap))
    PROVE  PicturesShown'
<1>1. CASE OffCall
  BY <1>1, OffCallShows
<1>2. ASSUME NEW c \in Contexts, TakeFrame(c) PROVE PicturesShown'
  BY <1>2, TakeFrameShows DEF MappingInv
<1>3. ASSUME NEW c \in Contexts, NEW t \in Surfaces, NEW field \in 0 .. 2, NEW poc \in Pocs,
             BeginPicture(c, t, field, poc)
      PROVE  PicturesShown'
  <2> SUFFICES ASSUME NEW s \in Surfaces PROVE ShownAt(s)'
    BY DEF PicturesShown, ShownAt, Filling
  <2>1. /\ surf' = [surf EXCEPT ![t] = Begun(surf[t])] /\ ~Syncing(t) /\ sync' = sync
        /\ goal' = [goal EXCEPT ![t] = [pic |-> pictures + 1, filled |-> FALSE]]
    BY <1>3, BeginEffects DEF StampInv
  <2>2. CASE s = t
    <3>1. surf'[s] = Begun(surf[t]) /\ ~Begun(surf[t]).decoded
      BY <2>1, <2>2 DEF TypeOK, SurfaceRecord, Begun
    <3> QED
      BY <2>1, <2>2, <3>1 DEF ShownAt, Filling, Syncing, SyncIdle
  <2>3. CASE s # t
    BY <2>1, <2>3, SameSurface, KeepsShown DEF TypeOK
  <2> QED
    BY <2>2, <2>3
<1>4. ASSUME NEW c \in Contexts,
             \/ CreateContext(c) \/ EndPictureFails(c) \/ DestroyContext(c)
             \/ \E ra, cue \in BOOLEAN : EndPicture(c, ra, cue)
      PROVE  PicturesShown'
  <2>1. UNCHANGED <<surf, goal, sync>>
    BY <1>4, ClientQuiet
  <2> QED
    BY <2>1 DEF PicturesShown, Live
<1>5. ASSUME NEW c \in Contexts, CallStep(c), ~TakeFrame(c) PROVE PicturesShown'
  <2>1. sync'.st = "filling" => sync' = sync
    <3>1. sync' \in {sync, NoSync, [sync EXCEPT !.st = "returned"], [sync EXCEPT !.st = "inside"]}
      BY <1>5, CallStepMoves
    <3> QED
      BY <3>1, SyncEnds
  <2>2. UNCHANGED goal /\ \A s \in Surfaces : SameWork(surf'[s], surf[s])
    <3>1. CASE ClaimTarget(c)
      <4> SUFFICES ASSUME NEW s \in Surfaces PROVE SameWork(surf'[s], surf[s])
        BY <3>1 DEF ClaimTarget, history
      <4>1. surf'[s] = surf[s] \/ surf'[s] = Claimed(surf[s], c, Token(c))
        BY <3>1 DEF ClaimTarget
      <4>2. surf[s] \in SurfaceRecord
        BY DEF TypeOK
      <4> QED
        BY <4>1, <4>2 DEF SurfaceRecord, SameWork, Claimed, Finished
    <3>2. CASE Feed(c)
      BY <3>2, SameSurface DEF Feed, history
    <3> QED
      BY <1>5, <3>1, <3>2, CallKeepsWork
  <2> QED
    BY <2>1, <2>2, KeepsShown, ShownEverywhere DEF PicturesShown, ShownAt, Filling
<1>6. ASSUME NEW c \in Contexts, ClaimTarget(c) \/ Feed(c)
      PROVE  CallStep(c) /\ ~TakeFrame(c)
  <2>1. pc[c] = "prepare" => ~Looping(c)
    BY DEF Looping
  <2>2. Feed(c) => ~Looping(c)
    BY DEF Looping, Feed
  <2> QED
    BY <1>6, <2>1, <2>2 DEF CallStep, ClaimTarget, TakeFrame
<1> QED
  BY <1>1, <1>2, <1>3, <1>4, <1>5, <1>6, StepKinds

-----------------------------------------------------------------------------
(* The theorems                                                               *)

LEMMA PairingInit == Init => PairingInv
<1> SUFFICES ASSUME Init PROVE PairingInv
  OBVIOUS
<1>1. StampInv
  BY StampInit
<1>2. \A c \in Contexts : cur[c].target = None /\ pc[c] = "idle"
                          /\ \A i \in 0 .. RingSize - 1 : ~pend[c].ring[i].used
  BY DEF Init, NoPending, EmptyRing, EmptySlot, NoPicture
<1>3. \A s \in Surfaces : ~Live(s)
  BY DEF Init, RegistryInit, UnbornSurface, Live
<1>4. MappingInv
  BY <1>2, <1>3, RegistryAssumption
  DEF MappingInv, SlotsPlaced, GenerationsPast, CurrentPicture, TargetClaimed,
      MappedPicture, LeadsTo
<1>5. PicturesShown
  BY <1>3 DEF PicturesShown
<1> QED
  BY <1>1, <1>4, <1>5 DEF PairingInv, StampInv, MappingInv

LEMMA PairingNext ==
    ASSUME TypeOK, SessionInv, PairingInv, [Next]_vars,
           ~FieldPictures, "start" \notin Faults,
           HevcFifo => \A c \in Contexts : TakeFrame(c) => MappedByStamp(c, Head(dev[c].cap))
    PROVE  PairingInv'
<1>1. StampInv /\ MappingInv /\ PicturesShown
  BY DEF PairingInv, StampInv, MappingInv
<1>2. StampInv'
  BY <1>1, NoPairsStep, StampStep DEF StampInv
<1>3. MappingInv' /\ PicturesShown'
  BY <1>1, MappingStep, ShownStep
<1> QED
  BY <1>2, <1>3 DEF PairingInv, StampInv, MappingInv

(* The invariant behind DecodedHoldsItsPicture, with any number of client     *)
(* threads, in decode or display order, and whatever else fails.              *)
THEOREM PairingHolds ==
    ASSUME ~FieldPictures, ~HevcFifo, "start" \notin Faults
    PROVE  Spec => []PairingInv
<1>1. TypeOK /\ SessionInv /\ PairingInv /\ [Next]_vars => PairingInv'
  BY PairingNext
<1> QED
  BY <1>1, PairingInit, TypeCorrect, SessionsHold, PTL DEF Spec

(* A surface reported ready, and not backfilled, shows the picture the client *)
(* last began on it (decode.c:382-393).                                       *)
THEOREM PicturesAreRight ==
    ASSUME ~FieldPictures, ~HevcFifo, "start" \notin Faults
    PROVE  Spec => []DecodedHoldsItsPicture
<1>1. PairingInv => DecodedHoldsItsPicture
  BY DEF PairingInv, PicturesShown, DecodedHoldsItsPicture
<1> QED
  BY <1>1, PairingHolds, PTL

-----------------------------------------------------------------------------
(* Reservation fences, with any number of contexts and client threads         *)

(* Every mapping in hevc_ring was there before.                               *)
FifosKept ==
    \A c \in Contexts : \A i \in DOMAIN pend'[c].fifo :
        \E j \in DOMAIN pend[c].fifo : pend'[c].fifo[i] = pend[c].fifo[j]

(* No picture comes under way.                                                *)
WorkKept ==
    \A c \in Contexts :
        UnderWay(c)' => UnderWay(c) /\ cur'[c].target \in {cur[c].target, None}

(* A step of no new picture: what c will write into, c was to write into.     *)
NoNewClaims ==
    \A c \in Contexts, s \in Surfaces : Live(s)' /\ Claims(c, s)' => Live(s) /\ Claims(c, s)

(* A token goes only when it is forgotten, and only the kernel fences of      *)
(* tokens that stay do.                                                       *)
TokensKept ==
    \A s \in Surfaces :
        \/ surf'[s].fence = surf[s].fence /\ surf'[s].owner = surf[s].owner
        \/ surf'[s].fence = 0
FencesGo == \A k \in resv' : k \in resv /\ Recorded(k)'

FenceTyped(k) == k.ctx \in Contexts /\ k.s \in Surfaces /\ k.token \in Nat \ {0}

LEMMA FencesTyped ==
    ASSUME TypeOK, NEW k \in resv
    PROVE  FenceTyped(k)
  BY DEF TypeOK, FenceRecord, FenceTyped

LEMMA FifoStep ==
    ASSUME FifoPast, FifosKept, GensKept
    PROVE  FifoPast'
<1> SUFFICES ASSUME NEW c \in Contexts, NEW s \in Surfaces, NEW i \in DOMAIN pend'[c].fifo,
                    pend'[c].fifo[i].target = s
             PROVE  Past(s, pend[c].fifo[i].gen)'
  BY DEF FifoPast
<1>1. PICK j \in DOMAIN pend[c].fifo : pend'[c].fifo[i] = pend[c].fifo[j]
  BY DEF FifosKept
<1>2. Past(s, pend[c].fifo[j].gen)
  BY <1>1 DEF FifoPast
<1> QED
  BY <1>1, <1>2 DEF GensKept, Past, Live

(* What is live and was never ahead was live before, and the same.            *)
LEMMA PastIsKept ==
    ASSUME GensKept, NEW s \in Surfaces, NEW n, Past(s, n), Live(s)'
    PROVE  Live(s) /\ surf'[s].gen = surf[s].gen
  BY DEF GensKept, Past, Live

LEMMA ClaimsBack ==
    ASSUME GenerationsPast, FifoPast, SlotsKept, FifosKept, GensKept, WorkKept
    PROVE  NoNewClaims
<1> SUFFICES ASSUME NEW c \in Contexts, NEW s \in Surfaces, Live(s)', Claims(c, s)'
             PROVE  Live(s) /\ Claims(c, s)
  BY DEF NoNewClaims
<1>1. CASE UnderWay(c)' /\ cur'[c].target = s
  <2>1. UnderWay(c) /\ cur[c].target = s
    BY <1>1, RegistryAssumption DEF WorkKept
  <2>2. Past(s, cur[c].gen)
    BY <2>1 DEF GenerationsPast
  <2> QED
    BY <2>1, <2>2, PastIsKept DEF Claims
<1>2. CASE \E i \in 0 .. RingSize - 1 : LeadsTo(pend[c].ring[i], s)'
  <2>1. PICK i \in 0 .. RingSize - 1 : LeadsTo(pend[c].ring[i], s)'
    BY <1>2
  <2>2. LeadsTo(pend[c].ring[i], s)
    BY <2>1, LeadsBack
  <2> QED
    BY <2>2 DEF Claims, LeadsTo
<1>3. CASE \E i \in DOMAIN pend'[c].fifo :
              pend'[c].fifo[i] = [target |-> s, gen |-> surf'[s].gen]
  <2>1. PICK i \in DOMAIN pend'[c].fifo :
              pend'[c].fifo[i] = [target |-> s, gen |-> surf'[s].gen]
    BY <1>3
  <2>2. PICK j \in DOMAIN pend[c].fifo : pend'[c].fifo[i] = pend[c].fifo[j]
    BY <2>1 DEF FifosKept
  <2>3. pend[c].fifo[j] = [target |-> s, gen |-> surf'[s].gen]
    BY <2>1, <2>2
  <2>4. Past(s, pend[c].fifo[j].gen)
    BY <2>3 DEF FifoPast
  <2>5. Live(s) /\ surf'[s].gen = surf[s].gen
    BY <2>4, PastIsKept
  <2> QED
    BY <2>3, <2>5 DEF Claims
<1> QED
  BY <1>1, <1>2, <1>3 DEF Claims

(* Kept claims and tokens keep the surfaces apart.                            *)
LEMMA OwnClaimsStep ==
    ASSUME ClaimsOwn, NoNewClaims, TokensKept
    PROVE  ClaimsOwn'
<1> SUFFICES ASSUME NEW c \in Contexts, NEW s \in Surfaces, Live(s)', Claims(c, s)'
             PROVE  LeftAlone(c, s)' /\ \A d \in Contexts : Claims(d, s)' => d = c
  BY DEF ClaimsOwn
<1>1. Live(s) /\ Claims(c, s)
  BY DEF NoNewClaims
<1>2. LeftAlone(c, s) /\ \A d \in Contexts : Claims(d, s) => d = c
  BY <1>1 DEF ClaimsOwn
<1>3. LeftAlone(c, s)'
  BY <1>2 DEF LeftAlone, TokensKept
<1> QED
  BY <1>2, <1>3 DEF NoNewClaims

(* A step that begins no picture and attaches no fence.                       *)
LEMMA OrdinaryStep ==
    ASSUME FenceInv, NoPairs', SlotsKept, FifosKept, GensKept, CursKept, WorkKept,
           TokensKept, FencesGo
    PROVE  FenceInv'
<1>1. GenerationsPast' /\ FifoPast'
  BY GenerationsStep, FifoStep DEF FenceInv
<1>2. ClaimsOwn'
  BY ClaimsBack, OwnClaimsStep DEF FenceInv
<1>3. AttachedRecorded'
  BY DEF FencesGo, AttachedRecorded
<1> QED
  BY <1>1, <1>2, <1>3 DEF FenceInv

-----------------------------------------------------------------------------
(* The fences of each step                                                    *)

(* Tokens and owners stay, and the kernel's fences with them.                 *)
LEMMA SameFences ==
    ASSUME TypeOK, AttachedRecorded, UNCHANGED resv,
           \A s \in Surfaces : surf'[s].fence = surf[s].fence /\ surf'[s].owner = surf[s].owner
    PROVE  TokensKept /\ FencesGo
<1>1. TokensKept
  BY DEF TokensKept
<1>2. FencesGo
  BY FencesTyped DEF FencesGo, AttachedRecorded, Recorded, FenceTyped
<1> QED
  BY <1>1, <1>2

(* finish_pending_writes: every token of c goes, with its fence.              *)
LEMMA SweepFences ==
    ASSUME TypeOK, OwnershipInv, AttachedRecorded, NEW c \in Contexts, resv' = Swept(c),
           \A s \in Surfaces : IF Live(s) /\ surf[s].owner = c
                               THEN surf'[s].fence = 0
                               ELSE /\ surf'[s].fence = surf[s].fence
                                    /\ surf'[s].owner = surf[s].owner
    PROVE  TokensKept /\ FencesGo
<1>1. TokensKept
  BY DEF TokensKept
<1>2. FencesGo
  <2> SUFFICES ASSUME NEW k \in resv' PROVE k \in resv /\ Recorded(k)'
    BY DEF FencesGo
  <2>1. k \in resv
    BY DEF Swept, Signalled
  <2>2. FenceTyped(k) /\ Recorded(k)
    BY <2>1, FencesTyped DEF AttachedRecorded
  <2>3. k.ctx # c
    <3> SUFFICES ASSUME k.ctx = c PROVE FALSE
      OBVIOUS
    <3>1. surf[k.s].owner = c /\ surf[k.s].fence = k.token
      BY <2>2 DEF Recorded
    <3>2. Live(k.s)
      BY <2>2, <3>1, RegistryAssumption DEF OwnershipInv, OwnedAreLive, Live, FenceTyped
    <3> QED
      BY <2>2, <3>1, <3>2 DEF Swept, Signalled, FenceTyped
  <2> QED
    BY <2>1, <2>2, <2>3 DEF Recorded, FenceTyped
<1> QED
  BY <1>1, <1>2

(* One token goes, with the fence that context attached under it.             *)
LEMMA OneFenceGoes ==
    ASSUME TypeOK, AttachedRecorded, NEW s \in Surfaces,
           \A t \in Surfaces \ {s} : surf'[t] = surf[t],
           surf'[s].fence = 0,
           surf[s].fence = 0 \/ resv' = Signalled(surf[s].owner, {surf[s].fence}),
           resv' \subseteq resv
    PROVE  TokensKept /\ FencesGo
<1>1. TokensKept
  BY DEF TokensKept
<1>2. FencesGo
  <2> SUFFICES ASSUME NEW k \in resv' PROVE k \in resv /\ Recorded(k)'
    BY DEF FencesGo
  <2>1. k \in resv /\ FenceTyped(k) /\ Recorded(k)
    BY FencesTyped DEF AttachedRecorded
  <2>2. k.s # s
    BY <2>1 DEF Signalled, Recorded, FenceTyped
  <2> QED
    BY <2>1, <2>2 DEF Recorded, FenceTyped
<1> QED
  BY <1>1, <1>2

(* A call inside which no picture comes under way.                            *)
LEMMA WorkGoesOn ==
    ASSUME TypeOK, NEW c \in Contexts, NEW p \in Calls, pc' = [pc EXCEPT ![c] = p],
           UNCHANGED cur, p \in {"restart", "prepare", "feed"} => UnderWay(c),
           p # "boundary"
    PROVE  WorkKept
<1>1. \A d \in Contexts : pc'[d] = pc[d] \/ (d = c /\ pc'[d] = p)
  BY DEF TypeOK
<1> QED
  BY <1>1 DEF WorkKept, UnderWay, Unclaimed

LEMMA CallWorkKept ==
    ASSUME TypeOK, NEW c \in Contexts, CallStep(c)
    PROVE  WorkKept
<1>1. AfterError(pc[c]) \in {"teardown", "unwind", "idle"}
  BY DEF AfterError
<1>2. CASE FlushDone(c)
  <2> DEFINE p == IF pc[c] = "boundary" THEN "restart" ELSE "teardown"
  <2>1. pc' = [pc EXCEPT ![c] = p] /\ UNCHANGED cur
    BY <1>2 DEF TypeOK, FlushDone
  <2>2. p \in Calls /\ (p = "restart" => UnderWay(c)) /\ p \in {"restart", "teardown"}
    BY DEF Calls, UnderWay, Unclaimed
  <2> HIDE DEF p
  <2> QED
    BY <2>1, <2>2, WorkGoesOn
<1>3. CASE OpenSession(c)
  <2>1. PICK ok \in BOOLEAN : pc' = [pc EXCEPT ![c] = IF ok THEN pc[c] ELSE "idle"]
    BY <1>3 DEF TypeOK, OpenSession
  <2> DEFINE p == IF ok THEN pc[c] ELSE "idle"
  <2>2. pc' = [pc EXCEPT ![c] = p] /\ UNCHANGED cur /\ pc[c] = "prepare"
    BY <1>3, <2>1 DEF OpenSession
  <2>3. p \in Calls /\ UnderWay(c) /\ p \in {"prepare", "idle"}
    BY <2>2 DEF Calls, UnderWay, Unclaimed
  <2> HIDE DEF p
  <2> QED
    BY <2>2, <2>3, WorkGoesOn
<1>4. CASE Restart(c) \/ ClaimTarget(c)
  <2>1. PICK p \in {"prepare", "feed"} : pc' = [pc EXCEPT ![c] = p]
    BY <1>4 DEF Restart, ClaimTarget
  <2>2. UnderWay(c) /\ UNCHANGED cur /\ p \in Calls
    BY <1>4 DEF Restart, ClaimTarget, UnderWay, Unclaimed, Calls
  <2> QED
    BY <2>1, <2>2, WorkGoesOn
<1>5. CASE \/ Feed(c) \/ SubmitFails(c) \/ StartFails(c) \/ Unwind(c) \/ DrainDone(c)
           \/ WaitDone(c) \/ CallFails(c) \/ TimesOut(c) \/ SyncReturn(c) \/ Teardown(c)
  <2>1. UNCHANGED cur
    BY <1>5 DEF Feed, SubmitFails, StartFails, Unwind, DrainDone, WaitDone, CallFails,
                TimesOut, SyncReturn, Teardown
  <2>2. \E p \in {"drain", "unwind", "idle", "wait", "teardown"} : pc' = [pc EXCEPT ![c] = p]
    BY <1>1, <1>5 DEF Feed, SubmitFails, StartFails, Unwind, DrainDone, WaitDone, CallFails,
                TimesOut, SyncReturn, Teardown, Failing
  <2>3. PICK p \in {"drain", "unwind", "idle", "wait", "teardown"} : pc' = [pc EXCEPT ![c] = p]
    BY <2>2
  <2> QED
    BY <2>1, <2>3, WorkGoesOn DEF Calls
<1>6. CASE TakeFrame(c)
  <2>1. UNCHANGED cur
    BY <1>6 DEF TakeFrame
  <2>2. UNCHANGED pc \/ \E p \in {"teardown", "unwind", "idle"} : pc' = [pc EXCEPT ![c] = p]
    BY <1>1, <1>6 DEF TakeFrame, Failing
  <2>3. CASE UNCHANGED pc
    BY <2>1, <2>3 DEF WorkKept, UnderWay, Unclaimed
  <2>4. CASE \E p \in {"teardown", "unwind", "idle"} : pc' = [pc EXCEPT ![c] = p]
    <3>1. PICK p \in {"teardown", "unwind", "idle"} : pc' = [pc EXCEPT ![c] = p]
      BY <2>4
    <3> QED
      BY <2>1, <3>1, WorkGoesOn DEF Calls
  <2> QED
    BY <2>2, <2>3, <2>4
<1> QED
  BY <1>2, <1>3, <1>4, <1>5, <1>6 DEF CallStep

(* vaEndPicture and the calls that begin or end a context.                    *)
LEMMA ClientWorkKept ==
    ASSUME TypeOK, NEW c \in Contexts,
           \/ CreateContext(c) \/ EndPictureFails(c) \/ DestroyContext(c)
           \/ \E ra, cue \in BOOLEAN : EndPicture(c, ra, cue)
    PROVE  WorkKept
<1> DEFINE x == [cur[c] EXCEPT !.begun = FALSE]
<1>1. x.target = cur[c].target /\ ~x.begun /\ NoPicture.target = None /\ ~NoPicture.begun
  BY DEF TypeOK, PictureRecord, NoPicture
<1>2. CASE CreateContext(c)
  BY <1>2 DEF CreateContext, WorkKept, UnderWay, Unclaimed
<1>3. CASE EndPictureFails(c) \/ \E ra, cue \in BOOLEAN : EndPicture(c, ra, cue)
  <2>1. cur' = [cur EXCEPT ![c] = x] /\ cur[c].begun
    BY <1>3 DEF TypeOK, EndPictureFails, EndPicture
  <2>2. \A d \in Contexts \ {c} : pc'[d] = pc[d]
    BY <1>3 DEF TypeOK, EndPictureFails, EndPicture, StopSession
  <2> HIDE DEF x
  <2>3. cur'[c] = x /\ \A d \in Contexts \ {c} : cur'[d] = cur[d]
    BY <2>1 DEF TypeOK
  <2> QED
    BY <1>1, <2>1, <2>2, <2>3 DEF WorkKept, UnderWay, Unclaimed
<1>4. CASE DestroyContext(c)
  <2>1. cur' = [cur EXCEPT ![c] = NoPicture] /\ \E p \in {"destroy", "teardown"} : pc' = [pc EXCEPT ![c] = p]
    BY <1>4 DEF DestroyContext, StopSession
  <2>2. cur'[c] = NoPicture /\ pc'[c] \in {"destroy", "teardown"}
        /\ \A d \in Contexts \ {c} : cur'[d] = cur[d] /\ pc'[d] = pc[d]
    BY <2>1 DEF TypeOK
  <2> HIDE DEF x
  <2> QED
    BY <1>1, <2>2 DEF WorkKept, UnderWay, Unclaimed
<1> QED
  BY <1>2, <1>3, <1>4

LEMMA OffCallWorkKept ==
    ASSUME TypeOK, OffCall
    PROVE  WorkKept
<1>1. UNCHANGED cur /\ \A c \in Contexts : pc'[c] = pc[c] \/ pc'[c] = "sync"
  BY OffCallQuiet
<1> QED
  BY <1>1 DEF WorkKept, UnderWay, Unclaimed

(* The calls on surfaces: vaDestroySurfaces signals what it forgets.          *)
LEMMA OffCallFences ==
    ASSUME TypeOK, OwnershipInv, AttachedRecorded, OffCall
    PROVE  TokensKept /\ FencesGo
<1>0. \A s \in Surfaces : surf[s] \in SurfaceRecord
  BY DEF TypeOK
<1>1. ASSUME NEW s \in Surfaces, NEW x, surf' = [surf EXCEPT ![s] = x], UNCHANGED resv,
             x.fence = surf[s].fence, x.owner = surf[s].owner
      PROVE  TokensKept /\ FencesGo
  <2>1. surf'[s] = x /\ \A t \in Surfaces \ {s} : surf'[t] = surf[t]
    BY <1>1 DEF TypeOK
  <2> QED
    BY <1>1, <2>1, SameFences
<1>2. CASE UNCHANGED <<surf, resv>>
  BY <1>2, SameFences
<1>3. ASSUME NEW s \in Surfaces, AllocSurface(s) PROVE TokensKept /\ FencesGo
  <2>1. surf' = [surf EXCEPT ![s] = Allocated] /\ UNCHANGED resv /\ surf[s].life = "unborn"
    BY <1>3 DEF AllocSurface
  <2>2. surf[s].owner = None /\ surf[s].fence = 0
    BY <2>1 DEF OwnershipInv, OwnedAreLive, FenceOwnerOpen
  <2>3. Allocated.fence = 0 /\ Allocated.owner = None
    BY DEF Allocated, UnbornSurface
  <2> QED
    BY <1>1, <2>1, <2>2, <2>3
<1>4. ASSUME NEW s \in Surfaces, FreeSurface(s) PROVE TokensKept /\ FencesGo
  <2> DEFINE x == [UnbornSurface EXCEPT !.life = "freed"]
  <2>1. /\ surf' = [surf EXCEPT ![s] = x]
        /\ resv' = IF surf[s].owner # None /\ ctx[surf[s].owner].open
                   THEN Signalled(surf[s].owner, {surf[s].fence}) ELSE resv
    BY <1>4 DEF FreeSurface
  <2>2. x.fence = 0
    BY DEF UnbornSurface
  <2> HIDE DEF x
  <2>3. surf'[s].fence = 0 /\ \A t \in Surfaces \ {s} : surf'[t] = surf[t]
    BY <2>1, <2>2 DEF TypeOK
  <2>4. surf[s].fence = 0 \/ resv' = Signalled(surf[s].owner, {surf[s].fence})
    BY <2>1 DEF OwnershipInv, FenceOwnerOpen
  <2>5. resv' \subseteq resv
    BY <2>1 DEF Signalled
  <2> QED
    BY <2>3, <2>4, <2>5, OneFenceGoes
<1>5. ASSUME NEW s \in Surfaces, ExportSurface(s) PROVE TokensKept /\ FencesGo
  <2> DEFINE x == [surf[s] EXCEPT !.exported = TRUE]
  <2>1. surf' = [surf EXCEPT ![s] = x] /\ UNCHANGED resv
    BY <1>5 DEF TypeOK, ExportSurface
  <2>2. x.fence = surf[s].fence /\ x.owner = surf[s].owner
    BY <1>0 DEF SurfaceRecord
  <2> HIDE DEF x
  <2> QED
    BY <1>1, <2>1, <2>2
<1>6. ASSUME NEW s \in Surfaces, SyncSurface(s), Stale(s) PROVE TokensKept /\ FencesGo
  <2> DEFINE x == [surf[s] EXCEPT !.px = FillPixels(s)]
  <2>1. surf' = [surf EXCEPT ![s] = x] /\ UNCHANGED resv
    BY <1>6 DEF TypeOK, SyncSurface
  <2>2. x.fence = surf[s].fence /\ x.owner = surf[s].owner
    BY <1>0, PixelsAlone DEF Same
  <2> HIDE DEF x
  <2> QED
    BY <1>1, <2>1, <2>2
<1>7. CASE SyncFilled
  <2>0. UNCHANGED resv
    BY <1>7 DEF SyncFilled
  <2>1. CASE sync.s \in Surfaces
    <3> DEFINE x == Backfilled(surf[sync.s])
    <3>1. surf' = [surf EXCEPT ![sync.s] = x]
      BY <1>7, <2>1 DEF TypeOK, SyncFilled
    <3>2. x.fence = surf[sync.s].fence /\ x.owner = surf[sync.s].owner
      BY <1>0, <2>1, WriteEffects DEF Same
    <3> HIDE DEF x
    <3> QED
      BY <1>1, <2>0, <2>1, <3>1, <3>2
  <2>2. CASE sync.s \notin Surfaces
    <3>1. \A t \in Surfaces : surf'[t] = surf[t]
      BY <1>7, <2>2 DEF TypeOK, SyncFilled
    <3> QED
      BY <2>0, <3>1, SameFences
  <2> QED
    BY <2>1, <2>2
<1>8. \/ UNCHANGED <<surf, resv>>
      \/ \E s \in Surfaces :
            AllocSurface(s) \/ ExportSurface(s) \/ FreeSurface(s) \/ (SyncSurface(s) /\ Stale(s))
      \/ SyncFilled
  BY DEF OffCall, Firmware, FwDecode, FwDrop, FwLast, SurfaceCall, SyncSurface, SyncStep,
         SyncEnter, vars
<1> QED
  BY <1>2, <1>3, <1>4, <1>5, <1>6, <1>7, <1>8

(* The steps of a call but claiming, feeding and dequeueing: what closes a    *)
(* session or returns early sweeps the tokens first.                          *)
LEMMA CallFences ==
    ASSUME TypeOK, OwnershipInv, AttachedRecorded, NEW c \in Contexts, CallStep(c),
           ~ClaimTarget(c), ~TakeFrame(c)
    PROVE  TokensKept /\ FencesGo
<1>1. \/ UNCHANGED <<surf, resv>>
      \/ surf' \in {AllFinished(c), Disowned(c)} /\ resv' = Swept(c)
      \/ surf' = Detached(c) /\ resv' = IF ctx[c].open THEN Swept(c) ELSE resv
  BY DEF CallStep, FlushDone, Restart, OpenSession, Feed, SubmitFails, StartFails,
         Unwind, DrainDone, WaitDone, CallFails, TimesOut, SyncReturn, Teardown
<1>2. CASE UNCHANGED <<surf, resv>>
  BY <1>2, SameFences
<1>3. CASE surf' = AllFinished(c) /\ resv' = Swept(c)
  <2>1. \A s \in Surfaces : IF Live(s) /\ surf[s].owner = c
                            THEN surf'[s].fence = 0 ELSE surf'[s] = surf[s]
    BY <1>3, AllFinishedEffect DEF AllFinished
  <2> QED
    BY <1>3, <2>1, SweepFences
<1>4. CASE surf' = Disowned(c) /\ resv' = Swept(c)
  <2>1. \A s \in Surfaces : IF Live(s) /\ surf[s].owner = c
                            THEN surf'[s].fence = 0 ELSE surf'[s] = surf[s]
    BY <1>4, DisownedEffect DEF Disowned
  <2> QED
    BY <1>4, <2>1, SweepFences
<1>5. CASE surf' = Detached(c) /\ ctx[c].open /\ resv' = Swept(c)
  <2>1. \A s \in Surfaces : IF Live(s) /\ surf[s].owner = c
                            THEN surf'[s].fence = 0 ELSE surf'[s] = surf[s]
    BY <1>5, DetachedEffect DEF Detached
  <2> QED
    BY <1>5, <2>1, SweepFences
<1>6. CASE surf' = Detached(c) /\ ~ctx[c].open /\ resv' = resv
  <2>1. \A s \in Surfaces : surf[s].owner = c => surf[s].fence = 0
    BY <1>6 DEF OwnershipInv, FenceOwnerOpen
  <2>2. \A s \in Surfaces :
           \/ surf'[s].fence = surf[s].fence /\ surf'[s].owner = surf[s].owner
           \/ surf'[s].fence = 0
    BY <1>6, <2>1, DetachedEffect
  <2>3. \A s \in Surfaces : surf[s].fence # 0 => surf'[s] = surf[s]
    BY <1>6, <2>1 DEF Detached
  <2>4. FencesGo
    <3> SUFFICES ASSUME NEW k \in resv PROVE Recorded(k)'
      BY <1>6 DEF FencesGo
    <3>1. FenceTyped(k) /\ Recorded(k)
      BY FencesTyped DEF AttachedRecorded
    <3> QED
      BY <2>3, <3>1 DEF Recorded, FenceTyped
  <2> QED
    BY <2>2, <2>4 DEF TokensKept
<1> QED
  BY <1>1, <1>2, <1>3, <1>4, <1>5, <1>6

(* The FIFO grows only at its end, by the picture that is being fed.          *)
LEMMA TailEntries ==
    ASSUME NEW T, NEW q \in Seq(T), q # <<>>, NEW i \in DOMAIN Tail(q)
    PROVE  i + 1 \in DOMAIN q /\ Tail(q)[i] = q[i + 1]
  BY HeadTailProperties, EmptySeq, LenProperties

LEMMA FifoAddedEntries ==
    ASSUME TypeOK, NEW c \in Contexts, NEW i \in DOMAIN FifoAdded(c)
    PROVE  \/ FifoAdded(c)[i] = [target |-> cur[c].target, gen |-> cur[c].gen]
           \/ \E j \in DOMAIN pend[c].fifo : FifoAdded(c)[i] = pend[c].fifo[j]
<1> DEFINE f == pend[c].fifo
           q == IF Len(f) < FifoSize THEN f ELSE Tail(f)
           e == [target |-> cur[c].target, gen |-> cur[c].gen]
<1>1. f \in Seq(Mapping) /\ e \in Mapping
  BY DEF TypeOK, PendingRecord, Mapping, PictureRecord
<1>2. f = <<>> => Len(f) < FifoSize
  BY <1>1, DecodeAssumption
<1>3. q \in Seq(Mapping)
  BY <1>1, <1>2, HeadTailProperties
<1>4. FifoAdded(c) = Append(q, e)
  BY DEF FifoAdded
<1>5. ASSUME NEW j \in DOMAIN q PROVE \E l \in DOMAIN f : q[j] = f[l]
  BY <1>1, <1>2, <1>5, TailEntries
<1> HIDE DEF f, q, e
<1>6. FifoAdded(c)[i] = e \/ (i \in DOMAIN q /\ FifoAdded(c)[i] = q[i])
  BY <1>1, <1>3, <1>4, AppendProperties, LenProperties
<1> QED
  BY <1>5, <1>6 DEF f, e

(* A frame that lands does so in a surface c claims.                          *)
LEMMA LandsOnClaim ==
    ASSUME TypeOK, NEW c \in Contexts, NEW f \in Frame, Lands(c, f)
    PROVE  Claims(c, MappedTo(c, f).target)
<1> DEFINE s == MappedTo(c, f).target
<1>1. s \in Surfaces /\ Live(s) /\ surf[s].gen = MappedTo(c, f).gen /\ ~Unassignable(c, f)
  BY DEF Lands, Live
<1>2. CASE HevcFifo
  <2>1. pend[c].fifo \in Seq(Mapping) /\ pend[c].fifo # <<>>
    BY <1>1, <1>2 DEF Unassignable, TypeOK, PendingRecord
  <2>2. 1 \in DOMAIN pend[c].fifo /\ Head(pend[c].fifo) = pend[c].fifo[1]
    BY <2>1, EmptySeq, LenProperties
  <2>3. pend[c].fifo[1] \in Mapping /\ MappedTo(c, f) = pend[c].fifo[1]
    BY <1>2, <2>1, <2>2, ElementOfSeq, LenProperties DEF MappedTo
  <2> HIDE DEF s
  <2>4. pend[c].fifo[1] = [target |-> s, gen |-> surf[s].gen]
    BY <1>1, <2>3 DEF Mapping, s
  <2> QED
    BY <2>2, <2>4 DEF Claims, s
<1>3. CASE ~HevcFifo
  BY <1>3, LandingSlot DEF Claims
<1> QED
  BY <1>2, <1>3

LEMMA TakeFrameMoves ==
    ASSUME TypeOK, ~("copy" \in Faults), NEW c \in Contexts, TakeFrame(c)
    PROVE  LET f == Head(dev[c].cap)
           IN  /\ f \in Frame
               /\ pend' = [pend EXCEPT ![c] = MappingTaken(c, f)]
               /\ \/ ~Lands(c, f) /\ UNCHANGED <<surf, resv, goal>>
                  \/ /\ Lands(c, f)
                     /\ \E px : surf' = [surf EXCEPT ![MappedTo(c, f).target] =
                                    Landed(surf[MappedTo(c, f).target], c, px)]
                     /\ resv' = Signalled(c, {surf[MappedTo(c, f).target].fence})
                     /\ goal' = [goal EXCEPT ![MappedTo(c, f).target].filled = FALSE]
               /\ UNCHANGED cur
<1>1. Head(dev[c].cap) \in Frame
  BY HeadTyped DEF TakeFrame
<1>2. Assign(c, Head(dev[c].cap), TRUE) /\ UNCHANGED cur
  BY DEF TakeFrame
<1> DEFINE f == Head(dev[c].cap)
           s == MappedTo(c, f).target
           px == IF f.last THEN surf[s].px ELSE f.px
<1>3. CASE ~Lands(c, f)
  BY <1>1, <1>2, <1>3 DEF Assign
<1>4. CASE Lands(c, f)
  <2>1. /\ surf' = [surf EXCEPT ![s] = Landed(surf[s], c, px)]
        /\ resv' = Signalled(c, {surf[s].fence})
        /\ goal' = [goal EXCEPT ![s].filled = FALSE]
        /\ pend' = [pend EXCEPT ![c] = MappingTaken(c, f)]
    BY <1>2, <1>4 DEF Assign
  <2> HIDE DEF f, s, px
  <2> QED
    BY <1>1, <1>2, <1>4, <2>1 DEF f, s
<1> QED
  BY <1>3, <1>4

(* assign_frame ends the fence of the frame's own write, never another's.     *)
LEMMA TakeFrameFences ==
    ASSUME TypeOK, FenceInv, NoPairs', ~("copy" \in Faults),
           NEW c \in Contexts, TakeFrame(c)
    PROVE  FenceInv'
<1> DEFINE f == Head(dev[c].cap)
           s == MappedTo(c, f).target
<1>1. /\ f \in Frame
      /\ pend' = [pend EXCEPT ![c] = MappingTaken(c, f)]
      /\ \/ ~Lands(c, f) /\ UNCHANGED <<surf, resv, goal>>
         \/ /\ Lands(c, f)
            /\ \E px : surf' = [surf EXCEPT ![s] = Landed(surf[s], c, px)]
            /\ resv' = Signalled(c, {surf[s].fence})
            /\ goal' = [goal EXCEPT ![s].filled = FALSE]
      /\ UNCHANGED cur
  BY TakeFrameMoves
<1> HIDE DEF f
<1>2. pend'[c] = MappingTaken(c, f) /\ \A d \in Contexts \ {c} : pend'[d] = pend[d]
  BY <1>1 DEF TypeOK
<1>3. SlotsKept
  BY <1>1, <1>2, MappingTakenRing DEF SlotsKept
<1>4. CursKept
  BY <1>1 DEF CursKept
<1>5. FifosKept
  <2>1. ASSUME NEW i \in DOMAIN pend'[c].fifo
        PROVE  \E j \in DOMAIN pend[c].fifo : pend'[c].fifo[i] = pend[c].fifo[j]
    <3>1. pend[c].fifo \in Seq(Mapping) /\ pend[c] \in PendingRecord
      BY DEF TypeOK, PendingRecord
    <3>2. MappingTaken(c, f).fifo = pend[c].fifo
          \/ (pend[c].fifo # <<>> /\ MappingTaken(c, f).fifo = Tail(pend[c].fifo))
      BY <3>1 DEF MappingTaken, PendingRecord, Unassignable
    <3>3. CASE pend'[c].fifo = pend[c].fifo
      BY <2>1, <3>3
    <3>4. CASE pend[c].fifo # <<>> /\ pend'[c].fifo = Tail(pend[c].fifo)
      BY <2>1, <3>1, <3>4, TailEntries
    <3> QED
      BY <1>2, <3>2, <3>3, <3>4
  <2> QED
    BY <1>2, <2>1 DEF FifosKept
<1>6. WorkKept
  BY CallWorkKept DEF CallStep
<1>7. GensKept /\ TokensKept /\ FencesGo
  <2>1. CASE ~Lands(c, f)
    <3>1. UNCHANGED <<surf, resv, goal>>
      BY <1>1, <2>1
    <3>2. GensKept
      BY <3>1 DEF GensKept, TypeOK, SurfaceRecord
    <3> QED
      BY <3>1, <3>2, SameFences DEF FenceInv
  <2>2. CASE Lands(c, f)
    <3>1. PICK px : surf' = [surf EXCEPT ![s] = Landed(surf[s], c, px)]
      BY <1>1, <2>2
    <3>2. s \in Surfaces /\ Live(s) /\ surf[s] \in SurfaceRecord
      BY <2>2 DEF Lands, Live, TypeOK
    <3>3. LeftAlone(c, s)
      BY <1>1, <2>2, <3>2, LandsOnClaim DEF FenceInv, ClaimsOwn
    <3>4. resv' = Signalled(c, {surf[s].fence}) /\ goal' = [goal EXCEPT ![s].filled = FALSE]
      BY <1>1, <2>2
    <3> HIDE DEF s
    <3>5. /\ Landed(surf[s], c, px).life = surf[s].life /\ Landed(surf[s], c, px).gen = surf[s].gen
          /\ Landed(surf[s], c, px).fence = 0
      BY <3>2, LandingWork, LandEffects
    <3>6. surf'[s] = Landed(surf[s], c, px) /\ \A t \in Surfaces \ {s} : surf'[t] = surf[t]
      BY <3>1, <3>2 DEF TypeOK
    <3>7. TokensKept /\ FencesGo
      <4>1. surf[s].fence = 0 \/ resv' = Signalled(surf[s].owner, {surf[s].fence})
        BY <3>3, <3>4 DEF LeftAlone
      <4>2. resv' \subseteq resv
        BY <3>4 DEF Signalled
      <4> QED
        BY <3>2, <3>5, <3>6, <4>1, <4>2, OneFenceGoes DEF FenceInv
    <3>8. \A t \in Surfaces : goal'[t].pic = goal[t].pic
      BY <3>4 DEF TypeOK, GoalRecord
    <3>9. \A t \in Surfaces : surf[t].life \in {"unborn", "live", "freed"}
      BY DEF TypeOK, SurfaceRecord
    <3>10. GensKept
      BY <3>5, <3>6, <3>8, <3>9 DEF GensKept
    <3> QED
      BY <3>7, <3>10
  <2> QED
    BY <2>1, <2>2
<1> QED
  BY <1>3, <1>4, <1>5, <1>6, <1>7, OrdinaryStep

(* vaEndPicture hands the picture under way to hevc_ring.                     *)
LEMMA FeedFences ==
    ASSUME TypeOK, OwnershipInv, FenceInv, NoPairs', NEW c \in Contexts, Feed(c)
    PROVE  FenceInv'
<1>1. UNCHANGED <<surf, resv, cur, goal>> /\ pc[c] = "feed"
  BY DEF Feed, history
<1>2. \A d \in Contexts : pend'[d].ring = pend[d].ring
  BY DEF TypeOK, PendingRecord, Feed
<1>3. /\ \A d \in Contexts \ {c} : pend'[d].fifo = pend[d].fifo
      /\ pend'[c].fifo = pend[c].fifo \/ pend'[c].fifo = FifoAdded(c)
  BY DEF TypeOK, PendingRecord, Feed
<1>4. WorkKept
  BY CallWorkKept DEF CallStep
<1>5. ASSUME NEW d \in Contexts, NEW i \in DOMAIN pend'[d].fifo
      PROVE  \/ d = c /\ pend'[d].fifo[i] = [target |-> cur[c].target, gen |-> cur[c].gen]
             \/ \E j \in DOMAIN pend[d].fifo : pend'[d].fifo[i] = pend[d].fifo[j]
  BY <1>3, <1>5, FifoAddedEntries
<1>6. GenerationsPast'
  BY <1>1, <1>2 DEF FenceInv, GenerationsPast, Past, Live
<1>7. FifoPast'
  <2> SUFFICES ASSUME NEW d \in Contexts, NEW s \in Surfaces, NEW i \in DOMAIN pend'[d].fifo,
                      pend'[d].fifo[i].target = s
               PROVE  Past(s, pend'[d].fifo[i].gen)
    BY <1>1 DEF FifoPast, Past, Live
  <2>1. CASE pend'[d].fifo[i] = [target |-> cur[c].target, gen |-> cur[c].gen]
    BY <2>1 DEF FenceInv, GenerationsPast
  <2>2. CASE \E j \in DOMAIN pend[d].fifo : pend'[d].fifo[i] = pend[d].fifo[j]
    BY <2>2 DEF FenceInv, FifoPast
  <2> QED
    BY <1>5, <2>1, <2>2
<1>8. NoNewClaims
  <2> SUFFICES ASSUME NEW d \in Contexts, NEW s \in Surfaces, Live(s), Claims(d, s)'
               PROVE  Claims(d, s)
    BY <1>1 DEF NoNewClaims, Live
  <2>1. CASE UnderWay(d)' /\ cur'[d].target = s
    <3>1. UnderWay(d) /\ cur[d].target = s
      BY <2>1, RegistryAssumption, <1>4 DEF WorkKept
    <3> QED
      BY <3>1 DEF Claims
  <2>2. CASE \E i \in 0 .. RingSize - 1 : LeadsTo(pend[d].ring[i], s)'
    BY <1>1, <1>2, <2>2 DEF LeadsTo, Live, Claims
  <2>3. CASE \E i \in DOMAIN pend'[d].fifo :
                pend'[d].fifo[i] = [target |-> s, gen |-> surf[s].gen]
    <3>1. PICK i \in DOMAIN pend'[d].fifo :
              pend'[d].fifo[i] = [target |-> s, gen |-> surf[s].gen]
      BY <2>3
    <3>2. CASE d = c /\ pend'[d].fifo[i] = [target |-> cur[c].target, gen |-> cur[c].gen]
      BY <1>1, <3>1, <3>2 DEF Claims, UnderWay
    <3>3. CASE \E j \in DOMAIN pend[d].fifo : pend'[d].fifo[i] = pend[d].fifo[j]
      BY <3>1, <3>3 DEF Claims
    <3> QED
      BY <1>5, <3>2, <3>3
  <2> QED
    BY <1>1, <2>1, <2>2, <2>3 DEF Claims
<1>9. TokensKept /\ FencesGo
  BY <1>1, SameFences DEF FenceInv
<1> QED
  BY <1>6, <1>7, <1>8, <1>9, OwnClaimsStep DEF FenceInv, FencesGo, AttachedRecorded

(* vaEndPicture claims the target: its old token is one of c itself, and goes *)
(* before the new one is attached.                                            *)
LEMMA ClaimFences ==
    ASSUME TypeOK, FenceInv, NoPairs', NEW c \in Contexts, ClaimTarget(c)
    PROVE  FenceInv'
<1> DEFINE k == SlotOf(ctx[c].seq)
           new == [used |-> TRUE, seq |-> ctx[c].seq, target |-> cur[c].target,
                   gen |-> cur[c].gen]
           o == cur[c].target
<1>1. /\ ~paff[c].second /\ UNCHANGED <<ctx, cur, goal>> /\ UnderWay(c)
      /\ k \in 0 .. RingSize - 1
  BY SlotInRing DEF ClaimTarget, history, FenceInv, NoPairs, UnderWay, Unclaimed,
                    TypeOK, ContextRecord
<1>2. /\ surf' = [s \in Surfaces |-> IF s = o /\ Live(s)
                                     THEN Claimed(surf[s], c, Token(c)) ELSE surf[s]]
      /\ resv' = IF Live(o) THEN Attached(c, o, Token(c)) ELSE resv
  BY <1>1 DEF ClaimTarget
<1> HIDE DEF new
<1>0. /\ pend'[c] = [pend[c] EXCEPT !.ring = [pend[c].ring EXCEPT ![k] = new]]
      /\ \A d \in Contexts \ {c} : pend'[d] = pend[d]
  BY <1>1 DEF TypeOK, PendingRecord, ClaimTarget, new
<1>3. \A d \in Contexts, i \in 0 .. RingSize - 1 :
         pend'[d].ring[i] = pend[d].ring[i] \/ (d = c /\ pend'[d].ring[i] = new)
  <2>1. pend[c].ring \in [0 .. RingSize - 1 -> Slot] /\ pend[c] \in PendingRecord
    BY DEF TypeOK, PendingRecord
  <2> DEFINE ring == [pend[c].ring EXCEPT ![k] = new]
  <2>2. \A i \in 0 .. RingSize - 1 : ring[i] = pend[c].ring[i] \/ ring[i] = new
    BY <1>1, <2>1
  <2> HIDE DEF ring
  <2>3. pend'[c].ring = ring
    BY <1>0, <2>1 DEF PendingRecord, ring
  <2> QED
    BY <1>0, <2>2, <2>3
<1>4. \A d \in Contexts : pend'[d].fifo = pend[d].fifo
  BY <1>0 DEF TypeOK, PendingRecord
<1>5. \A s \in Surfaces : surf'[s].life = surf[s].life /\ surf'[s].gen = surf[s].gen
  <2> SUFFICES ASSUME NEW s \in Surfaces
               PROVE  surf'[s].life = surf[s].life /\ surf'[s].gen = surf[s].gen
    OBVIOUS
  <2>1. surf[s] \in SurfaceRecord
    BY DEF TypeOK
  <2> QED
    BY <1>2, <2>1 DEF SurfaceRecord, Claimed, Finished
<1>6. new.used /\ new.target = o /\ new.gen = cur[c].gen
  BY DEF new
<1>7. WorkKept
  BY CallWorkKept DEF CallStep
<1> HIDE DEF k, new
<1>8. GenerationsPast'
  <2> SUFFICES ASSUME NEW d \in Contexts, NEW t \in Surfaces
               PROVE  /\ cur[d].target = t => Past(t, cur[d].gen)'
                      /\ \A i \in 0 .. RingSize - 1 :
                            pend'[d].ring[i].used /\ pend'[d].ring[i].target = t
                                => Past(t, pend[d].ring[i].gen)'
    BY <1>1 DEF GenerationsPast
  <2>1. ASSUME NEW n, Past(t, n)
        PROVE  surf'[t].life # "unborn" /\ (surf'[t].life = "live" => n <= surf'[t].gen)
    BY <1>5, <2>1 DEF Past, Live
  <2>2. cur[d].target = t => Past(t, cur[d].gen)'
    BY <1>1, <2>1 DEF FenceInv, GenerationsPast, Past, Live
  <2>3. ASSUME NEW i \in 0 .. RingSize - 1,
               pend'[d].ring[i].used, pend'[d].ring[i].target = t
        PROVE  Past(t, pend[d].ring[i].gen)'
    BY <1>3, <1>6, <2>1, <2>3 DEF FenceInv, GenerationsPast, Past, Live
  <2> QED
    BY <2>2, <2>3
<1>9. FifoPast'
  BY <1>4, <1>5 DEF FenceInv, FifoPast, Past, Live
<1>10. NoNewClaims
  <2> SUFFICES ASSUME NEW d \in Contexts, NEW s \in Surfaces, Live(s), Claims(d, s)'
               PROVE  Claims(d, s)
    BY <1>5 DEF NoNewClaims, Live
  <2>1. CASE UnderWay(d)' /\ cur'[d].target = s
    <3>1. UnderWay(d) /\ cur[d].target = s
      BY <2>1, RegistryAssumption, <1>7 DEF WorkKept
    <3> QED
      BY <3>1 DEF Claims
  <2>2. CASE \E i \in 0 .. RingSize - 1 : LeadsTo(pend[d].ring[i], s)'
    <3>1. PICK i \in 0 .. RingSize - 1 : LeadsTo(pend[d].ring[i], s)'
      BY <2>2
    <3>2. CASE pend'[d].ring[i] = pend[d].ring[i]
      BY <1>5, <3>1, <3>2 DEF LeadsTo, Live, Claims
    <3>3. CASE d = c /\ pend'[d].ring[i] = new
      BY <1>1, <1>6, <3>1, <3>3 DEF LeadsTo, Claims
    <3> QED
      BY <1>3, <3>2, <3>3
  <2>3. CASE \E i \in DOMAIN pend[d].fifo :
                pend[d].fifo[i] = [target |-> s, gen |-> surf[s].gen]
    BY <2>3 DEF Claims
  <2> QED
    BY <1>4, <1>5, <2>1, <2>2, <2>3 DEF Claims
<1>11. CASE ~Live(o)
  <2>1. (\A s \in Surfaces : surf'[s] = surf[s]) /\ UNCHANGED resv
    BY <1>2, <1>11
  <2>2. TokensKept /\ FencesGo
    BY <2>1, SameFences DEF FenceInv
  <2> QED
    BY <1>8, <1>9, <1>10, <2>2, OwnClaimsStep DEF FenceInv, FencesGo, AttachedRecorded
<1>12. CASE Live(o)
  <2>1. o \in Surfaces /\ surf[o] \in SurfaceRecord
    BY <1>12 DEF Live, TypeOK
  <2>2. LeftAlone(c, o) /\ \A d \in Contexts : Claims(d, o) => d = c
    BY <1>1, <1>12, <2>1 DEF FenceInv, ClaimsOwn, Claims
  <2>3. surf'[o].owner = c /\ surf'[o].fence = Token(c)
    BY <1>2, <1>12, <2>1, ClaimEffect
  <2>4. \A s \in Surfaces \ {o} : surf'[s] = surf[s]
    BY <1>2
  <2>5. resv' = Attached(c, o, Token(c))
    BY <1>2, <1>12
  <2> HIDE DEF o
  <2>6. ClaimsOwn'
    <3> SUFFICES ASSUME NEW d \in Contexts, NEW s \in Surfaces, Live(s)', Claims(d, s)'
                 PROVE  LeftAlone(d, s)' /\ \A e \in Contexts : Claims(e, s)' => e = d
      BY DEF ClaimsOwn
    <3>1. Live(s) /\ Claims(d, s)
      BY <1>10 DEF NoNewClaims
    <3>2. LeftAlone(d, s) /\ \A e \in Contexts : Claims(e, s) => e = d
      BY <3>1 DEF FenceInv, ClaimsOwn
    <3>3. LeftAlone(d, s)'
      BY <2>2, <2>3, <2>4, <3>1, <3>2 DEF LeftAlone
    <3> QED
      BY <1>10, <3>2, <3>3 DEF NoNewClaims
  <2>7. AttachedRecorded'
    <3> SUFFICES ASSUME NEW r \in resv' PROVE Recorded(r)'
      BY DEF AttachedRecorded
    <3>1. CASE r = [ctx |-> c, s |-> o, token |-> Token(c)]
      BY <2>3, <3>1 DEF Recorded
    <3>2. CASE r \in Signalled(c, {surf[o].fence})
      <4>1. r \in resv /\ FenceTyped(r) /\ Recorded(r)
        BY <3>2, FencesTyped DEF Signalled, FenceInv, AttachedRecorded
      <4>2. r.s # o
        BY <2>2, <3>2, <4>1 DEF Signalled, Recorded, LeftAlone, FenceTyped
      <4> QED
        BY <2>4, <4>1, <4>2 DEF Recorded, FenceTyped
    <3> QED
      BY <2>5, <3>1, <3>2 DEF Attached
  <2> QED
    BY <1>8, <1>9, <2>6, <2>7 DEF FenceInv
<1> QED
  BY <1>11, <1>12

(* vaBeginPicture begins on a surface that no other context has in flight.    *)
LEMMA BeginFences ==
    ASSUME TypeOK, FenceInv, NoPairs', ~SharedTargets, ~FieldPictures,
           NEW c \in Contexts, NEW s \in Surfaces, NEW field \in 0 .. 2, NEW poc \in Pocs,
           BeginPicture(c, s, field, poc)
    PROVE  FenceInv'
<1>0. NoPairs /\ GenerationsPast
  BY DEF FenceInv
<1>1. /\ surf \in [Surfaces -> SurfaceRecord] /\ cur \in [Contexts -> PictureRecord]
      /\ surf[s] \in SurfaceRecord /\ surf[s].gen \in Nat
  BY DEF TypeOK, SurfaceRecord
<1>2. /\ Live(s) /\ surf' = [surf EXCEPT ![s] = Begun(surf[s])] /\ UNCHANGED <<pend, pc>>
      /\ \A d \in Contexts \ {c} : ~RenderedBy(d, s)
      /\ cur' = [cur EXCEPT ![c] = [begun |-> TRUE, target |-> s, gen |-> surf[s].gen + 1,
                                    field |-> 0, pic |-> pictures + 1, poc |-> poc]]
  BY <1>0, BeginEffects
<1>3. LeftAlone(c, s) /\ UNCHANGED resv
  BY DEF BeginPicture
<1>4. surf'[s].gen = surf[s].gen + 1 /\ Same(surf'[s], surf[s])
  BY <1>1, <1>2, WriteEffects DEF Begun, SurfaceRecord
<1>5. \A t \in Surfaces \ {s} : surf'[t] = surf[t]
  BY <1>1, <1>2
<1>6. cur'[c].target = s /\ \A d \in Contexts \ {c} : cur'[d] = cur[d]
  BY <1>1, <1>2
<1>7. GenerationsPast'
  BY <1>0, BeginPast
<1>8. \A d \in Contexts :
         /\ \A i \in 0 .. RingSize - 1 : pend[d].ring[i].gen \in Nat
         /\ \A i \in DOMAIN pend[d].fifo : pend[d].fifo[i].gen \in Nat
  <2> SUFFICES ASSUME NEW d \in Contexts
               PROVE  /\ \A i \in 0 .. RingSize - 1 : pend[d].ring[i].gen \in Nat
                      /\ \A i \in DOMAIN pend[d].fifo : pend[d].fifo[i].gen \in Nat
    OBVIOUS
  <2>1. pend[d].ring \in [0 .. RingSize - 1 -> Slot] /\ pend[d].fifo \in Seq(Mapping)
    BY DEF TypeOK, PendingRecord
  <2>2. \A i \in DOMAIN pend[d].fifo : pend[d].fifo[i] \in Mapping
    BY <2>1, ElementOfSeq, LenProperties
  <2> QED
    BY <2>1, <2>2 DEF Slot, Mapping
<1>9. FifoPast'
  BY <1>0, <1>2, <1>8, BeginGens DEF FenceInv, FifoPast, Past, Live
<1>10. ASSUME NEW d \in Contexts, d # c PROVE ~Claims(d, s)'
  <2>1. ~(UnderWay(d)' /\ cur'[d].target = s)
    BY <1>2, <1>6, <1>10 DEF UnderWay, Unclaimed, RenderedBy
  <2>2. ASSUME NEW i \in 0 .. RingSize - 1 PROVE ~LeadsTo(pend[d].ring[i], s)'
    BY <1>0, <1>1, <1>2, <1>4, <1>8 DEF LeadsTo, GenerationsPast, Past
  <2>3. ASSUME NEW i \in DOMAIN pend'[d].fifo
        PROVE  pend'[d].fifo[i] # [target |-> s, gen |-> surf'[s].gen]
    BY <1>1, <1>2, <1>4, <1>8 DEF FenceInv, FifoPast, Past
  <2> QED
    BY <2>1, <2>2, <2>3 DEF Claims
<1>11. ASSUME NEW d \in Contexts, NEW t \in Surfaces \ {s}, Claims(d, t)'
       PROVE  Claims(d, t)
  <2>1. CASE UnderWay(d)' /\ cur'[d].target = t
    <3>1. cur'[d] = cur[d] /\ pc'[d] = pc[d]
      BY <1>2, <1>6, <2>1
    <3> QED
      BY <2>1, <3>1 DEF UnderWay, Unclaimed, Claims
  <2>2. CASE \E i \in 0 .. RingSize - 1 : LeadsTo(pend[d].ring[i], t)'
    BY <1>2, <1>5, <2>2 DEF LeadsTo, Live, Claims
  <2>3. CASE \E i \in DOMAIN pend'[d].fifo :
                pend'[d].fifo[i] = [target |-> t, gen |-> surf'[t].gen]
    BY <1>2, <1>5, <2>3 DEF Claims
  <2> QED
    BY <1>11, <2>1, <2>2, <2>3 DEF Claims
<1>12. ClaimsOwn'
  <2> SUFFICES ASSUME NEW d \in Contexts, NEW t \in Surfaces, Live(t)', Claims(d, t)'
               PROVE  LeftAlone(d, t)' /\ \A e \in Contexts : Claims(e, t)' => e = d
    BY DEF ClaimsOwn
  <2>1. CASE t = s
    BY <1>3, <1>4, <1>10, <2>1 DEF LeftAlone, Same
  <2>2. CASE t # s
    <3>1. Live(t) /\ Claims(d, t)
      BY <1>5, <1>11, <2>2 DEF Live
    <3>2. LeftAlone(d, t) /\ \A e \in Contexts : Claims(e, t) => e = d
      BY <3>1 DEF FenceInv, ClaimsOwn
    <3> QED
      BY <1>5, <1>11, <2>2, <3>2 DEF LeftAlone
  <2> QED
    BY <2>1, <2>2
<1>13. AttachedRecorded'
  <2>1. \A t \in Surfaces : surf'[t].fence = surf[t].fence /\ surf'[t].owner = surf[t].owner
    BY <1>4, <1>5 DEF Same
  <2> QED
    BY <1>3, <2>1, SameFences DEF FenceInv, FencesGo, AttachedRecorded
<1> QED
  BY <1>7, <1>9, <1>12, <1>13 DEF FenceInv

LEMMA FenceInit == Init => FenceInv
<1> SUFFICES ASSUME Init PROVE FenceInv
  OBVIOUS
<1>1. /\ \A c \in Contexts : cur[c] = NoPicture /\ pend[c] = NoPending /\ paff[c] = NoPair
      /\ resv = {} /\ \A s \in Surfaces : ~Live(s)
  BY DEF Init, RegistryInit, UnbornSurface, Live
<1>2. \A c \in Contexts : /\ pend[c].fifo = <<>>
                          /\ \A i \in 0 .. RingSize - 1 : ~pend[c].ring[i].used
  <2>1. NoPending.fifo = <<>> /\ NoPending.ring = EmptyRing
    BY DEF NoPending
  <2>2. \A i \in 0 .. RingSize - 1 : ~EmptyRing[i].used
    BY DEF EmptyRing, EmptySlot
  <2> QED
    BY <1>1, <2>1, <2>2
<1>3. NoPairs
  BY <1>1 DEF NoPairs, NoPicture, NoPair
<1>4. GenerationsPast /\ FifoPast
  BY <1>1, <1>2, RegistryAssumption DEF GenerationsPast, FifoPast, NoPicture
<1> QED
  BY <1>1, <1>3, <1>4 DEF FenceInv, ClaimsOwn, AttachedRecorded

LEMMA FenceNext ==
    ASSUME TypeOK, OwnershipInv, FenceInv, [Next]_vars,
           ~SharedTargets, ~FieldPictures, ~("copy" \in Faults)
    PROVE  FenceInv'
<1>0. NoPairs' /\ AttachedRecorded
  BY NoPairsStep DEF FenceInv
<1>1. CASE OffCall
  <2>1. FifosKept
    BY <1>1, OffCallQuiet DEF FifosKept
  <2> QED
    BY <1>0, <1>1, <2>1, OffCallQuiet, OffCallGens, OffCallWorkKept, OffCallFences, OrdinaryStep
<1>2. ASSUME NEW c \in Contexts, NEW s \in Surfaces, NEW field \in 0 .. 2, NEW poc \in Pocs,
             BeginPicture(c, s, field, poc)
      PROVE  FenceInv'
  BY <1>0, <1>2, BeginFences
<1>3. ASSUME NEW c \in Contexts, ClaimTarget(c) PROVE FenceInv'
  BY <1>0, <1>3, ClaimFences
<1>4. ASSUME NEW c \in Contexts, Feed(c) PROVE FenceInv'
  BY <1>0, <1>4, FeedFences
<1>5. ASSUME NEW c \in Contexts, TakeFrame(c) PROVE FenceInv'
  BY <1>0, <1>5, TakeFrameFences
<1>6. ASSUME NEW c \in Contexts,
             \/ CreateContext(c) \/ EndPictureFails(c) \/ DestroyContext(c)
             \/ \E ra, cue \in BOOLEAN : EndPicture(c, ra, cue)
      PROVE  FenceInv'
  <2>1. UNCHANGED <<surf, pend, goal>> /\ CursKept
    BY <1>6, ClientQuiet
  <2>2. UNCHANGED resv
    BY <1>6 DEF CreateContext, EndPictureFails, DestroyContext, EndPicture
  <2>3. SlotsKept /\ FifosKept /\ GensKept
    BY <2>1 DEF SlotsKept, FifosKept, GensKept, TypeOK, SurfaceRecord
  <2>4. TokensKept /\ FencesGo
    BY <1>0, <2>1, <2>2, SameFences
  <2> QED
    BY <1>0, <1>6, <2>1, <2>3, <2>4, ClientWorkKept, OrdinaryStep
<1>7. ASSUME NEW c \in Contexts, CallStep(c), ~ClaimTarget(c), ~Feed(c), ~TakeFrame(c)
      PROVE  FenceInv'
  <2>1. /\ \A s \in Surfaces : SameWork(surf'[s], surf[s])
        /\ pend' = pend \/ pend' = [pend EXCEPT ![c] = NoPending]
        /\ UNCHANGED <<cur, goal>>
    BY <1>7, CallKeepsWork
  <2>2. SlotsKept /\ CursKept
    BY <1>7, CallQuiet
  <2>3. FifosKept
    <3>1. NoPending.fifo = <<>>
      BY DEF NoPending
    <3>2. \A d \in Contexts : pend'[d] = pend[d] \/ pend'[d] = NoPending
      BY <2>1 DEF TypeOK
    <3> QED
      BY <3>1, <3>2 DEF FifosKept
  <2>4. \A s \in Surfaces : surf[s].life \in {"unborn", "live", "freed"}
    BY DEF TypeOK, SurfaceRecord
  <2>5. GensKept
    BY <2>1, <2>4 DEF GensKept, SameWork
  <2> QED
    BY <1>0, <1>7, <2>2, <2>3, <2>5, CallWorkKept, CallFences, OrdinaryStep
<1> QED
  BY <1>1, <1>2, <1>3, <1>4, <1>5, <1>6, <1>7, StepKinds

(* The invariant behind FenceHasOpenOwner.                                    *)
THEOREM FencesOrderly ==
    ASSUME ~SharedTargets, ~FieldPictures, "copy" \notin Faults
    PROVE  Spec => []FenceInv
<1>1. TypeOK /\ OwnershipInv /\ FenceInv /\ [Next]_vars => FenceInv'
  BY FenceNext
<1> QED
  BY <1>1, FenceInit, TypeCorrect, OwnershipHolds, PTL DEF Spec

(* As long as a client leaves a surface to the context that has it in flight, *)
(* every fence a GPU client may wait on has a session that can signal it and  *)
(* a surface that records its token (surface.c:126-130, decode.c:104-181).    *)
THEOREM FencesSignallable ==
    ASSUME ~SharedTargets, ~FieldPictures, "copy" \notin Faults
    PROVE  Spec => []FenceHasOpenOwner
<1>1. TypeOK /\ OwnershipInv /\ FenceInv => FenceHasOpenOwner
  <2> SUFFICES ASSUME TypeOK, OwnershipInv, FenceInv, NEW k \in resv
               PROVE  ctx[k.ctx].open /\ Recorded(k)
    BY DEF FenceHasOpenOwner, OwnershipInv
  <2>1. Recorded(k) /\ FenceTyped(k)
    BY FencesTyped DEF FenceInv, AttachedRecorded
  <2> QED
    BY <2>1 DEF Recorded, FenceTyped, OwnershipInv, FenceOwnerOpen
<1> QED
  BY <1>1, FencesOrderly, TypeCorrect, OwnershipHolds, PTL

=============================================================================
