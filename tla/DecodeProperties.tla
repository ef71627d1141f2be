--------------------------- MODULE DecodeProperties ---------------------------
(* What the decode core promises, stated on Decode.                           *)
EXTENDS Decode

-----------------------------------------------------------------------------
(* Pixels                                                                     *)

(* px was never written, or shows a picture of the stream its context is      *)
(* still playing: not pre-seek, not from a destroyed context.                 *)
CurrentPixels(px) ==
    \/ px = Black
    \/ /\ px.ctx # None
       /\ ctx[px.ctx].life = "live"
       /\ px.stream = stream[px.ctx]

(* A surface that carries the current epoch never holds pixels of an          *)
(* abandoned stream (decode_internal.h:65-70, decode.c:525-529): the epoch is *)
(* claimed only together with pixels of this epoch, and moves on whenever a   *)
(* stream is abandoned.                                                       *)
NoAbandonedPixels ==
    \A s \in Surfaces : Live(s) /\ ~Stale(s) => CurrentPixels(surf[s].px)

(* What vaSyncSurface hands to the client is never a pre-seek picture         *)
(* (surface.c:613-618, test_surfaces_epoch.c:2-6).                            *)
SyncShowsCurrentStream ==
    [][\A s \in Surfaces :
        sync.st # "returned" /\ sync'.st = "returned" /\ sync'.s = s
            => CurrentPixels(surf[s].px)']_vars

(* A surface reported ready shows the picture the client last began on it,    *)
(* unless it was backfilled: late frames of an earlier use of the target,     *)
(* lost or reordered frames and reused ring slots never put another picture   *)
(* there (decode.c:382-393).                                                  *)
DecodedHoldsItsPicture ==
    \A s \in Surfaces :
        Live(s) /\ surf[s].decoded /\ ~goal[s].filled => surf[s].px.pic = goal[s].pic

(* A finished picture of a stream still playing stays in its surface until    *)
(* the client begins another picture there: late frames, failed copies and    *)
(* syncs of its own video leave it alone (decode.c:382-393,                   *)
(* surface.c:603-631).                                                        *)
ShowsItsPicture(s) ==
    /\ Live(s) /\ surf[s].decoded /\ ~goal[s].filled
    /\ CurrentPixels(surf[s].px)

FinishedPictureStays ==
    [][\A s \in Surfaces :
        ShowsItsPicture(s) /\ Live(s)' /\ CurrentPixels(surf[s].px)' /\ surf'[s].gen = surf[s].gen
            => surf'[s].px = surf[s].px]_vars

(* vaSyncSurface on a queued picture returns success only once that picture   *)
(* is in the surface ("drains the owning engine until id is ready",           *)
(* decode.h:33-35).                                                           *)
Pending(s) ==
    Live(s) /\ surf[s].queued /\ ~surf[s].decoded /\ surf[s].owner # None

SyncWaitsForThePicture ==
    [][\A s \in Surfaces :
        Pending(s) /\ SyncIdle /\ ~SyncIdle' /\ sync'.s = s
            => sync'.st = "blocked"]_vars

-----------------------------------------------------------------------------
(* Sessions                                                                   *)

(* A reservation fence the kernel still holds, and that a GPU client may wait *)
(* on, can be signalled: the session that attached it is open, and the        *)
(* surface it is attached to still records its token for that session         *)
(* (surface.c:126-130 signals nothing else).  And a recorded token belongs to *)
(* an open session.                                                           *)
Recorded(k) == surf[k.s].owner = k.ctx /\ surf[k.s].fence = k.token

FenceOwnerOpen ==
    \A s \in Surfaces :
        surf[s].fence # 0 => surf[s].owner # None /\ ctx[surf[s].owner].open

FenceHasOpenOwner ==
    /\ \A k \in resv : ctx[k.ctx].open /\ Recorded(k)
    /\ FenceOwnerOpen

(* No surface points to a destroyed context (detach_owned_surfaces): the      *)
(* registry dereferences the owner in sync, free and layout.                  *)
OwnersAlive ==
    \A s \in Surfaces :
        surf[s].owner # None => ctx[surf[s].owner].life = "live"

(* Old and new access units never coexist in the VPU (decode.c:589-594): what *)
(* a session holds belongs to the stream its context is playing.              *)
OfThisStream(c, px) == px.ctx = c /\ px.stream = stream[c]

StreamsDoNotMix ==
    \A c \in Contexts :
        /\ \A i \in DOMAIN dev[c].fw : OfThisStream(c, dev[c].fw[i].px)
        /\ \A i \in DOMAIN dev[c].cap :
              dev[c].cap[i].last \/ OfThisStream(c, dev[c].cap[i].px)

(* Pictures in one session never share a timestamp (decode.c:691-694), except *)
(* the two fields of a pair.                                                  *)
Units(q) == {[ts |-> q[i].ts, pic |-> q[i].px.pic] : i \in DOMAIN q}
InSession(c) == Units(dev[c].fw) \cup Units(dev[c].cap)

TimestampsUnique ==
    \A c \in Contexts : \A a, b \in InSession(c) : a.ts = b.ts => a.pic = b.pic

(* The mapping of surface s in the session of c, for its current generation,  *)
(* and the picture it was made for, which that session still holds.           *)
Mapped(c, s) ==
    IF HevcFifo
    THEN \E i \in DOMAIN pend[c].fifo :
            /\ pend[c].fifo[i] = [target |-> s, gen |-> surf[s].gen]
            /\ \E u \in InSession(c) : u.pic = goal[s].pic
    ELSE \E i \in DOMAIN pend[c].ring :
            LET slot == pend[c].ring[i]
            IN  /\ slot.used /\ slot.target = s /\ slot.gen = surf[s].gen
                /\ \E u \in InSession(c) : u.ts = Timestamp(slot.seq)

Submitting(c) == pc[c] \in {"feed", "unwind"}

(* A queued picture is never lost: as long as its owner's session is open,    *)
(* the session holds the picture and a mapping leads back to the surface, so  *)
(* a sync can finish.                                                         *)
QueuedCanComplete ==
    \A s \in Surfaces :
        Pending(s) /\ ~Submitting(surf[s].owner) => Mapped(surf[s].owner, s)

(* While a picture is on its way into its surface, the fence of that write is *)
(* attached and unsignalled ("reservation fences cover asynchronous writes",  *)
(* chromium-integration.md).                                                  *)
FenceOf(s) == [ctx |-> surf[s].owner, s |-> s, token |-> surf[s].fence]

FenceCoversTheWrite ==
    \A s \in Surfaces :
        Pending(s) /\ Mapped(surf[s].owner, s) => FenceOf(s) \in resv

(* A boundary closes the old session only after LAST was dequeued from it     *)
(* (stream.c:334-338).                                                        *)
BoundaryObservesLast ==
    [][\A c \in Contexts :
        stream'[c] # stream[c] =>
            /\ dev[c].lastSent
            /\ dev[c].fw = <<>> /\ dev[c].cap = <<>>]_vars

(* Neither a boundary nor the destruction of a context abandons an accepted   *)
(* picture (decode.c:125-128): all of them are in their surfaces by then.     *)
AcceptedWorkCompletes ==
    [][\A c \in Contexts :
        stream'[c] # stream[c] \/ ctx'[c].life # ctx[c].life =>
            \A s \in Surfaces : ~(Pending(s) /\ surf[s].owner = c)]_vars

-----------------------------------------------------------------------------
(* Inductive invariants.  The safety properties above are not inductive: what *)
(* keeps them true is who may be inside a call on what.                       *)

(* A call holds its context, so it is alive; only live surfaces have an       *)
(* owner, so the sweeps of finish_pending_writes and detach_owned_surfaces    *)
(* reach every surface of a context.                                          *)
CallsOnLive == \A c \in Contexts : pc[c] # "idle" => ctx[c].life = "live"
OwnedAreLive == \A s \in Surfaces : surf[s].owner # None => surf[s].life = "live"

(* The context a sync is about to lock or has locked is alive and stays so.   *)
SyncOwnerAlive ==
    sync.st \in {"blocked", "inside"} =>
        /\ sync.c \in Contexts
        /\ ctx[sync.c].life = "live"
        /\ pc[sync.c] \notin {"destroy", "teardown"}

(* No surface outlives its owner, and no token its owner's session, because   *)
(* every close is swept and no call survives its context (decode.c:104-181).  *)
OwnershipInv ==
    /\ CallsOnLive
    /\ OwnedAreLive
    /\ OwnersAlive
    /\ SyncOwnerAlive
    /\ FenceOwnerOpen

(* With one client thread there is at most one call, and a sync runs alone.   *)
OneCall ==
    /\ \A c, d \in Contexts : pc[c] # "idle" /\ pc[d] # "idle" => c = d
    /\ \A c \in Contexts : pc[c] = "sync" => sync.st = "inside" /\ sync.c = c
    /\ \A c \in Contexts : pc[c] \notin {"idle", "sync"} => SyncIdle
    /\ sync.st \in {"filling", "blocked"} => AllIdle

(* The surface being synced is there; it holds pixels of this epoch, or has   *)
(* just been filled with such pixels.                                         *)
SyncedSurfaceCurrent ==
    ~SyncIdle =>
        /\ Live(sync.s)
        /\ sync.st = "filling" => CurrentPixels(surf[sync.s].px)
        /\ sync.st # "filling" => ~Stale(sync.s)

(* No surface is ahead of the display's epoch, and an empty LAST frame        *)
(* carries no timestamp, so that it is no picture to assign_frame.            *)
EpochsPast == \A s \in Surfaces : surf[s].epoch <= reg.epoch
LastHasNoTimestamp ==
    \A c \in Contexts : \A i \in DOMAIN dev[c].cap : dev[c].cap[i].last => dev[c].cap[i].ts = 0

(* Pre-seek pixels never count as current: the epoch is claimed only with     *)
(* pixels of a session whose pictures all belong to the stream being played,  *)
(* and between the fill and the claim of a backfill nothing else happens.     *)
CurrentPixelsInv ==
    /\ CallsOnLive
    /\ OneCall
    /\ SyncedSurfaceCurrent
    /\ EpochsPast
    /\ LastHasNoTimestamp
    /\ StreamsDoNotMix
    /\ NoAbandonedPixels

-----------------------------------------------------------------------------
(* Which picture a frame is.  Without field pairs every accepted picture has  *)
(* its own timestamp, and its ring slot names the surface it was begun on.    *)

(* Without PAFF streams no second field is ever expected.                     *)
NoPairs == \A c \in Contexts : cur[c].field = 0 /\ ~paff[c].second /\ ~paff[c].open

(* A session holds units of the sequence numbers used so far, and LAST.       *)
NoUnit == [ts |-> 0, pic |-> 0]
StampsInOrder ==
    \A c \in Contexts : \A u \in InSession(c) :
        u = NoUnit \/ (1000 <= u.ts /\ u.ts < Timestamp(ctx[c].seq))

(* A slot is where its sequence number says.                                  *)
SlotsPlaced ==
    \A c \in Contexts : \A i \in 0 .. RingSize - 1 :
        pend[c].ring[i].used => SlotOf(pend[c].ring[i].seq) = i

(* Neither a mapping nor the current picture is ahead of its surface.         *)
Past(s, gen) == surf[s].life # "unborn" /\ (Live(s) => gen <= surf[s].gen)
GenerationsPast ==
    \A c \in Contexts, s \in Surfaces :
        /\ cur[c].target = s => Past(s, cur[c].gen)
        /\ \A i \in 0 .. RingSize - 1 :
              LET slot == pend[c].ring[i]
              IN  slot.used /\ slot.target = s => Past(s, slot.gen)

(* A mapping leads to surface s, which has not been begun again since.        *)
LeadsTo(slot, s) == slot.used /\ slot.target = s /\ Live(s) /\ slot.gen = surf[s].gen

(* What the client begins is what it wants to see in its target.              *)
CurrentPicture ==
    \A c \in Contexts, s \in Surfaces :
        Live(s) /\ cur[c].target = s /\ cur[c].gen = surf[s].gen
            => goal[s].pic = cur[c].pic

(* The picture being submitted is mapped to its target.                       *)
TargetClaimed ==
    \A c \in Contexts :
        pc[c] = "feed" =>
            pend[c].ring[SlotOf(ctx[c].seq)] =
                [used |-> TRUE, seq |-> ctx[c].seq,
                 target |-> cur[c].target, gen |-> cur[c].gen]

(* A frame is mapped to a surface that still waits for this very picture.     *)
MappedPicture ==
    \A c \in Contexts, s \in Surfaces :
        \A i \in 0 .. RingSize - 1 : \A u \in InSession(c) :
            LET slot == pend[c].ring[i]
            IN  LeadsTo(slot, s) /\ u.ts = Timestamp(slot.seq) => goal[s].pic = u.pic

(* DecodedHoldsItsPicture, and between the two halves of a backfill.          *)
PicturesShown ==
    \A s \in Surfaces :
        /\ Live(s) /\ ~goal[s].filled
        /\ surf[s].decoded \/ (sync.st = "filling" /\ sync.s = s)
        => surf[s].px.pic = goal[s].pic

PairingInv ==
    /\ NoPairs
    /\ StampsInOrder
    /\ TimestampsUnique
    /\ SlotsPlaced
    /\ GenerationsPast
    /\ CurrentPicture
    /\ TargetClaimed
    /\ MappedPicture
    /\ PicturesShown

-----------------------------------------------------------------------------
(* Why the promise of a surface is kept, with one client thread.              *)

(* Begun, and not yet claimed by vaEndPicture.                                *)
Unclaimed(c) == cur[c].begun \/ pc[c] \in {"boundary", "restart", "prepare"}

GoalsPast ==
    \A s \in Surfaces :
        /\ goal[s].pic <= pictures
        /\ surf[s].life = "unborn" => surf[s] = UnbornSurface /\ ~goal[s].filled

(* vaEndPicture takes the picture that was begun.                             *)
BegunOnce == \A c \in Contexts : pc[c] \notin {"idle", "sync"} => ~cur[c].begun

(* The target of a picture that was begun is not waiting for any other, and   *)
(* no mapping leads to it.                                                    *)
FreshTarget ==
    \A c \in Contexts, s \in Surfaces :
        Unclaimed(c) /\ cur[c].target = s /\ Live(s) =>
            /\ cur[c].gen = surf[s].gen
            /\ goal[s].pic # 0
            /\ ~surf[s].queued
            /\ surf[s].decoded => goal[s].filled
            /\ \A d \in Contexts : \A i \in 0 .. RingSize - 1 :
                  ~LeadsTo(pend[d].ring[i], s)

(* Two pictures under way have two targets.                                   *)
TargetsApart ==
    \A c, d \in Contexts :
        Unclaimed(c) /\ Unclaimed(d) /\ cur[c].target = cur[d].target => c = d

(* A surface a mapping leads to still waits for its picture, and for one only.*)
MappingsAwaited ==
    \A c \in Contexts, s \in Surfaces : \A i \in 0 .. RingSize - 1 :
        LeadsTo(pend[c].ring[i], s) =>
            /\ surf[s].queued /\ surf[s].owner = c
            /\ surf[s].decoded => goal[s].filled
            /\ \A j \in 0 .. RingSize - 1 : LeadsTo(pend[c].ring[j], s) => i = j

(* The frame to repeat was delivered, not filled; a backfill under way is one *)
(* that was recorded.                                                         *)
LastFrameDelivered ==
    \A s \in Surfaces :
        Live(s) /\ reg.lastFrame = s /\ reg.lastFrameEpoch = reg.epoch
            => ~Stale(s) /\ ~goal[s].filled
FillRecorded == sync.st = "filling" => goal[sync.s].filled

PromiseKeptInv ==
    /\ GoalsPast
    /\ BegunOnce
    /\ FreshTarget
    /\ TargetsApart
    /\ MappingsAwaited
    /\ LastFrameDelivered
    /\ FillRecorded

-----------------------------------------------------------------------------
(* How a session ends.  STOP is sent to a running session and nothing is fed  *)
(* after it; LAST is the last frame; and unless the drain loop itself times   *)
(* out or its device fails, a session that was stopped stays so only while it *)
(* is drained, or after a fatal error.                                        *)
Draining(c) == pc[c] \in {"boundary", "restart", "destroy", "teardown"}

SessionsEnd ==
    \A c \in Contexts :
        /\ ctx[c].started \/ ctx[c].eos \/ pc[c] = "feed" => ctx[c].open
        /\ pc[c] \in {"boundary", "destroy"} => ctx[c].eos
        /\ pc[c] = "feed" => ~ctx[c].eos
        /\ dev[c].stop => ctx[c].eos
        /\ dev[c].lastSent => dev[c].stop /\ dev[c].fw = <<>>
        /\ \A i \in DOMAIN dev[c].cap :
              dev[c].cap[i].last => i = Len(dev[c].cap) /\ dev[c].lastSent
        /\ pc[c] = "restart" => dev[c].lastSent /\ dev[c].fw = <<>> /\ dev[c].cap = <<>>
        /\ ctx[c].eos => ctx[c].fatal \/ Draining(c)

-----------------------------------------------------------------------------
(* Why nothing is lost, with one client thread, in decode order and without   *)
(* field pairs, as long as the firmware, the copies and the submissions work. *)

(* No call ever failed on the session, and no submission was refused.         *)
NothingFailed == \A c \in Contexts : ~ctx[c].fatal /\ pc[c] # "unwind"

(* The pictures a session holds: access units, and frames other than LAST.    *)
FrameCount(q) == IF q # <<>> /\ q[Len(q)].last THEN Len(q) - 1 ELSE Len(q)
UnitCount(d) == Len(d.fw) + FrameCount(d.cap)

(* Whoever waits for frames has a session that delivers them, and only a      *)
(* started session holds any.                                                 *)
SessionsServe ==
    /\ \A c \in Contexts :
        /\ pc[c] \in {"drain", "wait"} => ctx[c].started
        /\ pc[c] = "sync" => ctx[c].open
        /\ dev[c].fw # <<>> \/ dev[c].cap # <<>> => ctx[c].started
        /\ pc[c] = "teardown" /\ "stop" \notin Faults => UnitCount(dev[c]) = 0
    /\ sync.st = "blocked" => ctx[sync.c].open

(* A session holds the units fed last, one sequence number after the other.   *)
UnitsInOrder ==
    \A c \in Contexts :
        LET d == dev[c]
            next == Timestamp(ctx[c].seq)
        IN  /\ UnitCount(d) <= ctx[c].seq
            /\ \A i \in 1 .. Len(d.fw) :
                  d.fw[i].field = 0 /\ d.fw[i].ts = next - (Len(d.fw) + 1 - i)
            /\ \A i \in 1 .. Len(d.cap) :
                  ~d.cap[i].last => d.cap[i].ts = next - (UnitCount(d) + 1 - i)

(* vaEndPicture takes every frame that is there before it returns, so a       *)
(* session never holds more than the OUTPUT buffers and the unit just fed:    *)
(* fewer than target_ring and hevc_ring have slots.                           *)
UnitsFit ==
    \A c \in Contexts :
        UnitCount(dev[c]) <= OutBuffers + (IF pc[c] = "drain" THEN 1 ELSE 0)

(* Each of them still has its slot in target_ring, counted from the newest;   *)
(* hevc_ring has the same mappings, in the order they were fed.               *)
UnitSlot(c, k) == pend[c].ring[SlotOf(ctx[c].seq - k)]
MappingsInOrder ==
    \A c \in Contexts :
        LET n == UnitCount(dev[c])
        IN  /\ HevcFifo => Len(pend[c].fifo) = n
            /\ \A k \in 1 .. n :
                  LET slot == UnitSlot(c, k)
                  IN  /\ slot.used /\ slot.seq = ctx[c].seq - k
                      /\ HevcFifo => pend[c].fifo[n + 1 - k] =
                                        [target |-> slot.target, gen |-> slot.gen]

(* The picture under way is the latest its target was begun for.              *)
UnderWay(c) == Unclaimed(c) \/ pc[c] = "feed"
OwnGeneration ==
    \A c \in Contexts, s \in Surfaces :
        UnderWay(c) /\ cur[c].target = s /\ Live(s) => cur[c].gen = surf[s].gen

(* A picture that is waited for is in the session, or just being submitted.   *)
Awaited(c, s) ==
    \/ pc[c] = "feed" /\ cur[c].target = s
    \/ \E k \in 1 .. UnitCount(dev[c]) :
          UnitSlot(c, k).target = s /\ UnitSlot(c, k).gen = surf[s].gen
PendingAwaited ==
    \A c \in Contexts, s \in Surfaces : Pending(s) /\ surf[s].owner = c => Awaited(c, s)

DeliveryInv ==
    /\ NothingFailed
    /\ SessionsServe
    /\ UnitsInOrder
    /\ UnitsFit
    /\ MappingsInOrder
    /\ OwnGeneration
    /\ PendingAwaited

-----------------------------------------------------------------------------
(* Why no fence is orphaned, as long as a client leaves a surface to the      *)
(* context that has it in flight (SharedTargets = FALSE).                     *)

(* c will write into s: s is the target of the picture under way, or a        *)
(* mapping of c leads to it.                                                  *)
Claims(c, s) ==
    \/ UnderWay(c) /\ cur[c].target = s
    \/ \E i \in 0 .. RingSize - 1 : LeadsTo(pend[c].ring[i], s)
    \/ \E i \in DOMAIN pend[c].fifo :
          pend[c].fifo[i] = [target |-> s, gen |-> surf[s].gen]

(* One context at a time writes into a surface, and the fence of that surface *)
(* is its own: it never signals another context's token.                      *)
ClaimsOwn ==
    \A c \in Contexts, s \in Surfaces :
        Live(s) /\ Claims(c, s) =>
            /\ LeftAlone(c, s)
            /\ \A d \in Contexts : Claims(d, s) => d = c

(* As GenerationsPast, for hevc_ring.                                         *)
FifoPast ==
    \A c \in Contexts, s \in Surfaces : \A i \in DOMAIN pend[c].fifo :
        pend[c].fifo[i].target = s => Past(s, pend[c].fifo[i].gen)

AttachedRecorded == \A k \in resv : Recorded(k)

FenceInv ==
    /\ NoPairs
    /\ GenerationsPast
    /\ FifoPast
    /\ ClaimsOwn
    /\ AttachedRecorded

(* Where nothing fails, the fence of a write stays until it has landed.       *)

(* The tokens of a context count its pictures, so that no two of its surfaces *)
(* share one.                                                                 *)
TokensApart ==
    \A s \in Surfaces :
        surf[s].fence # 0 =>
            LET c == surf[s].owner
            IN  /\ surf[s].fence <= ctx[c].seq + (IF pc[c] = "feed" THEN 1 ELSE 0)
                /\ \A t \in Surfaces :
                      surf[t].owner = c /\ surf[t].fence = surf[s].fence => t = s

WritesCovered == \A s \in Surfaces : Pending(s) => FenceOf(s) \in resv

CoverInv == TokensApart /\ WritesCovered

-----------------------------------------------------------------------------
(* Progress.  The firmware keeps decoding and every call keeps executing:     *)
(* both are the kernel's scheduling of runnable work.  Nothing is assumed of  *)
(* the client.                                                                *)
Fairness ==
    /\ \A c \in Contexts : WF_vars(CallStep(c)) /\ WF_vars(Firmware(c))
    /\ WF_vars(SyncStep)

LiveSpec == Spec /\ Fairness

(* Every call on a context returns, without a timeout ending it: waiting for  *)
(* an OUTPUT buffer, for an exported target, for a sync or for LAST never     *)
(* waits for something that waits for the caller (decode.c:723-725).          *)
EveryCallReturns == \A c \in Contexts : pc[c] # "idle" ~> pc[c] = "idle"

(* A sync that started ends with success.                                     *)
SyncSucceeds == sync.st \in {"filling", "blocked", "inside"} ~> sync.st = "returned"

=============================================================================
