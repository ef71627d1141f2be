------------------------------- MODULE Decode --------------------------------
(* The decode scheduler (src/src/decode/decode.c), the firmware session and   *)
(* stream boundary logic (src/src/decode/stream.c) and the registry calls     *)
(* (src/src/decode/surface.c) for H.264 and HEVC with CPU copies, driven by a *)
(* libva client and by a stateful decoder that is external to the repository. *)
(*                                                                            *)
(* A call holds its context's mutex from its first step to its return; pc[c]  *)
(* is where that call is.  Between two steps the firmware, the calls on other *)
(* contexts and the calls on surfaces move.                                   *)
EXTENDS SurfaceRegistry

CONSTANTS
    RingSize,       \* slots of target_ring (VPU_TARGET_RING)
    FifoSize,       \* slots of hevc_ring (VPU_HEVC_RING)
    OutBuffers,     \* V4L2 OUTPUT buffers: access units the firmware can hold
    CapBuffers,     \* V4L2 CAPTURE buffers: frames waiting to be dequeued
    MaxPictures,    \* bound on the pictures the client begins
    HevcFifo,       \* HEVC on a platform with the HEVC_CAPTURE_FIFO quirk
    DisplayOrder,   \* the firmware refused decode-order output
    Pocs,           \* picture order counts the client uses
    FieldPictures,  \* the stream has PAFF field pairs (H.264 only)
    ConcurrentClient, \* one client thread per context and one that syncs
    SharedTargets,  \* a picture may be begun on a surface that another context
                    \* still has in flight
    Faults          \* what may go wrong outside the code

FaultKinds == {"drop", "build", "stop", "open", "submit", "start", "device", "copy",
               "timeout", "drain"}

ASSUME DecodeAssumption ==
    /\ RingSize \in Nat \ {0} /\ FifoSize \in Nat \ {0}
    /\ OutBuffers \in Nat \ {0} /\ CapBuffers \in Nat \ {0}
    /\ OutBuffers + CapBuffers <= RingSize /\ OutBuffers + CapBuffers <= FifoSize
    /\ MaxPictures \in Nat
    /\ HevcFifo \in BOOLEAN /\ DisplayOrder \in BOOLEAN
    /\ FieldPictures \in BOOLEAN /\ ConcurrentClient \in BOOLEAN
    /\ SharedTargets \in BOOLEAN
    /\ FieldPictures => ~HevcFifo
    /\ Pocs \subseteq Nat
    /\ Faults \subseteq FaultKinds

VARIABLES
    ctx,        \* ctx[c]: lifecycle and session flags of struct vpu_decode_ctx
    pend,       \* pend[c]: target_ring and hevc_ring
    paff,       \* paff[c]: field pairing, here and in the H.264 adapter
    cur,        \* cur[c]: the picture between vaBeginPicture and vaEndPicture
    pc,         \* pc[c]: where the call holding c's mutex is
    dev,        \* dev[c]: the firmware session (external)
    sync,       \* the vaSyncSurface call in progress, or the last one
    goal,       \* history: the picture s was last begun for; was it backfilled
    stream,     \* history: how many streams c has abandoned
    pictures    \* history: pictures begun so far (the bound)

vars == <<surf, reg, resv, ctx, pend, paff, cur, pc, dev, sync, goal, stream, pictures>>

history == <<goal, stream, pictures>>

-----------------------------------------------------------------------------
(* State                                                                      *)

Calls == {"idle", "boundary", "restart", "prepare", "feed", "unwind", "drain",
          "wait", "sync", "destroy", "teardown"}

Mapping == [target : Surfaces \cup {None}, gen : Nat]
Slot    == [used : BOOLEAN, seq : Nat, target : Surfaces \cup {None}, gen : Nat]
EmptySlot == [used |-> FALSE, seq |-> 0, target |-> None, gen |-> 0]
EmptyRing == [i \in 0 .. RingSize - 1 |-> EmptySlot]

AccessUnit == [ts : Nat, px : Pixels, field : 0 .. 2, poc : Nat]
Frame      == [ts : Nat, px : Pixels, last : BOOLEAN]
LastMarker == [ts |-> 0, px |-> Black, last |-> TRUE]

NoSession == [fw |-> <<>>, cap |-> <<>>, stop |-> FALSE, lastSent |-> FALSE]
NoPending == [ring |-> EmptyRing, fifo |-> <<>>]
NoPair    == [second |-> FALSE, open |-> FALSE, ts |-> 0, last |-> FALSE]
NoPicture == [begun |-> FALSE, target |-> None, gen |-> 0, field |-> 0,
              pic |-> 0, poc |-> 0]
NoSync    == [st |-> "none", s |-> None, c |-> None]
NoContext == [life |-> "none", open |-> FALSE, started |-> FALSE, eos |-> FALSE,
              fatal |-> FALSE, seq |-> 0]

ContextRecord ==
    [life : {"none", "live", "gone"}, open : BOOLEAN, started : BOOLEAN,
     eos : BOOLEAN, fatal : BOOLEAN, seq : Nat]
PendingRecord == [ring : [0 .. RingSize - 1 -> Slot], fifo : Seq(Mapping)]
PairRecord    == [second : BOOLEAN, open : BOOLEAN, ts : Nat, last : BOOLEAN]
PictureRecord == [begun : BOOLEAN, target : Surfaces \cup {None}, gen : Nat,
                  field : 0 .. 2, pic : Nat, poc : Nat]
SessionRecord == [fw : Seq(AccessUnit), cap : Seq(Frame), stop : BOOLEAN,
                  lastSent : BOOLEAN]
SyncRecord    == [st : {"none", "filling", "blocked", "inside", "returned"},
                  s : Surfaces \cup {None}, c : Contexts \cup {None}]
GoalRecord    == [pic : Nat, filled : BOOLEAN]

(* The mapping ring and the V4L2 queues stay within their buffers.            *)
WithinBuffers ==
    \A c \in Contexts : /\ Len(pend[c].fifo) <= FifoSize
                        /\ Len(dev[c].fw) <= OutBuffers
                        /\ Len(dev[c].cap) <= CapBuffers

(* Every variable has its type, and no queue exceeds its buffers: a submission *)
(* never overruns the OUTPUT buffers, nor a mapping the ring.                  *)
TypeOK ==
    /\ surf \in [Surfaces -> SurfaceRecord]
    /\ reg \in RegistryRecord
    /\ resv \subseteq FenceRecord
    /\ ctx \in [Contexts -> ContextRecord]
    /\ pend \in [Contexts -> PendingRecord]
    /\ paff \in [Contexts -> PairRecord]
    /\ cur \in [Contexts -> PictureRecord]
    /\ pc \in [Contexts -> Calls]
    /\ dev \in [Contexts -> SessionRecord]
    /\ sync \in SyncRecord
    /\ goal \in [Surfaces -> GoalRecord]
    /\ stream \in [Contexts -> Nat]
    /\ pictures \in Nat
    /\ WithinBuffers

Init ==
    /\ RegistryInit
    /\ ctx = [c \in Contexts |-> NoContext]
    /\ pend = [c \in Contexts |-> NoPending]
    /\ paff = [c \in Contexts |-> NoPair]
    /\ cur = [c \in Contexts |-> NoPicture]
    /\ pc = [c \in Contexts |-> "idle"]
    /\ dev = [c \in Contexts |-> NoSession]
    /\ sync = NoSync
    /\ goal = [s \in Surfaces |-> [pic |-> 0, filled |-> FALSE]]
    /\ stream = [c \in Contexts |-> 0]
    /\ pictures = 0

-----------------------------------------------------------------------------
(* Who may call what.  One client thread makes one call at a time; with       *)
(* ConcurrentClient every context has a thread and a further one syncs.       *)

SyncIdle  == sync.st \in {"none", "returned"}
AllIdle   == \A c \in Contexts : pc[c] = "idle"
MayCall(c) ==
    /\ ctx[c].life = "live"
    /\ pc[c] = "idle"
    /\ ConcurrentClient \/ (AllIdle /\ SyncIdle)
MaySync   == SyncIdle /\ (ConcurrentClient \/ AllIdle)

Syncing(s)   == ~SyncIdle /\ sync.s = s
RenderedBy(c, s) == cur[c].target = s /\ (cur[c].begun \/ pc[c] # "idle")

-----------------------------------------------------------------------------
(* Surfaces: vaCreateSurfaces, vaExportSurfaceHandle, vaDestroySurfaces       *)

AllocSurface(s) ==
    /\ surf[s].life = "unborn"
    /\ MaySync
    /\ surf' = [surf EXCEPT ![s] = Allocated]
    /\ UNCHANGED <<resv, reg, ctx, pend, paff, cur, pc, dev, sync, history>>

(* The black fill of a backing nobody has written leaves px = Black.          *)
ExportSurface(s) ==
    /\ Live(s) /\ ~surf[s].exported
    /\ MaySync
    /\ surf' = [surf EXCEPT ![s].exported = TRUE]
    /\ UNCHANGED <<resv, reg, ctx, pend, paff, cur, pc, dev, sync, history>>

(* vpu_surfaces_free takes the owner's mutex and signals the fence through    *)
(* the owner's session; the client is neither rendering into s nor waiting    *)
(* for it.                                                                    *)
FreeSurface(s) ==
    /\ Live(s)
    /\ MaySync
    /\ \A c \in Contexts : ~RenderedBy(c, s)
    /\ surf[s].owner # None => pc[surf[s].owner] = "idle"
    /\ surf' = [surf EXCEPT ![s] = [UnbornSurface EXCEPT !.life = "freed"]]
    /\ resv' = IF surf[s].owner # None /\ ctx[surf[s].owner].open
               THEN Signalled(surf[s].owner, {surf[s].fence}) ELSE resv
    /\ UNCHANGED <<reg, ctx, pend, paff, cur, pc, dev, sync, history>>

-----------------------------------------------------------------------------
(* Contexts and pictures: vaCreateContext, vaBeginPicture                     *)

CreateContext(c) ==
    /\ ctx[c].life = "none"
    /\ ConcurrentClient \/ (AllIdle /\ SyncIdle)
    /\ ctx' = [ctx EXCEPT ![c].life = "live"]
    /\ UNCHANGED <<surf, resv, reg, pend, paff, cur, pc, dev, sync, history>>

(* vpu_decode_begin and the RenderPicture calls that follow it: field is 0    *)
(* for a frame, 1 and 2 for the fields of a pair.  The client sends a second  *)
(* field only right after the first, into the same target, and uses the       *)
(* target of an unpaired first field for nothing else.  The code knows none   *)
(* of this at vaBeginPicture and decides by SecondField.  Without             *)
(* SharedTargets the client leaves a surface to the context whose picture     *)
(* has not landed in it yet.                                                  *)
SecondField(c, s) == paff[c].open /\ paff[c].last /\ s = cur[c].target

LeftAlone(c, s) == surf[s].fence = 0 \/ surf[s].owner = c

ClientOrder(c, s, field) ==
    LET same == cur[c].target = s
    IN  /\ (field = 2) <=> (same /\ cur[c].field = 1 /\ ~cur[c].begun)
        /\ ~(same /\ cur[c].field = 2 /\ cur[c].begun)

BeginPicture(c, s, field, poc) ==
    LET pic == IF field = 2 THEN cur[c].pic ELSE pictures + 1
        gen == IF SecondField(c, s) THEN cur[c].gen ELSE surf[s].gen + 1
    IN  /\ MayCall(c) /\ ~ctx[c].fatal
        /\ Live(s) /\ ~Syncing(s)
        /\ \A d \in Contexts \ {c} : ~RenderedBy(d, s)
        /\ SharedTargets \/ LeftAlone(c, s)
        /\ field # 0 => FieldPictures
        /\ ClientOrder(c, s, field)
        /\ pic <= MaxPictures
        /\ cur' = [cur EXCEPT ![c] = [begun |-> TRUE, target |-> s, gen |-> gen,
                                      field |-> field, pic |-> pic, poc |-> poc]]
        /\ IF SecondField(c, s)
           THEN /\ paff' = [paff EXCEPT ![c].second = TRUE]
                /\ UNCHANGED surf
           ELSE /\ paff' = [paff EXCEPT ![c].second = FALSE, ![c].open = FALSE]
                /\ surf' = [surf EXCEPT ![s] = Begun(@)]
        /\ goal' = [goal EXCEPT ![s] =
                     [pic |-> pic, filled |-> @.filled /\ SecondField(c, s)]]
        /\ pictures' = IF field = 2 THEN pictures ELSE pictures + 1
        /\ UNCHANGED <<resv, reg, ctx, pend, pc, dev, sync, stream>>

-----------------------------------------------------------------------------
(* vaEndPicture.  EndPicture builds the access unit and decides whether it    *)
(* starts a new stream: ra is codec_unit.random_access, cue stands for a new  *)
(* sequence or an idle gap.  A boundary drains the old session through LAST.  *)

NewStream(c, ra, cue) == ctx[c].started /\ ra /\ (ctx[c].eos \/ cue)

(* vpu_decode_flush_impl up to V4L2_DEC_CMD_STOP, for a session not yet at    *)
(* its end; next is where the drain loop runs.                                *)
StopSession(c, next) ==
    /\ ctx' = [ctx EXCEPT ![c].eos = TRUE]
    /\ dev' = [dev EXCEPT ![c].stop = TRUE]
    /\ pc' = [pc EXCEPT ![c] = next]

EndPicture(c, ra, cue) ==
    /\ MayCall(c) /\ cur[c].begun
    /\ ra => cur[c].field # 2
    /\ cur' = [cur EXCEPT ![c].begun = FALSE]
    /\ IF ~NewStream(c, ra, cue)
       THEN pc' = [pc EXCEPT ![c] = "prepare"] /\ UNCHANGED <<ctx, dev>>
       ELSE IF ctx[c].eos
            THEN /\ pc' = [pc EXCEPT ![c] = IF ctx[c].fatal THEN "idle" ELSE "restart"]
                 /\ UNCHANGED <<ctx, dev>>
            ELSE StopSession(c, "boundary")
    /\ UNCHANGED <<surf, resv, reg, pend, paff, sync, history>>

(* Nothing is submitted: the access unit cannot be built (no slices, too      *)
(* large), or STOP fails at a boundary.                                       *)
EndPictureFails(c) ==
    /\ MayCall(c) /\ cur[c].begun
    /\ \/ "build" \in Faults
       \/ "stop" \in Faults /\ NewStream(c, TRUE, TRUE) /\ ~ctx[c].eos
    /\ cur' = [cur EXCEPT ![c].begun = FALSE]
    /\ UNCHANGED <<surf, resv, reg, ctx, pend, paff, pc, dev, sync, history>>

(* Mutant of FlushDone: the drain ends when no frame is waiting.              *)
FlushDoneWhenEmpty(c) ==
    /\ pc[c] \in {"boundary", "destroy"}
    /\ \A i \in DOMAIN dev[c].cap : dev[c].cap[i].last
    /\ dev' = [dev EXCEPT ![c].cap = <<>>]
    /\ pc' = [pc EXCEPT ![c] = IF @ = "boundary" THEN "restart" ELSE "teardown"]
    /\ UNCHANGED <<surf, resv, reg, ctx, pend, paff, cur, sync, history>>

(* The drain loop of vpu_decode_flush_impl after V4L2_BUF_FLAG_LAST.          *)
FlushDone(c) ==
    /\ pc[c] \in {"boundary", "destroy"}
    /\ dev[c].cap # <<>> /\ Head(dev[c].cap).last
    /\ dev' = [dev EXCEPT ![c].cap = Tail(@)]
    /\ pc' = [pc EXCEPT ![c] = IF @ = "boundary" THEN "restart" ELSE "teardown"]
    /\ UNCHANGED <<surf, resv, reg, ctx, pend, paff, cur, sync, history>>

(* restart_decoder_session and the end of stream_boundary_restart: the old    *)
(* session is closed, its pictures are disowned, seq goes on and the display  *)
(* enters a new epoch.                                                        *)
Closed(c, seq) == [ctx[c] EXCEPT !.open = FALSE, !.started = FALSE, !.eos = FALSE,
                                 !.fatal = FALSE, !.seq = seq]
PairReset(c)   == [paff[c] EXCEPT !.second = FALSE, !.open = FALSE, !.ts = 0]

(* Mutant of Disowned: the abandoned pictures keep their fences.              *)
DisownedUnfinished(c) ==
    [s \in Surfaces |-> IF Live(s) /\ Abandoned(surf[s], c)
                        THEN [surf[s] EXCEPT !.queued = FALSE] ELSE surf[s]]

Disowned(c) ==
    [s \in Surfaces |->
        IF Live(s) /\ surf[s].owner = c
        THEN [Finished(surf[s]) EXCEPT
                !.queued = IF Abandoned(surf[s], c) THEN FALSE ELSE @]
        ELSE surf[s]]

(* Mutant of Restart: the session keeps what it holds.                        *)
RestartInPlace(c) ==
    /\ pc[c] = "restart"
    /\ surf' = Disowned(c)
    /\ resv' = Swept(c)
    /\ reg' = NextEpoch
    /\ ctx' = [ctx EXCEPT ![c] = [Closed(c, ctx[c].seq) EXCEPT !.open = TRUE]]
    /\ pend' = [pend EXCEPT ![c] = NoPending]
    /\ paff' = [paff EXCEPT ![c] = PairReset(c)]
    /\ dev' = [dev EXCEPT ![c].stop = FALSE, ![c].lastSent = FALSE]
    /\ stream' = [stream EXCEPT ![c] = @ + 1]
    /\ pc' = [pc EXCEPT ![c] = "prepare"]
    /\ UNCHANGED <<cur, sync, goal, pictures>>

Restart(c) ==
    /\ pc[c] = "restart"
    /\ surf' = Disowned(c)
    /\ resv' = Swept(c)
    /\ reg' = NextEpoch
    /\ ctx' = [ctx EXCEPT ![c] = Closed(c, ctx[c].seq)]
    /\ pend' = [pend EXCEPT ![c] = NoPending]
    /\ paff' = [paff EXCEPT ![c] = PairReset(c)]
    /\ dev' = [dev EXCEPT ![c] = NoSession]
    /\ stream' = [stream EXCEPT ![c] = @ + 1]
    /\ pc' = [pc EXCEPT ![c] = "prepare"]
    /\ UNCHANGED <<cur, sync, goal, pictures>>

(* ensure_decoder.  A session at its end (a drain that timed out) is replaced *)
(* by a fresh one; here seq starts again and nothing is disowned.  After a    *)
(* boundary the access unit is built again, and a failure to build it leaves  *)
(* the same state as a failure to open.                                       *)
OldSessionEnded(c) == ctx[c].open /\ ctx[c].eos

OpenSession(c) ==
    /\ pc[c] = "prepare"
    /\ ~ctx[c].open \/ ctx[c].eos
    /\ \E ok \in (IF "open" \in Faults THEN BOOLEAN ELSE {TRUE}) :
        /\ ctx' = [ctx EXCEPT ![c] =
                    [IF OldSessionEnded(c) THEN Closed(c, 0) ELSE @ EXCEPT !.open = ok]]
        /\ pc' = [pc EXCEPT ![c] = IF ok THEN @ ELSE "idle"]
    /\ dev' = [dev EXCEPT ![c] = NoSession]
    /\ IF OldSessionEnded(c)
       THEN /\ surf' = AllFinished(c)
            /\ resv' = Swept(c)
            /\ pend' = [pend EXCEPT ![c] = NoPending]
            /\ paff' = [paff EXCEPT ![c] = PairReset(c)]
       ELSE UNCHANGED <<surf, resv, pend, paff>>
    /\ UNCHANGED <<reg, cur, sync, history>>

(* The picture is mapped to its target before it is submitted: the surface    *)
(* is queued and fenced and the ring slot of seq points to it.  A second      *)
(* field keeps what the first one set up.  Fence tokens count the pictures    *)
(* of one context.                                                            *)
SlotOf(seq) == seq % RingSize
Timestamp(seq) == seq + 1000

Token(c) == ctx[c].seq + 1

ClaimTarget(c) ==
    /\ pc[c] = "prepare"
    /\ ctx[c].open /\ ~ctx[c].eos
    /\ pc' = [pc EXCEPT ![c] = "feed"]
    /\ IF paff[c].second
       THEN UNCHANGED <<surf, resv, pend>>
       ELSE /\ surf' = [s \in Surfaces |->
                         IF s = cur[c].target /\ Live(s)
                         THEN Claimed(surf[s], c, Token(c)) ELSE surf[s]]
            /\ resv' = IF Live(cur[c].target)
                       THEN Attached(c, cur[c].target, Token(c)) ELSE resv
            /\ pend' = [pend EXCEPT ![c].ring[SlotOf(ctx[c].seq)] =
                         [used |-> TRUE, seq |-> ctx[c].seq,
                          target |-> cur[c].target, gen |-> cur[c].gen]]
    /\ UNCHANGED <<reg, ctx, paff, cur, dev, sync, history>>

(* The access unit as the firmware receives it.                               *)
Unit(c) ==
    [ts    |-> IF paff[c].second THEN paff[c].ts ELSE Timestamp(ctx[c].seq),
     px    |-> [pic |-> cur[c].pic, ctx |-> c, stream |-> stream[c]],
     field |-> cur[c].field,
     poc   |-> cur[c].poc]

(* Mutant of InputFull: one access unit more than there are buffers.          *)
InputOverfull(c) == Len(dev[c].fw) > OutBuffers

InputFull(c) == Len(dev[c].fw) >= OutBuffers

(* Mutants of FifoAdded: the ring gives up an entry while it has room; the    *)
(* newest picture is taken first.                                             *)
FifoAddedEarly(c) ==
    LET f == pend[c].fifo
        e == [target |-> cur[c].target, gen |-> cur[c].gen]
    IN  Append(IF Len(f) < FifoSize - 1 THEN f ELSE Tail(f), e)
FifoAddedInFront(c) ==
    <<[target |-> cur[c].target, gen |-> cur[c].gen]>> \o pend[c].fifo

(* hevc_pending_add: a full ring drops its oldest entry.                      *)
FifoAdded(c) ==
    LET f == pend[c].fifo
        e == [target |-> cur[c].target, gen |-> cur[c].gen]
    IN  Append(IF Len(f) < FifoSize THEN f ELSE Tail(f), e)

PairTracked(c) ==
    [paff[c] EXCEPT
        !.open = cur[c].field # 0 /\ ~paff[c].second,
        !.ts   = IF cur[c].field # 0 /\ ~paff[c].second
                 THEN Timestamp(ctx[c].seq) ELSE @]

(* Mutant of NextSeq: the sequence number stays.                              *)
SameSeq(c) == ctx[c].seq

NextSeq(c) == IF paff[c].second THEN ctx[c].seq ELSE ctx[c].seq + 1

Feed(c) ==
    /\ pc[c] = "feed" /\ ~InputFull(c)
    /\ dev' = [dev EXCEPT ![c].fw = Append(@, Unit(c))]
    /\ pend' = IF HevcFifo THEN [pend EXCEPT ![c].fifo = FifoAdded(c)] ELSE pend
    /\ paff' = [paff EXCEPT ![c] = PairTracked(c)]
    /\ ctx' = [ctx EXCEPT ![c].started = TRUE,
                          ![c].seq = NextSeq(c)]
    /\ pc' = [pc EXCEPT ![c] = "drain"]
    /\ UNCHANGED <<surf, resv, reg, cur, sync, history>>

(* The submission is refused: QBUF fails, no OUTPUT buffer came back in time, *)
(* or the session has none and is not started.                                *)
SubmitFails(c) ==
    /\ pc[c] = "feed"
    /\ \/ "submit" \in Faults
       \/ InputFull(c) /\ ~ctx[c].started
    /\ pc' = [pc EXCEPT ![c] = "unwind"]
    /\ UNCHANGED <<surf, resv, reg, ctx, pend, paff, cur, dev, sync, history>>

(* The first access unit is queued but STREAMON, the source change event or   *)
(* the CAPTURE setup fails.                                                   *)
StartFails(c) ==
    /\ "start" \in Faults
    /\ pc[c] = "feed" /\ ~InputFull(c) /\ ~ctx[c].started
    /\ dev' = [dev EXCEPT ![c].fw = Append(@, Unit(c))]
    /\ pc' = [pc EXCEPT ![c] = "unwind"]
    /\ UNCHANGED <<surf, resv, reg, ctx, pend, paff, cur, sync, history>>

Unwind(c) ==
    /\ pc[c] = "unwind"
    /\ surf' = AllFinished(c)
    /\ resv' = Swept(c)
    /\ pc' = [pc EXCEPT ![c] = "idle"]
    /\ UNCHANGED <<reg, ctx, pend, paff, cur, dev, sync, history>>

(* drain_available found no more frames: EndPicture returns, unless the       *)
(* target was exported and must be ready first.                               *)
(* Mutant of MustWait: EndPicture also waits for the first field of a pair.   *)
MustWaitForFields(c) == Live(cur[c].target) /\ surf[cur[c].target].exported

MustWait(c) ==
    /\ Live(cur[c].target) /\ surf[cur[c].target].exported
    /\ ~(cur[c].field # 0 /\ ~paff[c].second)

Finish(c) == paff' = [paff EXCEPT ![c].last = cur[c].field # 0]

(* Mutant of DrainDone: EndPicture signals every fence as it returns.         *)
DrainDoneSignals(c) ==
    /\ pc[c] = "drain" /\ ~ctx[c].fatal
    /\ dev[c].cap = <<>>
    /\ surf' = AllFinished(c)
    /\ resv' = Swept(c)
    /\ IF MustWait(c)
       THEN pc' = [pc EXCEPT ![c] = "wait"] /\ UNCHANGED paff
       ELSE pc' = [pc EXCEPT ![c] = "idle"] /\ Finish(c)
    /\ UNCHANGED <<reg, ctx, pend, cur, dev, sync, history>>

DrainDone(c) ==
    /\ pc[c] = "drain" /\ ~ctx[c].fatal
    /\ dev[c].cap = <<>>
    /\ IF MustWait(c)
       THEN pc' = [pc EXCEPT ![c] = "wait"] /\ UNCHANGED paff
       ELSE pc' = [pc EXCEPT ![c] = "idle"] /\ Finish(c)
    /\ UNCHANGED <<surf, resv, reg, ctx, pend, cur, dev, sync, history>>

WaitDone(c) ==
    /\ pc[c] = "wait"
    /\ dev[c].cap = <<>>
    /\ Live(cur[c].target) /\ surf[cur[c].target].decoded
    /\ pc' = [pc EXCEPT ![c] = "idle"]
    /\ Finish(c)
    /\ UNCHANGED <<surf, resv, reg, ctx, pend, cur, dev, sync, history>>

-----------------------------------------------------------------------------
(* assign_frame: one dequeued frame f and its surface.                        *)

FrameSeq(f) == f.ts - 1000

(* -EIO: the FIFO is empty, or the frame carries no timestamp.                *)
Unassignable(c, f) == IF HevcFifo THEN pend[c].fifo = <<>> ELSE f.ts = 0

Matching(c, f) ==
    LET slot == pend[c].ring[SlotOf(FrameSeq(f))]
    IN  slot.used /\ slot.seq = FrameSeq(f)

MappedTo(c, f) ==
    IF HevcFifo THEN Head(pend[c].fifo)
    ELSE LET slot == pend[c].ring[SlotOf(FrameSeq(f))]
         IN  [target |-> IF Matching(c, f) THEN slot.target ELSE None,
              gen    |-> slot.gen]

(* Mutant of Lands: late frames are not told from current ones.               *)
LandsOnAnyGeneration(c, f) == ~Unassignable(c, f) /\ Live(MappedTo(c, f).target)

(* The surface is still there and has not been begun for another picture.     *)
Lands(c, f) ==
    /\ ~Unassignable(c, f)
    /\ Live(MappedTo(c, f).target)
    /\ surf[MappedTo(c, f).target].gen = MappedTo(c, f).gen

(* The mapping is used up whatever becomes of the frame.                      *)
MappingTaken(c, f) ==
    IF Unassignable(c, f) THEN pend[c]
    ELSE IF HevcFifo THEN [pend[c] EXCEPT !.fifo = Tail(@)]
    ELSE IF Matching(c, f)
         THEN [pend[c] EXCEPT !.ring[SlotOf(FrameSeq(f))].used = FALSE]
         ELSE pend[c]

(* A failed copy loses the frame, an oversized one also ends the write, and a *)
(* failure to signal the fence or to requeue the CAPTURE buffer comes after   *)
(* the pixels were copied; none of them marks the surface decoded.  An empty  *)
(* frame marks it decoded without touching its pixels.                        *)
Assign(c, f, copied) ==
    LET s  == MappedTo(c, f).target
        px == IF f.last THEN surf[s].px ELSE f.px
    IN  /\ pend' = [pend EXCEPT ![c] = MappingTaken(c, f)]
        /\ IF ~Lands(c, f) THEN UNCHANGED <<surf, resv, reg, goal>>
           ELSE IF copied
                THEN /\ surf' = [surf EXCEPT ![s] = Landed(@, c, px)]
                     /\ resv' = Signalled(c, {surf[s].fence})
                     /\ reg' = LastFrameIs(s)
                     /\ goal' = [goal EXCEPT ![s].filled = FALSE]
                ELSE /\ \E x \in {surf[s], Finished(surf[s]),
                              [Finished(surf[s]) EXCEPT !.px = px]} :
                           /\ surf' = [surf EXCEPT ![s] = x]
                           /\ \/ UNCHANGED resv
                              \/ /\ x.fence # surf[s].fence
                                 /\ resv' = Signalled(c, {surf[s].fence})
                     /\ UNCHANGED <<reg, goal>>

-----------------------------------------------------------------------------
(* The loops that dequeue frames: drain_available, wait_surface_ready,        *)
(* vpu_decode_flush_impl and the last loop of vpu_decode_sync_impl.           *)

(* Where a call goes when a step of its loop fails.                           *)
AfterError(p) == CASE p = "destroy" -> "teardown"
                   [] p = "feed"    -> "unwind"
                   [] OTHER         -> "idle"
Failing(c) ==
    /\ pc' = [pc EXCEPT ![c] = AfterError(@)]
    /\ sync' = IF pc[c] = "sync" THEN NoSync ELSE sync

(* Mutant of Looping: vaSyncSurface waits without taking frames.              *)
LoopingOutsideSync(c) ==
    \/ pc[c] = "feed" /\ InputFull(c) /\ ctx[c].started
    \/ pc[c] \in {"drain", "wait", "boundary", "destroy"}

(* drain_available takes nothing once EOS was sent; the final loop of         *)
(* vpu_decode_sync_impl and the flush do.  The flush skips empty frames.      *)
Looping(c) ==
    \/ pc[c] = "feed" /\ InputFull(c) /\ ctx[c].started
    \/ pc[c] \in {"drain", "wait", "sync", "boundary", "destroy"}

TakeFrame(c) ==
    /\ Looping(c)
    /\ dev[c].cap # <<>>
    /\ LET f == Head(dev[c].cap)
       IN  /\ pc[c] \in {"boundary", "destroy"} => ~f.last
           /\ pc[c] \notin {"boundary", "destroy", "sync"} => ~ctx[c].fatal
           /\ pc[c] = "sync" /\ ctx[c].eos => ~surf[sync.s].decoded
           /\ \E copied \in (IF "copy" \in Faults THEN BOOLEAN ELSE {TRUE}) :
                /\ Assign(c, f, copied)
                /\ IF Unassignable(c, f) \/ (Lands(c, f) /\ ~copied)
                   THEN ctx' = [ctx EXCEPT ![c].fatal = TRUE] /\ Failing(c)
                   ELSE UNCHANGED <<ctx, pc, sync>>
    /\ dev' = [dev EXCEPT ![c].cap = Tail(@)]
    /\ UNCHANGED <<paff, cur, stream, pictures>>

(* poll, DQEVENT or DQBUF fails, or an earlier call left a fatal error.  Not  *)
(* every caller records the error as fatal.                                   *)
CallFails(c) ==
    /\ Looping(c)
    /\ \/ "device" \in Faults \/ ~ctx[c].open
       \/ ctx[c].fatal /\ pc[c] \in {"feed", "drain", "wait"}
    /\ \E fatal \in {TRUE, ctx[c].fatal} : ctx' = [ctx EXCEPT ![c].fatal = fatal]
    /\ Failing(c)
    /\ UNCHANGED <<surf, resv, reg, pend, paff, cur, dev, history>>

(* Two seconds without the frame the loop waits for.                          *)
TimesOut(c) ==
    /\ \/ "timeout" \in Faults /\ pc[c] \in {"wait", "sync"}
       \/ "drain" \in Faults /\ pc[c] \in {"boundary", "destroy"}
    /\ dev[c].cap = <<>>
    /\ pc[c] = "wait" => ~(Live(cur[c].target) /\ surf[cur[c].target].decoded)
    /\ pc[c] = "sync" => ~surf[sync.s].decoded
    /\ Failing(c)
    /\ UNCHANGED <<surf, resv, reg, ctx, pend, paff, cur, dev, history>>

-----------------------------------------------------------------------------
(* vaSyncSurface: vpu_surfaces_sync looks at the registry without a lock,     *)
(* then vpu_decode_sync takes the mutex of the owner it found.  A client does *)
(* not wait for a frame whose second field it has yet to send, nor for a      *)
(* surface of a context it is destroying.                                     *)

HalfSubmitted(s) ==
    \E c \in Contexts :
        LET fw == dev[c].fw
        IN  fw # <<>> /\ fw[Len(fw)].field = 1 /\ fw[Len(fw)].px.pic = goal[s].pic

SyncSurface(s) ==
    /\ MaySync /\ Live(s) /\ ~HalfSubmitted(s)
    /\ surf[s].owner # None => pc[surf[s].owner] \notin {"destroy", "teardown"}
    /\ IF Stale(s)
       THEN /\ sync' = [st |-> "filling", s |-> s, c |-> None]
            /\ surf' = [surf EXCEPT ![s].px = FillPixels(s)]
            /\ goal' = [goal EXCEPT ![s].filled = TRUE]
       ELSE /\ sync' = IF surf[s].queued /\ ~surf[s].decoded /\ surf[s].owner # None
                       THEN [st |-> "blocked", s |-> s, c |-> surf[s].owner]
                       ELSE [st |-> "returned", s |-> s, c |-> None]
            /\ UNCHANGED <<surf, goal>>
    /\ UNCHANGED <<resv, reg, ctx, pend, paff, cur, pc, dev, stream, pictures>>

SyncFilled ==
    /\ sync.st = "filling"
    /\ surf' = [surf EXCEPT ![sync.s] = Backfilled(@)]
    /\ sync' = [sync EXCEPT !.st = "returned"]
    /\ UNCHANGED <<resv, reg, ctx, pend, paff, cur, pc, dev, history>>

(* The mutex is free: vpu_decode_sync_impl up to its first wait.              *)
SyncEnter(c) ==
    /\ sync.st = "blocked" /\ sync.c = c
    /\ pc[c] = "idle"
    /\ IF ctx[c].fatal
       THEN sync' = NoSync /\ UNCHANGED pc
       ELSE IF ~surf[sync.s].queued
            THEN sync' = [sync EXCEPT !.st = "returned"] /\ UNCHANGED pc
            ELSE /\ sync' = [sync EXCEPT !.st = "inside"]
                 /\ pc' = [pc EXCEPT ![c] = "sync"]
    /\ UNCHANGED <<surf, resv, reg, ctx, pend, paff, cur, dev, history>>

SyncReturn(c) ==
    /\ pc[c] = "sync"
    /\ surf[sync.s].decoded
    /\ ctx[c].eos \/ dev[c].cap = <<>>
    /\ sync' = [sync EXCEPT !.st = "returned"]
    /\ pc' = [pc EXCEPT ![c] = "idle"]
    /\ UNCHANGED <<surf, resv, reg, ctx, pend, paff, cur, dev, history>>

-----------------------------------------------------------------------------
(* vaDestroyContext: accepted work is drained first, then everything c still  *)
(* owes is finished, the display enters a new epoch and the surfaces of c     *)
(* are left without an owner.                                                 *)

(* Mutant of Drainable: a context is destroyed without the final drain.       *)
NeverDrainable(c) == FALSE

Drainable(c) == ctx[c].started /\ ~ctx[c].eos /\ ~ctx[c].fatal

DestroyContext(c) ==
    /\ MayCall(c)
    /\ ~SyncIdle => sync.c # c /\ surf[sync.s].owner # c
    /\ cur' = [cur EXCEPT ![c] = NoPicture]
    /\ \/ Drainable(c) /\ StopSession(c, "destroy")
       \/ /\ Drainable(c) => "stop" \in Faults
          /\ pc' = [pc EXCEPT ![c] = "teardown"]
          /\ UNCHANGED <<ctx, dev>>
    /\ UNCHANGED <<surf, resv, reg, pend, paff, sync, history>>

(* Mutant of Detached: the surfaces keep pointing to the freed context.       *)
StillAttached(c) == AllFinished(c)

Detached(c) ==
    [s \in Surfaces |->
        IF Live(s) /\ surf[s].owner = c
        THEN [(IF ctx[c].open THEN Finished(surf[s]) ELSE surf[s])
                EXCEPT !.owner = None]
        ELSE surf[s]]

Teardown(c) ==
    /\ pc[c] = "teardown"
    /\ surf' = Detached(c)
    /\ resv' = IF ctx[c].open THEN Swept(c) ELSE resv
    /\ reg' = NextEpoch
    /\ ctx' = [ctx EXCEPT ![c] = [NoContext EXCEPT !.life = "gone"]]
    /\ pend' = [pend EXCEPT ![c] = NoPending]
    /\ paff' = [paff EXCEPT ![c] = NoPair]
    /\ dev' = [dev EXCEPT ![c] = NoSession]
    /\ pc' = [pc EXCEPT ![c] = "idle"]
    /\ UNCHANGED <<cur, sync, history>>

-----------------------------------------------------------------------------
(* The firmware (external).  It decodes access units in order, holds a first  *)
(* field until its pair or the next picture arrives, stalls while no CAPTURE  *)
(* buffer is free, and answers STOP with an empty LAST frame.  In display     *)
(* order it emits the smallest picture order count it holds.                  *)

Removed(seq, i, n) == SubSeq(seq, 1, i - 1) \o SubSeq(seq, i + n, Len(seq))

NextOut(c, i) ==
    LET fw == dev[c].fw
    IN  IF DisplayOrder
        THEN /\ Len(fw) > 1 \/ dev[c].stop
             /\ \A j \in 1 .. Len(fw) : /\ fw[i].poc <= fw[j].poc
                                        /\ j < i => fw[i].poc < fw[j].poc
        ELSE i = 1 /\ (fw[1].field = 1 => Len(fw) > 1 \/ dev[c].stop)

Fields(c, i) ==
    LET fw == dev[c].fw
    IN  IF fw[i].field = 1 /\ i < Len(fw) /\ fw[i + 1].field = 2 THEN 2 ELSE 1

Running(c) == ctx[c].started /\ Len(dev[c].cap) < CapBuffers

FwDecode(c) ==
    /\ Running(c)
    /\ \E i \in 1 .. Len(dev[c].fw) :
        /\ NextOut(c, i)
        /\ LET u == dev[c].fw[i]
           IN  dev' = [dev EXCEPT
                    ![c].fw  = Removed(@, i, Fields(c, i)),
                    ![c].cap = Append(@, [ts |-> u.ts, px |-> u.px, last |-> FALSE])]
    /\ UNCHANGED <<surf, resv, reg, ctx, pend, paff, cur, pc, sync, history>>

FwDrop(c) ==
    /\ "drop" \in Faults
    /\ Running(c)
    /\ \E i \in 1 .. Len(dev[c].fw) :
        /\ NextOut(c, i)
        /\ dev' = [dev EXCEPT ![c].fw = Removed(@, i, Fields(c, i))]
    /\ UNCHANGED <<surf, resv, reg, ctx, pend, paff, cur, pc, sync, history>>

FwLast(c) ==
    /\ Running(c)
    /\ dev[c].stop /\ ~dev[c].lastSent /\ dev[c].fw = <<>>
    /\ dev' = [dev EXCEPT ![c].cap = Append(@, LastMarker), ![c].lastSent = TRUE]
    /\ UNCHANGED <<surf, resv, reg, ctx, pend, paff, cur, pc, sync, history>>

-----------------------------------------------------------------------------
Firmware(c) == FwDecode(c) \/ FwDrop(c) \/ FwLast(c)

(* The steps of a call after its entry, up to its return.                     *)
CallStep(c) ==
    \/ FlushDone(c) \/ Restart(c) \/ OpenSession(c) \/ ClaimTarget(c) \/ Feed(c)
    \/ SubmitFails(c) \/ StartFails(c) \/ Unwind(c) \/ DrainDone(c) \/ WaitDone(c)
    \/ TakeFrame(c) \/ CallFails(c) \/ TimesOut(c) \/ SyncReturn(c) \/ Teardown(c)

Client(c) ==
    \/ CreateContext(c)
    \/ \E s \in Surfaces, field \in 0 .. 2, poc \in Pocs : BeginPicture(c, s, field, poc)
    \/ \E ra, cue \in BOOLEAN : EndPicture(c, ra, cue)
    \/ EndPictureFails(c)
    \/ DestroyContext(c)

SurfaceCall(s) ==
    AllocSurface(s) \/ ExportSurface(s) \/ FreeSurface(s) \/ SyncSurface(s)

SyncStep == SyncFilled \/ \E c \in Contexts : SyncEnter(c)

Next ==
    \/ \E c \in Contexts : Client(c) \/ CallStep(c) \/ Firmware(c)
    \/ \E s \in Surfaces : SurfaceCall(s)
    \/ SyncStep

Spec == Init /\ [][Next]_vars

=============================================================================
