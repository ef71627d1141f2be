----------------------------- MODULE VkCapture ------------------------------
(* The GPU copies of one H.264 or HEVC decode context                          *)
(* (src/src/decode/vk_capture.c) on the copy engine of its display             *)
(* (src/src/vk_copy.c) and the V4L2 transport: frames stay dequeued while a    *)
(* job copies them, and are requeued, and their surfaces reported decoded,     *)
(* when a later call reaps the job.                                            *)
(*                                                                            *)
(* The client makes one call at a time; call.pc is where it is.  The GPU and  *)
(* the decoder move between its steps.                                        *)
EXTENDS V4l2Transport, FiniteSets

CONSTANTS
    Surfaces,       \* render targets
    NoSurface,
    MaxPending,     \* slots of pending_copies (VPU_MAX_PENDING_COPIES)
    MaxJobs,        \* jobs of the engine (VPU_VK_MAX_JOBS)
    MaxImports,     \* entries of the import cache (VPU_VK_MAX_BUFFERS)
    MaxPictures,    \* bound on the pictures begun
    MaxSessions,    \* bound on the firmware sessions opened
    CopyFaults,     \* what may fail: "submit", "timeout"
    EarlyExport     \* the client exports surfaces still being decoded

ASSUME CaptureAssumption ==
    /\ \E size \in Layouts : Layouts = {size}   \* surfaces have the size of the stream
    /\ NoSurface \notin Surfaces
    /\ MaxPending \in Nat \ {0} /\ MaxJobs \in Nat \ {0} /\ MaxImports \in Nat
    /\ MaxPictures \in Nat /\ MaxSessions \in Nat
    /\ CopyFaults \subseteq {"submit", "timeout"} /\ EarlyExport \in BOOLEAN

VARIABLES
    srf,        \* struct vpu_surface, and the picture its backing shows
    mapped,     \* target_ring: the pictures submitted and not yet assigned
    pend,       \* ctx->pending_copies
    jobs,       \* copy->jobs: what each job reads and writes
    imports,    \* copy->buffers: the import cache, by key
    vk,         \* vk_copy_failed, vk_capture_generation and vk_capture_keys
    sess,       \* the context and its firmware session
    call,       \* the call in progress
    serial,     \* g_buffer_serial
    pics,       \* history: pictures begun (the bound)
    opened      \* history: sessions opened (the bound)

engine  == <<pend, jobs, imports, vk, serial>>
context == <<mapped, sess, pics, opened>>
vars    == <<transport, engine, context, srf, call>>

Slots == 0 .. MaxPending - 1
Jobs  == 0 .. MaxJobs - 1

(* What a surface can show: neutral black, a picture, or pixels of two.       *)
Black == 0
Torn  == MaxPictures + 1

(* Memory a job can read or write: a CAPTURE buffer of one ring of one        *)
(* session, or (session 0) the surface backing with this serial.              *)
Memory     == [session : Nat, gen : Nat, index : Nat]
Backing(n) == [session |-> 0, gen |-> n, index |-> 0]
Buffer(f)  == [session |-> opened, gen |-> f.gen, index |-> f.index]

SurfaceRecord ==
    [alive : BOOLEAN, gen : Nat, queued : BOOLEAN, decoded : BOOLEAN,
     exported : BOOLEAN, init : BOOLEAN, fence : 0 .. MaxPictures,
     owned : BOOLEAN, serial : Nat, pic : 0 .. MaxPictures, px : 0 .. Torn]
Mapping == [pic : 1 .. MaxPictures, s : Surfaces, gen : Nat]
PendingRecord ==
    [used : BOOLEAN, job : Jobs, s : Surfaces \cup {NoSurface}, gen : Nat,
     token : 0 .. MaxPictures, index : CapSlots]
JobRecord ==
    [inUse : BOOLEAN, running : BOOLEAN, from : Memory, to : Memory,
     keys : SUBSET Nat, pic : 0 .. Torn]
Import   == [key : Nat, mem : Memory]
VkRecord == [failed : BOOLEAN, gen : Nat, keys : [CapSlots -> Nat]]
CallRecord ==
    [pc : {"idle", "submit", "feed", "start", "starting", "drain", "poll", "events",
           "take", "assign", "check", "capture", "restart", "teardown"},
     op : {"none", "feed", "end", "wait", "ready", "boundary", "destroy"},
     s : Surfaces \cup {NoSurface}, frame : Frame, capture : BOOLEAN]

NoFrame  == [index |-> 0, pic |-> 0, last |-> FALSE, gen |-> 0,
             layout |-> NoLayout, made |-> NoLayout]
NoCopy   == [used |-> FALSE, job |-> 0, s |-> NoSurface, gen |-> 0, token |-> 0,
             index |-> 0]
NoJob    == [inUse |-> FALSE, running |-> FALSE, from |-> Backing(0),
             to |-> Backing(0), keys |-> {}, pic |-> 0]
FreshVk  == [failed |-> FALSE, gen |-> 0, keys |-> [i \in CapSlots |-> 0]]
NoCall   == [pc |-> "idle", op |-> "none", s |-> NoSurface, frame |-> NoFrame,
             capture |-> FALSE]

(* The record vpu_surfaces_alloc writes; serial 0 is no surface yet.          *)
NewSurface(n) ==
    [alive |-> n # 0, gen |-> 0, queued |-> FALSE, decoded |-> FALSE,
     exported |-> FALSE, init |-> FALSE, fence |-> 0, owned |-> FALSE,
     serial |-> n, pic |-> 0, px |-> Black]

FreedSurface(n) == [NewSurface(n) EXCEPT !.alive = FALSE]

TypeOK ==
    /\ TransportTypeOK
    /\ srf \in [Surfaces -> SurfaceRecord]
    /\ mapped \subseteq Mapping
    /\ pend \in [Slots -> PendingRecord]
    /\ jobs \in [Jobs -> JobRecord]
    /\ imports \subseteq Import /\ Cardinality(imports) <= MaxImports
    /\ vk \in VkRecord
    /\ sess \in {"gone", "none", "open", "live", "eos", "dead"}
    /\ call \in CallRecord
    /\ serial \in Nat
    /\ pics \in 0 .. MaxPictures
    /\ opened \in 0 .. MaxSessions

Init ==
    /\ TransportInit
    /\ srf = [s \in Surfaces |-> NewSurface(0)]
    /\ mapped = {}
    /\ pend = [k \in Slots |-> NoCopy]
    /\ jobs = [j \in Jobs |-> NoJob]
    /\ imports = {}
    /\ vk = FreshVk
    /\ sess = "none"
    /\ call = NoCall
    /\ serial = 0 /\ pics = 0 /\ opened = 0

May(fault) == fault \in CopyFaults

-----------------------------------------------------------------------------
(* Pending copies                                                             *)

UsedSlots  == {k \in Slots : pend[k].used}
SlotsOf(s) == {k \in UsedSlots : pend[k].s = s}

(* Mutant of Done: the answer of job_wait is not looked at.                   *)
DoneUnchecked(K) == TRUE

Done(K) == \A k \in K : ~jobs[pend[k].job].running
DoneSlots  == {k \in UsedSlots : Done({k})}

(* surface_finish_write and surfaces_mark_decoded.                            *)
Landed(x) == [x EXCEPT !.decoded = TRUE, !.queued = TRUE, !.owned = TRUE,
                       !.init = TRUE, !.fence = 0]

(* finish_vk_copy of every slot of K, whose jobs are done: the surface is     *)
(* decoded if it is still the one the copy was made for, the frame goes back  *)
(* and the job is free.                                                       *)
StillFor(k) ==
    LET x == srf[pend[k].s]
    IN  x.alive /\ x.gen = pend[k].gen /\ x.fence = pend[k].token
Finished(K) ==
    [s \in Surfaces |->
        IF \E k \in K : pend[k].s = s /\ StillFor(k) THEN Landed(srf[s]) ELSE srf[s]]
(* vpu_vk_copy_job_release frees the slot; a job still running would run on.  *)
Released(job) == IF job.running THEN [job EXCEPT !.inUse = FALSE] ELSE NoJob
Release(K) ==
    /\ pend' = [k \in Slots |-> IF k \in K THEN NoCopy ELSE pend[k]]
    /\ jobs' = [j \in Jobs |->
                  IF \E k \in K : pend[k].job = j THEN Released(jobs[j]) ELSE jobs[j]]
FinishCopies(K) ==
    /\ Done(K)
    /\ Release(K)
    /\ RequeueFrames({pend[k].index : k \in K})

(* vpu_vk_copy_forget, and forget_vk_capture_buffers.                         *)
Forgotten(keys) == {e \in imports : e.key \notin keys}
CaptureKeys     == {vk.keys[i] : i \in CapSlots}

(* import_buffer: an entry with the key is taken as it is.                    *)
Imported(cache, key, mem) ==
    IF \E e \in cache : e.key = key THEN cache ELSE cache \cup {[key |-> key, mem |-> mem]}
MemoryAt(cache, key) == (CHOOSE e \in cache : e.key = key).mem

-----------------------------------------------------------------------------
(* The call in progress                                                       *)

At(where)      == call.pc = where
Idle           == At("idle")
Continue(next) == call' = [call EXCEPT !.pc = next, !.capture = FALSE]
Return         == call' = NoCall
Flushing       == call.op \in {"boundary", "destroy"}

(* Where a call goes on when drain_available returns.                         *)
AfterDrain ==
    \/ call.op = "feed" /\ Continue("feed")
    \/ call.op = "wait" /\ Continue("check")
    \/ /\ call.op = "end"
       /\ IF srf[call.s].exported
          THEN call' = [call EXCEPT !.pc = "drain", !.op = "wait"] ELSE Return
(* Where its loop goes on after a frame.                                      *)
AfterFrame ==
    call' = [call EXCEPT !.pc = IF Flushing THEN "capture" ELSE "drain", !.frame = NoFrame]

-----------------------------------------------------------------------------
(* The client, which is external, and its calls                               *)

AllocSurface(s) ==
    /\ Idle /\ srf[s].serial = 0
    /\ serial' = serial + 1
    /\ srf' = [srf EXCEPT ![s] = NewSurface(serial + 1)]
    /\ UNCHANGED <<transport, context, pend, jobs, imports, vk, call>>

(* vpu_surfaces_export: a backing nothing was decoded into is filled black.   *)
ExportSurface(s) ==
    /\ Idle /\ srf[s].alive /\ ~srf[s].exported
    /\ EarlyExport \/ ~srf[s].queued \/ srf[s].decoded
    /\ srf' = [srf EXCEPT ![s].exported = TRUE, ![s].init = TRUE,
                          ![s].px = IF srf[s].init THEN @ ELSE Black]
    /\ UNCHANGED <<transport, context, engine, call>>

(* Mutant of FreeSurface: a pending copy is not waited for.                   *)
FreeSurfaceAtOnce(s) ==
    /\ Idle /\ srf[s].alive
    /\ srf' = [srf EXCEPT ![s] = FreedSurface(srf[s].serial)]
    /\ UNCHANGED <<transport, engine, context, call>>

(* vpu_surfaces_free: only a surface with an owner is waited for and its      *)
(* import forgotten.                                                          *)
FreeSurface(s) ==
    /\ Idle /\ srf[s].alive
    /\ FinishCopies(IF srf[s].owned THEN SlotsOf(s) ELSE {})
    /\ srf' = [srf EXCEPT ![s] = FreedSurface(srf[s].serial)]
    /\ imports' = IF srf[s].owned THEN Forgotten({srf[s].serial}) ELSE imports
    /\ UNCHANGED <<context, vk, serial, call>>

CreateContext ==
    /\ Idle /\ sess = "gone"
    /\ sess' = "none"
    /\ UNCHANGED <<transport, engine, mapped, pics, opened, srf, call>>

(* Mutant of BeginPicture: an earlier copy to the target is not waited for.   *)
BeginPictureAtOnce(s) ==
    /\ Idle /\ srf[s].alive /\ sess \in {"none", "live", "eos"}
    /\ pics < MaxPictures
    /\ pics' = pics + 1
    /\ srf' = [srf EXCEPT ![s] = [@ EXCEPT
                  !.gen = @ + 1, !.decoded = FALSE, !.queued = FALSE, !.pic = pics + 1]]
    /\ call' = [NoCall EXCEPT !.pc = "submit", !.op = "end", !.s = s]
    /\ UNCHANGED <<transport, mapped, sess, opened, engine>>

(* vpu_decode_begin, and the client goes on to vaEndPicture.                  *)
BeginPicture(s) ==
    /\ Idle /\ srf[s].alive /\ sess \in {"none", "live", "eos"}
    /\ pics < MaxPictures
    /\ FinishCopies(SlotsOf(s))
    /\ pics' = pics + 1
    /\ srf' = [srf EXCEPT ![s] = [Finished(SlotsOf(s))[s] EXCEPT
                  !.gen = @ + 1, !.decoded = FALSE, !.queued = FALSE, !.pic = pics + 1]]
    /\ call' = [NoCall EXCEPT !.pc = "submit", !.op = "end", !.s = s]
    /\ UNCHANGED <<mapped, sess, opened, imports, vk, serial>>

(* vpu_decode_sync of a picture under way: wait_surface_ready, or the loop of *)
(* vpu_decode_sync_impl after an EOS.                                         *)
SyncSurface(s) ==
    /\ Idle /\ srf[s].alive /\ srf[s].owned /\ srf[s].queued /\ ~srf[s].decoded
    /\ sess \in {"live", "eos"}
    /\ call' = [NoCall EXCEPT !.pc = "drain", !.s = s,
                              !.op = IF sess = "live" THEN "wait" ELSE "ready"]
    /\ UNCHANGED <<transport, engine, context, srf>>

(* vpu_decode_destroy: a final flush if the session can give more.            *)
DestroyContext ==
    /\ Idle /\ sess # "gone"
    /\ \/ /\ sess = "live"
          /\ StopDecoder
          /\ sess' = "eos"
          /\ call' = [NoCall EXCEPT !.pc = "capture", !.op = "destroy"]
       \/ /\ sess # "live"
          /\ call' = [NoCall EXCEPT !.pc = "teardown", !.op = "destroy"]
          /\ UNCHANGED <<transport, sess>>
    /\ UNCHANGED <<engine, mapped, pics, opened, srf>>

-----------------------------------------------------------------------------
(* Sessions: finish_pending_writes, forget_vk_capture_buffers, close, reset.  *)

Settled(s) ==
    LET x == Finished(UsedSlots)[s]
    IN  IF x.owned THEN [x EXCEPT !.fence = 0] ELSE x

(* Mutants of CloseSession: imports forgotten with copies running; not at all. *)
CloseSessionUnreaped ==
    /\ imports' = Forgotten(CaptureKeys)
    /\ vk' = FreshVk
    /\ mapped' = {}
    /\ CloseDevice
    /\ UNCHANGED <<pend, jobs, serial, pics, opened>>
CloseSessionKeepsKeys ==
    /\ Done(UsedSlots) /\ Release(UsedSlots)
    /\ vk' = FreshVk
    /\ mapped' = {}
    /\ CloseDevice
    /\ UNCHANGED <<imports, serial, pics, opened>>

CloseSession ==
    /\ Done(UsedSlots) /\ Release(UsedSlots)
    /\ imports' = Forgotten(CaptureKeys)
    /\ vk' = FreshVk
    /\ mapped' = {}
    /\ CloseDevice
    /\ UNCHANGED <<serial, pics, opened>>

(* restart_decoder_session also disowns what it did not finish; an EOS found  *)
(* by ensure_decoder does not.                                                *)
Reopen(disown) ==
    /\ CloseSession
    /\ sess' = "none"
    /\ srf' = [s \in Surfaces |->
                 [Settled(s) EXCEPT !.queued = @ /\ ~(disown /\ Settled(s).owned
                                                     /\ ~Settled(s).decoded)]]
    /\ Continue("submit")
Restart == At("restart") /\ Reopen(TRUE)
ReopenAfterEos ==
    At("submit") /\ sess = "eos" /\ opened < MaxSessions /\ \E d \in BOOLEAN : Reopen(d)

Teardown ==
    /\ At("teardown")
    /\ CloseSession
    /\ sess' = "gone"
    /\ srf' = [s \in Surfaces |-> [Settled(s) EXCEPT !.owned = FALSE]]
    /\ Return

-----------------------------------------------------------------------------
(* vaEndPicture                                                               *)

(* stream_boundary_restart: STOP, then the flush below.                       *)
Boundary ==
    /\ At("submit") /\ sess = "live" /\ opened < MaxSessions
    /\ StopDecoder
    /\ sess' = "eos"
    /\ call' = [call EXCEPT !.pc = "capture", !.op = "boundary"]
    /\ UNCHANGED <<engine, mapped, pics, opened, srf>>

OpenSession ==
    /\ At("submit") /\ sess = "none" /\ opened < MaxSessions
    /\ OpenDevice
    /\ sess' = "open"
    /\ opened' = opened + 1
    /\ UNCHANGED <<engine, mapped, pics, srf, call>>

(* The target is claimed, fenced and mapped.                                  *)
ClaimTarget ==
    /\ At("submit") /\ sess \in {"open", "live"}
    /\ LET x == srf[call.s]
       IN  /\ srf' = [srf EXCEPT ![call.s] =
                        [x EXCEPT !.queued = TRUE, !.owned = TRUE, !.fence = x.pic]]
           /\ mapped' = mapped \cup {[pic |-> x.pic, s |-> call.s, gen |-> x.gen]}
    /\ Continue("feed")
    /\ UNCHANGED <<transport, engine, sess, pics, opened>>

FeedUnit ==
    /\ At("feed")
    /\ \E size \in Layouts : Feed(srf[call.s].pic, size)
    /\ call' = [call EXCEPT !.op = "end",
                            !.pc = IF sess = "open" THEN "start" ELSE "drain"]
    /\ UNCHANGED <<engine, context, srf>>
(* No OUTPUT buffer: drain_available, and try again.                          *)
InputFull ==
    /\ At("feed") /\ ~CanFeed
    /\ call' = [call EXCEPT !.pc = "drain", !.op = "feed"]
    /\ UNCHANGED <<transport, engine, context, srf>>

StartSession == At("start") /\ StartOutput /\ Continue("starting")
                /\ UNCHANGED <<engine, context, srf>>
SessionStarted ==
    /\ At("starting") /\ StartReady /\ StartCapture
    /\ sess' = "live"
    /\ Continue("drain")
    /\ UNCHANGED <<engine, mapped, pics, opened, srf>>

-----------------------------------------------------------------------------
(* The loops                                                                  *)

(* reap_vk_copies(ctx, 0) of drain_available; after an EOS it ends there, and *)
(* vpu_decode_surface_ready looks at the surface.                             *)
Reap ==
    /\ At("drain")
    /\ FinishCopies(DoneSlots)
    /\ srf' = Finished(DoneSlots)
    /\ IF call.op # "ready" THEN Continue("poll")
       ELSE IF srf'[call.s].decoded THEN Return ELSE Continue("capture")
    /\ UNCHANGED <<context, imports, vk, serial>>

PollDevice ==
    /\ UNCHANGED <<engine, context, srf>>
    /\ \/ At("poll") /\ DeviceReady /\ Poll
          /\ call' = [call EXCEPT !.pc = "events", !.capture = FALSE]
       \/ At("poll") /\ ~DeviceReady /\ AfterDrain /\ UNCHANGED transport
       \/ At("capture") /\ CaptureReady /\ Poll
          /\ call' = [call EXCEPT !.pc = "events", !.capture = TRUE]
       \/ At("capture") /\ ~CaptureReady /\ call.op = "wait"
          /\ Continue("drain") /\ UNCHANGED transport
Events ==
    /\ At("events") /\ HandleEvents
    /\ call' = [call EXCEPT !.pc = "take"]
    /\ UNCHANGED <<engine, context, srf>>

(* LAST ends a flush.                                                         *)
TakeFrame ==
    /\ At("take") /\ DequeueFrame
    /\ IF Flushing /\ DequeuedFrame.last
       THEN Continue(IF call.op = "boundary" THEN "restart" ELSE "teardown")
       ELSE call' = [call EXCEPT !.pc = "assign", !.capture = FALSE,
                                 !.frame = DequeuedFrame]
    /\ UNCHANGED <<engine, context, srf>>
TakeNothing ==
    /\ At("take") /\ DequeueNothing
    /\ IF ~call.capture THEN AfterDrain
       ELSE Continue(IF call.op = "wait" THEN "drain" ELSE "capture")
    /\ UNCHANGED <<engine, context, srf>>

(* wait_surface_ready waits for a pending copy of the surface without limit.  *)
CheckSurface ==
    /\ At("check")
    /\ FinishCopies(SlotsOf(call.s))
    /\ srf' = Finished(SlotsOf(call.s))
    /\ IF srf'[call.s].decoded THEN Return ELSE Continue("capture")
    /\ UNCHANGED <<context, imports, vk, serial>>

(* The picture of s is mapped, and with the decoder, or its copy is pending.  *)
WithDecoder(pic) ==
    \/ \E n \in DOMAIN vdev.out : vdev.out[n].pic = pic
    \/ \E n \in DOMAIN vdev.ready : vdev.ready[n].pic = pic
UnderWay(s) ==
    \/ WithDecoder(srf[s].pic) /\ [pic |-> srf[s].pic, s |-> s, gen |-> srf[s].gen] \in mapped
    \/ \E k \in SlotsOf(s) : pend[k].gen = srf[s].gen /\ pend[k].token = srf[s].fence

(* A deadline: by a fault, or because the picture is lost.                    *)
GiveUp ==
    /\ At("capture")
    /\ May("timeout") \/ (~Flushing /\ ~UnderWay(call.s))
    /\ IF call.op = "destroy" THEN Continue("teardown") ELSE Return
    /\ UNCHANGED <<transport, engine, context, srf>>

-----------------------------------------------------------------------------
(* assign_frame, with surface_vk_submit                                       *)

Owed    == {m \in mapped : m.pic = call.frame.pic}
Fits(m) == srf[m.s].alive /\ srf[m.s].gen = m.gen
GpuPath == ~vk.failed /\ vk.gen = call.frame.gen

(* Mutant of DropFrame: the buffer is not recycled.                           *)
DropFrameKept ==
    /\ At("assign") /\ ~call.frame.last /\ \A m \in Owed : ~Fits(m)
    /\ mapped' = mapped \ Owed
    /\ AfterFrame
    /\ UNCHANGED <<transport, engine, sess, pics, opened, srf>>

(* No target for the frame: it is recycled.  For LAST, which only a loop      *)
(* after a failed flush can bring here, the error is fatal.                   *)
DropFrame ==
    /\ At("assign") /\ ~call.frame.last /\ \A m \in Owed : ~Fits(m)
    /\ RequeueFrames({call.frame.index})
    /\ mapped' = mapped \ Owed
    /\ AfterFrame
    /\ UNCHANGED <<engine, sess, pics, opened, srf>>
DropLast ==
    /\ At("assign") /\ call.frame.last
    /\ RequeueFrames({call.frame.index})
    /\ sess' = "dead"
    /\ Return
    /\ UNCHANGED <<engine, mapped, pics, opened, srf>>

(* The first frame of a ring: the copies from the old one are waited for and  *)
(* its imports forgotten.                                                     *)
NewRing ==
    /\ At("assign") /\ ~vk.failed /\ vk.gen # call.frame.gen
    /\ \E m \in Owed : Fits(m)
    /\ FinishCopies(UsedSlots)
    /\ srf' = Finished(UsedSlots)
    /\ imports' = Forgotten(CaptureKeys)
    /\ vk' = [FreshVk EXCEPT !.gen = call.frame.gen]
    /\ UNCHANGED <<context, serial, call>>

(* The cache key of the frame's buffer, new ones from g_buffer_serial, and    *)
(* the cache with the source and the destination in it.                       *)
FrameKey    == LET key == vk.keys[call.frame.index] IN IF key = 0 THEN serial + 1 ELSE key
WithSource  == Imported(imports, FrameKey, Buffer(call.frame))
WithBoth(m) == Imported(WithSource, srf[m.s].serial, Backing(srf[m.s].serial))
KeyTaken ==
    /\ serial' = IF FrameKey > serial THEN FrameKey ELSE serial
    /\ vk' = [vk EXCEPT !.keys[call.frame.index] = FrameKey]

(* Mutant of FreeSlots: a used slot is taken too.                             *)
AnySlots == Slots
FreeSlots == Slots \ UsedSlots
FreeJobs  == {j \in Jobs : ~jobs[j].inUse}
First(S)  == CHOOSE n \in S : \A k \in S : n <= k

(* Mutant of CanSubmit: the cache is not bounded.                             *)
CanSubmitUnbounded(m) == FreeJobs # {}

CanSubmit(m) == FreeJobs # {} /\ Cardinality(WithBoth(m)) <= MaxImports

(* All slots taken: what is done is reaped, or slot 0 is waited for.          *)
MakeRoom ==
    /\ At("assign") /\ GpuPath /\ FreeSlots = {}
    /\ \E m \in Owed : Fits(m) /\ ~srf[m.s].exported
    /\ LET K == IF DoneSlots # {} THEN DoneSlots ELSE {0}
       IN  FinishCopies(K) /\ srf' = Finished(K)
    /\ UNCHANGED <<context, imports, vk, serial, call>>

(* The job vpu_vk_copy_submit_locked queues: it reads and writes what its     *)
(* imports are, and reads a picture whole if that is the memory of the frame. *)
Intact(m) == MemoryAt(WithBoth(m), FrameKey) = Buffer(call.frame)
QueuedJob(m) ==
    [inUse |-> TRUE, running |-> TRUE,
     from |-> MemoryAt(WithBoth(m), FrameKey),
     to |-> MemoryAt(WithBoth(m), srf[m.s].serial),
     keys |-> {FrameKey, srf[m.s].serial},
     pic |-> IF Intact(m) THEN call.frame.pic ELSE Torn]

(* The asynchronous path of surface_vk_submit: a job and its pending record.  *)
AsyncCopy(m) ==
    /\ ~srf[m.s].exported /\ FreeSlots # {} /\ CanSubmit(m)
    /\ KeyTaken
    /\ imports' = WithBoth(m)
    /\ jobs' = [jobs EXCEPT ![First(FreeJobs)] = QueuedJob(m)]
    /\ pend' = [pend EXCEPT ![First(FreeSlots)] =
          [used |-> TRUE, job |-> First(FreeJobs), s |-> m.s, gen |-> m.gen,
           token |-> srf[m.s].fence, index |-> call.frame.index]]
    /\ UNCHANGED <<transport, srf>>

(* vpu_vk_copy_dmabuf: an exported surface is copied at once.  "init" is not  *)
(* set here, but an exported surface has it.                                  *)
DirectCopy(m) ==
    /\ srf[m.s].exported /\ CanSubmit(m)
    /\ KeyTaken
    /\ imports' = WithBoth(m)
    /\ srf' = [srf EXCEPT ![m.s] = [Landed(@) EXCEPT
                  !.px = IF Intact(m) THEN call.frame.pic ELSE Torn]]
    /\ RequeueFrames({call.frame.index})
    /\ UNCHANGED <<pend, jobs>>

(* surface_copy, when the GPU has failed in this session or fails now; a      *)
(* failure leaves what was imported before it.                                *)
Copied(x) == [x EXCEPT !.px = call.frame.pic, !.init = TRUE, !.fence = 0]
CpuCopy(m) ==
    /\ srf' = [srf EXCEPT ![m.s] = Landed(Copied(@))]
    /\ RequeueFrames({call.frame.index})
    /\ UNCHANGED <<pend, jobs>>
CopyFails(m) ==
    /\ May("submit") \/ ~CanSubmit(m)
    /\ srf[m.s].exported \/ FreeSlots # {}
    /\ serial' = IF FrameKey > serial THEN FrameKey ELSE serial
    /\ vk' = [vk EXCEPT !.keys[call.frame.index] = FrameKey, !.failed = TRUE]
    /\ imports' \in {C \in {imports, WithSource, WithBoth(m)} : Cardinality(C) <= MaxImports}
    /\ CpuCopy(m)

AssignFrame ==
    /\ At("assign")
    /\ \E m \in Owed :
         /\ Fits(m)
         /\ \/ GpuPath /\ (AsyncCopy(m) \/ DirectCopy(m) \/ CopyFails(m))
            \/ vk.failed /\ CpuCopy(m) /\ UNCHANGED <<imports, vk, serial>>
    /\ mapped' = mapped \ Owed
    /\ AfterFrame
    /\ UNCHANGED <<sess, pics, opened>>

-----------------------------------------------------------------------------
(* The GPU (external): a job reads its source at any time until it is done;   *)
(* what it reads is torn if the decoder may write there.                      *)

WithDevice(mem) ==
    dec.open /\ mem.session = opened /\ mem.gen = dec.gen /\ capQueued[mem.index]
GpuRuns(j) ==
    /\ jobs[j].running
    /\ jobs' = [jobs EXCEPT ![j].running = FALSE]
    /\ srf' = [s \in Surfaces |->
                 IF Backing(srf[s].serial) # jobs[j].to THEN srf[s]
                 ELSE [srf[s] EXCEPT !.px = IF WithDevice(jobs[j].from) THEN Torn
                                            ELSE jobs[j].pic]]
    /\ UNCHANGED <<transport, context, call, pend, imports, vk, serial>>

-----------------------------------------------------------------------------
ClientCall ==
    \/ \E s \in Surfaces : AllocSurface(s) \/ ExportSurface(s) \/ FreeSurface(s)
                           \/ BeginPicture(s) \/ SyncSurface(s)
    \/ CreateContext \/ DestroyContext
CallStep ==
    \/ Boundary \/ Restart \/ ReopenAfterEos \/ OpenSession \/ ClaimTarget \/ FeedUnit
    \/ InputFull \/ StartSession \/ SessionStarted
    \/ Reap \/ PollDevice \/ Events \/ TakeFrame \/ TakeNothing \/ CheckSurface \/ GiveUp
    \/ DropFrame \/ DropLast \/ NewRing \/ MakeRoom \/ AssignFrame
    \/ Teardown

Next ==
    \/ ClientCall \/ CallStep
    \/ \E j \in Jobs : GpuRuns(j)
    \/ Device /\ UNCHANGED <<engine, context, srf, call>>

Spec == Init /\ [][Next]_vars

-----------------------------------------------------------------------------
(* Properties                                                                 *)

(* A CAPTURE buffer is not given back to the decoder while the GPU may still  *)
(* read it (finish_vk_copy requeues only after job_wait).                     *)
SourceStaysOut ==
    \A j \in Jobs : jobs[j].running => ~WithDevice(jobs[j].from)

(* A surface reported decoded shows the picture it was begun for, whether its *)
(* copy was synchronous, asynchronous or made by the CPU after a failure, and *)
(* whatever else the GPU still runs.                                          *)
DecodedHoldsTheCopy ==
    \A s \in Surfaces : srf[s].alive /\ srf[s].decoded => srf[s].px = srf[s].pic

(* No import is destroyed while a job uses it: vpu_vk_copy_forget has no      *)
(* reference count, its callers reap first.                                   *)
ImportsOutliveJobs ==
    \A j \in Jobs : jobs[j].running => jobs[j].keys \subseteq {e.key : e \in imports}

(* While a job writes a live surface its reservation fence is unsignalled.    *)
FenceCoversTheCopy ==
    \A k \in UsedSlots :
        jobs[pend[k].job].running =>
            srf[pend[k].s].alive /\ srf[pend[k].s].fence = pend[k].token
            /\ pend[k].token # 0

(* Every CAPTURE buffer the decoder does not have is accounted for: by the    *)
(* frame in hand, by a pending copy, each by its own, or by LAST, and none    *)
(* goes back too early.  A buffer nobody accounts for never comes back, and   *)
(* the CAPTURE queue starves.                                                 *)
CaptureConserved ==
    LET out  == {i \in CapSlots : i < dec.capCount /\ ~capQueued[i]}
        hand == IF At("assign") THEN {call.frame.index} ELSE {}
        held == {pend[k].index : k \in UsedSlots}
    IN  /\ Cardinality(out) = Cardinality(UsedSlots) + Cardinality(hand)
                              + (IF dec.eos /\ sess # "dead" /\ hand = {} THEN 1 ELSE 0)
        /\ hand \cup held \subseteq out
        /\ SourceStaysOut

(* The cache keeps no import of a ring whose session is closed: the cache is  *)
(* bounded for the whole display and an abandoned CAPTURE key is never freed. *)
CaptureImportsCurrent ==
    \A e \in imports :
        e.mem.session # 0 => dec.open /\ e.mem.session = opened /\ e.key \in CaptureKeys

(* Between calls every unsignalled fence of a live session has a picture that *)
(* will signal it: mapped and with the decoder, or its copy pending.  A GPU   *)
(* client that waits for another one waits for ever.                          *)
FenceWillSignal ==
    \A s \in Surfaces :
        Idle /\ sess = "live" /\ srf[s].alive /\ srf[s].fence # 0 => UnderWay(s)
=============================================================================
