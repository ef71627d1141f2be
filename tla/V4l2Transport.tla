--------------------------- MODULE V4l2Transport ----------------------------
(* The calls of the V4L2 transport (src/src/platform/qcom/v4l2_decoder.c) on   *)
(* one session, and the stateful decoder behind its file descriptor.           *)
(*                                                                            *)
(* Every operator of the first part is one call of the transport with all its *)
(* ioctls; the modules that extend this one say who calls what.  The second   *)
(* part is external: the decoder as the transport relies on it.               *)
EXTENDS Naturals, Sequences, SequencesExt

CONSTANTS
    OutCount,   \* OUTPUT (bitstream) buffers, OUT_BUFFERS
    CapCount,   \* CAPTURE (picture) buffers, CAP_BUFFERS
    Layouts,    \* coded sizes a stream may have
    NoLayout    \* no CAPTURE format negotiated yet

ASSUME TransportAssumption ==
    /\ OutCount \in Nat \ {0} /\ CapCount \in Nat \ {0}
    /\ NoLayout \notin Layouts

VARIABLES
    dec,        \* struct v4l2_dec: flags, CAPTURE format and generation
    freeOut,    \* d->free_out: the stack of OUTPUT buffers the driver owns
    capQueued,  \* d->cap_queued
    vdev        \* the decoder: its queues, events and state (external)

transport == <<dec, freeOut, capQueued, vdev>>

OutSlots == 0 .. OutCount - 1
CapSlots == 0 .. CapCount - 1

DecRecord ==
    [open : BOOLEAN, streaming : BOOLEAN, streamingCap : BOOLEAN, eos : BOOLEAN,
     pri : BOOLEAN, gen : Nat, layout : Layouts \cup {NoLayout},
     capCount : {0, CapCount}]

Unit    == [buf : OutSlots, pic : Nat, layout : Layouts]
Picture == [index : CapSlots, pic : Nat, layout : Layouts \cup {NoLayout},
            last : BOOLEAN]
\* What v4l2_dec_dqcap hands out; "made" is the size it was decoded at.
Frame   == [index : CapSlots, pic : Nat, last : BOOLEAN, gen : Nat,
            layout : Layouts \cup {NoLayout}, made : Layouts \cup {NoLayout}]

DeviceRecord ==
    [out : Seq(Unit), outDone : Seq(OutSlots), cap : SUBSET CapSlots,
     ready : Seq(Picture), events : Nat, fmt : Layouts \cup {NoLayout},
     outOn : BOOLEAN, capOn : BOOLEAN, paused : BOOLEAN, stop : BOOLEAN,
     lastSent : BOOLEAN]

TransportTypeOK ==
    /\ dec \in DecRecord
    /\ freeOut \in Seq(OutSlots)
    /\ capQueued \in [CapSlots -> BOOLEAN]
    /\ vdev \in DeviceRecord

ClosedDec ==
    [open |-> FALSE, streaming |-> FALSE, streamingCap |-> FALSE, eos |-> FALSE,
     pri |-> FALSE, gen |-> 0, layout |-> NoLayout, capCount |-> 0]
FreshDevice ==
    [out |-> <<>>, outDone |-> <<>>, cap |-> {}, ready |-> <<>>, events |-> 0,
     fmt |-> NoLayout, outOn |-> FALSE, capOn |-> FALSE, paused |-> FALSE,
     stop |-> FALSE, lastSent |-> FALSE]
NoneQueued == [i \in CapSlots |-> FALSE]

TransportInit ==
    /\ dec = ClosedDec
    /\ freeOut = <<>>
    /\ capQueued = NoneQueued
    /\ vdev = FreshDevice

-----------------------------------------------------------------------------
(* The calls                                                                  *)

(* v4l2_dec_open.  A failure closes the descriptor and leaves nothing behind. *)
OpenDevice ==
    /\ dec' = [ClosedDec EXCEPT !.open = TRUE]
    /\ freeOut' = [i \in 1 .. OutCount |-> OutCount - i]
    /\ capQueued' = NoneQueued
    /\ vdev' = FreshDevice

(* Mutant of SetupCapture: the first format is kept.                          *)
SetupCaptureOldFormat(d, v) ==
    /\ dec' = [d EXCEPT !.streamingCap = TRUE, !.gen = @ + 1, !.capCount = CapCount,
                        !.layout = IF d.layout = NoLayout THEN v.fmt ELSE d.layout]
    /\ capQueued' = [i \in CapSlots |-> TRUE]
    /\ vdev' = [v EXCEPT !.cap = CapSlots, !.ready = <<>>, !.capOn = TRUE,
                         !.paused = FALSE]

(* v4l2_dec_setup_capture: the old CAPTURE ring goes, with the pictures in it *)
(* that were not dequeued, and every buffer of the new one is queued.         *)
SetupCapture(d, v) ==
    /\ dec' = [d EXCEPT !.streamingCap = TRUE, !.gen = @ + 1, !.layout = v.fmt,
                        !.capCount = CapCount]
    /\ capQueued' = [i \in CapSlots |-> TRUE]
    /\ vdev' = [v EXCEPT !.cap = CapSlots, !.ready = <<>>, !.capOn = TRUE,
                         !.paused = FALSE]

(* It fails without a ring when S_FMT (the format stays) or REQBUFS is        *)
(* refused, and with a ring that does not stream when the k-th QBUF, or       *)
(* STREAMON after the last, is.                                               *)
SetupCaptureFails(d, v) ==
    LET ringless == [v EXCEPT !.cap = {}, !.ready = <<>>, !.capOn = FALSE]
    IN  \/ /\ \E layout \in {d.layout, v.fmt} :
                dec' = [d EXCEPT !.streamingCap = FALSE, !.capCount = 0,
                                 !.layout = layout]
           /\ capQueued' = NoneQueued
           /\ vdev' = ringless
        \/ \E k \in 0 .. CapCount :
             /\ dec' = [d EXCEPT !.streamingCap = FALSE, !.gen = @ + 1,
                                 !.layout = v.fmt, !.capCount = CapCount]
             /\ capQueued' = [i \in CapSlots |-> i < k]
             /\ vdev' = [ringless EXCEPT !.cap = {i \in CapSlots : i < k}]

(* v4l2_dec_start: STREAMON of OUTPUT, and then it waits for the first source *)
(* change (StartReady).                                                       *)
StartOutput ==
    /\ dec' = [dec EXCEPT !.streaming = TRUE]
    /\ vdev' = [vdev EXCEPT !.outOn = TRUE]
    /\ UNCHANGED <<freeOut, capQueued>>

StartReady       == vdev.events > 0
OneEventLess     == [vdev EXCEPT !.events = @ - 1]
StartCapture     == SetupCapture(dec, OneEventLess) /\ UNCHANGED freeOut
StartCaptureFails == SetupCaptureFails(dec, OneEventLess) /\ UNCHANGED freeOut

(* v4l2_dec_poll and v4l2_dec_poll_cap: what wakes them, and poll_revents.    *)
CaptureReady == vdev.events > 0 \/ vdev.ready # <<>> \/ ~vdev.capOn
DeviceReady  == CaptureReady \/ vdev.outDone # <<>>
Poll ==
    /\ dec' = [dec EXCEPT !.pri = vdev.events > 0]
    /\ UNCHANGED <<freeOut, capQueued, vdev>>

(* v4l2_dec_handle_events: nothing without POLLPRI; a report of the size that *)
(* is already negotiated is ignored, any other one rebuilds CAPTURE.          *)
NoMorePri    == [dec EXCEPT !.pri = FALSE]

(* Mutant of SameSize: any size counts as known.                              *)
SameSizeAlways == dec.layout # NoLayout

SameSize == vdev.fmt = dec.layout
HandleEvents ==
    /\ UNCHANGED freeOut
    /\ \/ ~dec.pri /\ UNCHANGED <<dec, capQueued, vdev>>
       \/ /\ dec.pri /\ SameSize
          /\ dec' = NoMorePri
          /\ vdev' = [vdev EXCEPT !.events = 0]
          /\ UNCHANGED capQueued
       \/ /\ dec.pri /\ ~SameSize
          /\ SetupCapture(NoMorePri, [vdev EXCEPT !.events = 0])
(* A failed rebuild returns at once: later events stay queued.                *)
HandleEventsFails ==
    /\ dec.pri /\ ~SameSize
    /\ \E left \in 0 .. vdev.events - 1 :
         SetupCaptureFails(NoMorePri, [vdev EXCEPT !.events = left])
    /\ UNCHANGED freeOut

(* v4l2_dec_dqout until -EAGAIN, as every caller calls it.                    *)
Recycled == freeOut \o vdev.outDone
Emptied  == [vdev EXCEPT !.outDone = <<>>]

(* v4l2_dec_feed after the recycling loop.  Too large a unit, or one QBUF     *)
(* refuses, gives its buffer back.                                            *)
CanFeed == Recycled # <<>>
Feed(pic, layout) ==
    /\ CanFeed
    /\ freeOut' = Front(Recycled)
    /\ vdev' = [Emptied EXCEPT !.out =
                   Append(@, [buf |-> Last(Recycled), pic |-> pic, layout |-> layout])]
    /\ UNCHANGED <<dec, capQueued>>

(* Mutant of FeedFails: the buffer is not given back.                         *)
FeedFailsLosing ==
    /\ CanFeed
    /\ freeOut' = Front(Recycled)
    /\ vdev' = Emptied
    /\ UNCHANGED <<dec, capQueued>>

FeedFails ==
    /\ freeOut' = Recycled
    /\ vdev' = Emptied
    /\ UNCHANGED <<dec, capQueued>>

(* v4l2_dec_dqcap, after the recycling loop: the oldest finished picture with *)
(* the current format and generation; LAST is remembered in eos.              *)
DequeuedFrame ==
    LET p == Head(vdev.ready)
    IN  [index |-> p.index, pic |-> p.pic, last |-> p.last, gen |-> dec.gen,
         layout |-> dec.layout, made |-> p.layout]

(* Mutants of DequeueFrame: cap_queued is not cleared; STOP counts as LAST.   *)
DequeueFrameStillQueued ==
    /\ vdev.capOn /\ vdev.ready # <<>>
    /\ dec' = [dec EXCEPT !.eos = @ \/ Head(vdev.ready).last]
    /\ freeOut' = Recycled
    /\ vdev' = [Emptied EXCEPT !.ready = Tail(@)]
    /\ UNCHANGED capQueued
DequeueFrameEndsEarly ==
    /\ vdev.capOn /\ vdev.ready # <<>>
    /\ dec' = [dec EXCEPT !.eos = @ \/ vdev.stop]
    /\ capQueued' = [capQueued EXCEPT ![Head(vdev.ready).index] = FALSE]
    /\ freeOut' = Recycled
    /\ vdev' = [Emptied EXCEPT !.ready = Tail(@)]

DequeueFrame ==
    /\ vdev.capOn /\ vdev.ready # <<>>
    /\ dec' = [dec EXCEPT !.eos = @ \/ Head(vdev.ready).last]
    /\ capQueued' = [capQueued EXCEPT ![Head(vdev.ready).index] = FALSE]
    /\ freeOut' = Recycled
    /\ vdev' = [Emptied EXCEPT !.ready = Tail(@)]
DequeueNothing ==
    /\ vdev.capOn /\ vdev.ready = <<>>
    /\ freeOut' = Recycled
    /\ vdev' = Emptied
    /\ UNCHANGED <<dec, capQueued>>
(* DQBUF on a CAPTURE queue that does not stream is an error.                 *)
DequeueFails ==
    /\ ~vdev.capOn
    /\ freeOut' = Recycled
    /\ vdev' = Emptied
    /\ UNCHANGED <<dec, capQueued>>

(* v4l2_dec_qcap_idx of every index in I: unknown indices are refused, queued *)
(* ones are left alone.                                                       *)
Returnable(I) == {i \in I : i < dec.capCount /\ ~capQueued[i]}
RequeueFrames(I) ==
    /\ capQueued' = [i \in CapSlots |-> capQueued[i] \/ i \in Returnable(I)]
    /\ vdev' = [vdev EXCEPT !.cap = @ \cup Returnable(I)]
    /\ UNCHANGED <<dec, freeOut>>

(* v4l2_dec_flush: V4L2_DEC_CMD_STOP.                                         *)
StopDecoder ==
    /\ vdev' = [vdev EXCEPT !.stop = TRUE]
    /\ UNCHANGED <<dec, freeOut, capQueued>>

(* The end of v4l2_dec_close: v4l2_dec_stop, both queues freed, fd closed.    *)
CloseDevice ==
    /\ dec' = ClosedDec
    /\ freeOut' = <<>>
    /\ capQueued' = NoneQueued
    /\ vdev' = FreshDevice

-----------------------------------------------------------------------------
(* The decoder (external)                                                     *)

(* It parses a unit of another size: it reports a source change, possibly     *)
(* twice, and decodes no further until CAPTURE has been set up again.         *)
DeviceMeetsNewSize ==
    /\ vdev.outOn /\ ~vdev.paused /\ vdev.out # <<>>
    /\ Head(vdev.out).layout # vdev.fmt
    /\ \E n \in 1 .. 2 :
         vdev' = [vdev EXCEPT !.fmt = Head(vdev.out).layout, !.paused = TRUE,
                              !.events = @ + n]
    /\ UNCHANGED <<dec, freeOut, capQueued>>

(* It decodes the oldest unit into a queued CAPTURE buffer.                   *)
DeviceDecodes ==
    /\ vdev.outOn /\ vdev.capOn /\ ~vdev.paused /\ vdev.out # <<>>
    /\ Head(vdev.out).layout = vdev.fmt
    /\ \E i \in vdev.cap :
         vdev' = [vdev EXCEPT
                    !.out = Tail(@), !.outDone = Append(@, Head(vdev.out).buf),
                    !.cap = @ \ {i},
                    !.ready = Append(@, [index |-> i, pic |-> Head(vdev.out).pic,
                                         layout |-> vdev.fmt, last |-> FALSE])]
    /\ UNCHANGED <<dec, freeOut, capQueued>>

(* After STOP and with nothing left it sends the empty LAST buffer.           *)
DeviceSendsLast ==
    /\ vdev.outOn /\ vdev.capOn /\ ~vdev.paused /\ vdev.out = <<>>
    /\ vdev.stop /\ ~vdev.lastSent
    /\ \E i \in vdev.cap :
         vdev' = [vdev EXCEPT
                    !.cap = @ \ {i}, !.lastSent = TRUE,
                    !.ready = Append(@, [index |-> i, pic |-> 0,
                                         layout |-> vdev.fmt, last |-> TRUE])]
    /\ UNCHANGED <<dec, freeOut, capQueued>>

Device == DeviceMeetsNewSize \/ DeviceDecodes \/ DeviceSendsLast

-----------------------------------------------------------------------------
(* What the transport keeps true, whoever calls it                            *)

(* Every OUTPUT buffer has one owner: a unit is never written into a buffer   *)
(* the decoder still reads, and no failure path loses a buffer or returns one *)
(* twice (v4l2_dec_feed, v4l2_dec_dqout).                                     *)
OutputAccounted ==
    dec.open =>
        LET owners == freeOut \o [k \in DOMAIN vdev.out |-> vdev.out[k].buf]
                              \o vdev.outDone
        IN  Len(owners) = OutCount /\ ToSet(owners) = OutSlots

(* cap_queued agrees with the decoder: a buffer is marked queued exactly      *)
(* while the decoder has it, so the idempotent requeue of v4l2_dec_qcap_idx   *)
(* neither queues a buffer twice nor keeps one back.                          *)
CaptureAccounted ==
    \A i \in CapSlots :
        capQueued[i] <=> \/ i \in vdev.cap
                         \/ \E k \in DOMAIN vdev.ready : vdev.ready[k].index = i

(* Both queues: no buffer is lost, queued twice or kept back.                 *)
BuffersAccounted == OutputAccounted /\ CaptureAccounted

(* Once LAST has been seen nothing accepted is left behind in the decoder.    *)
EosIsLast == dec.eos => vdev.out = <<>> /\ vdev.ready = <<>>
=============================================================================
