------------------------- MODULE V4l2SessionProofs --------------------------
(* One session of the V4L2 transport, for every number of buffers, sizes,     *)
(* units and faults: no buffer of either queue is lost or has two owners,     *)
(* nothing that was accepted is left when LAST has been seen, and a frame has *)
(* the size it was decoded at.                                                *)
EXTENDS V4l2Session, V4l2TransportProofs

(* After STOP the caller feeds no more: it knows that it sent it (eos_sent),  *)
(* or it is closing.                                                          *)
StopKnown ==
    /\ stopSent => pc \notin {"opened", "submitted", "starting"}
    /\ vdev.stop => stopSent \/ pc \in {"closing", "returning", "halting"}

SessionInv == TypeOK /\ TransportInv /\ StopKnown /\ FrameHasItsLayout

LEMMA SessionInitially == Init => SessionInv
<1> SUFFICES ASSUME Init PROVE SessionInv
  OBVIOUS
<1>1. TransportSafe
  BY TransportInitially DEF Init
<1>2. NoFrame \in Frame
  BY TransportAssumption DEF NoFrame, Frame, CapSlots
<1>3. 0 \in 0 .. CloseSpins /\ 0 \in 0 .. MaxUnits /\ 0 \in 0 .. MaxSessions
  BY SessionAssumption
<1>4. TypeOK
  BY <1>1, <1>2, <1>3 DEF TransportSafe, TypeOK, Init
<1>5. StopKnown /\ FrameHasItsLayout
  BY DEF Init, TransportInit, FreshDevice, StopKnown, FrameHasItsLayout
<1> QED
  BY <1>1, <1>4, <1>5 DEF SessionInv, TransportSafe

-----------------------------------------------------------------------------
(* The caller's own variables                                                 *)

(* What a step of the caller has to show: the transport stays safe, its own   *)
(* variables keep their types, and it still knows whether it sent STOP.       *)
LEMMA CallerKeeps ==
    ASSUME TransportSafe', TypeOK,
           pc' \in {"closed", "opened", "submitted", "starting", "idle", "polled",
                    "serviced", "held", "ended", "failed", "closing", "returning",
                    "halting"},
           cur' \in Frame, stopSent' \in BOOLEAN, spins' \in 0 .. CloseSpins,
           units' \in 0 .. MaxUnits, sessions' \in 0 .. MaxSessions,
           StopKnown', FrameHasItsLayout'
    PROVE  SessionInv'
  BY DEF SessionInv, TypeOK, TransportSafe

(* Steps that move the caller on with the frame it has (GoTo), feed nothing   *)
(* after STOP and send none themselves.                                       *)
LEMMA GoToKeeps ==
    ASSUME SessionInv, TransportSafe', vdev'.stop = vdev.stop,
           NEW next \in {"starting", "idle", "polled", "serviced", "ended", "failed",
                         "opened"},
           NEW f \in Frame, GoTo(next, f),
           pc \notin {"closing", "returning", "halting"},
           stopSent => next \notin {"opened", "starting"}
    PROVE  SessionInv'
<1>1. TypeOK /\ StopKnown
  BY DEF SessionInv
<1>2. StopKnown'
  BY <1>1 DEF StopKnown, GoTo
<1>3. FrameHasItsLayout'
  BY DEF FrameHasItsLayout, GoTo
<1> QED
  BY <1>1, <1>2, <1>3, CallerKeeps DEF GoTo, TypeOK

LEMMA CloserKeeps ==
    ASSUME SessionInv, TransportSafe', cur' \in Frame,
           pc' \in {"closing", "halting"}, spins' \in 0 .. CloseSpins,
           UNCHANGED <<stopSent, units, sessions>>
    PROVE  SessionInv'
<1>1. TypeOK
  BY DEF SessionInv
<1>2. StopKnown' /\ FrameHasItsLayout'
  BY DEF StopKnown, FrameHasItsLayout
<1> QED
  BY <1>1, <1>2, CallerKeeps DEF TypeOK

-----------------------------------------------------------------------------
(* Opening, starting, submitting                                              *)

LEMMA OpenKeeps ==
    ASSUME SessionInv, Open
    PROVE  SessionInv'
<1>1. TypeOK /\ TransportSafe'
  BY OpenDeviceKeeps DEF SessionInv, Open
<1>2. NoFrame \in Frame
  BY TransportAssumption DEF NoFrame, Frame, CapSlots
<1>3. StopKnown' /\ FrameHasItsLayout'
  BY DEF Open, OpenDevice, FreshDevice, StopKnown, FrameHasItsLayout
<1>4. spins' \in 0 .. CloseSpins /\ sessions' \in 0 .. MaxSessions
  BY <1>1, SessionAssumption DEF Open, TypeOK
<1> QED
  BY <1>1, <1>2, <1>3, <1>4, CallerKeeps DEF Open, TypeOK

LEMMA SubmissionKeeps ==
    ASSUME SessionInv, FirstSubmit \/ Submit
    PROVE  SessionInv'
<1>1. TypeOK /\ StopKnown /\ TransportSafe /\ TransportTypeOK
  BY DEF SessionInv, TypeOK, TransportSafe
<1>2. ~stopSent /\ ~vdev.stop
  BY <1>1 DEF FirstSubmit, Submit, Submission, StopKnown
<1>3. units + 1 \in Nat /\ units + 1 \in 0 .. MaxUnits
  BY <1>1, SessionAssumption DEF TypeOK, FirstSubmit, Submit, Submission
<1>4. PICK layout \in Layouts : Feed(units + 1, layout)
  BY DEF FirstSubmit, Submit, Submission
<1>5. TransportSafe'
  BY <1>1, <1>2, <1>3, <1>4, FeedKeeps
<1>6. vdev'.stop = vdev.stop
  BY <1>1, <1>3, <1>4, StopKept
<1>7. StopKnown' /\ FrameHasItsLayout'
  BY <1>2, <1>6 DEF StopKnown, FrameHasItsLayout, FirstSubmit, Submit, Submission
<1> QED
  BY <1>1, <1>3, <1>5, <1>7, CallerKeeps DEF TypeOK, FirstSubmit, Submit, Submission

LEMMA StartingKeeps ==
    ASSUME SessionInv, Start \/ Started \/ StartFails
    PROVE  SessionInv'
<1>1. TypeOK /\ StopKnown /\ TransportSafe /\ TransportTypeOK /\ TransportInv
  BY DEF SessionInv, TypeOK, TransportSafe
<1>2. ~stopSent /\ pc \in {"submitted", "starting"} /\ cur \in Frame
  BY <1>1 DEF StopKnown, Start, Started, StartFails, TypeOK
<1>3. TransportSafe' /\ vdev'.stop = vdev.stop
  <2>1. CASE StartOutput \/ (StartReady /\ (StartCapture \/ StartCaptureFails))
    BY <1>1, <2>1, FlagCallsKeep, StartCaptureKeeps, StopKept
  <2>2. CASE UNCHANGED transport
    BY <1>1, <2>2 DEF transport, TransportSafe, TransportTypeOK, TransportInv, OutputInv,
                      CaptureAccounted, CaptureApart, RingHasLayout, LastIsLast
  <2> QED
    BY <2>1, <2>2 DEF Start, Started, StartFails
<1>4. GoTo("starting", cur) \/ GoTo("idle", cur) \/ GoTo("opened", cur)
  BY DEF Start, Started, StartFails
<1> QED
  BY <1>2, <1>3, <1>4, GoToKeeps

LEMMA SubmitFailsKeeps ==
    ASSUME SessionInv, SubmitFails
    PROVE  SessionInv'
<1>1. TransportSafe /\ TransportTypeOK /\ cur \in Frame
  BY DEF SessionInv, TypeOK, TransportSafe
<1>2. TransportSafe' /\ vdev'.stop = vdev.stop
  BY <1>1, RecyclingCallsKeep, StopKept DEF SubmitFails
<1> QED
  BY <1>1, <1>2, GoToKeeps DEF SubmitFails

LEMMA FlushKeeps ==
    ASSUME SessionInv, Flush
    PROVE  SessionInv'
<1>1. TypeOK /\ TransportSafe /\ TransportSafe'
  BY FlagCallsKeep DEF SessionInv, TypeOK, TransportSafe, Flush
<1>2. StopKnown' /\ FrameHasItsLayout'
  BY DEF StopKnown, FrameHasItsLayout, Flush
<1> QED
  BY <1>1, <1>2, CallerKeeps DEF TypeOK, Flush

-----------------------------------------------------------------------------
(* The drain loop                                                             *)

(* The frame in hand is the one v4l2_dec_dqcap just filled in.                *)
LEMMA TakeFrameKeeps ==
    ASSUME SessionInv, TakeFrame
    PROVE  SessionInv'
<1>1. TypeOK /\ StopKnown /\ TransportSafe
  BY DEF SessionInv, TypeOK, TransportSafe
<1>2. /\ TransportSafe' /\ DequeuedFrame \in Frame /\ vdev'.stop = vdev.stop
      /\ DequeuedFrame.layout = DequeuedFrame.made
      /\ DequeuedFrame.layout = dec'.layout /\ DequeuedFrame.gen = dec'.gen
  BY <1>1, DequeueFrameKeeps DEF TakeFrame
<1>3. cur' = DequeuedFrame /\ pc' \in {"ended", "held"}
      /\ UNCHANGED <<stopSent, spins, units, sessions>>
  BY DEF TakeFrame, GoTo
<1>4. StopKnown'
  BY <1>1, <1>2, <1>3 DEF StopKnown, TakeFrame
<1>5. FrameHasItsLayout'
  BY <1>2, <1>3 DEF FrameHasItsLayout
<1> QED
  BY <1>1, <1>2, <1>3, <1>4, <1>5, CallerKeeps DEF TypeOK

LEMMA DrainKeeps ==
    ASSUME SessionInv, DrainStep
    PROVE  SessionInv'
<1>1. TypeOK /\ TransportSafe /\ TransportTypeOK /\ cur \in Frame /\ {cur.index} \in SUBSET CapSlots
  BY DEF SessionInv, TypeOK, TransportSafe, Frame
<1>2. CASE PollDevice
  BY <1>1, <1>2, FlagCallsKeep, StopKept, GoToKeeps DEF PollDevice
<1>3. CASE Events \/ EventsFail
  <2>1. TransportSafe' /\ vdev'.stop = vdev.stop
    BY <1>1, <1>3, HandleEventsKeeps, StopKept DEF Events, EventsFail
  <2> QED
    BY <1>1, <1>3, <2>1, GoToKeeps DEF Events, EventsFail
<1>4. CASE TakeFrame
  BY <1>4, TakeFrameKeeps
<1>5. CASE TakeNothing \/ TakeFails
  <2>1. TransportSafe' /\ vdev'.stop = vdev.stop
    BY <1>1, <1>5, RecyclingCallsKeep, StopKept DEF TakeNothing, TakeFails
  <2> QED
    BY <1>1, <1>5, <2>1, GoToKeeps DEF TakeNothing, TakeFails
<1>6. CASE Return
  <2>1. TransportSafe'
    BY <1>1, <1>6, RequeueFramesKeep DEF Return
  <2>2. vdev'.stop = vdev.stop
    BY <1>1, <1>6, StopKept DEF Return
  <2> QED
    BY <1>1, <1>6, <2>1, <2>2, GoToKeeps DEF Return
<1> QED
  BY <1>2, <1>3, <1>4, <1>5, <1>6 DEF DrainStep

-----------------------------------------------------------------------------
(* Closing                                                                    *)

LEMMA CloseKeeps ==
    ASSUME SessionInv, Close
    PROVE  SessionInv'
<1>1. TypeOK /\ TransportSafe /\ TransportTypeOK /\ TransportInv /\ cur \in Frame
  BY DEF SessionInv, TypeOK, TransportSafe
<1>2. TransportSafe'
  <2>1. CASE StopDecoder
    BY <1>1, <2>1, FlagCallsKeep
  <2>2. CASE UNCHANGED transport
    BY <1>1, <2>2 DEF transport, TransportSafe, TransportTypeOK, TransportInv, OutputInv,
                      CaptureAccounted, CaptureApart, RingHasLayout, LastIsLast
  <2> QED
    BY <2>1, <2>2 DEF Close
<1>3. spins' \in 0 .. CloseSpins
  BY <1>1, SessionAssumption DEF Close, TypeOK
<1> QED
  BY <1>1, <1>2, <1>3, CloserKeeps DEF Close

LEMMA CloseStepKeeps ==
    ASSUME SessionInv, CloseStep
    PROVE  SessionInv'
<1>1. TypeOK /\ TransportSafe /\ TransportTypeOK /\ TransportInv /\ cur \in Frame
      /\ {cur.index} \in SUBSET CapSlots
  BY DEF SessionInv, TypeOK, TransportSafe, Frame
<1>2. ASSUME spins > 0
      PROVE  spins - 1 \in 0 .. CloseSpins
  BY <1>1, <1>2, SessionAssumption DEF TypeOK
<1>3. CASE CloseTakes
  <2>1. /\ TransportSafe' /\ DequeuedFrame \in Frame
        /\ DequeuedFrame.layout = DequeuedFrame.made
        /\ DequeuedFrame.layout = dec'.layout /\ DequeuedFrame.gen = dec'.gen
    BY <1>1, <1>3, DequeueFrameKeeps DEF CloseTakes
  <2>2. cur' = DequeuedFrame /\ pc' \in {"halting", "returning"} /\ spins' \in 0 .. CloseSpins
        /\ UNCHANGED <<stopSent, units, sessions>>
    BY <1>2, <1>3 DEF CloseTakes, Spin
  <2>3. StopKnown' /\ FrameHasItsLayout'
    BY <2>1, <2>2 DEF StopKnown, FrameHasItsLayout
  <2> QED
    BY <1>1, <2>1, <2>2, <2>3, CallerKeeps DEF TypeOK
<1>4. CASE CloseWaits
  <2>1. TransportSafe'
    BY <1>1, <1>4, RecyclingCallsKeep DEF CloseWaits
  <2> QED
    BY <1>1, <1>2, <1>4, <2>1, CloserKeeps DEF CloseWaits, Spin
<1>5. CASE CloseReturns
  <2>1. TransportSafe'
    BY <1>1, <1>5, RequeueFramesKeep DEF CloseReturns
  <2> QED
    BY <1>1, <1>5, <2>1, CloserKeeps DEF CloseReturns, GoTo, TypeOK
<1>6. CASE CloseStops
  <2>1. TransportSafe'
    <3>1. CASE DequeueFails
      BY <1>1, <3>1, RecyclingCallsKeep
    <3>2. CASE UNCHANGED transport
      BY <1>1, <3>2 DEF transport, TransportSafe, TransportTypeOK, TransportInv, OutputInv,
                        CaptureAccounted, CaptureApart, RingHasLayout, LastIsLast
    <3> QED
      BY <1>6, <3>1, <3>2 DEF CloseStops
  <2> QED
    BY <1>1, <1>6, <2>1, CloserKeeps DEF CloseStops, GoTo, TypeOK
<1>7. CASE Halt
  <2>1. TransportSafe' /\ ~vdev'.stop
    BY <1>7, CloseDeviceKeeps DEF Halt, CloseDevice, FreshDevice
  <2>2. NoFrame \in Frame
    BY TransportAssumption DEF NoFrame, Frame, CapSlots
  <2>3. StopKnown' /\ FrameHasItsLayout'
    BY <1>7, <2>1 DEF StopKnown, FrameHasItsLayout, Halt, GoTo
  <2> QED
    BY <1>1, <1>7, <2>1, <2>2, <2>3, CallerKeeps DEF Halt, GoTo, TypeOK
<1> QED
  BY <1>3, <1>4, <1>5, <1>6, <1>7 DEF CloseStep

-----------------------------------------------------------------------------
(* The theorems                                                               *)

(* The decoder moves between any two steps of the caller.                     *)
LEMMA DeviceMoves ==
    ASSUME SessionInv, Device, UNCHANGED caller
    PROVE  SessionInv'
<1>1. TypeOK /\ StopKnown /\ FrameHasItsLayout /\ TransportSafe
  BY DEF SessionInv, TypeOK, TransportSafe
<1>2. TransportSafe' /\ dec' = dec /\ vdev'.stop = vdev.stop
  BY <1>1, DeviceKeeps
<1>3. StopKnown' /\ FrameHasItsLayout'
  BY <1>1, <1>2 DEF StopKnown, FrameHasItsLayout, caller
<1> QED
  BY <1>1, <1>2, <1>3, CallerKeeps DEF TypeOK, caller

LEMMA SessionStep ==
    ASSUME SessionInv, [Next]_vars
    PROVE  SessionInv'
<1>1. CASE Next
  BY <1>1, OpenKeeps, SubmissionKeeps, StartingKeeps, SubmitFailsKeeps, FlushKeeps,
     CloseKeeps, DrainKeeps, CloseStepKeeps, DeviceMoves DEF Next
<1>2. CASE UNCHANGED vars
  BY <1>2 DEF vars, transport, caller, SessionInv, TypeOK, TransportTypeOK, TransportInv,
              OutputInv, CaptureAccounted, CaptureApart, RingHasLayout, LastIsLast,
              StopKnown, FrameHasItsLayout
<1> QED
  BY <1>1, <1>2

(* The invariant of the session, with what its steps rely on.                 *)
THEOREM SessionHolds == Spec => []SessionInv
  BY SessionInitially, SessionStep, PTL DEF Spec

(* Every variable of a session keeps its type (struct v4l2_dec and what the   *)
(* decoder is taken to be).                                                   *)
THEOREM SessionTyped == Spec => []TypeOK
<1>1. SessionInv => TypeOK
  BY DEF SessionInv
<1> QED
  BY <1>1, SessionHolds, PTL

(* No buffer of either queue is lost, queued twice or kept back, whatever     *)
(* fails and however often the ring is rebuilt (v4l2_dec_feed,                *)
(* v4l2_dec_dqout, v4l2_dec_setup_capture, v4l2_dec_qcap_idx).                *)
THEOREM BuffersStayAccounted == Spec => []BuffersAccounted
<1>1. SessionInv => BuffersAccounted
  BY OutputInvAccounts DEF SessionInv, TypeOK, TransportInv, BuffersAccounted
<1> QED
  BY <1>1, SessionHolds, PTL

(* Once LAST has been dequeued every unit that was accepted has been decoded  *)
(* and every picture taken: the end of a flush loses nothing.                 *)
THEOREM NothingAfterLast == Spec => []EosIsLast
<1>1. SessionInv => EosIsLast
  BY DEF SessionInv, TransportInv, LastIsLast, EosIsLast
<1> QED
  BY <1>1, SessionHolds, PTL

(* A frame in the caller's hand has the size it was decoded at and the        *)
(* generation of its ring, across source changes (v4l2_dec_dqcap).            *)
THEOREM FramesKeepTheirSize == Spec => []FrameHasItsLayout
<1>1. SessionInv => FrameHasItsLayout
  BY DEF SessionInv
<1> QED
  BY <1>1, SessionHolds, PTL
=============================================================================
