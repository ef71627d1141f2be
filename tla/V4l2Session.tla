---------------------------- MODULE V4l2Session -----------------------------
(* One caller of the V4L2 transport: the order in which the decode core        *)
(* (src/src/decode/stream.c, decode.c) opens, feeds, starts, drains, flushes   *)
(* and closes sessions when every picture is copied and requeued at once.      *)
(* pc is where the caller is; the decoder moves between any two of its steps.  *)
EXTENDS V4l2Transport

CONSTANTS
    MaxUnits,       \* bound on the access units submitted
    MaxSessions,    \* bound on the sessions opened
    CloseSpins,     \* rounds of the polite drain of v4l2_dec_close
    SessionFaults   \* what may fail: "setup", "submit", "stop", "timeout"

ASSUME SessionAssumption ==
    /\ MaxUnits \in Nat /\ MaxSessions \in Nat /\ CloseSpins \in Nat
    /\ SessionFaults \subseteq {"setup", "submit", "stop", "timeout"}

VARIABLES
    pc,         \* where the caller is
    cur,        \* the frame the caller has dequeued
    stopSent,   \* it has sent EOS (eos_sent)
    spins,      \* rounds left in v4l2_dec_close
    units,      \* history: access units submitted (the bound)
    sessions    \* history: sessions opened (the bound)

caller  == <<pc, cur, stopSent, spins, units, sessions>>
vars    == <<transport, caller>>

NoFrame == [index |-> 0, pic |-> 0, last |-> FALSE, gen |-> 0,
            layout |-> NoLayout, made |-> NoLayout]

TypeOK ==
    /\ TransportTypeOK
    /\ pc \in {"closed", "opened", "submitted", "starting", "idle", "polled",
               "serviced", "held", "ended", "failed", "closing", "returning", "halting"}
    /\ cur \in Frame
    /\ stopSent \in BOOLEAN
    /\ spins \in 0 .. CloseSpins
    /\ units \in 0 .. MaxUnits
    /\ sessions \in 0 .. MaxSessions

Init ==
    /\ TransportInit
    /\ pc = "closed" /\ cur = NoFrame /\ stopSent = FALSE
    /\ spins = 0 /\ units = 0 /\ sessions = 0

May(fault) == fault \in SessionFaults

(* The caller goes on at "next" with the frame f in hand.                     *)
GoTo(next, f) ==
    /\ pc' = next /\ cur' = f
    /\ UNCHANGED <<stopSent, spins, units, sessions>>

-----------------------------------------------------------------------------
(* Opening and starting: ensure_decoder, and the first unit before STREAMON.  *)

Open ==
    /\ pc = "closed" /\ sessions < MaxSessions
    /\ OpenDevice
    /\ pc' = "opened" /\ cur' = NoFrame /\ stopSent' = FALSE /\ spins' = 0
    /\ sessions' = sessions + 1
    /\ UNCHANGED units

Submission(from, next) ==
    /\ pc = from /\ units < MaxUnits
    /\ \E layout \in Layouts : Feed(units + 1, layout)
    /\ units' = units + 1
    /\ pc' = next
    /\ UNCHANGED <<cur, stopSent, spins, sessions>>

FirstSubmit == Submission("opened", "submitted")
Start       == pc = "submitted" /\ StartOutput /\ GoTo("starting", cur)
Started     == pc = "starting" /\ StartReady /\ StartCapture /\ GoTo("idle", cur)
StartFails  ==
    /\ pc = "starting"
    /\ \/ May("setup") /\ StartReady /\ StartCaptureFails
       \/ May("timeout") /\ UNCHANGED transport
    /\ GoTo("opened", cur)

(* Submitting, with the recycling of OUTPUT buffers before it.                *)
Submit      == ~stopSent /\ Submission("idle", "idle")
SubmitFails == May("submit") /\ pc = "idle" /\ ~stopSent /\ CanFeed
               /\ FeedFails /\ GoTo("idle", cur)

(* The drain loop: poll, events, finished input, one picture, its requeue.    *)
PollDevice ==
    /\ pc = "idle"
    /\ IF stopSent THEN CaptureReady ELSE DeviceReady
    /\ Poll /\ GoTo("polled", cur)
Events      == pc = "polled" /\ HandleEvents /\ GoTo("serviced", cur)
EventsFail  == May("setup") /\ pc = "polled" /\ HandleEventsFails /\ GoTo("idle", cur)
TakeFrame   == pc = "serviced" /\ DequeueFrame
               /\ GoTo(IF DequeuedFrame.last THEN "ended" ELSE "held", DequeuedFrame)
TakeNothing == pc = "serviced" /\ DequeueNothing /\ GoTo("idle", cur)
TakeFails   == pc = "serviced" /\ DequeueFails /\ GoTo("failed", cur)
Return      == pc = "held" /\ RequeueFrames({cur.index}) /\ GoTo("idle", cur)

(* vpu_decode_flush_impl: STOP; the loop above then runs until LAST.          *)
Flush ==
    /\ pc = "idle" /\ ~stopSent
    /\ StopDecoder
    /\ stopSent' = TRUE
    /\ UNCHANGED <<pc, cur, spins, units, sessions>>

-----------------------------------------------------------------------------
(* v4l2_dec_close: drain politely when the stream has not ended, at most      *)
(* CloseSpins rounds, then tear down.                                         *)

Close ==
    /\ pc \in {"opened", "idle", "ended", "failed"}
    /\ \/ /\ dec.streaming /\ ~dec.eos
          /\ StopDecoder
          /\ pc' = "closing" /\ spins' = CloseSpins
       \/ /\ ~dec.streaming \/ dec.eos \/ May("stop")
          /\ pc' = "halting" /\ UNCHANGED <<transport, spins>>
    /\ UNCHANGED <<cur, stopSent, units, sessions>>

Spin(next) ==
    /\ pc' = next /\ spins' = spins - 1
    /\ UNCHANGED <<stopSent, units, sessions>>
CloseTakes ==
    /\ pc = "closing" /\ spins > 0 /\ DequeueFrame
    /\ cur' = DequeuedFrame
    /\ Spin(IF DequeuedFrame.last THEN "halting" ELSE "returning")

(* Mutant of CloseWaits: one round too many.                                  *)
CloseWaitsOnceMore ==
    pc = "closing" /\ spins >= 0 /\ DequeueNothing /\ Spin("closing") /\ UNCHANGED cur

CloseWaits ==
    /\ pc = "closing" /\ spins > 0 /\ DequeueNothing
    /\ Spin("closing") /\ UNCHANGED cur
CloseReturns == pc = "returning" /\ RequeueFrames({cur.index}) /\ GoTo("closing", cur)
CloseStops ==
    /\ pc = "closing"
    /\ \/ spins = 0 /\ UNCHANGED transport
       \/ spins > 0 /\ DequeueFails
    /\ GoTo("halting", cur)
Halt == pc = "halting" /\ CloseDevice /\ GoTo("closed", NoFrame)

-----------------------------------------------------------------------------
DrainStep ==
    PollDevice \/ Events \/ EventsFail \/ TakeFrame \/ TakeNothing \/ TakeFails \/ Return
CloseStep == CloseTakes \/ CloseWaits \/ CloseReturns \/ CloseStops \/ Halt

Next ==
    \/ Open \/ FirstSubmit \/ Start \/ Started \/ StartFails
    \/ Submit \/ SubmitFails \/ Flush \/ Close
    \/ DrainStep \/ CloseStep
    \/ Device /\ UNCHANGED caller

Spec == Init /\ [][Next]_vars

(* The decoder works while it can, a flush polls until it sees LAST, and a    *)
(* close in progress goes on.                                                 *)
Fairness ==
    /\ WF_vars(Device /\ UNCHANGED caller)
    /\ WF_vars(stopSent /\ DrainStep)
    /\ WF_vars(CloseStep)
LiveSpec == Spec /\ Fairness

-----------------------------------------------------------------------------
(* Properties                                                                 *)

(* A frame carries the size it was decoded at and the generation of the ring  *)
(* its buffer belongs to, across renegotiations: v4l2_dec_dqcap stamps both   *)
(* from the driver's state, not from the buffer, and surface_copy lays out    *)
(* the pixels with it.                                                        *)
FrameHasItsLayout ==
    pc \in {"held", "returning"} =>
        cur.layout = cur.made /\ cur.layout = dec.layout /\ cur.gen = dec.gen

(* A flush ends: with STOP sent, source changes answered and every buffer     *)
(* requeued, LAST arrives, unless the session is closed or fails first.       *)
FlushEnds == (pc = "idle" /\ stopSent) ~> (dec.eos \/ pc \in {"failed", "halting"})
=============================================================================
