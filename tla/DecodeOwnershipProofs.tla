------------------------- MODULE DecodeOwnershipProofs -------------------------
(* The decode core for every value of the constants and with any number of    *)
(* client threads.  First its types: every variable keeps its type, and no    *)
(* queue of the firmware session and no mapping ring exceeds its buffers.     *)
(* Then who owns what: no surface points to a destroyed context, and every    *)
(* fence has an owner whose session is open.  OwnershipInv is the inductive   *)
(* invariant: to know that the sweeps at a close or at a destruction reach    *)
(* every surface, one needs that only live surfaces have owners and that only *)
(* contexts that are alive have calls inside.  And how a session ends: no     *)
(* boundary closes one before LAST, for which SessionsEnd is inductive.       *)
EXTENDS DecodeProperties, SequenceTheorems, TLAPS

-----------------------------------------------------------------------------
(* Records of the registry                                                    *)

(* vpu_decode_begin, surface_finish_write and surface_begin_write leave a     *)
(* well-formed surface record.                                                *)
LEMMA WritesTyped ==
    ASSUME NEW x \in SurfaceRecord, NEW c \in Contexts, NEW n \in Nat
    PROVE  /\ Begun(x) \in SurfaceRecord
           /\ Finished(x) \in SurfaceRecord
           /\ Claimed(x, c, n) \in SurfaceRecord
<1>1. Begun(x) \in SurfaceRecord
  <2> DEFINE gen == x.gen + 1
  <2>1. gen \in Nat
    BY DEF SurfaceRecord
  <2>2. Begun(x) = [x EXCEPT !.gen = gen, !.decoded = FALSE, !.queued = FALSE]
    BY DEF Begun
  <2> HIDE DEF gen
  <2> QED
    BY <2>1, <2>2 DEF SurfaceRecord
<1>2. Finished(x) \in SurfaceRecord
  BY DEF SurfaceRecord, Finished
<1>3. Claimed(x, c, n) \in SurfaceRecord
  BY DEF SurfaceRecord, Finished, Claimed
<1> QED
  BY <1>1, <1>2, <1>3

(* surfaces_mark_decoded and surfs_backfill_stale stamp a surface with the    *)
(* registry's epoch and leave a well-formed record.                           *)
LEMMA StampsTyped ==
    ASSUME NEW x \in SurfaceRecord, NEW c \in Contexts, NEW px \in Pixels,
           reg \in RegistryRecord
    PROVE  /\ Landed(x, c, px) \in SurfaceRecord
           /\ Backfilled(x) \in SurfaceRecord
<1>1. Landed(x, c, px) \in SurfaceRecord
  BY DEF SurfaceRecord, RegistryRecord, Finished, Landed
<1>2. Backfilled(x) \in SurfaceRecord
  BY DEF SurfaceRecord, RegistryRecord, Backfilled
<1> QED
  BY <1>1, <1>2

(* Signalling takes fences away; the fence attached for a claimed target is   *)
(* one of the claimer, with a token that is never 0.                          *)
LEMMA TokenTyped ==
    ASSUME TypeOK, NEW c \in Contexts
    PROVE  Token(c) \in Nat \ {0}
  BY DEF TypeOK, ContextRecord, Token

LEMMA SignalledTyped ==
    ASSUME TypeOK, NEW c, NEW tokens
    PROVE  Signalled(c, tokens) \subseteq FenceRecord /\ Signalled(c, tokens) \subseteq resv
  BY DEF TypeOK, Signalled

LEMMA SweptTyped ==
    ASSUME TypeOK, NEW c
    PROVE  Swept(c) \subseteq FenceRecord /\ Swept(c) \subseteq resv
  BY SignalledTyped DEF Swept

LEMMA AttachedTyped ==
    ASSUME TypeOK, NEW c \in Contexts, NEW s \in Surfaces
    PROVE  Attached(c, s, Token(c)) \subseteq FenceRecord
<1>1. [ctx |-> c, s |-> s, token |-> Token(c)] \in FenceRecord
  BY TokenTyped DEF FenceRecord
<1> QED
  BY <1>1, SignalledTyped DEF Attached

(* Finishing all writes of a context, disowning and detaching its surfaces    *)
(* keep the registry well formed (finish_pending_writes,                      *)
(* restart_decoder_session, detach_owned_surfaces).                           *)
LEMMA SweepsTyped ==
    ASSUME TypeOK, NEW c \in Contexts
    PROVE  /\ AllFinished(c) \in [Surfaces -> SurfaceRecord]
           /\ Disowned(c) \in [Surfaces -> SurfaceRecord]
           /\ Detached(c) \in [Surfaces -> SurfaceRecord]
<1>1. ASSUME NEW s \in Surfaces
      PROVE  surf[s] \in SurfaceRecord /\ Finished(surf[s]) \in SurfaceRecord
  BY <1>1, WritesTyped DEF TypeOK
<1>2. AllFinished(c) \in [Surfaces -> SurfaceRecord]
  BY <1>1 DEF AllFinished
<1>3. Disowned(c) \in [Surfaces -> SurfaceRecord]
  <2>1. ASSUME NEW x \in SurfaceRecord, NEW b \in BOOLEAN
        PROVE  [x EXCEPT !.queued = b] \in SurfaceRecord
    BY <2>1 DEF SurfaceRecord
  <2>2. ASSUME NEW s \in Surfaces
        PROVE  [Finished(surf[s]) EXCEPT
                  !.queued = IF Abandoned(surf[s], c) THEN FALSE ELSE @] \in SurfaceRecord
    <3>1. Finished(surf[s]).queued \in BOOLEAN
      BY <1>1, <2>2 DEF SurfaceRecord
    <3> QED
      BY <1>1, <2>1, <2>2, <3>1
  <2> QED
    BY <1>1, <2>2 DEF Disowned
<1>4. Detached(c) \in [Surfaces -> SurfaceRecord]
  <2>1. ASSUME NEW x \in SurfaceRecord
        PROVE  [x EXCEPT !.owner = None] \in SurfaceRecord
    BY <2>1 DEF SurfaceRecord
  <2> QED
    BY <1>1, <2>1 DEF Detached
<1> QED
  BY <1>2, <1>3, <1>4

(* The registry's own fields stay well formed (surfs_begin_epoch and          *)
(* surfaces_mark_decoded).                                                    *)
LEMMA RegistryTyped ==
    ASSUME reg \in RegistryRecord, NEW s \in Surfaces
    PROVE  NextEpoch \in RegistryRecord /\ LastFrameIs(s) \in RegistryRecord
<1>1. NextEpoch \in RegistryRecord
  BY DEF NextEpoch, RegistryRecord
<1>2. LastFrameIs(s) \in RegistryRecord
  BY DEF LastFrameIs, RegistryRecord
<1> QED
  BY <1>1, <1>2

-----------------------------------------------------------------------------
(* Queues                                                                     *)

SessionsTyped(d) ==
    /\ d \in [Contexts -> SessionRecord]
    /\ \A c \in Contexts : Len(d[c].fw) <= OutBuffers /\ Len(d[c].cap) <= CapBuffers

PendingTyped(p) ==
    /\ p \in [Contexts -> PendingRecord]
    /\ \A c \in Contexts : Len(p[c].fifo) <= FifoSize

(* Removing n elements from position i of a sequence leaves a sequence of the *)
(* remaining ones: n shorter, and none of its elements is new.                *)
LEMMA RemovedLemma ==
    ASSUME NEW S, NEW q \in Seq(S), NEW i \in 1 .. Len(q), NEW n \in 1 .. 2,
           i + n - 1 <= Len(q)
    PROVE  /\ Removed(q, i, n) \in Seq(S)
           /\ Len(Removed(q, i, n)) = Len(q) - n
           /\ \A k \in 1 .. Len(q) - n : \E j \in 1 .. Len(q) :
                 Removed(q, i, n)[k] = q[j]
<1> DEFINE l == SubSeq(q, 1, i - 1)
           r == SubSeq(q, i + n, Len(q))
<1>0. Len(q) \in Nat /\ \A j \in 1 .. Len(q) : q[j] \in S
  BY LenProperties, ElementOfSeq
<1>1. l \in Seq(S) /\ Len(l) = i - 1 /\ \A k \in 1 .. i - 1 : l[k] = q[k]
  <2>1. \A j \in 1 .. i - 1 : q[j] \in S
    BY <1>0
  <2>2. 1 \in Int /\ i - 1 \in Int
    BY <1>0
  <2>3. /\ l \in Seq(S) /\ Len(l) = IF 1 <= i - 1 THEN i - 1 - 1 + 1 ELSE 0
        /\ \A k \in 1 .. i - 1 - 1 + 1 : l[k] = q[1 + k - 1]
    BY <2>1, <2>2, SubSeqProperties
  <2> QED
    BY <1>0, <2>3
<1>2. /\ r \in Seq(S) /\ Len(r) = Len(q) - i - n + 1
      /\ \A k \in 1 .. Len(r) : r[k] = q[i + n + k - 1]
  <2>1. \A j \in i + n .. Len(q) : q[j] \in S
    BY <1>0
  <2>2. i + n \in Int /\ Len(q) \in Int
    BY <1>0
  <2>3. /\ r \in Seq(S)
        /\ Len(r) = IF i + n <= Len(q) THEN Len(q) - (i + n) + 1 ELSE 0
        /\ \A k \in 1 .. Len(q) - (i + n) + 1 : r[k] = q[i + n + k - 1]
    BY <2>1, <2>2, SubSeqProperties
  <2> QED
    BY <1>0, <2>3
<1>3. Removed(q, i, n) = l \o r
  BY DEF Removed
<1> HIDE DEF l, r
<1>4. /\ l \o r \in Seq(S) /\ Len(l \o r) = Len(l) + Len(r)
      /\ \A k \in 1 .. Len(l) + Len(r) :
            (l \o r)[k] = IF k <= Len(l) THEN l[k] ELSE r[k - Len(l)]
  BY <1>1, <1>2, ConcatProperties, Zenon
<1>5. ASSUME NEW k \in 1 .. Len(q) - n
      PROVE  \E j \in 1 .. Len(q) : (l \o r)[k] = q[j]
  <2>1. CASE k <= i - 1
    BY <1>0, <1>1, <1>2, <1>4, <2>1
  <2>2. CASE ~(k <= i - 1)
    <3>1. (l \o r)[k] = r[k - (i - 1)] /\ k - (i - 1) \in 1 .. Len(r)
      BY <1>0, <1>1, <1>2, <1>4, <2>2
    <3>2. r[k - (i - 1)] = q[k + n]
      BY <1>0, <1>2, <3>1
    <3> QED
      BY <1>0, <3>1, <3>2
  <2> QED
    BY <2>1, <2>2
<1>6. Len(l \o r) = Len(q) - n
  BY <1>0, <1>1, <1>2, <1>4
<1> QED
  BY <1>3, <1>4, <1>5, <1>6, Zenon

(* An access unit enters an OUTPUT queue that has a free buffer.              *)
LEMMA PushTyped ==
    ASSUME SessionsTyped(dev), NEW c \in Contexts, NEW u \in AccessUnit, ~InputFull(c)
    PROVE  SessionsTyped([dev EXCEPT ![c].fw = Append(@, u)])
<1> DEFINE fw == Append(dev[c].fw, u)
<1>1. fw \in Seq(AccessUnit) /\ Len(fw) = Len(dev[c].fw) + 1
  BY AppendProperties DEF SessionsTyped, SessionRecord
<1>2. Len(fw) <= OutBuffers
  BY <1>1, DecodeAssumption, LenProperties DEF SessionsTyped, SessionRecord, InputFull
<1>3. [dev EXCEPT ![c].fw = Append(@, u)] = [dev EXCEPT ![c] = [dev[c] EXCEPT !.fw = fw]]
  BY DEF SessionsTyped
<1> HIDE DEF fw
<1>4. [dev[c] EXCEPT !.fw = fw] \in SessionRecord
  BY <1>1 DEF SessionsTyped, SessionRecord
<1> QED
  BY <1>1, <1>2, <1>3, <1>4 DEF SessionsTyped, SessionRecord

(* A frame leaves a CAPTURE queue that holds one.                             *)
LEMMA PopTyped ==
    ASSUME SessionsTyped(dev), NEW c \in Contexts, dev[c].cap # <<>>
    PROVE  SessionsTyped([dev EXCEPT ![c].cap = Tail(@)])
<1> DEFINE cap == Tail(dev[c].cap)
<1>1. cap \in Seq(Frame) /\ Len(cap) = Len(dev[c].cap) - 1
  BY HeadTailProperties DEF SessionsTyped, SessionRecord
<1>2. Len(cap) <= CapBuffers
  BY <1>1, DecodeAssumption, LenProperties DEF SessionsTyped, SessionRecord
<1>3. [dev EXCEPT ![c].cap = Tail(@)] = [dev EXCEPT ![c] = [dev[c] EXCEPT !.cap = cap]]
  BY DEF SessionsTyped
<1> HIDE DEF cap
<1>4. [dev[c] EXCEPT !.cap = cap] \in SessionRecord
  BY <1>1 DEF SessionsTyped, SessionRecord
<1> QED
  BY <1>1, <1>2, <1>3, <1>4 DEF SessionsTyped, SessionRecord

(* Closing a session and forgetting its mappings keep the types               *)
(* (reset_decoder_session_state).                                             *)
LEMMA ResetTyped ==
    ASSUME TypeOK, NEW c \in Contexts
    PROVE  /\ SessionsTyped([dev EXCEPT ![c] = NoSession])
           /\ PendingTyped([pend EXCEPT ![c] = NoPending])
           /\ PairReset(c) \in PairRecord
<1>1. SessionsTyped([dev EXCEPT ![c] = NoSession])
  <2>1. NoSession \in SessionRecord /\ Len(NoSession.fw) = 0 /\ Len(NoSession.cap) = 0
    BY DEF NoSession, SessionRecord
  <2> QED
    BY <2>1, DecodeAssumption DEF TypeOK, WithinBuffers, SessionsTyped
<1>2. PendingTyped([pend EXCEPT ![c] = NoPending])
  <2>1. EmptySlot \in Slot
    BY DEF EmptySlot, Slot
  <2>2. NoPending \in PendingRecord /\ Len(NoPending.fifo) = 0
    BY <2>1 DEF NoPending, EmptyRing, PendingRecord
  <2> QED
    BY <2>2, DecodeAssumption DEF TypeOK, WithinBuffers, PendingTyped
<1>3. PairReset(c) \in PairRecord
  BY DEF TypeOK, PairReset, PairRecord
<1> QED
  BY <1>1, <1>2, <1>3

(* The session flags after a close are well formed.                           *)
LEMMA ClosedTyped ==
    ASSUME TypeOK, NEW c \in Contexts, NEW seq \in Nat
    PROVE  Closed(c, seq) \in ContextRecord
  BY DEF TypeOK, Closed, ContextRecord

-----------------------------------------------------------------------------
(* Actions                                                                    *)

(* What the conjuncts of TypeOK about the queues say, in both directions.     *)
LEMMA QueuesTyped ==
    /\ TypeOK => SessionsTyped(dev) /\ PendingTyped(pend)
    /\ SessionsTyped(dev)' /\ PendingTyped(pend)' => WithinBuffers'
  BY DEF TypeOK, WithinBuffers, SessionsTyped, PendingTyped

(* Creating, exporting and destroying a surface keeps the types.              *)
LEMMA SurfaceCallType ==
    ASSUME TypeOK, NEW s \in Surfaces,
           AllocSurface(s) \/ ExportSurface(s) \/ FreeSurface(s)
    PROVE  TypeOK'
<1>1. UnbornSurface \in SurfaceRecord
  BY DEF UnbornSurface, SurfaceRecord, Black, Pixels
<1>2. surf' \in [Surfaces -> SurfaceRecord]
  <2>1. CASE AllocSurface(s)
    <3>1. Allocated \in SurfaceRecord
      BY <1>1 DEF TypeOK, Allocated, SurfaceRecord, RegistryRecord
    <3> QED
      BY <2>1, <3>1 DEF TypeOK, AllocSurface
  <2>2. CASE ExportSurface(s)
    <3>1. [surf[s] EXCEPT !.exported = TRUE] \in SurfaceRecord
      BY DEF TypeOK, SurfaceRecord
    <3> QED
      BY <2>2, <3>1 DEF TypeOK, ExportSurface
  <2>3. CASE FreeSurface(s)
    <3>1. [UnbornSurface EXCEPT !.life = "freed"] \in SurfaceRecord
      BY <1>1 DEF SurfaceRecord
    <3> QED
      BY <2>3, <3>1 DEF TypeOK, FreeSurface
  <2> QED
    BY <2>1, <2>2, <2>3
<1>3. UNCHANGED <<reg, ctx, pend, paff, cur, pc, dev, sync, history>>
  BY DEF AllocSurface, ExportSurface, FreeSurface
<1>4. resv' \subseteq FenceRecord
  <2>1. resv' = resv \/ resv' = Signalled(surf[s].owner, {surf[s].fence})
    BY DEF AllocSurface, ExportSurface, FreeSurface
  <2> QED
    BY <2>1, SignalledTyped DEF TypeOK
<1> QED
  BY <1>2, <1>3, <1>4 DEF TypeOK, history, WithinBuffers

(* vaCreateContext keeps the types.                                           *)
LEMMA CreateContextType ==
    ASSUME TypeOK, NEW c \in Contexts, CreateContext(c)
    PROVE  TypeOK'
<1>1. ctx' \in [Contexts -> ContextRecord]
  BY DEF TypeOK, CreateContext, ContextRecord
<1> QED
  BY <1>1 DEF TypeOK, CreateContext, history, WithinBuffers

(* vaBeginPicture keeps the types.                                            *)
LEMMA BeginPictureType ==
    ASSUME TypeOK, NEW c \in Contexts, NEW s \in Surfaces, NEW field \in 0 .. 2,
           NEW poc \in Pocs, BeginPicture(c, s, field, poc)
    PROVE  TypeOK'
<1>1. surf' \in [Surfaces -> SurfaceRecord]
  <2>1. Begun(surf[s]) \in SurfaceRecord
    BY WritesTyped DEF TypeOK
  <2> QED
    BY <2>1 DEF TypeOK, BeginPicture
<1>2. cur' \in [Contexts -> PictureRecord]
  BY DecodeAssumption DEF TypeOK, BeginPicture, PictureRecord, SurfaceRecord
<1>3. paff' \in [Contexts -> PairRecord]
  <2>1. /\ [paff[c] EXCEPT !.second = TRUE] \in PairRecord
        /\ [paff[c] EXCEPT !.second = FALSE, !.open = FALSE] \in PairRecord
    BY DEF TypeOK, PairRecord
  <2>2. \/ paff' = [paff EXCEPT ![c] = [paff[c] EXCEPT !.second = TRUE]]
        \/ paff' = [paff EXCEPT ![c] = [paff[c] EXCEPT !.second = FALSE, !.open = FALSE]]
    BY DEF TypeOK, BeginPicture
  <2> QED
    BY <2>1, <2>2 DEF TypeOK
<1>4. goal' \in [Surfaces -> GoalRecord] /\ pictures' \in Nat
  BY DEF TypeOK, BeginPicture, PictureRecord, GoalRecord, SecondField, PairRecord
<1> QED
  BY <1>1, <1>2, <1>3, <1>4 DEF TypeOK, BeginPicture, WithinBuffers

(* STOP is sent to a session: its flags stay well formed.                     *)
LEMMA StopSessionType ==
    ASSUME TypeOK, NEW c \in Contexts, NEW next \in Calls, StopSession(c, next)
    PROVE  /\ ctx' \in [Contexts -> ContextRecord]
           /\ SessionsTyped(dev')
           /\ pc' \in [Contexts -> Calls]
<1>1. ctx' \in [Contexts -> ContextRecord]
  BY DEF TypeOK, StopSession, ContextRecord
<1>2. SessionsTyped(dev')
  BY DEF TypeOK, StopSession, SessionRecord, SessionsTyped, WithinBuffers
<1>3. pc' \in [Contexts -> Calls]
  BY DEF TypeOK, StopSession
<1> QED
  BY <1>1, <1>2, <1>3

(* The entry of vaEndPicture keeps the types, whether it fails or not.        *)
LEMMA EndPictureType ==
    ASSUME TypeOK, NEW c \in Contexts,
           EndPictureFails(c) \/ \E ra, cue \in BOOLEAN : EndPicture(c, ra, cue)
    PROVE  TypeOK'
<1>1. /\ cur' = [cur EXCEPT ![c].begun = FALSE]
      /\ UNCHANGED <<surf, resv, reg, pend, paff, sync, history>>
  BY DEF EndPicture, EndPictureFails
<1>2. cur' \in [Contexts -> PictureRecord]
  BY <1>1 DEF TypeOK, PictureRecord
<1>3. \/ UNCHANGED <<ctx, dev>> /\ (\E p \in Calls : pc' = [pc EXCEPT ![c] = p])
      \/ UNCHANGED <<ctx, dev, pc>>
      \/ StopSession(c, "boundary")
  BY DEF EndPicture, EndPictureFails, Calls
<1>4. /\ ctx' \in [Contexts -> ContextRecord]
      /\ SessionsTyped(dev')
      /\ pc' \in [Contexts -> Calls]
  <2>1. CASE StopSession(c, "boundary")
    BY <2>1, StopSessionType DEF Calls
  <2>2. CASE UNCHANGED <<ctx, dev>> /\ (\E p \in Calls : pc' = [pc EXCEPT ![c] = p])
    BY <2>2, QueuesTyped DEF TypeOK
  <2>3. CASE UNCHANGED <<ctx, dev, pc>>
    BY <2>3, QueuesTyped DEF TypeOK
  <2> QED
    BY <1>3, <2>1, <2>2, <2>3
<1> QED
  BY <1>1, <1>2, <1>4, QueuesTyped DEF TypeOK, history, SessionsTyped, PendingTyped, WithinBuffers

(* The end of the drain loop keeps the types.                                 *)
LEMMA FlushDoneType ==
    ASSUME TypeOK, NEW c \in Contexts, FlushDone(c)
    PROVE  TypeOK'
<1>1. SessionsTyped(dev')
  BY PopTyped, QueuesTyped DEF FlushDone
<1>2. pc' \in [Contexts -> Calls]
  BY DEF TypeOK, FlushDone, Calls
<1> QED
  BY <1>1, <1>2 DEF TypeOK, FlushDone, history, SessionsTyped, WithinBuffers

(* stream_boundary_restart keeps the types.                                   *)
LEMMA RestartType ==
    ASSUME TypeOK, NEW c \in Contexts, Restart(c)
    PROVE  TypeOK'
<1>1. surf' \in [Surfaces -> SurfaceRecord]
  BY SweepsTyped DEF Restart
<1>2. reg' \in RegistryRecord
  BY DEF TypeOK, Restart, NextEpoch, RegistryRecord
<1>3. ctx' \in [Contexts -> ContextRecord]
  <2>1. ctx[c].seq \in Nat
    BY DEF TypeOK, ContextRecord
  <2> QED
    BY <2>1, ClosedTyped DEF TypeOK, Restart
<1>4. SessionsTyped(dev') /\ PendingTyped(pend') /\ paff' \in [Contexts -> PairRecord]
  BY ResetTyped DEF TypeOK, Restart
<1>5. pc' \in [Contexts -> Calls] /\ stream' \in [Contexts -> Nat]
  BY DEF TypeOK, Restart, Calls
<1> QED
  BY <1>1, <1>2, <1>3, <1>4, <1>5, SweptTyped
  DEF TypeOK, Restart, SessionsTyped, PendingTyped, WithinBuffers

(* ensure_decoder keeps the types, whether the session opens or not.          *)
LEMMA OpenSessionType ==
    ASSUME TypeOK, NEW c \in Contexts, OpenSession(c)
    PROVE  TypeOK'
<1>1. PICK ok \in BOOLEAN :
        /\ ctx' = [ctx EXCEPT ![c] =
                    [IF OldSessionEnded(c) THEN Closed(c, 0) ELSE ctx[c] EXCEPT !.open = ok]]
        /\ pc' = [pc EXCEPT ![c] = IF ok THEN pc[c] ELSE "idle"]
  BY DEF OpenSession
<1>2. ctx' \in [Contexts -> ContextRecord]
  <2>1. (IF OldSessionEnded(c) THEN Closed(c, 0) ELSE ctx[c]) \in ContextRecord
    BY ClosedTyped DEF TypeOK
  <2>2. ASSUME NEW x \in ContextRecord
        PROVE  [x EXCEPT !.open = ok] \in ContextRecord
    BY <2>2 DEF ContextRecord
  <2> QED
    BY <1>1, <2>1, <2>2 DEF TypeOK
<1>3. pc' \in [Contexts -> Calls]
  BY <1>1 DEF TypeOK, Calls
<1>4. surf' \in [Surfaces -> SurfaceRecord]
  BY SweepsTyped DEF TypeOK, OpenSession
<1>5. SessionsTyped(dev')
  BY ResetTyped DEF OpenSession
<1>6. PendingTyped(pend') /\ paff' \in [Contexts -> PairRecord]
  BY ResetTyped, QueuesTyped DEF TypeOK, OpenSession
<1> QED
  BY <1>2, <1>3, <1>4, <1>5, <1>6, SweptTyped
  DEF TypeOK, OpenSession, history, SessionsTyped, PendingTyped, WithinBuffers

(* Mapping a picture to its target keeps the types.                           *)
LEMMA ClaimTargetType ==
    ASSUME TypeOK, NEW c \in Contexts, ClaimTarget(c)
    PROVE  TypeOK'
<1>1. surf' \in [Surfaces -> SurfaceRecord]
  <2>1. \A s \in Surfaces : /\ surf[s] \in SurfaceRecord
                            /\ Claimed(surf[s], c, Token(c)) \in SurfaceRecord
    BY TokenTyped, WritesTyped DEF TypeOK
  <2> QED
    BY <2>1 DEF TypeOK, ClaimTarget
<1>2. PendingTyped(pend')
  <2>1. CASE paff[c].second
    BY <2>1, QueuesTyped DEF ClaimTarget
  <2>2. CASE ~paff[c].second
    <3> DEFINE slot == [used |-> TRUE, seq |-> ctx[c].seq,
                        target |-> cur[c].target, gen |-> cur[c].gen]
               ring == [pend[c].ring EXCEPT ![SlotOf(ctx[c].seq)] = slot]
    <3>1. slot \in Slot
      BY DEF TypeOK, Slot, ContextRecord, PictureRecord
    <3>2. ring \in [0 .. RingSize - 1 -> Slot]
      BY <3>1 DEF TypeOK, PendingRecord
    <3>3. pend' = [pend EXCEPT ![c] = [pend[c] EXCEPT !.ring = ring]]
      BY <2>2 DEF TypeOK, ClaimTarget
    <3> HIDE DEF slot, ring
    <3>4. [pend[c] EXCEPT !.ring = ring] \in PendingRecord
      BY <3>2 DEF TypeOK, PendingRecord
    <3> QED
      BY <3>3, <3>4, QueuesTyped DEF PendingTyped, PendingRecord
  <2> QED
    BY <2>1, <2>2
<1>3. pc' \in [Contexts -> Calls]
  BY DEF TypeOK, ClaimTarget, Calls
<1>4. resv' \subseteq FenceRecord
  BY AttachedTyped DEF TypeOK, ClaimTarget, Live
<1> QED
  BY <1>1, <1>2, <1>3, <1>4 DEF TypeOK, ClaimTarget, history, PendingTyped, WithinBuffers

(* The access unit built for the current picture is well formed.              *)
LEMMA UnitTyped ==
    ASSUME TypeOK, NEW c \in Contexts
    PROVE  Unit(c) \in AccessUnit
  BY DEF TypeOK, Unit, AccessUnit, Timestamp, PairRecord, PictureRecord, ContextRecord,
         Pixels

(* hevc_pending_add: the ring stays within its slots, the oldest entry of a   *)
(* full ring makes room for the new one.                                      *)
LEMMA FifoAddedTyped ==
    ASSUME TypeOK, NEW c \in Contexts
    PROVE  FifoAdded(c) \in Seq(Mapping) /\ Len(FifoAdded(c)) <= FifoSize
<1> DEFINE e == [target |-> cur[c].target, gen |-> cur[c].gen]
           f == pend[c].fifo
<1>1. e \in Mapping /\ f \in Seq(Mapping) /\ Len(f) <= FifoSize
  BY DEF TypeOK, PendingRecord, PictureRecord, Mapping, WithinBuffers
<1>2. FifoAdded(c) = IF Len(f) < FifoSize THEN Append(f, e) ELSE Append(Tail(f), e)
  BY DEF FifoAdded
<1> HIDE DEF e, f
<1>3. CASE Len(f) < FifoSize
  BY <1>1, <1>2, <1>3, DecodeAssumption
<1>4. CASE ~(Len(f) < FifoSize)
  <2>1. f # <<>>
    BY <1>1, <1>4, DecodeAssumption
  <2> QED
    BY <1>1, <1>2, <1>4, <2>1, DecodeAssumption
<1> QED
  BY <1>3, <1>4

(* An accepted access unit keeps the types.                                   *)
LEMMA FeedType ==
    ASSUME TypeOK, NEW c \in Contexts, Feed(c)
    PROVE  TypeOK'
<1>1. SessionsTyped(dev')
  BY UnitTyped, PushTyped, QueuesTyped DEF Feed
<1>2. PendingTyped(pend')
  BY FifoAddedTyped DEF TypeOK, Feed, PendingRecord, PendingTyped, WithinBuffers
<1>3. paff' \in [Contexts -> PairRecord]
  <2> DEFINE first == cur[c].field # 0 /\ ~paff[c].second
             ts    == IF first THEN Timestamp(ctx[c].seq) ELSE paff[c].ts
  <2>1. first \in BOOLEAN /\ ts \in Nat
    BY DEF TypeOK, PairRecord, ContextRecord, Timestamp
  <2>2. PairTracked(c) = [paff[c] EXCEPT !.open = first, !.ts = ts]
    BY DEF PairTracked
  <2> HIDE DEF first, ts
  <2>3. PairTracked(c) \in PairRecord
    BY <2>1, <2>2 DEF TypeOK, PairRecord
  <2> QED
    BY <2>3 DEF TypeOK, Feed
<1>4. ctx' \in [Contexts -> ContextRecord]
  <2>1. NextSeq(c) \in Nat
    BY DEF TypeOK, NextSeq, ContextRecord
  <2>2. [ctx[c] EXCEPT !.started = TRUE, !.seq = NextSeq(c)] \in ContextRecord
    BY <2>1 DEF TypeOK, ContextRecord
  <2>3. ctx' = [ctx EXCEPT ![c] = [ctx[c] EXCEPT !.started = TRUE, !.seq = NextSeq(c)]]
    BY DEF TypeOK, Feed
  <2> QED
    BY <2>2, <2>3 DEF TypeOK
<1>5. pc' \in [Contexts -> Calls]
  BY DEF TypeOK, Feed, Calls
<1> QED
  BY <1>1, <1>2, <1>3, <1>4, <1>5
  DEF TypeOK, Feed, history, SessionsTyped, PendingTyped, WithinBuffers

(* A refused submission and its unwinding keep the types.                     *)
LEMMA SubmissionFailsType ==
    ASSUME TypeOK, NEW c \in Contexts, SubmitFails(c) \/ StartFails(c) \/ Unwind(c)
    PROVE  TypeOK'
<1>1. SessionsTyped(dev')
  BY UnitTyped, PushTyped, QueuesTyped DEF SubmitFails, StartFails, Unwind
<1>2. surf' \in [Surfaces -> SurfaceRecord]
  BY SweepsTyped DEF TypeOK, SubmitFails, StartFails, Unwind
<1>3. pc' \in [Contexts -> Calls]
  BY DEF TypeOK, SubmitFails, StartFails, Unwind, Calls
<1>4. UNCHANGED <<reg, ctx, pend, paff, cur, sync, history>>
  BY DEF SubmitFails, StartFails, Unwind
<1>5. resv' \subseteq FenceRecord
  BY SweptTyped DEF TypeOK, SubmitFails, StartFails, Unwind
<1> QED
  BY <1>1, <1>2, <1>3, <1>4, <1>5 DEF TypeOK, history, SessionsTyped, WithinBuffers

(* The return of vaEndPicture keeps the types.                                *)
LEMMA EndPictureReturnsType ==
    ASSUME TypeOK, NEW c \in Contexts, DrainDone(c) \/ WaitDone(c)
    PROVE  TypeOK'
<1>1. paff' \in [Contexts -> PairRecord]
  <2>1. ASSUME Finish(c)
        PROVE  paff' \in [Contexts -> PairRecord]
    BY <2>1 DEF TypeOK, Finish, PairRecord
  <2> QED
    BY <2>1 DEF TypeOK, DrainDone, WaitDone
<1>2. pc' \in [Contexts -> Calls]
  BY DEF TypeOK, DrainDone, WaitDone, Calls
<1>3. UNCHANGED <<surf, resv, reg, ctx, pend, cur, dev, sync, history>>
  BY DEF DrainDone, WaitDone
<1> QED
  BY <1>1, <1>2, <1>3 DEF TypeOK, history, WithinBuffers

(* A queue that is not empty has a well-formed head.                          *)
LEMMA HeadTyped ==
    ASSUME TypeOK, NEW c \in Contexts, dev[c].cap # <<>>
    PROVE  Head(dev[c].cap) \in Frame
  BY HeadTailProperties DEF TypeOK, SessionRecord

(* assign_frame: the mapping is consumed, the frame lands or is lost, and     *)
(* the types are kept.                                                        *)
LEMMA AssignType ==
    ASSUME TypeOK, NEW c \in Contexts, NEW f \in Frame, NEW copied \in BOOLEAN,
           Assign(c, f, copied)
    PROVE  /\ surf' \in [Surfaces -> SurfaceRecord]
           /\ reg' \in RegistryRecord
           /\ PendingTyped(pend')
           /\ goal' \in [Surfaces -> GoalRecord]
<1> DEFINE s  == MappedTo(c, f).target
           px == IF f.last THEN surf[s].px ELSE f.px
<1>1. PendingTyped(pend')
  <2>1. pend' = [pend EXCEPT ![c] = MappingTaken(c, f)]
    BY DEF Assign
  <2>2. MappingTaken(c, f) \in PendingRecord /\ Len(MappingTaken(c, f).fifo) <= FifoSize
    <3>1. pend[c] \in PendingRecord /\ Len(pend[c].fifo) <= FifoSize
      BY DEF TypeOK, WithinBuffers
    <3>2. CASE MappingTaken(c, f) = pend[c]
      BY <3>1, <3>2
    <3>3. CASE /\ pend[c].fifo # <<>>
               /\ MappingTaken(c, f) = [pend[c] EXCEPT !.fifo = Tail(@)]
      <4> DEFINE fifo == Tail(pend[c].fifo)
      <4>1. fifo \in Seq(Mapping) /\ Len(fifo) = Len(pend[c].fifo) - 1
        BY <3>1, <3>3, HeadTailProperties DEF PendingRecord
      <4>2. Len(fifo) <= FifoSize
        BY <3>1, <4>1, LenProperties, DecodeAssumption DEF PendingRecord
      <4> HIDE DEF fifo
      <4>3. [pend[c] EXCEPT !.fifo = fifo] \in PendingRecord
        BY <3>1, <4>1 DEF PendingRecord
      <4> QED
        BY <3>1, <3>3, <4>2, <4>3 DEF fifo, PendingRecord
    <3>4. CASE MappingTaken(c, f)
                 = [pend[c] EXCEPT !.ring[SlotOf(FrameSeq(f))].used = FALSE]
      <4> DEFINE i    == SlotOf(FrameSeq(f))
                 slot == [pend[c].ring[i] EXCEPT !.used = FALSE]
                 ring == [pend[c].ring EXCEPT ![i] = slot]
      <4>1. i \in 0 .. RingSize - 1
        <5>1. FrameSeq(f) \in Int
          BY DEF FrameSeq, Frame
        <5> QED
          BY <5>1, DecodeAssumption DEF SlotOf
      <4>2. slot \in Slot
        BY <3>1, <4>1 DEF PendingRecord, Slot
      <4>3. ring \in [0 .. RingSize - 1 -> Slot]
        BY <3>1, <4>2 DEF PendingRecord
      <4>4. MappingTaken(c, f) = [pend[c] EXCEPT !.ring = ring]
        BY <3>1, <3>4 DEF PendingRecord
      <4> HIDE DEF ring
      <4> QED
        BY <3>1, <4>3, <4>4 DEF PendingRecord
    <3> QED
      BY <3>2, <3>3, <3>4 DEF MappingTaken, Unassignable
  <2> QED
    BY <2>1, <2>2, QueuesTyped DEF PendingTyped
<1>2. CASE ~Lands(c, f)
  BY <1>1, <1>2 DEF TypeOK, Assign
<1>3. CASE Lands(c, f)
  <2>1. s \in Surfaces /\ surf[s] \in SurfaceRecord
    BY <1>3 DEF TypeOK, Lands, Live
  <2>2. px \in Pixels
    BY <2>1 DEF Frame, SurfaceRecord
  <2> HIDE DEF s, px
  <2>3. CASE copied
    <3>1. Landed(surf[s], c, px) \in SurfaceRecord /\ LastFrameIs(s) \in RegistryRecord
      BY <2>1, <2>2, StampsTyped, RegistryTyped DEF TypeOK
    <3>2. /\ surf' = [surf EXCEPT ![s] = Landed(surf[s], c, px)]
          /\ reg' = LastFrameIs(s)
          /\ goal' = [goal EXCEPT ![s].filled = FALSE]
      BY <1>3, <2>3 DEF Assign, s, px
    <3> QED
      BY <1>1, <2>1, <3>1, <3>2 DEF TypeOK, GoalRecord
  <2>4. CASE ~copied
    <3>1. PICK x \in {surf[s], Finished(surf[s]), [Finished(surf[s]) EXCEPT !.px = px]} :
             surf' = [surf EXCEPT ![s] = x]
      BY <1>3, <2>4 DEF Assign, s, px
    <3>2. Finished(surf[s]) \in SurfaceRecord
      BY <2>1, WritesTyped
    <3>3. [Finished(surf[s]) EXCEPT !.px = px] \in SurfaceRecord
      BY <2>2, <3>2 DEF SurfaceRecord
    <3>4. UNCHANGED <<reg, goal>>
      BY <1>3, <2>4 DEF Assign
    <3> QED
      BY <1>1, <2>1, <3>1, <3>2, <3>3, <3>4 DEF TypeOK
  <2> QED
    BY <2>3, <2>4
<1> QED
  BY <1>2, <1>3

(* A failing call goes to a place of Calls and reports to the sync it serves. *)
LEMMA FailingType ==
    ASSUME TypeOK, NEW c \in Contexts, Failing(c)
    PROVE  pc' \in [Contexts -> Calls] /\ sync' \in SyncRecord
<1>1. AfterError(pc[c]) \in Calls
  BY DEF AfterError, Calls
<1>2. NoSync \in SyncRecord
  BY DEF NoSync, SyncRecord
<1> QED
  BY <1>1, <1>2 DEF TypeOK, Failing

(* One dequeued frame keeps the types.                                        *)
LEMMA TakeFrameType ==
    ASSUME TypeOK, NEW c \in Contexts, TakeFrame(c)
    PROVE  TypeOK'
<1>1. SessionsTyped(dev')
  BY PopTyped, QueuesTyped DEF TakeFrame
<1>2. PICK copied \in BOOLEAN :
        /\ Assign(c, Head(dev[c].cap), copied)
        /\ \/ ctx' = [ctx EXCEPT ![c].fatal = TRUE] /\ Failing(c)
           \/ UNCHANGED <<ctx, pc, sync>>
  BY DEF TakeFrame
<1>3. /\ surf' \in [Surfaces -> SurfaceRecord]
      /\ reg' \in RegistryRecord
      /\ PendingTyped(pend')
      /\ goal' \in [Surfaces -> GoalRecord]
  <2>1. Head(dev[c].cap) \in Frame
    BY HeadTyped DEF TakeFrame
  <2> QED
    BY <1>2, <2>1, AssignType
<1>4. ctx' \in [Contexts -> ContextRecord]
  <2>1. UNCHANGED ctx \/ ctx' = [ctx EXCEPT ![c].fatal = TRUE]
    BY <1>2
  <2>2. [ctx[c] EXCEPT !.fatal = TRUE] \in ContextRecord
    BY DEF TypeOK, ContextRecord
  <2> QED
    BY <2>1, <2>2 DEF TypeOK
<1>5. pc' \in [Contexts -> Calls] /\ sync' \in SyncRecord
  BY <1>2, FailingType DEF TypeOK
<1>6. resv' \subseteq FenceRecord
  BY SignalledTyped DEF TypeOK, TakeFrame, Assign
<1> QED
  BY <1>1, <1>3, <1>4, <1>5, <1>6
  DEF TypeOK, TakeFrame, SessionsTyped, PendingTyped, WithinBuffers

(* A device error or a timeout keeps the types.                               *)
LEMMA LoopFailsType ==
    ASSUME TypeOK, NEW c \in Contexts, CallFails(c) \/ TimesOut(c)
    PROVE  TypeOK'
<1>1. ctx' \in [Contexts -> ContextRecord]
  <2>1. \/ UNCHANGED ctx
        \/ \E fatal \in {TRUE, ctx[c].fatal} : ctx' = [ctx EXCEPT ![c].fatal = fatal]
    BY DEF CallFails, TimesOut
  <2>2. ctx[c].fatal \in BOOLEAN
    BY DEF TypeOK, ContextRecord
  <2>3. ASSUME NEW b \in BOOLEAN
        PROVE  [ctx[c] EXCEPT !.fatal = b] \in ContextRecord
    BY <2>3 DEF TypeOK, ContextRecord
  <2> QED
    BY <2>1, <2>2, <2>3 DEF TypeOK
<1>2. pc' \in [Contexts -> Calls] /\ sync' \in SyncRecord
  BY FailingType DEF CallFails, TimesOut
<1>3. UNCHANGED <<surf, resv, reg, pend, paff, cur, dev, history>>
  BY DEF CallFails, TimesOut
<1> QED
  BY <1>1, <1>2, <1>3 DEF TypeOK, history, WithinBuffers

(* vaSyncSurface up to the mutex keeps the types.                             *)
LEMMA SyncSurfaceType ==
    ASSUME TypeOK, NEW s \in Surfaces, SyncSurface(s)
    PROVE  TypeOK'
<1>1. FillPixels(s) \in Pixels
  BY DEF TypeOK, FillPixels, Repeatable, Live, SurfaceRecord, Black, Pixels
<1>2. surf' \in [Surfaces -> SurfaceRecord]
  <2>1. [surf[s] EXCEPT !.px = FillPixels(s)] \in SurfaceRecord
    BY <1>1 DEF TypeOK, SurfaceRecord
  <2> QED
    BY <2>1 DEF TypeOK, SyncSurface
<1>3. sync' \in SyncRecord
  BY DEF TypeOK, SyncSurface, SyncRecord, SurfaceRecord
<1>4. goal' \in [Surfaces -> GoalRecord]
  <2>1. [goal[s] EXCEPT !.filled = TRUE] \in GoalRecord
    BY DEF TypeOK, GoalRecord
  <2> QED
    BY <2>1 DEF TypeOK, SyncSurface
<1> QED
  BY <1>2, <1>3, <1>4 DEF TypeOK, SyncSurface, WithinBuffers

(* The rest of vaSyncSurface keeps the types.                                 *)
LEMMA SyncStepType ==
    ASSUME TypeOK,
           SyncFilled \/ \E c \in Contexts : SyncEnter(c) \/ SyncReturn(c)
    PROVE  TypeOK'
<1>1. surf' \in [Surfaces -> SurfaceRecord]
  <2>1. CASE SyncFilled
    <3>1. \A s \in Surfaces : Backfilled(surf[s]) \in SurfaceRecord
      <4>1. ASSUME NEW x \in SurfaceRecord
            PROVE  Backfilled(x) \in SurfaceRecord
        BY <4>1 DEF TypeOK, SurfaceRecord, RegistryRecord, Backfilled
      <4> QED
        BY <4>1 DEF TypeOK
    <3> QED
      BY <2>1, <3>1 DEF TypeOK, SyncFilled
  <2>2. CASE ~SyncFilled
    BY <2>2 DEF TypeOK, SyncEnter, SyncReturn
  <2> QED
    BY <2>1, <2>2
<1>2. sync' \in SyncRecord
  <2>1. /\ NoSync \in SyncRecord
        /\ [sync EXCEPT !.st = "returned"] \in SyncRecord
        /\ [sync EXCEPT !.st = "inside"] \in SyncRecord
    BY DEF TypeOK, SyncRecord, NoSync
  <2> QED
    BY <2>1 DEF SyncFilled, SyncEnter, SyncReturn
<1>3. pc' \in [Contexts -> Calls]
  BY DEF TypeOK, SyncFilled, SyncEnter, SyncReturn, Calls
<1>4. UNCHANGED <<resv, reg, ctx, pend, paff, cur, dev, history>>
  BY DEF SyncFilled, SyncEnter, SyncReturn
<1> QED
  BY <1>1, <1>2, <1>3, <1>4 DEF TypeOK, history, WithinBuffers

(* The entry of vaDestroyContext keeps the types.                             *)
LEMMA DestroyContextType ==
    ASSUME TypeOK, NEW c \in Contexts, DestroyContext(c)
    PROVE  TypeOK'
<1>1. cur' \in [Contexts -> PictureRecord]
  BY DEF TypeOK, DestroyContext, NoPicture, PictureRecord
<1>2. /\ ctx' \in [Contexts -> ContextRecord]
      /\ SessionsTyped(dev')
      /\ pc' \in [Contexts -> Calls]
  <2>1. CASE StopSession(c, "destroy")
    BY <2>1, StopSessionType DEF Calls
  <2>2. CASE pc' = [pc EXCEPT ![c] = "teardown"] /\ UNCHANGED <<ctx, dev>>
    BY <2>2, QueuesTyped DEF TypeOK, Calls
  <2> QED
    BY <2>1, <2>2 DEF DestroyContext
<1>3. UNCHANGED <<surf, resv, reg, pend, paff, sync, history>>
  BY DEF DestroyContext
<1> QED
  BY <1>1, <1>2, <1>3 DEF TypeOK, history, SessionsTyped, WithinBuffers

(* The end of vaDestroyContext keeps the types.                               *)
LEMMA TeardownType ==
    ASSUME TypeOK, NEW c \in Contexts, Teardown(c)
    PROVE  TypeOK'
<1>1. surf' \in [Surfaces -> SurfaceRecord]
  BY SweepsTyped DEF Teardown
<1>2. reg' \in RegistryRecord
  BY DEF TypeOK, Teardown, NextEpoch, RegistryRecord
<1>3. ctx' \in [Contexts -> ContextRecord]
  <2>1. [NoContext EXCEPT !.life = "gone"] \in ContextRecord
    BY DEF NoContext, ContextRecord
  <2> QED
    BY <2>1 DEF TypeOK, Teardown
<1>4. SessionsTyped(dev') /\ PendingTyped(pend')
  BY ResetTyped DEF Teardown
<1>5. paff' \in [Contexts -> PairRecord] /\ pc' \in [Contexts -> Calls]
  BY DEF TypeOK, Teardown, NoPair, PairRecord, Calls
<1> QED
  BY <1>1, <1>2, <1>3, <1>4, <1>5, SweptTyped
  DEF TypeOK, Teardown, history, SessionsTyped, PendingTyped, WithinBuffers

(* The pictures removed with position i are there.                            *)
LEMMA FieldsInQueue ==
    ASSUME TypeOK, NEW c \in Contexts, NEW i \in 1 .. Len(dev[c].fw)
    PROVE  Fields(c, i) \in 1 .. 2 /\ i + Fields(c, i) - 1 <= Len(dev[c].fw)
<1>1. Len(dev[c].fw) \in Nat
  BY LenProperties DEF TypeOK, SessionRecord
<1> QED
  BY <1>1 DEF Fields

(* A step of the firmware keeps the types: it takes from the OUTPUT queue and *)
(* fills a free CAPTURE buffer.                                               *)
LEMMA FirmwareType ==
    ASSUME TypeOK, NEW c \in Contexts, Firmware(c)
    PROVE  TypeOK'
<1>1. ASSUME NEW i \in 1 .. Len(dev[c].fw)
      PROVE  /\ Removed(dev[c].fw, i, Fields(c, i)) \in Seq(AccessUnit)
             /\ Len(Removed(dev[c].fw, i, Fields(c, i))) <= OutBuffers
  <2>1. dev[c].fw \in Seq(AccessUnit) /\ Len(dev[c].fw) <= OutBuffers /\ Len(dev[c].fw) \in Nat
    BY LenProperties DEF TypeOK, SessionRecord, WithinBuffers
  <2>2. /\ Removed(dev[c].fw, i, Fields(c, i)) \in Seq(AccessUnit)
        /\ Len(Removed(dev[c].fw, i, Fields(c, i))) = Len(dev[c].fw) - Fields(c, i)
    BY <1>1, <2>1, FieldsInQueue, RemovedLemma
  <2>3. Fields(c, i) \in 1 .. 2
    BY <1>1, FieldsInQueue
  <2> QED
    BY <2>1, <2>2, <2>3, DecodeAssumption
<1>2. ASSUME Running(c), NEW f \in Frame
      PROVE  /\ Append(dev[c].cap, f) \in Seq(Frame)
             /\ Len(Append(dev[c].cap, f)) <= CapBuffers
  BY <1>2, AppendProperties, LenProperties, DecodeAssumption
  DEF TypeOK, SessionRecord, Running
<1>3. SessionsTyped(dev')
  <2>1. ASSUME NEW q \in Seq(AccessUnit), Len(q) <= OutBuffers,
               NEW p \in Seq(Frame), Len(p) <= CapBuffers, NEW b \in BOOLEAN,
               dev' = [dev EXCEPT ![c] = [dev[c] EXCEPT !.fw = q, !.cap = p, !.lastSent = b]]
        PROVE  SessionsTyped(dev')
    <3>1. [dev[c] EXCEPT !.fw = q, !.cap = p, !.lastSent = b] \in SessionRecord
      BY <2>1 DEF TypeOK, SessionRecord
    <3> QED
      BY <2>1, <3>1, QueuesTyped DEF SessionsTyped, SessionRecord
  <2>2. /\ dev[c].fw \in Seq(AccessUnit) /\ Len(dev[c].fw) <= OutBuffers
        /\ dev[c].cap \in Seq(Frame) /\ Len(dev[c].cap) <= CapBuffers
        /\ dev[c].lastSent \in BOOLEAN
    BY DEF TypeOK, SessionRecord, WithinBuffers
  <2>3. CASE FwDecode(c)
    <3>1. PICK i \in 1 .. Len(dev[c].fw) :
            dev' = [dev EXCEPT
                     ![c].fw  = Removed(@, i, Fields(c, i)),
                     ![c].cap = Append(@, [ts |-> dev[c].fw[i].ts, px |-> dev[c].fw[i].px,
                                           last |-> FALSE])]
      BY <2>3 DEF FwDecode
    <3> DEFINE f == [ts |-> dev[c].fw[i].ts, px |-> dev[c].fw[i].px, last |-> FALSE]
               q == Removed(dev[c].fw, i, Fields(c, i))
               p == Append(dev[c].cap, f)
    <3>2. f \in Frame
      <4>1. dev[c].fw[i] \in AccessUnit
        BY <2>2, ElementOfSeq
      <4> QED
        BY <4>1 DEF AccessUnit, Frame
    <3>3. /\ q \in Seq(AccessUnit) /\ Len(q) <= OutBuffers
          /\ p \in Seq(Frame) /\ Len(p) <= CapBuffers
      BY <1>1, <1>2, <2>3, <3>2 DEF FwDecode
    <3>4. dev' = [dev EXCEPT ![c] = [dev[c] EXCEPT
                                       !.fw = q, !.cap = p, !.lastSent = dev[c].lastSent]]
      BY <3>1 DEF TypeOK, SessionRecord
    <3> HIDE DEF q, p
    <3> QED
      BY <2>1, <2>2, <3>3, <3>4
  <2>4. CASE FwDrop(c)
    <3>1. PICK i \in 1 .. Len(dev[c].fw) :
            dev' = [dev EXCEPT ![c].fw = Removed(@, i, Fields(c, i))]
      BY <2>4 DEF FwDrop
    <3> DEFINE q == Removed(dev[c].fw, i, Fields(c, i))
    <3>2. q \in Seq(AccessUnit) /\ Len(q) <= OutBuffers
      BY <1>1
    <3>3. dev' = [dev EXCEPT ![c] = [dev[c] EXCEPT
                     !.fw = q, !.cap = dev[c].cap, !.lastSent = dev[c].lastSent]]
      BY <3>1 DEF TypeOK, SessionRecord
    <3> HIDE DEF q
    <3> QED
      BY <2>1, <2>2, <3>2, <3>3
  <2>5. CASE FwLast(c)
    <3> DEFINE p == Append(dev[c].cap, LastMarker)
    <3>1. LastMarker \in Frame
      BY DEF LastMarker, Frame, Black, Pixels
    <3>2. p \in Seq(Frame) /\ Len(p) <= CapBuffers
      BY <1>2, <2>5, <3>1 DEF FwLast
    <3>3. dev' = [dev EXCEPT ![c] = [dev[c] EXCEPT
                     !.fw = dev[c].fw, !.cap = p, !.lastSent = TRUE]]
      BY <2>5 DEF TypeOK, SessionRecord, FwLast
    <3> HIDE DEF p
    <3> QED
      BY <2>1, <2>2, <3>2, <3>3
  <2> QED
    BY <2>3, <2>4, <2>5 DEF Firmware
<1>4. UNCHANGED <<surf, resv, reg, ctx, pend, paff, cur, pc, sync, history>>
  BY DEF Firmware, FwDecode, FwDrop, FwLast
<1> QED
  BY <1>3, <1>4 DEF TypeOK, history, SessionsTyped, WithinBuffers

-----------------------------------------------------------------------------
(* The theorem                                                                *)

(* The initial values of vpu_decode_create and vpu_surfaces_create.           *)
LEMMA InitType == Init => TypeOK
<1> SUFFICES ASSUME Init PROVE TypeOK
  OBVIOUS
<1>1. surf \in [Surfaces -> SurfaceRecord] /\ reg \in RegistryRecord
  BY DEF Init, RegistryInit, UnbornSurface, EmptyRegistry, SurfaceRecord,
         RegistryRecord, Black, Pixels
<1>2. /\ ctx \in [Contexts -> ContextRecord]
      /\ paff \in [Contexts -> PairRecord]
      /\ cur \in [Contexts -> PictureRecord]
      /\ pc \in [Contexts -> Calls]
  BY DEF Init, NoContext, ContextRecord, NoPair, PairRecord, NoPicture, PictureRecord,
         Calls
<1>3. NoSession \in SessionRecord /\ NoPending \in PendingRecord
  BY DEF NoSession, SessionRecord, NoPending, EmptyRing, EmptySlot, Slot, PendingRecord
<1>4. /\ dev \in [Contexts -> SessionRecord] /\ pend \in [Contexts -> PendingRecord]
      /\ WithinBuffers
  <2>1. Len(NoSession.fw) = 0 /\ Len(NoSession.cap) = 0 /\ Len(NoPending.fifo) = 0
    BY DEF NoSession, NoPending
  <2> QED
    BY <1>3, <2>1, DecodeAssumption DEF Init, WithinBuffers
<1>5. /\ sync \in SyncRecord
      /\ goal \in [Surfaces -> GoalRecord]
      /\ stream \in [Contexts -> Nat]
      /\ pictures \in Nat
  BY DEF Init, NoSync, SyncRecord, GoalRecord
<1>6. resv \subseteq FenceRecord
  BY DEF Init, RegistryInit
<1> QED
  BY <1>1, <1>2, <1>4, <1>5, <1>6 DEF TypeOK

(* A step that changes nothing keeps the types.                               *)
LEMMA StutterType == TypeOK /\ UNCHANGED vars => TypeOK'
  BY DEF vars, TypeOK, WithinBuffers

(* Every step keeps the types.                                                *)
LEMMA NextType == TypeOK /\ [Next]_vars => TypeOK'
<1> SUFFICES ASSUME TypeOK, [Next]_vars PROVE TypeOK'
  OBVIOUS
<1>1. ASSUME NEW c \in Contexts, Client(c) PROVE TypeOK'
  BY <1>1, CreateContextType, BeginPictureType, EndPictureType, DestroyContextType
  DEF Client
<1>2. ASSUME NEW c \in Contexts, CallStep(c) PROVE TypeOK'
  BY <1>2, FlushDoneType, RestartType, OpenSessionType, ClaimTargetType, FeedType,
     SubmissionFailsType, EndPictureReturnsType, TakeFrameType, LoopFailsType,
     SyncStepType, TeardownType
  DEF CallStep
<1>3. ASSUME NEW c \in Contexts, Firmware(c) PROVE TypeOK'
  BY <1>3, FirmwareType
<1>4. ASSUME NEW s \in Surfaces, SurfaceCall(s) PROVE TypeOK'
  BY <1>4, SurfaceCallType, SyncSurfaceType DEF SurfaceCall
<1>5. CASE SyncStep
  BY <1>5, SyncStepType DEF SyncStep
<1>6. CASE UNCHANGED vars
  BY <1>6, StutterType
<1> QED
  BY <1>1, <1>2, <1>3, <1>4, <1>5, <1>6 DEF Next

(* The state of the decode core is well formed in every reachable state, and  *)
(* neither an OUTPUT queue, a CAPTURE queue nor the HEVC ring ever holds more *)
(* than its buffers (decode.c:294-311, decode.c:707-741).                     *)
THEOREM TypeCorrect == Spec => []TypeOK
<1>1. Init => TypeOK
  BY InitType
<1>2. TypeOK /\ [Next]_vars => TypeOK'
  BY NextType
<1> QED
  BY <1>1, <1>2, PTL DEF Spec

-----------------------------------------------------------------------------
(* What the rewrites of one surface record leave alone                        *)

Same(x, y) == x.life = y.life /\ x.owner = y.owner /\ x.fence = y.fence

(* vpu_decode_begin and a backfill leave life, owner and fence of a surface   *)
(* alone; surface_finish_write ends the fence.                                *)
LEMMA WriteEffects ==
    ASSUME NEW x \in SurfaceRecord
    PROVE  /\ Same(Begun(x), x)
           /\ Same(Backfilled(x), x)
           /\ Finished(x).life = x.life /\ Finished(x).owner = x.owner
           /\ Finished(x).fence = 0
  BY DEF SurfaceRecord, Same, Begun, Backfilled, Finished

(* A claimed target belongs to the context that claims it.                    *)
LEMMA ClaimEffect ==
    ASSUME NEW x \in SurfaceRecord, NEW c \in Contexts, NEW n
    PROVE  /\ Claimed(x, c, n).life = x.life /\ Claimed(x, c, n).owner = c
           /\ Claimed(x, c, n).fence = n
  BY DEF SurfaceRecord, Finished, Claimed

(* Pixels alone change no ownership.                                          *)
LEMMA PixelsAlone ==
    ASSUME NEW x \in SurfaceRecord, NEW px
    PROVE  Same([x EXCEPT !.px = px], x)
  BY DEF SurfaceRecord, Same

(* A frame that lands makes its context the owner and ends the fence.         *)
LEMMA LandEffects ==
    ASSUME NEW x \in SurfaceRecord, NEW c \in Contexts, NEW px
    PROVE  /\ Landed(x, c, px).life = x.life /\ Landed(x, c, px).owner = c
           /\ Landed(x, c, px).fence = 0
  BY DEF SurfaceRecord, Finished, Landed

(* finish_pending_writes: no fence of c is left.                              *)
LEMMA AllFinishedEffect ==
    ASSUME TypeOK, NEW c \in Contexts, NEW s \in Surfaces
    PROVE  /\ AllFinished(c)[s].life = surf[s].life
           /\ AllFinished(c)[s].owner = surf[s].owner
           /\ AllFinished(c)[s].fence = surf[s].fence
              \/ AllFinished(c)[s].fence = 0
           /\ Live(s) /\ surf[s].owner = c => AllFinished(c)[s].fence = 0
<1>1. surf[s] \in SurfaceRecord
  BY DEF TypeOK
<1>2. AllFinished(c)[s] = IF Live(s) /\ surf[s].owner = c
                          THEN Finished(surf[s]) ELSE surf[s]
  BY DEF AllFinished
<1> QED
  BY <1>1, <1>2, WriteEffects

(* restart_decoder_session: likewise, and the owners stay.                    *)
LEMMA DisownedEffect ==
    ASSUME TypeOK, NEW c \in Contexts, NEW s \in Surfaces
    PROVE  /\ Disowned(c)[s].life = surf[s].life
           /\ Disowned(c)[s].owner = surf[s].owner
           /\ Disowned(c)[s].fence = surf[s].fence \/ Disowned(c)[s].fence = 0
           /\ Live(s) /\ surf[s].owner = c => Disowned(c)[s].fence = 0
<1> DEFINE q == IF Abandoned(surf[s], c) THEN FALSE ELSE Finished(surf[s]).queued
<1>1. Finished(surf[s]) \in SurfaceRecord /\ surf[s] \in SurfaceRecord
  BY WritesTyped DEF TypeOK
<1>2. Disowned(c)[s] = IF Live(s) /\ surf[s].owner = c
                       THEN [Finished(surf[s]) EXCEPT !.queued = q] ELSE surf[s]
  BY DEF Disowned
<1> HIDE DEF q
<1>3. Same([Finished(surf[s]) EXCEPT !.queued = q], Finished(surf[s]))
  BY <1>1 DEF SurfaceRecord, Same
<1> QED
  BY <1>1, <1>2, <1>3, WriteEffects DEF Same

(* detach_owned_surfaces: c owns nothing any more.                            *)
LEMMA DetachedEffect ==
    ASSUME TypeOK, NEW c \in Contexts, NEW s \in Surfaces
    PROVE  /\ Detached(c)[s].life = surf[s].life
           /\ Detached(c)[s].owner = IF Live(s) /\ surf[s].owner = c
                                     THEN None ELSE surf[s].owner
           /\ Detached(c)[s].fence = surf[s].fence \/ Detached(c)[s].fence = 0
           /\ Live(s) /\ surf[s].owner = c /\ ctx[c].open => Detached(c)[s].fence = 0
<1>1. Finished(surf[s]) \in SurfaceRecord /\ surf[s] \in SurfaceRecord
  BY WritesTyped DEF TypeOK
<1> DEFINE x == IF ctx[c].open THEN Finished(surf[s]) ELSE surf[s]
<1>2. Detached(c)[s] = IF Live(s) /\ surf[s].owner = c
                       THEN [x EXCEPT !.owner = None] ELSE surf[s]
  BY DEF Detached
<1>3. x \in SurfaceRecord
  BY <1>1
<1>4. x.life = surf[s].life /\ (x.fence = surf[s].fence \/ x.fence = 0)
      /\ (ctx[c].open => x.fence = 0)
  BY <1>1, WriteEffects
<1> HIDE DEF x
<1>5. /\ [x EXCEPT !.owner = None].life = x.life
      /\ [x EXCEPT !.owner = None].fence = x.fence
      /\ [x EXCEPT !.owner = None].owner = None
  BY <1>3 DEF SurfaceRecord
<1> QED
  BY <1>2, <1>4, <1>5

-----------------------------------------------------------------------------
(* A step is quiet when it hands over no surface, closes no session and lets  *)
(* no dead context start a call.                                              *)

SurfacesQuiet ==
    \A s \in Surfaces :
        /\ surf'[s].life = surf[s].life
        /\ surf'[s].owner = surf[s].owner
        /\ surf'[s].fence # 0 => surf[s].fence # 0

ContextsQuiet ==
    \A c \in Contexts :
        ctx'[c].life = ctx[c].life /\ ctx'[c].open = ctx[c].open

CallsQuiet ==
    \A c \in Contexts :
        /\ pc'[c] # "idle" => ctx[c].life = "live"
        /\ pc'[c] \in {"destroy", "teardown"} => pc[c] \in {"destroy", "teardown"}

SyncQuiet == sync' = sync \/ sync'.st \notin {"blocked", "inside"}

(* An owner is a context.                                                     *)
LEMMA OwnersTyped ==
    ASSUME TypeOK
    PROVE  \A s \in Surfaces : surf[s].owner \in Contexts \cup {None}
  BY DEF TypeOK, SurfaceRecord

(* A quiet step keeps the ownership invariant.                                *)
LEMMA QuietStep ==
    ASSUME TypeOK, OwnershipInv, SurfacesQuiet, ContextsQuiet, CallsQuiet, SyncQuiet
    PROVE  OwnershipInv'
<1>1. CallsOnLive'
  BY DEF OwnershipInv, CallsOnLive, ContextsQuiet, CallsQuiet
<1>2. OwnedAreLive'
  BY DEF OwnershipInv, OwnedAreLive, SurfacesQuiet
<1>3. OwnersAlive'
  <2> SUFFICES ASSUME NEW s \in Surfaces, surf'[s].owner # None
               PROVE  ctx'[surf'[s].owner].life = "live"
    BY DEF OwnersAlive
  <2>1. surf[s].owner # None /\ surf'[s].owner = surf[s].owner
    BY DEF SurfacesQuiet
  <2>2. ctx[surf[s].owner].life = "live" /\ surf[s].owner \in Contexts
    BY <2>1, OwnersTyped DEF OwnershipInv, OwnersAlive
  <2> QED
    BY <2>1, <2>2 DEF ContextsQuiet
<1>4. SyncOwnerAlive'
  BY DEF OwnershipInv, SyncOwnerAlive, ContextsQuiet, CallsQuiet, SyncQuiet
<1>5. FenceOwnerOpen'
  <2> SUFFICES ASSUME NEW s \in Surfaces, surf'[s].fence # 0
               PROVE  surf'[s].owner # None /\ ctx'[surf'[s].owner].open
    BY DEF FenceOwnerOpen
  <2>1. surf[s].fence # 0 /\ surf'[s].owner = surf[s].owner
    BY DEF SurfacesQuiet
  <2>2. surf[s].owner \in Contexts /\ ctx[surf[s].owner].open /\ surf[s].owner # None
    BY <2>1, OwnersTyped DEF OwnershipInv, FenceOwnerOpen
  <2> QED
    BY <2>1, <2>2 DEF ContextsQuiet
<1> QED
  BY <1>1, <1>2, <1>3, <1>4, <1>5 DEF OwnershipInv

-----------------------------------------------------------------------------
(* Actions                                                                    *)

(* vaCreateSurfaces, vaExportSurfaceHandle and vaDestroySurfaces: a new or    *)
(* destroyed surface has neither owner nor fence.                             *)
LEMMA SurfaceCallOwns ==
    ASSUME TypeOK, OwnershipInv, NEW s \in Surfaces,
           AllocSurface(s) \/ ExportSurface(s) \/ FreeSurface(s)
    PROVE  OwnershipInv'
<1>1. UNCHANGED <<ctx, pc, sync>>
  BY DEF AllocSurface, ExportSurface, FreeSurface
<1>2. ASSUME NEW t \in Surfaces
      PROVE  \/ Same(surf'[t], surf[t])
             \/ surf'[t].owner = None /\ surf'[t].fence = 0
  <2>1. surf \in [Surfaces -> SurfaceRecord]
    BY DEF TypeOK
  <2>2. CASE AllocSurface(s)
    BY <2>1, <2>2 DEF AllocSurface, Allocated, UnbornSurface, Same
  <2>3. CASE ExportSurface(s)
    <3>1. surf' = [surf EXCEPT ![s] = [surf[s] EXCEPT !.exported = TRUE]]
      BY <2>1, <2>3 DEF ExportSurface
    <3>2. Same([surf[s] EXCEPT !.exported = TRUE], surf[s])
      BY <2>1 DEF SurfaceRecord, Same
    <3> QED
      BY <2>1, <3>1, <3>2 DEF Same
  <2>4. CASE FreeSurface(s)
    BY <2>1, <2>4 DEF FreeSurface, UnbornSurface, Same
  <2> QED
    BY <2>2, <2>3, <2>4
<1> QED
  BY <1>1, <1>2 DEF OwnershipInv, CallsOnLive, OwnedAreLive, OwnersAlive, SyncOwnerAlive,
                    FenceOwnerOpen, Same

(* vaCreateContext: nothing belongs to a context that did not exist.          *)
LEMMA CreateContextOwns ==
    ASSUME TypeOK, OwnershipInv, NEW c \in Contexts, CreateContext(c)
    PROVE  OwnershipInv'
<1>1. UNCHANGED <<surf, pc, sync>>
  BY DEF CreateContext
<1>2. ASSUME NEW d \in Contexts
      PROVE  /\ ctx[d].life = "live" => ctx'[d].life = "live"
             /\ ctx'[d].open = ctx[d].open
  BY DEF TypeOK, ContextRecord, CreateContext
<1> QED
  BY <1>1, <1>2, OwnersTyped
  DEF OwnershipInv, CallsOnLive, OwnedAreLive, OwnersAlive, SyncOwnerAlive,
      FenceOwnerOpen

(* vaBeginPicture leaves owner and fence of its target alone (decode.c:521).  *)
LEMMA BeginPictureOwns ==
    ASSUME TypeOK, OwnershipInv, NEW c \in Contexts, NEW s \in Surfaces,
           NEW field \in 0 .. 2, NEW poc \in Pocs, BeginPicture(c, s, field, poc)
    PROVE  OwnershipInv'
<1>1. SurfacesQuiet
  <2>1. Same(Begun(surf[s]), surf[s])
    BY WriteEffects DEF TypeOK
  <2>2. surf' = surf \/ surf' = [surf EXCEPT ![s] = Begun(surf[s])]
    BY DEF BeginPicture
  <2> QED
    BY <2>1, <2>2 DEF TypeOK, SurfacesQuiet, Same
<1>2. ContextsQuiet /\ CallsQuiet /\ SyncQuiet
  BY DEF BeginPicture, OwnershipInv, CallsOnLive, ContextsQuiet, CallsQuiet, SyncQuiet
<1> QED
  BY <1>1, <1>2, QuietStep

(* The flags of a session that was sent STOP.                                 *)
LEMMA StopSessionQuiet ==
    ASSUME TypeOK, NEW c \in Contexts, NEW next \in Calls, StopSession(c, next)
    PROVE  ContextsQuiet
  BY DEF TypeOK, ContextRecord, StopSession, ContextsQuiet

(* The entry of vaEndPicture.                                                 *)
LEMMA EndPictureOwns ==
    ASSUME TypeOK, OwnershipInv, NEW c \in Contexts,
           EndPictureFails(c) \/ \E ra, cue \in BOOLEAN : EndPicture(c, ra, cue)
    PROVE  OwnershipInv'
<1>1. ctx[c].life = "live" /\ UNCHANGED <<surf, sync>>
  BY DEF EndPictureFails, EndPicture, MayCall
<1>2. /\ UNCHANGED ctx \/ StopSession(c, "boundary")
      /\ \/ UNCHANGED pc
         \/ \E p \in Calls \ {"destroy", "teardown"} : pc' = [pc EXCEPT ![c] = p]
  BY DEF EndPictureFails, EndPicture, StopSession, Calls
<1>3. SurfacesQuiet /\ SyncQuiet
  BY <1>1 DEF SurfacesQuiet, SyncQuiet
<1>4. ContextsQuiet
  BY <1>2, StopSessionQuiet DEF ContextsQuiet, Calls
<1>5. CallsQuiet
  BY <1>1, <1>2 DEF TypeOK, OwnershipInv, CallsOnLive, CallsQuiet
<1> QED
  BY <1>3, <1>4, <1>5, QuietStep

(* The entry of vaDestroyContext: no sync is about to lock c.                 *)
LEMMA DestroyContextOwns ==
    ASSUME TypeOK, OwnershipInv, NEW c \in Contexts, DestroyContext(c)
    PROVE  OwnershipInv'
<1>1. /\ ctx[c].life = "live" /\ UNCHANGED <<surf, sync>>
      /\ sync.st \in {"blocked", "inside"} => sync.c # c
  BY DEF DestroyContext, MayCall, SyncIdle
<1>2. /\ UNCHANGED ctx \/ StopSession(c, "destroy")
      /\ \E p \in Calls : pc' = [pc EXCEPT ![c] = p]
  BY DEF DestroyContext, StopSession, Calls
<1>3. ContextsQuiet
  BY <1>2, StopSessionQuiet DEF ContextsQuiet, Calls
<1>4. CallsOnLive' /\ SyncOwnerAlive'
  BY <1>1, <1>2, <1>3
  DEF TypeOK, OwnershipInv, CallsOnLive, SyncOwnerAlive, ContextsQuiet
<1>5. OwnedAreLive' /\ OwnersAlive' /\ FenceOwnerOpen'
  BY <1>1, <1>3, OwnersTyped
  DEF OwnershipInv, OwnedAreLive, OwnersAlive, FenceOwnerOpen, ContextsQuiet
<1> QED
  BY <1>4, <1>5 DEF OwnershipInv

(* stream_boundary_restart closes the session of c after its fences.          *)
LEMMA RestartOwns ==
    ASSUME TypeOK, OwnershipInv, NEW c \in Contexts, Restart(c)
    PROVE  OwnershipInv'
<1>1. ASSUME NEW d \in Contexts
      PROVE  /\ ctx'[d].life = ctx[d].life
             /\ d # c => ctx'[d].open = ctx[d].open
  BY DEF TypeOK, ContextRecord, Restart, Closed
<1>2. ASSUME NEW s \in Surfaces
      PROVE  /\ surf'[s].life = surf[s].life
             /\ surf'[s].owner = surf[s].owner
             /\ surf'[s].fence # 0 => surf[s].fence # 0 /\ surf[s].owner # c
  BY DisownedEffect DEF Restart, OwnershipInv, FenceOwnerOpen, OwnedAreLive, Live
<1>3. /\ UNCHANGED sync /\ pc[c] = "restart"
      /\ pc' = [pc EXCEPT ![c] = "prepare"]
  BY DEF Restart
<1>4. CallsOnLive' /\ SyncOwnerAlive'
  BY <1>1, <1>3 DEF TypeOK, OwnershipInv, CallsOnLive, SyncOwnerAlive
<1>5. OwnedAreLive' /\ OwnersAlive' /\ FenceOwnerOpen'
  BY <1>1, <1>2, OwnersTyped
  DEF OwnershipInv, OwnedAreLive, OwnersAlive, FenceOwnerOpen
<1> QED
  BY <1>4, <1>5 DEF OwnershipInv

(* ensure_decoder replaces a session at its end only after its fences.        *)
LEMMA OpenSessionOwns ==
    ASSUME TypeOK, OwnershipInv, NEW c \in Contexts, OpenSession(c)
    PROVE  OwnershipInv'
<1>1. ASSUME NEW d \in Contexts
      PROVE  /\ ctx'[d].life = ctx[d].life
             /\ d # c => ctx'[d].open = ctx[d].open
  BY DEF TypeOK, ContextRecord, OpenSession, Closed
<1>2. ASSUME NEW s \in Surfaces
      PROVE  /\ surf'[s].life = surf[s].life
             /\ surf'[s].owner = surf[s].owner
             /\ surf'[s].fence # 0 => surf[s].fence # 0 /\ surf[s].owner # c
  <2>1. CASE OldSessionEnded(c)
    BY <2>1, AllFinishedEffect
    DEF OpenSession, OwnershipInv, FenceOwnerOpen, OwnedAreLive, Live
  <2>2. CASE ~OldSessionEnded(c)
    BY <2>2 DEF OpenSession, OldSessionEnded, OwnershipInv, FenceOwnerOpen
  <2> QED
    BY <2>1, <2>2
<1>3. /\ UNCHANGED sync /\ pc[c] = "prepare"
      /\ \E p \in {"prepare", "idle"} : pc' = [pc EXCEPT ![c] = p]
  BY DEF OpenSession
<1>4. CallsOnLive' /\ SyncOwnerAlive'
  BY <1>1, <1>3 DEF TypeOK, OwnershipInv, CallsOnLive, SyncOwnerAlive
<1>5. OwnedAreLive' /\ OwnersAlive' /\ FenceOwnerOpen'
  BY <1>1, <1>2, OwnersTyped
  DEF OwnershipInv, OwnedAreLive, OwnersAlive, FenceOwnerOpen
<1> QED
  BY <1>4, <1>5 DEF OwnershipInv

(* A target is claimed, and fenced, by a context whose session is open.       *)
LEMMA ClaimTargetOwns ==
    ASSUME TypeOK, OwnershipInv, NEW c \in Contexts, ClaimTarget(c)
    PROVE  OwnershipInv'
<1>1. /\ ctx[c].life = "live" /\ ctx[c].open /\ UNCHANGED <<ctx, sync>>
      /\ pc[c] = "prepare" /\ pc' = [pc EXCEPT ![c] = "feed"]
  BY DEF ClaimTarget, OwnershipInv, CallsOnLive
<1>2. ASSUME NEW s \in Surfaces
      PROVE  \/ surf'[s] = surf[s]
             \/ surf[s].life = "live" /\ surf'[s].life = "live" /\ surf'[s].owner = c
  <2>1. surf'[s] = surf[s] \/ (Live(s) /\ surf'[s] = Claimed(surf[s], c, Token(c)))
    BY DEF ClaimTarget
  <2>2. surf[s] \in SurfaceRecord
    BY DEF TypeOK
  <2> QED
    BY <2>1, <2>2, ClaimEffect DEF Live
<1>3. CallsOnLive' /\ SyncOwnerAlive'
  BY <1>1 DEF TypeOK, OwnershipInv, CallsOnLive, SyncOwnerAlive
<1>4. OwnedAreLive' /\ OwnersAlive' /\ FenceOwnerOpen'
  BY <1>1, <1>2, RegistryAssumption
  DEF OwnershipInv, OwnedAreLive, OwnersAlive, FenceOwnerOpen
<1> QED
  BY <1>3, <1>4 DEF OwnershipInv

(* The submission of an access unit, refused or accepted, and the return of   *)
(* vaEndPicture.                                                              *)
LEMMA SubmissionOwns ==
    ASSUME TypeOK, OwnershipInv, NEW c \in Contexts,
           \/ Feed(c) \/ SubmitFails(c) \/ StartFails(c) \/ Unwind(c)
           \/ DrainDone(c) \/ WaitDone(c)
    PROVE  OwnershipInv'
<1>1. SurfacesQuiet
  <2>1. surf' = surf \/ surf' = AllFinished(c)
    BY DEF Feed, SubmitFails, StartFails, Unwind, DrainDone, WaitDone
  <2> QED
    BY <2>1, AllFinishedEffect DEF SurfacesQuiet
<1>2. ContextsQuiet
  <2>1. \/ UNCHANGED ctx
        \/ ctx' = [ctx EXCEPT ![c].started = TRUE, ![c].seq = NextSeq(c)]
    BY DEF Feed, SubmitFails, StartFails, Unwind, DrainDone, WaitDone
  <2> QED
    BY <2>1 DEF TypeOK, ContextRecord, ContextsQuiet
<1>3. CallsQuiet
  <2>1. /\ pc[c] # "idle"
        /\ \E p \in Calls \ {"destroy", "teardown"} : pc' = [pc EXCEPT ![c] = p]
    BY DEF Feed, SubmitFails, StartFails, Unwind, DrainDone, WaitDone, Calls
  <2> QED
    BY <2>1 DEF TypeOK, OwnershipInv, CallsOnLive, CallsQuiet
<1>4. SyncQuiet
  BY DEF Feed, SubmitFails, StartFails, Unwind, DrainDone, WaitDone, SyncQuiet
<1> QED
  BY <1>1, <1>2, <1>3, <1>4, QuietStep

(* A loop step that fails: the call ends or goes on to its last part.         *)
LEMMA FailingQuiet ==
    ASSUME TypeOK, OwnershipInv, NEW c \in Contexts, pc[c] # "idle", Failing(c)
    PROVE  CallsQuiet /\ SyncQuiet
<1>1. AfterError(pc[c]) \in {"teardown"} => pc[c] \in {"destroy"}
  BY DEF AfterError
<1>2. AfterError(pc[c]) # "destroy"
  BY DEF AfterError
<1>3. CallsQuiet
  BY <1>1, <1>2 DEF TypeOK, Failing, OwnershipInv, CallsOnLive, CallsQuiet
<1>4. SyncQuiet
  BY DEF Failing, NoSync, SyncQuiet
<1> QED
  BY <1>3, <1>4

(* A dequeued frame goes to a live surface of a context that is alive, and    *)
(* its fence ends with it.                                                    *)
LEMMA TakeFrameOwns ==
    ASSUME TypeOK, OwnershipInv, NEW c \in Contexts, TakeFrame(c)
    PROVE  OwnershipInv'
<1> DEFINE f == Head(dev[c].cap)
           s == MappedTo(c, f).target
<1>1. pc[c] # "idle" /\ ctx[c].life = "live"
  BY DEF TakeFrame, Looping, OwnershipInv, CallsOnLive
<1>2. PICK copied \in BOOLEAN :
        /\ Assign(c, f, copied)
        /\ \/ ctx' = [ctx EXCEPT ![c].fatal = TRUE] /\ Failing(c)
           \/ UNCHANGED <<ctx, pc, sync>>
  BY DEF TakeFrame
<1>3. ContextsQuiet
  <2>1. UNCHANGED ctx \/ ctx' = [ctx EXCEPT ![c].fatal = TRUE]
    BY <1>2
  <2> QED
    BY <2>1 DEF TypeOK, ContextRecord, ContextsQuiet
<1>4. CallsQuiet /\ SyncQuiet
  <2>1. CASE UNCHANGED <<ctx, pc, sync>>
    BY <2>1 DEF OwnershipInv, CallsOnLive, CallsQuiet, SyncQuiet
  <2>2. CASE Failing(c)
    BY <1>1, <2>2, FailingQuiet
  <2> QED
    BY <1>2, <2>1, <2>2
<1>5. ASSUME NEW t \in Surfaces
      PROVE  /\ surf'[t].life = surf[t].life
             /\ \/ surf'[t].owner = surf[t].owner /\ (surf'[t].fence # 0 => surf[t].fence # 0)
                \/ surf[t].life = "live" /\ surf'[t].owner = c /\ surf'[t].fence = 0
  <2>1. CASE ~Lands(c, f)
    BY <1>2, <2>1 DEF Assign
  <2>2. CASE Lands(c, f)
    <3> DEFINE px == IF f.last THEN surf[s].px ELSE f.px
    <3>1. s \in Surfaces /\ surf[s] \in SurfaceRecord /\ surf[s].life = "live"
      BY <2>2 DEF TypeOK, Lands, Live
    <3>2. \E x \in {Landed(surf[s], c, px), surf[s], Finished(surf[s]),
                    [Finished(surf[s]) EXCEPT !.px = px]} : surf' = [surf EXCEPT ![s] = x]
      BY <1>2, <2>2 DEF Assign
    <3>3. Finished(surf[s]) \in SurfaceRecord
      BY <3>1, WritesTyped
    <3> HIDE DEF s, px, f
    <3>4. ASSUME NEW x \in {Landed(surf[s], c, px), surf[s], Finished(surf[s]),
                            [Finished(surf[s]) EXCEPT !.px = px]}
          PROVE  /\ x.life = surf[s].life
                 /\ \/ x.owner = surf[s].owner /\ (x.fence # 0 => surf[s].fence # 0)
                    \/ x.owner = c /\ x.fence = 0
      <4>1. CASE x = Landed(surf[s], c, px)
        <5>1. /\ Landed(surf[s], c, px).life = surf[s].life
              /\ Landed(surf[s], c, px).owner = c /\ Landed(surf[s], c, px).fence = 0
          BY <3>1, LandEffects
        <5> QED
          BY <4>1, <5>1
      <4>2. CASE x \in {surf[s], Finished(surf[s])}
        <5>1. CASE x = surf[s]
          BY <5>1
        <5>2. CASE x = Finished(surf[s])
          BY <3>1, <5>2, WriteEffects
        <5> QED
          BY <4>2, <5>1, <5>2
      <4>3. CASE x = [Finished(surf[s]) EXCEPT !.px = px]
        <5>1. x.life = Finished(surf[s]).life /\ x.owner = Finished(surf[s]).owner
              /\ x.fence = Finished(surf[s]).fence
          BY <3>3, <4>3, PixelsAlone DEF Same
        <5>2. /\ Finished(surf[s]).life = surf[s].life
              /\ Finished(surf[s]).owner = surf[s].owner /\ Finished(surf[s]).fence = 0
          BY <3>1, WriteEffects
        <5> QED
          BY <5>1, <5>2
      <4> QED
        BY <3>4, <4>1, <4>2, <4>3
    <3> QED
      BY <3>1, <3>2, <3>4 DEF TypeOK
  <2> QED
    BY <2>1, <2>2
<1>6. CallsOnLive' /\ SyncOwnerAlive'
  BY <1>3, <1>4
  DEF OwnershipInv, CallsOnLive, SyncOwnerAlive, ContextsQuiet, CallsQuiet, SyncQuiet
<1>7. OwnedAreLive'
  BY <1>5, RegistryAssumption DEF OwnershipInv, OwnedAreLive
<1>8. OwnersAlive' /\ FenceOwnerOpen'
  BY <1>1, <1>3, <1>5, OwnersTyped
  DEF OwnershipInv, OwnersAlive, FenceOwnerOpen, ContextsQuiet
<1> QED
  BY <1>6, <1>7, <1>8 DEF OwnershipInv

(* A device error or a timeout in a loop.                                     *)
LEMMA LoopFailsOwns ==
    ASSUME TypeOK, OwnershipInv, NEW c \in Contexts, CallFails(c) \/ TimesOut(c)
    PROVE  OwnershipInv'
<1>1. pc[c] # "idle" /\ Failing(c) /\ UNCHANGED surf
  BY DEF CallFails, TimesOut, Looping
<1>2. ContextsQuiet
  <2>1. UNCHANGED ctx \/ \E fatal : ctx' = [ctx EXCEPT ![c].fatal = fatal]
    BY DEF CallFails, TimesOut
  <2> QED
    BY <2>1 DEF TypeOK, ContextRecord, ContextsQuiet
<1>3. SurfacesQuiet
  BY <1>1 DEF SurfacesQuiet
<1> QED
  BY <1>1, <1>2, <1>3, FailingQuiet, QuietStep

(* The end of the drain loop: a boundary restarts, a destruction tears down.  *)
LEMMA FlushDoneOwns ==
    ASSUME TypeOK, OwnershipInv, NEW c \in Contexts, FlushDone(c)
    PROVE  OwnershipInv'
<1>1. SurfacesQuiet /\ ContextsQuiet /\ SyncQuiet
  BY DEF FlushDone, SurfacesQuiet, ContextsQuiet, SyncQuiet
<1>2. CallsQuiet
  BY DEF TypeOK, FlushDone, OwnershipInv, CallsOnLive, CallsQuiet
<1> QED
  BY <1>1, <1>2, QuietStep

(* vaSyncSurface finds the owner without a lock: the client is not destroying *)
(* that context, and it is alive.                                             *)
LEMMA SyncSurfaceOwns ==
    ASSUME TypeOK, OwnershipInv, NEW s \in Surfaces, SyncSurface(s)
    PROVE  OwnershipInv'
<1>1. SurfacesQuiet
  <2>1. Same([surf[s] EXCEPT !.px = FillPixels(s)], surf[s])
    BY DEF TypeOK, SurfaceRecord, Same
  <2>2. surf' = surf \/ surf' = [surf EXCEPT ![s] = [surf[s] EXCEPT !.px = FillPixels(s)]]
    BY DEF TypeOK, SyncSurface
  <2> QED
    BY <2>1, <2>2 DEF TypeOK, SurfacesQuiet, Same
<1>2. UNCHANGED <<ctx, pc>>
  BY DEF SyncSurface
<1>3. SyncOwnerAlive'
  <2>1. sync'.st \in {"blocked", "inside"} =>
           /\ surf[s].owner # None
           /\ sync'.c = surf[s].owner
           /\ pc[surf[s].owner] \notin {"destroy", "teardown"}
    BY DEF SyncSurface
  <2> QED
    BY <1>2, <2>1, OwnersTyped DEF OwnershipInv, OwnersAlive, SyncOwnerAlive
<1>4. CallsOnLive' /\ OwnedAreLive' /\ OwnersAlive' /\ FenceOwnerOpen'
  BY <1>1, <1>2
  DEF OwnershipInv, CallsOnLive, OwnedAreLive, OwnersAlive, FenceOwnerOpen,
      SurfacesQuiet
<1> QED
  BY <1>3, <1>4 DEF OwnershipInv

(* The rest of vaSyncSurface: entering the mutex of an owner that is alive.   *)
LEMMA SyncStepOwns ==
    ASSUME TypeOK, OwnershipInv,
           SyncFilled \/ \E c \in Contexts : SyncEnter(c) \/ SyncReturn(c)
    PROVE  OwnershipInv'
<1>1. SurfacesQuiet
  <2>1. CASE SyncFilled
    <3>1. \A s \in Surfaces : Same(Backfilled(surf[s]), surf[s])
      BY WriteEffects DEF TypeOK
    <3> QED
      BY <2>1, <3>1 DEF TypeOK, SyncFilled, SurfacesQuiet, Same
  <2>2. CASE ~SyncFilled
    BY <2>2 DEF SyncEnter, SyncReturn, SurfacesQuiet
  <2> QED
    BY <2>1, <2>2
<1>2. UNCHANGED ctx
  BY DEF SyncFilled, SyncEnter, SyncReturn
<1>3. CallsOnLive' /\ SyncOwnerAlive'
  <2>1. CASE \E c \in Contexts : SyncEnter(c)
    <3>1. PICK c \in Contexts : SyncEnter(c)
      BY <2>1
    <3>2. ctx[c].life = "live" /\ sync.c = c
      BY <3>1 DEF SyncEnter, OwnershipInv, SyncOwnerAlive
    <3>3. \/ pc' = pc /\ sync'.st \notin {"blocked", "inside"}
          \/ pc' = [pc EXCEPT ![c] = "sync"] /\ sync'.c = c
      BY <3>1, <3>2 DEF TypeOK, SyncRecord, SyncEnter, NoSync
    <3> QED
      BY <1>2, <3>2, <3>3 DEF TypeOK, OwnershipInv, CallsOnLive, SyncOwnerAlive
  <2>2. CASE SyncFilled \/ \E c \in Contexts : SyncReturn(c)
    <3>1. sync'.st = "returned" /\ \A c \in Contexts : pc'[c] \in {pc[c], "idle"}
      BY <2>2 DEF TypeOK, SyncRecord, SyncFilled, SyncReturn
    <3> QED
      BY <1>2, <3>1 DEF OwnershipInv, CallsOnLive, SyncOwnerAlive
  <2> QED
    BY <2>1, <2>2
<1>4. OwnedAreLive' /\ OwnersAlive' /\ FenceOwnerOpen'
  BY <1>1, <1>2
  DEF OwnershipInv, OwnedAreLive, OwnersAlive, FenceOwnerOpen, SurfacesQuiet
<1> QED
  BY <1>3, <1>4 DEF OwnershipInv

(* vpu_decode_destroy detaches every surface of c before c is freed, and no   *)
(* sync has c in its hands.                                                   *)
LEMMA TeardownOwns ==
    ASSUME TypeOK, OwnershipInv, NEW c \in Contexts, Teardown(c)
    PROVE  OwnershipInv'
<1>1. /\ pc[c] = "teardown" /\ pc' = [pc EXCEPT ![c] = "idle"] /\ UNCHANGED sync
      /\ \A d \in Contexts \ {c} : ctx'[d] = ctx[d]
  BY DEF TypeOK, Teardown
<1>2. ASSUME NEW s \in Surfaces
      PROVE  /\ surf'[s].life = surf[s].life
             /\ surf'[s].owner = IF surf[s].owner = c THEN None ELSE surf[s].owner
             /\ surf'[s].fence # 0 => surf[s].fence # 0 /\ surf[s].owner # c
  <2>1. surf'[s] = Detached(c)[s]
    BY DEF Teardown
  <2>2. surf[s].owner = c => Live(s)
    BY RegistryAssumption DEF OwnershipInv, OwnedAreLive, Live
  <2>3. surf[s].owner = c /\ surf[s].fence # 0 => ctx[c].open
    BY DEF OwnershipInv, FenceOwnerOpen
  <2> QED
    BY <2>1, <2>2, <2>3, DetachedEffect
<1>3. CallsOnLive' /\ SyncOwnerAlive'
  BY <1>1 DEF TypeOK, OwnershipInv, CallsOnLive, SyncOwnerAlive
<1>4. OwnedAreLive' /\ OwnersAlive' /\ FenceOwnerOpen'
  BY <1>1, <1>2, OwnersTyped
  DEF OwnershipInv, OwnedAreLive, OwnersAlive, FenceOwnerOpen
<1> QED
  BY <1>3, <1>4 DEF OwnershipInv

(* The firmware touches neither surfaces nor contexts.                        *)
LEMMA FirmwareOwns ==
    ASSUME TypeOK, OwnershipInv, NEW c \in Contexts, Firmware(c)
    PROVE  OwnershipInv'
<1>1. UNCHANGED <<surf, ctx, pc, sync>>
  BY DEF Firmware, FwDecode, FwDrop, FwLast
<1> QED
  BY <1>1 DEF OwnershipInv, CallsOnLive, OwnedAreLive, OwnersAlive, SyncOwnerAlive,
              FenceOwnerOpen

-----------------------------------------------------------------------------
(* The theorems                                                               *)

(* At the creation of the driver nothing is owned and no call is under way.   *)
LEMMA InitOwns == Init => OwnershipInv
  BY DEF Init, RegistryInit, UnbornSurface, NoContext, NoSync, OwnershipInv, CallsOnLive,
         OwnedAreLive, OwnersAlive, SyncOwnerAlive, FenceOwnerOpen

(* Every step keeps the ownership invariant.                                  *)
LEMMA NextOwns == TypeOK /\ OwnershipInv /\ [Next]_vars => OwnershipInv'
<1> SUFFICES ASSUME TypeOK, OwnershipInv, [Next]_vars PROVE OwnershipInv'
  OBVIOUS
<1>1. ASSUME NEW c \in Contexts, Client(c) PROVE OwnershipInv'
  BY <1>1, CreateContextOwns, BeginPictureOwns, EndPictureOwns, DestroyContextOwns
  DEF Client
<1>2. ASSUME NEW c \in Contexts, CallStep(c) PROVE OwnershipInv'
  BY <1>2, FlushDoneOwns, RestartOwns, OpenSessionOwns, ClaimTargetOwns, SubmissionOwns,
     TakeFrameOwns, LoopFailsOwns, SyncStepOwns, TeardownOwns
  DEF CallStep
<1>3. ASSUME NEW c \in Contexts, Firmware(c) PROVE OwnershipInv'
  BY <1>3, FirmwareOwns
<1>4. ASSUME NEW s \in Surfaces, SurfaceCall(s) PROVE OwnershipInv'
  BY <1>4, SurfaceCallOwns, SyncSurfaceOwns DEF SurfaceCall
<1>5. CASE SyncStep
  BY <1>5, SyncStepOwns DEF SyncStep
<1>6. CASE UNCHANGED vars
  BY <1>6 DEF vars, OwnershipInv, CallsOnLive, OwnedAreLive, OwnersAlive, SyncOwnerAlive,
              FenceOwnerOpen
<1> QED
  BY <1>1, <1>2, <1>3, <1>4, <1>5, <1>6 DEF Next

(* The ownership invariant holds in every reachable state.                    *)
THEOREM OwnershipHolds == Spec => []OwnershipInv
<1>1. Init => OwnershipInv
  BY InitOwns
<1>2. TypeOK /\ OwnershipInv /\ [Next]_vars => OwnershipInv'
  BY NextOwns
<1>3. Spec => []TypeOK
  BY TypeCorrect
<1> QED
  BY <1>1, <1>2, <1>3, PTL DEF Spec

(* The registry never dereferences a destroyed context (decode.c:104-117),    *)
(* with any number of client threads.                                         *)
THEOREM NoDanglingOwner == Spec => []OwnersAlive
<1>1. OwnershipInv => OwnersAlive
  BY DEF OwnershipInv
<1> QED
  BY <1>1, OwnershipHolds, PTL

-----------------------------------------------------------------------------
(* How a session ends.  SessionsEnd, one context at a time.                   *)

LastAtEnd(q, sent) == \A i \in DOMAIN q : q[i].last => i = Len(q) /\ sent

Ended(x, d, p) ==
    /\ x.started \/ x.eos \/ p = "feed" => x.open
    /\ p \in {"boundary", "destroy"} => x.eos
    /\ p = "feed" => ~x.eos
    /\ d.stop => x.eos
    /\ d.lastSent => d.stop /\ d.fw = <<>>
    /\ LastAtEnd(d.cap, d.lastSent)
    /\ p = "restart" => d.lastSent /\ d.fw = <<>> /\ d.cap = <<>>
    /\ x.eos => x.fatal \/ p \in {"boundary", "restart", "destroy", "teardown"}

LEMMA SessionsEndIsEnded ==
    SessionsEnd <=> \A c \in Contexts : Ended(ctx[c], dev[c], pc[c])
  BY DEF SessionsEnd, Ended, LastAtEnd, Draining

(* LAST stays at the end of the CAPTURE queue.                                *)
LEMMA LastOfTail ==
    ASSUME NEW q \in Seq(Frame), q # <<>>, NEW sent, LastAtEnd(q, sent)
    PROVE  LastAtEnd(Tail(q), sent) /\ (Head(q).last => Tail(q) = <<>> /\ sent)
<1>1. /\ Tail(q) \in Seq(Frame) /\ Len(Tail(q)) = Len(q) - 1 /\ Len(q) \in Nat
      /\ \A i \in 1 .. Len(Tail(q)) : Tail(q)[i] = q[i + 1]
      /\ Head(q) = q[1]
  BY HeadTailProperties, LenProperties
<1>2. DOMAIN q = 1 .. Len(q) /\ DOMAIN Tail(q) = 1 .. Len(q) - 1 /\ Len(q) # 0
  BY <1>1, LenProperties, EmptySeq
<1>3. LastAtEnd(Tail(q), sent)
  BY <1>1, <1>2 DEF LastAtEnd
<1>4. Head(q).last => Len(Tail(q)) = 0 /\ sent
  BY <1>1, <1>2 DEF LastAtEnd
<1> QED
  BY <1>1, <1>3, <1>4, EmptySeq

LEMMA LastOfAppend ==
    ASSUME NEW q \in Seq(Frame), NEW f \in Frame, LastAtEnd(q, FALSE), NEW sent, f.last => sent
    PROVE  LastAtEnd(Append(q, f), sent)
<1> DEFINE r == Append(q, f)
<1>1. /\ Len(q) \in Nat /\ Len(r) = Len(q) + 1
      /\ \A i \in 1 .. Len(q) : r[i] = q[i]
      /\ r[Len(q) + 1] = f
      /\ DOMAIN q = 1 .. Len(q) /\ DOMAIN r = 1 .. Len(q) + 1
  BY AppendProperties, LenProperties
<1> HIDE DEF r
<1>2. LastAtEnd(r, sent)
  BY <1>1 DEF LastAtEnd
<1> QED
  BY <1>2 DEF r

(* A step of one context.                                                     *)
LEMMA OneEnds ==
    ASSUME SessionsEnd, NEW c \in Contexts,
           \A d \in Contexts \ {c} : ctx'[d] = ctx[d] /\ dev'[d] = dev[d] /\ pc'[d] = pc[d],
           Ended(ctx'[c], dev'[c], pc'[c])
    PROVE  SessionsEnd'
<1>1. \A d \in Contexts : Ended(ctx'[d], dev'[d], pc'[d])
  BY SessionsEndIsEnded
<1> QED
  BY <1>1 DEF SessionsEnd, Ended, LastAtEnd, Draining

(* Where a call moves, and what becomes of the flags of its context.          *)
LEMMA MovesEnd ==
    ASSUME TypeOK, SessionsEnd, NEW c \in Contexts, NEW p, UNCHANGED <<ctx, dev>>,
           UNCHANGED pc \/ pc' = [pc EXCEPT ![c] = p],
           Ended(ctx[c], dev[c], p) \/ UNCHANGED pc
    PROVE  SessionsEnd'
<1>1. Ended(ctx[c], dev[c], pc[c])
  BY SessionsEndIsEnded
<1> QED
  BY <1>1, OneEnds DEF TypeOK

LEMMA StopEnds ==
    ASSUME TypeOK, SessionsEnd, NEW c \in Contexts, NEW p \in {"boundary", "destroy"},
           ctx[c].started, ~ctx[c].eos, StopSession(c, p)
    PROVE  SessionsEnd'
<1> DEFINE x == [ctx[c] EXCEPT !.eos = TRUE]
           d == [dev[c] EXCEPT !.stop = TRUE]
<1>1. ctx' = [ctx EXCEPT ![c] = x] /\ dev' = [dev EXCEPT ![c] = d] /\ pc' = [pc EXCEPT ![c] = p]
  BY DEF TypeOK, StopSession
<1>2. /\ x.started = ctx[c].started /\ x.open = ctx[c].open /\ x.eos
      /\ d.stop /\ d.lastSent = dev[c].lastSent /\ d.fw = dev[c].fw /\ d.cap = dev[c].cap
  BY DEF TypeOK, ContextRecord, SessionRecord
<1> HIDE DEF x, d
<1>3. Ended(ctx[c], dev[c], pc[c])
  BY SessionsEndIsEnded
<1>4. Ended(x, d, p)
  BY <1>2, <1>3 DEF Ended
<1> QED
  BY <1>1, <1>4, OneEnds DEF TypeOK

(* The entry of a call: nothing is stopped twice, and a session at its end    *)
(* outside a drain has failed.                                                *)
LEMMA ClientEnds ==
    ASSUME TypeOK, SessionsEnd, NEW c \in Contexts, Client(c)
    PROVE  SessionsEnd'
<1>1. Ended(ctx[c], dev[c], pc[c])
  BY SessionsEndIsEnded
<1>2. CASE CreateContext(c)
  <2> DEFINE x == [ctx[c] EXCEPT !.life = "live"]
  <2>1. ctx' = [ctx EXCEPT ![c] = x] /\ UNCHANGED <<dev, pc>>
    BY <1>2 DEF TypeOK, CreateContext
  <2>2. /\ x.started = ctx[c].started /\ x.open = ctx[c].open /\ x.eos = ctx[c].eos
        /\ x.fatal = ctx[c].fatal
    BY DEF TypeOK, ContextRecord
  <2> HIDE DEF x
  <2>3. Ended(x, dev[c], pc[c])
    BY <1>1, <2>2 DEF Ended
  <2> QED
    BY <2>1, <2>3, OneEnds DEF TypeOK
<1>3. CASE \E s \in Surfaces, field \in 0 .. 2, poc \in Pocs : BeginPicture(c, s, field, poc)
  <2>1. UNCHANGED <<ctx, dev, pc>>
    BY <1>3 DEF BeginPicture
  <2> QED
    BY <1>1, <2>1, MovesEnd
<1>4. CASE \E ra, cue \in BOOLEAN : EndPicture(c, ra, cue)
  <2>1. pc[c] = "idle"
    BY <1>4 DEF EndPicture, MayCall
  <2>2. ctx[c].eos => ctx[c].fatal
    BY <1>1, <2>1 DEF Ended
  <2>3. \/ UNCHANGED <<ctx, dev>> /\ \E p \in {"prepare", "idle"} : pc' = [pc EXCEPT ![c] = p]
        \/ ctx[c].started /\ ~ctx[c].eos /\ StopSession(c, "boundary")
    BY <1>4, <2>2 DEF EndPicture, NewStream
  <2>4. \A p \in {"prepare", "idle"} : Ended(ctx[c], dev[c], p)
    BY <1>1, <2>1 DEF Ended
  <2> QED
    BY <2>3, <2>4, MovesEnd, StopEnds
<1>5. CASE EndPictureFails(c)
  BY <1>1, <1>5, MovesEnd DEF EndPictureFails
<1>6. CASE DestroyContext(c)
  <2>1. pc[c] = "idle"
    BY <1>6 DEF DestroyContext, MayCall
  <2>2. \/ UNCHANGED <<ctx, dev>> /\ pc' = [pc EXCEPT ![c] = "teardown"]
        \/ ctx[c].started /\ ~ctx[c].eos /\ StopSession(c, "destroy")
    BY <1>6 DEF DestroyContext, Drainable
  <2>3. Ended(ctx[c], dev[c], "teardown")
    BY <1>1, <2>1 DEF Ended
  <2> QED
    BY <2>2, <2>3, MovesEnd, StopEnds
<1> QED
  BY <1>2, <1>3, <1>4, <1>5, <1>6 DEF Client

(* A closed session has ended.                                                *)
LEMMA ClosedEnds ==
    ASSUME TypeOK, SessionsEnd, NEW c \in Contexts,
           Restart(c) \/ OpenSession(c) \/ Teardown(c)
    PROVE  SessionsEnd'
<1>1. Ended(ctx[c], dev[c], pc[c]) /\ ctx[c] \in ContextRecord
  BY SessionsEndIsEnded DEF TypeOK
<1>2. dev'[c] = NoSession /\ pc'[c] \in {"prepare", "idle"}
      /\ \A d \in Contexts \ {c} : ctx'[d] = ctx[d] /\ dev'[d] = dev[d] /\ pc'[d] = pc[d]
  <2>1. pc'[c] \in {"prepare", "idle"}
    BY DEF TypeOK, Restart, OpenSession, Teardown
  <2> QED
    BY <2>1 DEF TypeOK, Restart, OpenSession, Teardown
<1>3. ~ctx'[c].started /\ ~ctx'[c].eos
  <2>1. ASSUME NEW n PROVE ~Closed(c, n).started /\ ~Closed(c, n).eos /\ Closed(c, n) \in
                            [life : {"none", "live", "gone"}, open : BOOLEAN, started : BOOLEAN,
                             eos : BOOLEAN, fatal : BOOLEAN, seq : {n}]
    BY <1>1 DEF ContextRecord, Closed
  <2>2. CASE Restart(c)
    BY <2>1, <2>2 DEF TypeOK, Restart
  <2>3. CASE OpenSession(c)
    <3> DEFINE x == IF OldSessionEnded(c) THEN Closed(c, 0) ELSE ctx[c]
    <3>1. ~x.started /\ ~x.eos
      BY <1>1, <2>1, <2>3 DEF OldSessionEnded, OpenSession, Ended
    <3>2. x \in ContextRecord
      BY <1>1, <2>1, ClosedTyped DEF TypeOK
    <3>3. PICK ok \in BOOLEAN : ctx' = [ctx EXCEPT ![c] = [x EXCEPT !.open = ok]]
      BY <2>3 DEF TypeOK, OpenSession
    <3> HIDE DEF x
    <3> QED
      BY <3>1, <3>2, <3>3 DEF TypeOK, ContextRecord
  <2>4. CASE Teardown(c)
    BY <2>4 DEF TypeOK, Teardown, NoContext
  <2> QED
    BY <2>2, <2>3, <2>4
<1>4. Ended(ctx'[c], dev'[c], pc'[c])
  BY <1>2, <1>3 DEF Ended, NoSession, LastAtEnd
<1> QED
  BY <1>2, <1>4, OneEnds

(* An access unit goes to a session that was not stopped.                     *)
LEMMA FeedEnds ==
    ASSUME TypeOK, SessionsEnd, NEW c \in Contexts, Feed(c) \/ StartFails(c)
    PROVE  SessionsEnd'
<1>1. Ended(ctx[c], dev[c], pc[c]) /\ pc[c] = "feed"
  BY SessionsEndIsEnded DEF Feed, StartFails
<1> DEFINE q == Append(dev[c].fw, Unit(c))
           d == [dev[c] EXCEPT !.fw = q]
<1>2. dev' = [dev EXCEPT ![c] = d]
  BY DEF TypeOK, Feed, StartFails
<1> HIDE DEF q
<1>3. d.stop = dev[c].stop /\ d.lastSent = dev[c].lastSent /\ d.cap = dev[c].cap
  BY DEF TypeOK, SessionRecord
<1> HIDE DEF d
<1>4. pc'[c] \in {"drain", "unwind"}
      /\ \A e \in Contexts \ {c} : ctx'[e] = ctx[e] /\ pc'[e] = pc[e]
  BY DEF TypeOK, Feed, StartFails
<1>5. ctx'[c].open = ctx[c].open /\ ctx'[c].eos = ctx[c].eos
  BY DEF TypeOK, ContextRecord, Feed, StartFails
<1>6. Ended(ctx'[c], d, pc'[c])
  BY <1>1, <1>3, <1>4, <1>5 DEF Ended
<1> QED
  BY <1>2, <1>4, <1>6, OneEnds DEF TypeOK

(* A dequeued frame: LAST is the last one, and a loop that fails on it        *)
(* records the error as fatal.                                                *)
LEMMA DequeueEnds ==
    ASSUME TypeOK, SessionsEnd, NEW c \in Contexts, TakeFrame(c) \/ FlushDone(c)
    PROVE  SessionsEnd'
<1>1. Ended(ctx[c], dev[c], pc[c]) /\ dev[c].cap # <<>> /\ dev[c].cap \in Seq(Frame)
  BY SessionsEndIsEnded DEF TakeFrame, FlushDone, TypeOK, SessionRecord
<1> DEFINE q == Tail(dev[c].cap)
           d == [dev[c] EXCEPT !.cap = q]
<1>2. dev' = [dev EXCEPT ![c] = d]
  BY DEF TypeOK, TakeFrame, FlushDone
<1>3. LastAtEnd(q, dev[c].lastSent) /\ (Head(dev[c].cap).last => q = <<>> /\ dev[c].lastSent)
  BY <1>1, LastOfTail DEF Ended
<1> HIDE DEF q
<1>4. d.stop = dev[c].stop /\ d.lastSent = dev[c].lastSent /\ d.fw = dev[c].fw /\ d.cap = q
  BY DEF TypeOK, SessionRecord
<1> HIDE DEF d
<1>5. \A e \in Contexts \ {c} : ctx'[e] = ctx[e] /\ pc'[e] = pc[e]
  BY DEF TypeOK, TakeFrame, FlushDone, Failing
<1>6. Ended(ctx'[c], d, pc'[c])
  <2>1. CASE FlushDone(c)
    <3>1. /\ ctx'[c] = ctx[c] /\ Head(dev[c].cap).last
          /\ \/ pc[c] = "boundary" /\ pc'[c] = "restart"
             \/ pc[c] = "destroy" /\ pc'[c] = "teardown"
      BY <2>1 DEF TypeOK, FlushDone
    <3> QED
      BY <1>1, <1>3, <1>4, <3>1 DEF Ended
  <2>2. CASE TakeFrame(c) /\ UNCHANGED <<ctx, pc>>
    <3>1. pc[c] # "restart"
      BY <2>2 DEF TakeFrame, Looping
    <3> QED
      BY <1>1, <1>3, <1>4, <2>2, <3>1 DEF Ended
  <2>3. CASE TakeFrame(c) /\ ctx' = [ctx EXCEPT ![c].fatal = TRUE] /\ Failing(c)
    <3>1. /\ ctx'[c].open = ctx[c].open /\ ctx'[c].eos = ctx[c].eos
          /\ ctx'[c].started = ctx[c].started /\ ctx'[c].fatal
      BY <2>3 DEF TypeOK, ContextRecord
    <3>2. pc'[c] \in {"teardown", "unwind", "idle"}
      BY <2>3 DEF TypeOK, Failing, AfterError
    <3> QED
      BY <1>1, <1>3, <1>4, <3>1, <3>2 DEF Ended
  <2> QED
    BY <2>1, <2>2, <2>3 DEF TakeFrame
<1> QED
  BY <1>2, <1>5, <1>6, OneEnds DEF TypeOK

(* A failing loop: without a failing device no boundary is left early.        *)
LEMMA FailuresEnd ==
    ASSUME TypeOK, SessionsEnd, "drain" \notin Faults, "device" \notin Faults,
           NEW c \in Contexts, CallFails(c) \/ TimesOut(c)
    PROVE  SessionsEnd'
<1>1. Ended(ctx[c], dev[c], pc[c])
  BY SessionsEndIsEnded
<1>2. pc[c] \in {"feed", "drain", "wait", "sync"}
  BY <1>1 DEF CallFails, TimesOut, Looping, Ended
<1>3. UNCHANGED dev /\ pc' = [pc EXCEPT ![c] = AfterError(pc[c])]
  BY DEF CallFails, TimesOut, Failing, TypeOK
<1>4. AfterError(pc[c]) \in {"unwind", "idle"}
  BY <1>2 DEF AfterError
<1>5. CASE UNCHANGED ctx
  <2>1. Ended(ctx[c], dev[c], AfterError(pc[c]))
    BY <1>1, <1>2, <1>4 DEF Ended
  <2> QED
    BY <1>3, <1>5, <2>1, MovesEnd
<1>6. CASE \E fatal \in {TRUE, ctx[c].fatal} : ctx' = [ctx EXCEPT ![c].fatal = fatal]
  <2>1. PICK fatal \in {TRUE, ctx[c].fatal} : ctx' = [ctx EXCEPT ![c].fatal = fatal]
    BY <1>6
  <2>2. /\ ctx'[c].open = ctx[c].open /\ ctx'[c].eos = ctx[c].eos
        /\ ctx'[c].started = ctx[c].started /\ ctx'[c].fatal = fatal
    BY <2>1 DEF TypeOK, ContextRecord
  <2>3. Ended(ctx'[c], dev[c], AfterError(pc[c]))
    BY <1>1, <1>2, <1>4, <2>1, <2>2 DEF Ended
  <2> QED
    BY <1>3, <2>1, <2>3, OneEnds DEF TypeOK
<1> QED
  BY <1>5, <1>6 DEF CallFails, TimesOut

(* The steps of a call that only move on.                                     *)
LEMMA OtherCallsEnd ==
    ASSUME TypeOK, SessionsEnd, NEW c \in Contexts,
           \/ ClaimTarget(c) \/ SubmitFails(c) \/ Unwind(c) \/ DrainDone(c) \/ WaitDone(c)
           \/ SyncReturn(c)
    PROVE  SessionsEnd'
<1>1. Ended(ctx[c], dev[c], pc[c])
  BY SessionsEndIsEnded
<1>2. UNCHANGED <<ctx, dev>>
      /\ \E p \in {"feed", "unwind", "wait", "idle"} :
            pc' = [pc EXCEPT ![c] = p] /\ (p = "feed" => ctx[c].open /\ ~ctx[c].eos)
  BY DEF ClaimTarget, SubmitFails, Unwind, DrainDone, WaitDone, SyncReturn
<1>3. pc[c] \in {"prepare", "feed", "unwind", "drain", "wait", "sync"}
  BY DEF ClaimTarget, SubmitFails, Unwind, DrainDone, WaitDone, SyncReturn
<1>4. PICK p \in {"feed", "unwind", "wait", "idle"} :
            pc' = [pc EXCEPT ![c] = p] /\ (p = "feed" => ctx[c].open /\ ~ctx[c].eos)
  BY <1>2
<1>5. Ended(ctx[c], dev[c], p)
  BY <1>1, <1>3, <1>4 DEF Ended
<1> QED
  BY <1>2, <1>4, <1>5, MovesEnd

(* LAST is emitted once, when the session holds nothing else.                 *)
LEMMA FirmwareEnds ==
    ASSUME TypeOK, SessionsEnd, NEW c \in Contexts, Firmware(c)
    PROVE  SessionsEnd'
<1>1. Ended(ctx[c], dev[c], pc[c]) /\ dev[c] \in SessionRecord
      /\ dev[c].cap \in Seq(Frame) /\ dev[c].fw \in Seq(AccessUnit)
  BY SessionsEndIsEnded DEF TypeOK, SessionRecord
<1>2. UNCHANGED <<ctx, pc>> /\ ~dev[c].lastSent
  <2>1. UNCHANGED <<ctx, pc>>
    BY DEF Firmware, FwDecode, FwDrop, FwLast
  <2>2. FwLast(c) \/ \E i \in 1 .. Len(dev[c].fw) : TRUE
    BY DEF Firmware, FwDecode, FwDrop
  <2>3. dev[c].fw = <<>> => Len(dev[c].fw) = 0
    BY <1>1, EmptySeq
  <2>4. FwLast(c) \/ dev[c].fw # <<>>
    BY <2>2, <2>3
  <2>5. dev[c].lastSent => dev[c].fw = <<>> /\ ~FwLast(c)
    BY <1>1 DEF Ended, FwLast
  <2> QED
    BY <2>1, <2>4, <2>5
<1>3. ASSUME NEW q, NEW p, NEW sent \in BOOLEAN,
             dev' = [dev EXCEPT ![c] = [dev[c] EXCEPT !.fw = q, !.cap = p, !.lastSent = sent]],
             LastAtEnd(p, sent), sent => dev[c].stop /\ q = <<>>
      PROVE  SessionsEnd'
  <2> DEFINE d == [dev[c] EXCEPT !.fw = q, !.cap = p, !.lastSent = sent]
  <2>1. d.fw = q /\ d.cap = p /\ d.lastSent = sent /\ d.stop = dev[c].stop
    BY <1>1 DEF SessionRecord
  <2>2. dev' = [dev EXCEPT ![c] = d]
    BY <1>3
  <2> HIDE DEF d
  <2>3. Ended(ctx[c], d, pc[c])
    BY <1>1, <1>2, <1>3, <2>1 DEF Ended
  <2> QED
    BY <1>2, <2>2, <2>3, OneEnds DEF TypeOK
<1>4. LastAtEnd(dev[c].cap, FALSE)
  BY <1>1, <1>2 DEF Ended, LastAtEnd
<1>5. CASE FwDecode(c)
  <2>1. PICK i \in 1 .. Len(dev[c].fw) :
          dev' = [dev EXCEPT
                   ![c].fw  = Removed(@, i, Fields(c, i)),
                   ![c].cap = Append(@, [ts |-> dev[c].fw[i].ts, px |-> dev[c].fw[i].px,
                                         last |-> FALSE])]
    BY <1>5 DEF FwDecode
  <2> DEFINE f == [ts |-> dev[c].fw[i].ts, px |-> dev[c].fw[i].px, last |-> FALSE]
             q == Removed(dev[c].fw, i, Fields(c, i))
             p == Append(dev[c].cap, f)
  <2>2. dev[c].fw[i] \in AccessUnit
    BY <1>1, ElementOfSeq
  <2>3. f \in Frame /\ ~f.last
    BY <2>2 DEF AccessUnit, Frame
  <2>4. LastAtEnd(p, FALSE)
    BY <1>1, <1>4, <2>3, LastOfAppend
  <2>5. dev' = [dev EXCEPT ![c] = [dev[c] EXCEPT !.fw = q, !.cap = p, !.lastSent = FALSE]]
    BY <1>1, <1>2, <2>1 DEF TypeOK, SessionRecord
  <2> HIDE DEF f, q, p
  <2> QED
    BY <1>3, <2>4, <2>5
<1>6. CASE FwDrop(c)
  <2>1. PICK i \in 1 .. Len(dev[c].fw) :
          dev' = [dev EXCEPT ![c].fw = Removed(@, i, Fields(c, i))]
    BY <1>6 DEF FwDrop
  <2> DEFINE q == Removed(dev[c].fw, i, Fields(c, i))
  <2>2. dev' = [dev EXCEPT ![c] = [dev[c] EXCEPT
                   !.fw = q, !.cap = dev[c].cap, !.lastSent = FALSE]]
    BY <1>1, <1>2, <2>1 DEF TypeOK, SessionRecord
  <2> HIDE DEF q
  <2> QED
    BY <1>3, <1>4, <2>2
<1>7. CASE FwLast(c)
  <2> DEFINE p == Append(dev[c].cap, LastMarker)
  <2>1. LastMarker \in Frame
    BY DEF LastMarker, Frame, Black, Pixels
  <2>2. LastAtEnd(p, TRUE)
    BY <1>1, <1>4, <2>1, LastOfAppend
  <2>3. dev' = [dev EXCEPT ![c] = [dev[c] EXCEPT
                   !.fw = dev[c].fw, !.cap = p, !.lastSent = TRUE]]
    BY <1>1, <1>7 DEF TypeOK, SessionRecord, FwLast
  <2>4. dev[c].stop /\ dev[c].fw = <<>>
    BY <1>7 DEF FwLast
  <2> HIDE DEF p
  <2> QED
    BY <1>3, <2>2, <2>3, <2>4
<1> QED
  BY <1>5, <1>6, <1>7 DEF Firmware

LEMMA InitEnds == Init => SessionsEnd
  BY DEF Init, NoContext, NoSession, SessionsEnd, Draining

LEMMA NextEnds ==
    ASSUME "drain" \notin Faults, "device" \notin Faults
    PROVE  TypeOK /\ SessionsEnd /\ [Next]_vars => SessionsEnd'
<1> SUFFICES ASSUME TypeOK, SessionsEnd, [Next]_vars PROVE SessionsEnd'
  OBVIOUS
<1>1. ASSUME NEW c \in Contexts, Client(c) PROVE SessionsEnd'
  BY <1>1, ClientEnds
<1>2. ASSUME NEW c \in Contexts, CallStep(c) PROVE SessionsEnd'
  BY <1>2, ClosedEnds, FeedEnds, DequeueEnds, FailuresEnd, OtherCallsEnd DEF CallStep
<1>3. ASSUME NEW c \in Contexts, Firmware(c) PROVE SessionsEnd'
  BY <1>3, FirmwareEnds
<1>4. CASE UNCHANGED <<ctx, dev, pc>>
  BY <1>4 DEF SessionsEnd, Draining
<1>5. ASSUME NEW c \in Contexts, SyncEnter(c) PROVE SessionsEnd'
  <2>1. Ended(ctx[c], dev[c], pc[c])
    BY SessionsEndIsEnded
  <2>2. /\ UNCHANGED <<ctx, dev>> /\ pc[c] = "idle"
        /\ UNCHANGED pc \/ pc' = [pc EXCEPT ![c] = "sync"]
    BY <1>5 DEF SyncEnter
  <2>3. Ended(ctx[c], dev[c], "sync")
    BY <2>1, <2>2 DEF Ended
  <2> QED
    BY <2>2, <2>3, MovesEnd
<1>6. SyncFilled \/ UNCHANGED vars \/ (\E s \in Surfaces : SurfaceCall(s))
        => UNCHANGED <<ctx, dev, pc>>
  BY DEF SyncFilled, vars, SurfaceCall, AllocSurface, ExportSurface, FreeSurface, SyncSurface
<1> QED
  BY <1>1, <1>2, <1>3, <1>4, <1>5, <1>6 DEF Next, SyncStep

(* A boundary closes the old session only after LAST was dequeued from it,    *)
(* when it holds nothing any more (stream.c:334-338); with any number of      *)
(* client threads and with field pairs, unless the drain itself times out or  *)
(* the device fails under it.                                                 *)
THEOREM BoundariesObserveLast ==
    ASSUME "drain" \notin Faults, "device" \notin Faults
    PROVE  Spec => BoundaryObservesLast
<1>1. TypeOK /\ SessionsEnd /\ [Next]_vars => SessionsEnd'
  BY NextEnds
<1>2. ASSUME TypeOK, SessionsEnd, [Next]_vars
      PROVE  [\A c \in Contexts :
                 stream'[c] # stream[c] =>
                     /\ dev[c].lastSent
                     /\ dev[c].fw = <<>> /\ dev[c].cap = <<>>]_vars
  <2> SUFFICES ASSUME NEW c \in Contexts, stream'[c] # stream[c]
               PROVE  dev[c].lastSent /\ dev[c].fw = <<>> /\ dev[c].cap = <<>>
    OBVIOUS
  <2>1. pc[c] = "restart"
    <3>1. ASSUME NEW d \in Contexts, Client(d) PROVE UNCHANGED stream
      BY <3>1 DEF Client, CreateContext, BeginPicture, EndPicture, EndPictureFails,
                  DestroyContext, history
    <3>2. \A d \in Contexts : CallStep(d) => Restart(d)
      BY DEF CallStep, FlushDone, OpenSession, ClaimTarget, Feed, SubmitFails, StartFails,
             Unwind, DrainDone, WaitDone, TakeFrame, CallFails, TimesOut, SyncReturn,
             Teardown, history
    <3>3. \A d \in Contexts : ~Firmware(d)
      BY DEF Firmware, FwDecode, FwDrop, FwLast, history
    <3>4. ~SyncStep /\ \A s \in Surfaces : ~SurfaceCall(s)
      BY DEF SurfaceCall, SyncStep, AllocSurface, ExportSurface, FreeSurface, SyncSurface,
             SyncFilled, SyncEnter, history
    <3>5. PICK d \in Contexts : Restart(d)
      BY <1>2, <3>1, <3>2, <3>3, <3>4 DEF Next, vars
    <3>6. d = c
      BY <1>2, <3>5 DEF TypeOK, Restart
    <3> QED
      BY <3>5, <3>6 DEF Restart
  <2> QED
    BY <1>2, <2>1 DEF SessionsEnd
<1> QED
  BY <1>1, <1>2, InitEnds, TypeCorrect, PTL DEF Spec, BoundaryObservesLast

=============================================================================
