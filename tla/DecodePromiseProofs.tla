-------------------------- MODULE DecodePromiseProofs --------------------------
(* Decode implements SurfacePromise, for every value of the constants with    *)
(* one client thread, without PAFF field pairs, without the HEVC capture      *)
(* FIFO, and as long as STREAMON does not fail after the first access unit    *)
(* was queued.  PromiseKeptInv is the inductive invariant the mapping of the  *)
(* steps rests on: from vaBeginPicture to the frame that lands, exactly one   *)
(* picture or one ring slot claims a surface.  The second half of the module  *)
(* shows that nothing is lost when nothing fails.                             *)
EXTENDS DecodePairingProofs, DecodeImplementsPromise

-----------------------------------------------------------------------------
(* What the rewrites of one surface record do                                 *)

Standing(x, y) ==
    /\ SameWork(x, y)
    /\ x.queued = y.queued /\ x.owner = y.owner /\ x.epoch = y.epoch

(* What only ends a write or exports a surface leaves its standing alone.     *)
LEMMA StandingKept ==
    ASSUME NEW x \in SurfaceRecord
    PROVE  /\ Standing(x, x) /\ Standing(Finished(x), x)
           /\ Standing([x EXCEPT !.exported = TRUE], x)
  BY DEF SurfaceRecord, Standing, SameWork, Finished

LEMMA BegunStanding ==
    ASSUME NEW x \in SurfaceRecord
    PROVE  /\ Begun(x).life = x.life /\ Begun(x).gen = x.gen + 1 /\ Begun(x).px = x.px
           /\ ~Begun(x).decoded /\ ~Begun(x).queued /\ Begun(x).epoch = x.epoch
           /\ Begun(x).owner = x.owner
  BY DEF SurfaceRecord, Begun

LEMMA ClaimedStanding ==
    ASSUME NEW x \in SurfaceRecord, NEW c \in Contexts, NEW n
    PROVE  /\ SameWork(Claimed(x, c, n), x) /\ Claimed(x, c, n).epoch = x.epoch
           /\ Claimed(x, c, n).queued /\ Claimed(x, c, n).owner = c
  BY DEF SurfaceRecord, SameWork, Finished, Claimed

LEMMA LandedStanding ==
    ASSUME NEW x \in SurfaceRecord, NEW c \in Contexts, NEW px
    PROVE  /\ Landed(x, c, px).life = x.life /\ Landed(x, c, px).gen = x.gen
           /\ Landed(x, c, px).decoded /\ Landed(x, c, px).px = px
           /\ Landed(x, c, px).queued /\ Landed(x, c, px).owner = c
           /\ Landed(x, c, px).epoch = reg.epoch
<1>1. Finished(x) \in SurfaceRecord /\ Finished(x).life = x.life /\ Finished(x).gen = x.gen
  BY DEF SurfaceRecord, Finished
<1> QED
  BY <1>1 DEF SurfaceRecord, Landed

LEMMA RepaintedStanding ==
    ASSUME NEW x \in SurfaceRecord, NEW px
    PROVE  LET y == [x EXCEPT !.px = px]
           IN  /\ y.life = x.life /\ y.gen = x.gen /\ y.decoded = x.decoded /\ y.px = px
               /\ y.queued = x.queued /\ y.owner = x.owner /\ y.epoch = x.epoch
  BY DEF SurfaceRecord

LEMMA HalfLandedStanding ==
    ASSUME NEW x \in SurfaceRecord, NEW px, NEW y \in HalfLanded(x, px)
    PROVE  /\ y.life = x.life /\ y.gen = x.gen /\ y.decoded = x.decoded
           /\ y.queued = x.queued /\ y.owner = x.owner /\ y.epoch = x.epoch
           /\ y.px = x.px \/ y.px = px
<1> DEFINE w == Finished(x)
           z == [w EXCEPT !.px = px]
<1>1. w \in SurfaceRecord
  BY DEF SurfaceRecord, Finished
<1>2. Standing(w, x)
  BY StandingKept
<1>3. /\ z.life = w.life /\ z.gen = w.gen /\ z.decoded = w.decoded /\ z.px = px
      /\ z.queued = w.queued /\ z.owner = w.owner /\ z.epoch = w.epoch
  BY <1>1, RepaintedStanding
<1>4. y = x \/ y = w \/ y = z
  BY DEF HalfLanded
<1> HIDE DEF w, z
<1> QED
  BY <1>2, <1>3, <1>4 DEF Standing, SameWork

LEMMA BackfilledStanding ==
    ASSUME NEW x \in SurfaceRecord
    PROVE  /\ Backfilled(x).life = x.life /\ Backfilled(x).gen = x.gen
           /\ Backfilled(x).px = x.px /\ Backfilled(x).decoded
           /\ Backfilled(x).queued = x.queued /\ Backfilled(x).owner = x.owner
           /\ Backfilled(x).epoch = reg.epoch
  BY DEF SurfaceRecord, Backfilled

(* The sweeps: finishing leaves every standing alone, disowning takes from    *)
(* the queue what c never finished, detaching takes the owner away.           *)
LEMMA FinishedStanding ==
    ASSUME TypeOK, NEW c \in Contexts, NEW s \in Surfaces
    PROVE  /\ Standing(AllFinished(c)[s], surf[s])
           /\ AllFinished(c)[s] = surf[s] \/ Live(s)
  BY StandingKept DEF TypeOK, AllFinished

LEMMA DisownedStanding ==
    ASSUME TypeOK, NEW c \in Contexts, NEW s \in Surfaces
    PROVE  /\ SameWork(Disowned(c)[s], surf[s])
           /\ Disowned(c)[s].epoch = surf[s].epoch /\ Disowned(c)[s].owner = surf[s].owner
           /\ Disowned(c)[s] = surf[s] \/ Live(s)
           /\ Disowned(c)[s].queued =
                 IF Pending(s) /\ surf[s].owner = c THEN FALSE ELSE surf[s].queued
<1> DEFINE q == IF Abandoned(surf[s], c) THEN FALSE ELSE Finished(surf[s]).queued
           w == Finished(surf[s])
           z == [w EXCEPT !.queued = q]
<1>1. Disowned(c)[s] = IF Live(s) /\ surf[s].owner = c THEN z ELSE surf[s]
  BY DEF Disowned
<1>2. w \in SurfaceRecord
  BY DEF TypeOK, SurfaceRecord, Finished
<1>3. Standing(w, surf[s]) /\ Standing(surf[s], surf[s])
  BY StandingKept DEF TypeOK
<1>4. c # None
  BY RegistryAssumption
<1>5. Live(s) /\ surf[s].owner = c =>
        q = IF Pending(s) /\ surf[s].owner = c THEN FALSE ELSE surf[s].queued
  BY <1>3, <1>4 DEF Abandoned, Pending, Standing
<1>6. ~Live(s) => ~Pending(s)
  BY DEF Pending
<1> HIDE DEF q, w
<1>7. /\ SameWork(z, w) /\ z.epoch = w.epoch /\ z.owner = w.owner /\ z.queued = q
  BY <1>2 DEF SurfaceRecord, SameWork
<1> HIDE DEF z
<1>8. CASE Live(s) /\ surf[s].owner = c
  BY <1>1, <1>3, <1>5, <1>7, <1>8 DEF Standing, SameWork
<1>9. CASE ~(Live(s) /\ surf[s].owner = c)
  BY <1>1, <1>3, <1>6, <1>9 DEF Standing, SameWork
<1> QED
  BY <1>8, <1>9

LEMMA DetachedStanding ==
    ASSUME TypeOK, NEW c \in Contexts, NEW s \in Surfaces
    PROVE  /\ SameWork(Detached(c)[s], surf[s])
           /\ Detached(c)[s].epoch = surf[s].epoch
           /\ Detached(c)[s].queued = surf[s].queued
           /\ Detached(c)[s] = surf[s] \/ Live(s)
           /\ Detached(c)[s].owner =
                 IF Live(s) /\ surf[s].owner = c THEN None ELSE surf[s].owner
<1> DEFINE w == IF ctx[c].open THEN Finished(surf[s]) ELSE surf[s]
           z == [w EXCEPT !.owner = None]
<1>1. Detached(c)[s] = IF Live(s) /\ surf[s].owner = c THEN z ELSE surf[s]
  BY DEF Detached
<1>2. w \in SurfaceRecord
  BY DEF TypeOK, SurfaceRecord, Finished
<1>3. Standing(w, surf[s]) /\ Standing(surf[s], surf[s])
  BY StandingKept DEF TypeOK
<1> HIDE DEF w
<1>4. SameWork(z, w) /\ z.epoch = w.epoch /\ z.queued = w.queued /\ z.owner = None
  BY <1>2 DEF SurfaceRecord, SameWork
<1> HIDE DEF z
<1> QED
  BY <1>1, <1>3, <1>4 DEF Standing, SameWork

-----------------------------------------------------------------------------
(* Steps that give no surface a new picture                                   *)

SameUse(x, y) == x.life = y.life /\ x.gen = y.gen /\ x.decoded = y.decoded

(* What a step may do to a surface without breaking what is awaited: take it  *)
(* from the queue or from its owner only as the owner's mappings are dropped. *)
KeptSurface(s) ==
    /\ SameUse(surf'[s], surf[s]) /\ surf'[s].epoch = surf[s].epoch
    /\ surf'[s].queued => surf[s].queued
    /\ \/ surf'[s].queued = surf[s].queued /\ surf'[s].owner = surf[s].owner
       \/ surf[s].owner \in Contexts /\ pend'[surf[s].owner] = NoPending
    /\ surf'[s] = surf[s] \/ Live(s)

ClaimsKept ==
    \A c \in Contexts :
        /\ Unclaimed(c)' => /\ Unclaimed(c)
                            /\ cur'[c].target = cur[c].target /\ cur'[c].gen = cur[c].gen
        /\ pc'[c] \notin {"idle", "sync"} => ~cur'[c].begun

ClaimsRest ==
    /\ \A s \in Surfaces : KeptSurface(s)
    /\ UNCHANGED <<goal, pictures>>
    /\ reg' = reg \/ reg'.lastFrame = None
    /\ SlotsKept /\ ClaimsKept
    /\ sync'.st = "filling" => sync' = sync

LEMMA QuietKeepsPromise ==
    ASSUME TypeOK, GenerationsPast, PromiseKeptInv, ClaimsRest
    PROVE  PromiseKeptInv'
<1> USE DEF PromiseKeptInv, ClaimsRest
<1>0. GensKept
  <2>1. \A s \in Surfaces : surf[s].life \in {"unborn", "live", "freed"}
    BY DEF TypeOK, SurfaceRecord
  <2> QED
    BY <2>1 DEF GensKept, KeptSurface, SameUse
<1>1. \A c \in Contexts, i \in 0 .. RingSize - 1, s \in Surfaces :
         LeadsTo(pend[c].ring[i], s)' =>
            pend'[c].ring[i] = pend[c].ring[i] /\ LeadsTo(pend[c].ring[i], s)
  BY <1>0, LeadsBack
<1>2. \A s \in Surfaces : Live(s)' <=> Live(s)
  BY DEF KeptSurface, SameUse, Live
<1>3. GoalsPast' /\ BegunOnce'
  BY DEF GoalsPast, BegunOnce, KeptSurface, SameUse, ClaimsKept, Live
<1>4. FreshTarget'
  <2> SUFFICES ASSUME NEW c \in Contexts, NEW s \in Surfaces, Unclaimed(c)',
                      cur'[c].target = s, Live(s)'
               PROVE  /\ cur'[c].gen = surf'[s].gen
                      /\ goal'[s].pic # 0
                      /\ ~surf'[s].queued
                      /\ surf'[s].decoded => goal'[s].filled
                      /\ \A d \in Contexts : \A i \in 0 .. RingSize - 1 :
                            ~LeadsTo(pend[d].ring[i], s)'
    BY DEF FreshTarget
  <2>1. Unclaimed(c) /\ cur[c].target = s /\ cur[c].gen = cur'[c].gen /\ Live(s)
    BY <1>2 DEF ClaimsKept
  <2>2. /\ cur[c].gen = surf[s].gen /\ goal[s].pic # 0 /\ ~surf[s].queued
        /\ surf[s].decoded => goal[s].filled
        /\ \A d \in Contexts : \A i \in 0 .. RingSize - 1 : ~LeadsTo(pend[d].ring[i], s)
    BY <2>1 DEF FreshTarget
  <2>3. \A d \in Contexts : \A i \in 0 .. RingSize - 1 : ~LeadsTo(pend[d].ring[i], s)'
    BY <1>1, <2>2
  <2> QED
    BY <2>1, <2>2, <2>3 DEF KeptSurface, SameUse
<1>5. TargetsApart'
  BY DEF TargetsApart, ClaimsKept
<1>6. MappingsAwaited'
  <2> SUFFICES ASSUME NEW c \in Contexts, NEW s \in Surfaces, NEW i \in 0 .. RingSize - 1,
                      LeadsTo(pend[c].ring[i], s)'
               PROVE  /\ surf'[s].queued /\ surf'[s].owner = c
                      /\ surf'[s].decoded => goal'[s].filled
                      /\ \A j \in 0 .. RingSize - 1 : LeadsTo(pend[c].ring[j], s)' => i = j
    BY DEF MappingsAwaited
  <2>1. LeadsTo(pend[c].ring[i], s) /\ pend'[c].ring[i] = pend[c].ring[i]
    BY <1>1
  <2>2. /\ surf[s].queued /\ surf[s].owner = c /\ (surf[s].decoded => goal[s].filled)
        /\ \A j \in 0 .. RingSize - 1 : LeadsTo(pend[c].ring[j], s) => i = j
    BY <2>1 DEF MappingsAwaited
  <2>3. pend'[c] # NoPending
    <3>1. ~NoPending.ring[i].used
      BY DEF NoPending, EmptyRing, EmptySlot
    <3>2. pend'[c].ring[i].used
      BY <2>1 DEF LeadsTo
    <3> QED
      BY <3>1, <3>2
  <2>4. \A j \in 0 .. RingSize - 1 : LeadsTo(pend[c].ring[j], s)' => i = j
    BY <1>1, <2>2
  <2>5. KeptSurface(s)
    OBVIOUS
  <2>6. surf'[s].queued = surf[s].queued /\ surf'[s].owner = surf[s].owner
    BY <2>2, <2>3, <2>5 DEF KeptSurface
  <2>7. surf'[s].decoded = surf[s].decoded /\ goal'[s] = goal[s]
    BY <2>5 DEF KeptSurface, SameUse
  <2> QED
    BY <2>2, <2>4, <2>6, <2>7
<1>7. LastFrameDelivered'
  BY <1>2, RegistryAssumption DEF LastFrameDelivered, KeptSurface, Stale
<1>8. FillRecorded'
  BY DEF FillRecorded
<1> QED
  BY <1>3, <1>4, <1>5, <1>6, <1>7, <1>8

-----------------------------------------------------------------------------
(* The promise of one surface                                                 *)

StateOf(x, g) ==
    IF x.life = "unborn" THEN "none"
    ELSE IF x.life = "freed" THEN "gone"
    ELSE IF g.filled THEN "filled"
    ELSE IF x.decoded THEN "ready"
    ELSE IF x.queued /\ x.owner # None THEN "pending" ELSE "open"

View(x, g) == [st |-> StateOf(x, g), want |-> g.pic, shows |-> x.px.pic]

LEMMA PromiseBefore ==
    ASSUME TypeOK
    PROVE  PromiseOf = [s \in Surfaces |-> View(surf[s], goal[s])]
  BY DEF TypeOK, SurfaceRecord, View, StateOf, PromiseOf, PromiseState, Live, Pending

LEMMA PromiseAfter ==
    ASSUME TypeOK'
    PROVE  PromiseOf' = [s \in Surfaces |-> View(surf'[s], goal'[s])]
  BY DEF TypeOK, SurfaceRecord, View, StateOf, PromiseOf, PromiseState, Live, Pending

LEMMA SameViews ==
    ASSUME TypeOK, TypeOK',
           \A s \in Surfaces : View(surf'[s], goal'[s]) = View(surf[s], goal[s])
    PROVE  PromiseOf' = PromiseOf
  BY PromiseBefore, PromiseAfter

LEMMA OneView ==
    ASSUME TypeOK, TypeOK', NEW s \in Surfaces,
           \A t \in Surfaces \ {s} : View(surf'[t], goal'[t]) = View(surf[t], goal[t])
    PROVE  /\ PromiseOf[s] = View(surf[s], goal[s])
           /\ PromiseOf' = [PromiseOf EXCEPT ![s] = View(surf'[s], goal'[s])]
  BY PromiseBefore, PromiseAfter

Views == [st : {"none", "open", "pending", "ready", "filled", "gone"}, want : Nat, shows : Nat]

LEMMA PromiseTyped ==
    ASSUME TypeOK
    PROVE  PromiseOf \in [Surfaces -> Views]
<1>1. ASSUME NEW s \in Surfaces PROVE View(surf[s], goal[s]) \in Views
  BY DEF TypeOK, SurfaceRecord, Pixels, GoalRecord, View, StateOf, Views
<1> QED
  BY <1>1, PromiseBefore

(* How the actions of the promise rewrite one surface.                        *)
States == {"open", "pending", "ready", "filled", "gone"}

LEMMA RewriteState ==
    ASSUME TypeOK, NEW s \in Surfaces, NEW x \in States
    PROVE  [PromiseOf EXCEPT ![s].st = x] =
              [PromiseOf EXCEPT ![s] = [st |-> x, want |-> PromiseOf[s].want, shows |-> PromiseOf[s].shows]]
<1> DEFINE r == PromiseOf[s]
           w == [r EXCEPT !.st = x]
<1>1. r \in Views /\ [PromiseOf EXCEPT ![s].st = x] = [PromiseOf EXCEPT ![s] = w]
  BY PromiseTyped
<1> HIDE DEF r
<1>2. w = [st |-> x, want |-> r.want, shows |-> r.shows]
  BY <1>1 DEF Views, States
<1> QED
  BY <1>1, <1>2 DEF r

LEMMA RewriteShows ==
    ASSUME TypeOK, NEW s \in Surfaces, NEW y \in Nat
    PROVE  [PromiseOf EXCEPT ![s].shows = y] =
              [PromiseOf EXCEPT ![s] = [st |-> PromiseOf[s].st, want |-> PromiseOf[s].want, shows |-> y]]
<1> DEFINE r == PromiseOf[s]
           w == [r EXCEPT !.shows = y]
<1>1. r \in Views /\ [PromiseOf EXCEPT ![s].shows = y] = [PromiseOf EXCEPT ![s] = w]
  BY PromiseTyped
<1> HIDE DEF r
<1>2. w = [st |-> r.st, want |-> r.want, shows |-> y]
  BY <1>1 DEF Views
<1> QED
  BY <1>1, <1>2 DEF r

LEMMA RewriteStateAndShows ==
    ASSUME TypeOK, NEW s \in Surfaces, NEW x \in States, NEW y \in Nat
    PROVE  [PromiseOf EXCEPT ![s].st = x, ![s].shows = y] =
              [PromiseOf EXCEPT ![s] = [st |-> x, want |-> PromiseOf[s].want, shows |-> y]]
<1> DEFINE r == PromiseOf[s]
           w == [r EXCEPT !.st = x]
           z == [r EXCEPT !.st = x, !.shows = y]
<1>1. r \in Views /\ [PromiseOf EXCEPT ![s].st = x, ![s].shows = y] = [PromiseOf EXCEPT ![s] = z]
  BY PromiseTyped
<1> HIDE DEF r
<1>2. /\ w \in Views /\ w.st = x /\ w.want = r.want /\ z = [w EXCEPT !.shows = y]
  BY <1>1 DEF Views, States
<1> HIDE DEF w, z
<1>3. [w EXCEPT !.shows = y] = [st |-> w.st, want |-> w.want, shows |-> y]
  BY <1>2 DEF Views
<1> QED
  BY <1>1, <1>2, <1>3 DEF r

LEMMA RewriteBegun ==
    ASSUME TypeOK, NEW s \in Surfaces, NEW y \in Nat
    PROVE  [PromiseOf EXCEPT ![s].st = "open", ![s].want = y] =
              [PromiseOf EXCEPT ![s] = [st |-> "open", want |-> y,
                                        shows |-> PromiseOf[s].shows]]
<1> DEFINE r == PromiseOf[s]
           w == [r EXCEPT !.st = "open"]
           z == [r EXCEPT !.st = "open", !.want = y]
<1>1. /\ r \in Views
      /\ [PromiseOf EXCEPT ![s].st = "open", ![s].want = y] = [PromiseOf EXCEPT ![s] = z]
  BY PromiseTyped
<1> HIDE DEF r
<1>2. /\ w \in Views /\ w.st = "open" /\ w.shows = r.shows /\ z = [w EXCEPT !.want = y]
  BY <1>1 DEF Views
<1> HIDE DEF w, z
<1>3. [w EXCEPT !.want = y] = [st |-> w.st, want |-> y, shows |-> w.shows]
  BY <1>2 DEF Views
<1> QED
  BY <1>1, <1>2, <1>3 DEF r

LEMMA InAged ==
    ASSUME NEW s
    PROVE  /\ s \in Aged <=> s \in Surfaces /\ Live(s) /\ Stale(s) /\ ~Filling(s)
           /\ s \in Aged' <=> s \in Surfaces /\ Live(s)' /\ Stale(s)' /\ ~Filling(s)'
  BY DEF Aged, Filling

-----------------------------------------------------------------------------
(* Steps the promise does not see, or sees as the start or end of a sync      *)

SyncMoves ==
    \/ sync' = sync
    \/ /\ sync.st # "filling" /\ sync'.st # "filling"
       /\ sync'.st = "returned" => Live(sync'.s) /\ ~Pending(sync'.s)

StandStep ==
    /\ \A s \in Surfaces : Standing(surf'[s], surf[s]) /\ (surf'[s] = surf[s] \/ Live(s))
    /\ UNCHANGED <<goal, pictures, reg>>
    /\ SlotsKept /\ ClaimsKept
    /\ SyncMoves

LEMMA StandIsQuiet == StandStep => ClaimsRest
  BY DEF StandStep, SyncMoves, Standing, SameWork, ClaimsRest, KeptSurface, SameUse

LEMMA StandMaps ==
    ASSUME TypeOK, TypeOK', StandStep
    PROVE  [Promise!Next]_Promise!vars
<1>1. PromiseOf' = PromiseOf
  <2>1. \A s \in Surfaces : View(surf'[s], goal'[s]) = View(surf[s], goal[s])
    BY DEF StandStep, Standing, SameWork, View, StateOf
  <2> QED
    BY <2>1, SameViews
<1>2. Aged' = Aged
  <2>1. \A s \in Surfaces :
           Live(s)' /\ Stale(s)' /\ ~Filling(s)' <=> Live(s) /\ Stale(s) /\ ~Filling(s)
    BY DEF StandStep, SyncMoves, Standing, SameWork, Live, Stale, Filling
  <2> QED
    BY <2>1, InAged
<1>3. CASE sync' = sync
  BY <1>1, <1>2, <1>3 DEF Promise!vars, Told
<1>4. CASE sync'.st = "returned" /\ Live(sync'.s) /\ ~Pending(sync'.s)
  <2> DEFINE s == sync'.s
  <2>1. s \in Surfaces /\ Told' = s
    BY <1>4 DEF Live, Told
  <2>2. PromiseOf[s].st \notin {"none", "gone", "pending"}
    BY <1>4, <2>1, PromiseBefore DEF View, StateOf, Live, Pending
  <2> HIDE DEF s
  <2>3. Promise!Tell(s)
    BY <1>1, <1>2, <2>1, <2>2 DEF Promise!Tell, Promise!Exists, Promise!Pending
  <2> QED
    BY <2>1, <2>3 DEF Promise!Next
<1>5. CASE sync'.st # "returned"
  <2>1. Promise!Wait
    BY <1>1, <1>2, <1>5 DEF Promise!Wait, Told
  <2> QED
    BY <2>1 DEF Promise!Next
<1> QED
  BY <1>3, <1>4, <1>5 DEF StandStep, SyncMoves

(* Which steps these are                                                      *)

(* A step of a call begins no picture, and claims at most the one begun.      *)
LEMMA CallClaims ==
    ASSUME TypeOK, BegunOnce, NEW c \in Contexts, CallStep(c)
    PROVE  UNCHANGED <<cur, pictures>> /\ ClaimsKept
<1>1. UNCHANGED <<cur, pictures>>
  BY DEF CallStep, FlushDone, Restart, OpenSession, ClaimTarget, Feed, SubmitFails, StartFails,
         Unwind, DrainDone, WaitDone, TakeFrame, CallFails, TimesOut, SyncReturn, Teardown,
         history
<1> DEFINE Early == {"boundary", "restart", "prepare"}
           Goes(p) == /\ p \in Early => pc[c] \in Early
                      /\ p \notin {"idle", "sync"} => pc[c] \notin {"idle", "sync"}
<1>2. pc' = pc \/ \E p \in Calls : pc' = [pc EXCEPT ![c] = p] /\ Goes(p)
  <2>1. AfterError(pc[c]) \in Calls /\ Goes(AfterError(pc[c]))
    BY DEF AfterError, Calls
  <2>2. CASE TakeFrame(c) \/ CallFails(c) \/ TimesOut(c)
    BY <2>1, <2>2 DEF TakeFrame, CallFails, TimesOut, Failing
  <2>3. CASE Restart(c) \/ ClaimTarget(c) \/ Feed(c) \/ SubmitFails(c) \/ StartFails(c)
             \/ Unwind(c) \/ WaitDone(c) \/ SyncReturn(c) \/ Teardown(c)
    BY <2>3 DEF Restart, ClaimTarget, Feed, SubmitFails, StartFails, Unwind,
                WaitDone, SyncReturn, Teardown, Calls
  <2>4. CASE OpenSession(c)
    <3>1. pc[c] = "prepare" /\ \E p \in {"prepare", "idle"} : pc' = [pc EXCEPT ![c] = p]
      BY <2>4 DEF OpenSession
    <3> QED
      BY <3>1 DEF Calls
  <2>5. CASE FlushDone(c)
    <3>1. \/ pc[c] = "boundary" /\ pc' = [pc EXCEPT ![c] = "restart"]
          \/ pc[c] = "destroy" /\ pc' = [pc EXCEPT ![c] = "teardown"]
      BY <2>5 DEF FlushDone
    <3> QED
      BY <3>1 DEF Calls
  <2>6. CASE DrainDone(c)
    <3>1. pc[c] = "drain" /\ \E p \in {"wait", "idle"} : pc' = [pc EXCEPT ![c] = p]
      BY <2>6 DEF DrainDone
    <3> QED
      BY <3>1 DEF Calls
  <2> QED
    BY <2>2, <2>3, <2>4, <2>5, <2>6 DEF CallStep
<1>3. \A d \in Contexts : /\ pc'[d] \in Early => pc[d] \in Early
                          /\ pc'[d] \notin {"idle", "sync"} => pc[d] \notin {"idle", "sync"}
  BY <1>2 DEF TypeOK
<1> QED
  BY <1>1, <1>3 DEF ClaimsKept, Unclaimed, BegunOnce

PromiseSafe == Safe /\ PairingInv /\ PromiseKeptInv

(* A sync moves inside its own call only.                                     *)
LEMMA CallMovesSync ==
    ASSUME Safe, NEW c \in Contexts, CallStep(c)
    PROVE  /\ sync.st # "filling" /\ sync'.st # "filling"
           /\ \/ sync' = sync
              \/ sync.st = "inside" /\ sync' = NoSync
              \/ sync.st = "inside" /\ SyncReturn(c) /\ sync' = [sync EXCEPT !.st = "returned"]
<1>1. pc[c] # "idle"
  BY CallStepMoves DEF Safe
<1>2. sync.st # "filling" /\ (pc[c] = "sync" => sync.st = "inside")
  BY <1>1 DEF Safe, OneCall, AllIdle
<1>3. \/ sync' = sync
      \/ /\ pc[c] = "sync"
         /\ sync' = NoSync \/ (SyncReturn(c) /\ sync' = [sync EXCEPT !.st = "returned"])
  BY CallStepMoves DEF Safe
<1>4. NoSync.st = "none" /\ [sync EXCEPT !.st = "returned"].st = "returned"
  BY DEF Safe, TypeOK, SyncRecord, NoSync
<1> QED
  BY <1>2, <1>3, <1>4

LEMMA CallStands ==
    ASSUME PromiseSafe, NEW c \in Contexts, CallStep(c), ~HevcFifo, "start" \notin Faults,
           ~ClaimTarget(c), ~TakeFrame(c), ~Restart(c), ~Teardown(c)
    PROVE  StandStep
<1> USE DEF PromiseSafe
<1>1. TypeOK /\ BegunOnce
  BY DEF Safe, PromiseKeptInv
<1>2. \/ FlushDone(c) \/ OpenSession(c) \/ Feed(c) \/ SubmitFails(c)
      \/ Unwind(c) \/ DrainDone(c) \/ WaitDone(c) \/ CallFails(c) \/ TimesOut(c)
      \/ SyncReturn(c)
  BY DEF CallStep, StartFails
<1>3. UNCHANGED <<goal, pictures, reg>> /\ (surf' = surf \/ surf' = AllFinished(c))
  BY <1>2 DEF FlushDone, OpenSession, Feed, SubmitFails, Unwind, DrainDone, WaitDone,
              CallFails, TimesOut, SyncReturn, history
<1>4. \A s \in Surfaces : Standing(surf'[s], surf[s]) /\ (surf'[s] = surf[s] \/ Live(s))
  <2>1. CASE surf' = surf
    BY <1>1, <2>1, StandingKept DEF TypeOK
  <2>2. CASE surf' = AllFinished(c)
    BY <1>1, <2>2, FinishedStanding
  <2> QED
    BY <1>3, <2>1, <2>2
<1>5. SlotsKept
  <2>1. CASE Feed(c)
    BY <2>1 DEF Feed, SlotsKept
  <2> QED
    BY <1>1, <2>1, CallQuiet
<1>6. SyncMoves
  <2>1. CASE SyncReturn(c) /\ sync' = [sync EXCEPT !.st = "returned"]
    <3>1. sync'.s = sync.s /\ sync'.st = "returned" /\ sync.st = "inside"
      BY <1>1, <2>1 DEF TypeOK, SyncRecord, Safe, OneCall, SyncReturn
    <3>2. Live(sync.s) /\ surf[sync.s].decoded
      BY <2>1, <3>1 DEF Safe, SyncedSurfaceCurrent, SyncIdle, SyncReturn
    <3> QED
      BY <3>1, <3>2 DEF SyncMoves, Pending
  <2>2. NoSync.st = "none"
    BY DEF NoSync
  <2> QED
    BY <2>1, <2>2, CallMovesSync DEF SyncMoves
<1> QED
  BY <1>1, <1>3, <1>4, <1>5, <1>6, CallClaims DEF StandStep

(* A step that changes no surface.                                            *)
LEMMA NoSurfaceChanges ==
    ASSUME TypeOK, UNCHANGED <<surf, goal, pictures, reg>>, SlotsKept, ClaimsKept, SyncMoves
    PROVE  StandStep
  BY StandingKept DEF TypeOK, StandStep

LEMMA ClientStands ==
    ASSUME PromiseSafe, NEW c \in Contexts,
           \/ CreateContext(c) \/ EndPictureFails(c) \/ DestroyContext(c)
           \/ \E ra, cue \in BOOLEAN : EndPicture(c, ra, cue)
    PROVE  StandStep
<1>1. TypeOK /\ BegunOnce
  BY DEF PromiseSafe, Safe, PromiseKeptInv
<1>2. UNCHANGED <<surf, reg, pend, goal, pictures, sync>>
  BY <1>1, ClientQuiet
<1> DEFINE x == [cur[c] EXCEPT !.begun = FALSE]
<1>3. x.target = cur[c].target /\ x.gen = cur[c].gen /\ ~x.begun /\ ~NoPicture.begun
  BY <1>1 DEF TypeOK, PictureRecord, NoPicture
<1> HIDE DEF x
<1>4. ClaimsKept
  <2>1. CASE CreateContext(c)
    BY <1>1, <2>1 DEF CreateContext, ClaimsKept, Unclaimed, BegunOnce
  <2>2. CASE EndPictureFails(c)
    <3>1. pc' = pc /\ pc[c] = "idle" /\ cur' = [cur EXCEPT ![c] = x]
      BY <1>1, <2>2 DEF TypeOK, EndPictureFails, MayCall, x
    <3>2. cur'[c] = x /\ \A d \in Contexts \ {c} : cur'[d] = cur[d]
      BY <1>1, <3>1 DEF TypeOK
    <3> QED
      BY <1>1, <1>3, <3>1, <3>2 DEF ClaimsKept, Unclaimed, BegunOnce
  <2>3. CASE \E ra, cue \in BOOLEAN : EndPicture(c, ra, cue)
    <3>1. /\ pc[c] = "idle" /\ cur[c].begun /\ cur' = [cur EXCEPT ![c] = x]
          /\ \E p \in Calls : pc' = [pc EXCEPT ![c] = p]
      BY <1>1, <2>3 DEF TypeOK, EndPicture, MayCall, StopSession, Calls, x
    <3>2. /\ cur'[c] = x /\ \A d \in Contexts \ {c} : cur'[d] = cur[d]
          /\ \A d \in Contexts \ {c} : pc'[d] = pc[d]
      BY <1>1, <3>1 DEF TypeOK
    <3> QED
      BY <1>1, <1>3, <3>1, <3>2 DEF ClaimsKept, Unclaimed, BegunOnce
  <2>4. CASE DestroyContext(c)
    <3>1. /\ pc[c] = "idle" /\ cur' = [cur EXCEPT ![c] = NoPicture]
          /\ \E p \in {"destroy", "teardown"} : pc' = [pc EXCEPT ![c] = p]
      BY <2>4 DEF DestroyContext, MayCall, StopSession
    <3>2. /\ cur'[c] = NoPicture /\ \A d \in Contexts \ {c} : cur'[d] = cur[d]
          /\ pc'[c] \in {"destroy", "teardown"} /\ \A d \in Contexts \ {c} : pc'[d] = pc[d]
      BY <1>1, <3>1 DEF TypeOK
    <3> QED
      BY <1>1, <1>3, <3>2 DEF ClaimsKept, Unclaimed, BegunOnce
  <2> QED
    BY <2>1, <2>2, <2>3, <2>4
<1> QED
  BY <1>1, <1>2, <1>4, NoSurfaceChanges DEF SlotsKept, SyncMoves

(* The firmware, the steps of a sync but the two halves of a backfill, and an *)
(* export.                                                                    *)
LEMMA OffCallStands ==
    ASSUME PromiseSafe, ~ConcurrentClient,
           \/ \E c \in Contexts : Firmware(c) \/ SyncEnter(c)
           \/ \E s \in Surfaces : ExportSurface(s) \/ (SyncSurface(s) /\ ~Stale(s))
           \/ UNCHANGED vars
    PROVE  StandStep
<1>1. TypeOK /\ BegunOnce
  BY DEF PromiseSafe, Safe, PromiseKeptInv
<1>2. UNCHANGED <<goal, pictures, reg, pend, cur>>
  BY DEF Firmware, FwDecode, FwDrop, FwLast, SyncEnter, ExportSurface, SyncSurface, vars, history
<1>3. SlotsKept
  BY <1>2 DEF SlotsKept
<1>4. CASE UNCHANGED <<surf, pc, sync>>
  BY <1>1, <1>2, <1>3, <1>4, NoSurfaceChanges DEF ClaimsKept, Unclaimed, BegunOnce, SyncMoves
<1>5. ASSUME NEW c \in Contexts, SyncEnter(c) PROVE StandStep
  <2>1. /\ sync.st = "blocked" /\ pc[c] = "idle" /\ surf' = surf
        /\ pc' = pc \/ pc' = [pc EXCEPT ![c] = "sync"]
    BY <1>5 DEF SyncEnter
  <2>2. ClaimsKept
    BY <1>1, <1>2, <2>1 DEF TypeOK, ClaimsKept, Unclaimed, BegunOnce
  <2>3. Live(sync.s)
    BY <2>1 DEF PromiseSafe, Safe, SyncedSurfaceCurrent, SyncIdle
  <2>4. \/ sync' = NoSync
        \/ ~surf[sync.s].queued /\ sync' = [sync EXCEPT !.st = "returned"]
        \/ sync' = [sync EXCEPT !.st = "inside"]
    BY <1>5 DEF SyncEnter
  <2>5. /\ [sync EXCEPT !.st = "returned"].st = "returned"
        /\ [sync EXCEPT !.st = "returned"].s = sync.s
        /\ [sync EXCEPT !.st = "inside"].st = "inside" /\ NoSync.st = "none"
    BY <1>1 DEF TypeOK, SyncRecord, NoSync
  <2>6. SyncMoves
    BY <2>1, <2>3, <2>4, <2>5 DEF SyncMoves, Pending
  <2> QED
    BY <1>1, <1>2, <1>3, <2>1, <2>2, <2>6, NoSurfaceChanges
<1>6. ASSUME NEW s \in Surfaces, SyncSurface(s), ~Stale(s) PROVE StandStep
  <2>1. /\ SyncIdle /\ Live(s) /\ UNCHANGED <<surf, pc>>
        /\ sync' = IF surf[s].queued /\ ~surf[s].decoded /\ surf[s].owner # None
                   THEN [st |-> "blocked", s |-> s, c |-> surf[s].owner]
                   ELSE [st |-> "returned", s |-> s, c |-> None]
    BY <1>6 DEF SyncSurface, MaySync
  <2>2. SyncMoves
    BY <2>1 DEF SyncMoves, SyncIdle, Pending
  <2>3. ClaimsKept
    BY <1>1, <1>2, <2>1 DEF ClaimsKept, Unclaimed, BegunOnce
  <2> QED
    BY <1>1, <1>2, <1>3, <2>1, <2>2, <2>3, NoSurfaceChanges
<1>7. ASSUME NEW s \in Surfaces, ExportSurface(s) PROVE StandStep
  <2> DEFINE x == [surf[s] EXCEPT !.exported = TRUE]
  <2>1. UNCHANGED <<pc, sync>> /\ Live(s) /\ surf' = [surf EXCEPT ![s] = x]
    BY <1>1, <1>7 DEF TypeOK, ExportSurface
  <2>2. Standing(x, surf[s]) /\ \A t \in Surfaces : Standing(surf[t], surf[t])
    BY <1>1, StandingKept DEF TypeOK
  <2>3. ClaimsKept
    BY <1>1, <1>2, <2>1 DEF ClaimsKept, Unclaimed, BegunOnce
  <2> HIDE DEF x
  <2>4. surf'[s] = x /\ \A t \in Surfaces \ {s} : surf'[t] = surf[t]
    BY <1>1, <2>1 DEF TypeOK
  <2> QED
    BY <1>2, <1>3, <2>1, <2>2, <2>3, <2>4 DEF StandStep, SyncMoves
<1> QED
  BY <1>4, <1>5, <1>6, <1>7 DEF Firmware, FwDecode, FwDrop, FwLast, vars

(* A frame that is lost, or too late for its surface.                         *)
LEMMA LostFrameStands ==
    ASSUME PromiseSafe, NEW c \in Contexts, TakeFrame(c), UNCHANGED <<surf, reg, goal>>,
           SlotsKept
    PROVE  StandStep
<1>1. TypeOK /\ BegunOnce
  BY DEF PromiseSafe, Safe, PromiseKeptInv
<1>2. UNCHANGED pictures /\ ClaimsKept
  BY <1>1, CallClaims DEF CallStep
<1>3. SyncMoves
  <2>1. sync' = sync \/ sync' = NoSync
    BY DEF TakeFrame, Failing
  <2>2. NoSync.st = "none"
    BY DEF NoSync
  <2> QED
    BY <2>1, <2>2, CallMovesSync DEF SyncMoves, PromiseSafe, CallStep
<1> QED
  BY <1>1, <1>2, <1>3, NoSurfaceChanges

-----------------------------------------------------------------------------
(* Surfaces that are created and freed                                        *)

(* No mapping and no picture under way knows a surface that is being born.    *)
LEMMA AllocKeeps ==
    ASSUME PromiseSafe, TypeOK', NEW s \in Surfaces, AllocSurface(s)
    PROVE  PromiseKeptInv' /\ [Promise!Next]_Promise!vars
<1>1. /\ TypeOK /\ GenerationsPast /\ GoalsPast /\ BegunOnce /\ FreshTarget /\ TargetsApart
      /\ MappingsAwaited /\ LastFrameDelivered /\ FillRecorded
  BY DEF PromiseSafe, Safe, PairingInv, PromiseKeptInv
<1>2. /\ surf[s].life = "unborn" /\ surf[s] = UnbornSurface /\ ~goal[s].filled
      /\ surf' = [surf EXCEPT ![s] = Allocated]
      /\ UNCHANGED <<reg, pend, cur, pc, sync, goal, pictures>>
  BY <1>1 DEF AllocSurface, history, GoalsPast
<1>3. /\ Allocated.life = "live" /\ Allocated.epoch = reg.epoch /\ ~Allocated.decoded
      /\ ~Allocated.queued /\ Allocated.px = Black
      /\ UnbornSurface.px = Black /\ UnbornSurface.life = "unborn"
  BY DEF Allocated, UnbornSurface
<1>4. surf'[s] = Allocated /\ \A t \in Surfaces \ {s} : surf'[t] = surf[t]
  BY <1>1, <1>2 DEF TypeOK
<1>5. \A c \in Contexts : /\ cur[c].target # s
                          /\ \A i \in 0 .. RingSize - 1 :
                                pend[c].ring[i].used => pend[c].ring[i].target # s
  BY <1>1, <1>2 DEF GenerationsPast, Past
<1>6. \A c \in Contexts, t \in Surfaces : \A i \in 0 .. RingSize - 1 :
         LeadsTo(pend[c].ring[i], t)' => t # s /\ LeadsTo(pend[c].ring[i], t)
  BY <1>2, <1>4, <1>5 DEF LeadsTo, Live
<1>7. PromiseKeptInv'
  <2>1. GoalsPast' /\ BegunOnce' /\ TargetsApart' /\ FillRecorded'
    BY <1>1, <1>2, <1>3, <1>4
    DEF GoalsPast, BegunOnce, TargetsApart, Unclaimed, FillRecorded
  <2>2. FreshTarget'
    BY <1>1, <1>2, <1>4, <1>5, <1>6 DEF FreshTarget, Unclaimed, Live
  <2>3. MappingsAwaited'
    BY <1>1, <1>2, <1>4, <1>6 DEF MappingsAwaited
  <2>4. LastFrameDelivered'
    BY <1>1, <1>2, <1>3, <1>4 DEF LastFrameDelivered, Live, Stale
  <2> QED
    BY <2>1, <2>2, <2>3, <2>4 DEF PromiseKeptInv
<1>8. Promise!Create(s)
  <2>1. View(surf[s], goal[s]) = [st |-> "none", want |-> goal[s].pic, shows |-> Black.pic]
    BY <1>2, <1>3 DEF View, StateOf
  <2>2. View(surf'[s], goal'[s]) = [st |-> "open", want |-> goal[s].pic, shows |-> Black.pic]
    BY <1>2, <1>3, <1>4 DEF View, StateOf
  <2>3. PromiseOf[s] = View(surf[s], goal[s])
        /\ PromiseOf' = [PromiseOf EXCEPT ![s] = View(surf'[s], goal'[s])]
    BY <1>1, <1>2, <1>4, OneView
  <2>4. PromiseOf' = [PromiseOf EXCEPT ![s].st = "open"] /\ PromiseOf[s].st = "none"
    <3>1. [PromiseOf EXCEPT ![s].st = "open"] =
             [PromiseOf EXCEPT ![s] = [st |-> "open", want |-> PromiseOf[s].want,
                                       shows |-> PromiseOf[s].shows]]
      BY <1>1, RewriteState, Zenon DEF States
    <3> QED
      BY <2>1, <2>2, <2>3, <3>1
  <2>5. Aged' = Aged
    <3>1. \A t \in Surfaces : /\ Live(t) /\ Stale(t) <=> Live(t)' /\ Stale(t)'
                              /\ Filling(t)' <=> Filling(t)
      BY <1>2, <1>3, <1>4 DEF Live, Stale, Filling
    <3> QED
      BY <3>1, InAged
  <2>6. Told' = Told
    BY <1>2 DEF Told
  <2> QED
    BY <2>4, <2>5, <2>6 DEF Promise!Create
<1> QED
  BY <1>7, <1>8 DEF Promise!Next

LEMMA FreeKeeps ==
    ASSUME PromiseSafe, TypeOK', NEW s \in Surfaces, FreeSurface(s)
    PROVE  PromiseKeptInv' /\ [Promise!Next]_Promise!vars
<1>1. /\ TypeOK /\ GoalsPast /\ BegunOnce /\ FreshTarget /\ TargetsApart
      /\ MappingsAwaited /\ LastFrameDelivered /\ FillRecorded
  BY DEF PromiseSafe, Safe, PairingInv, PromiseKeptInv
<1> DEFINE x == [UnbornSurface EXCEPT !.life = "freed"]
<1>2. /\ Live(s) /\ surf' = [surf EXCEPT ![s] = x]
      /\ UNCHANGED <<reg, pend, cur, pc, sync, goal, pictures>>
  BY DEF FreeSurface, history
<1>3. x.life = "freed" /\ x.px = Black
  BY DEF UnbornSurface
<1> HIDE DEF x
<1>4. surf'[s] = x /\ \A t \in Surfaces \ {s} : surf'[t] = surf[t]
  BY <1>1, <1>2 DEF TypeOK
<1>5. \A t \in Surfaces : Live(t)' <=> t # s /\ Live(t)
  BY <1>3, <1>4 DEF Live
<1>6. \A c \in Contexts, t \in Surfaces : \A i \in 0 .. RingSize - 1 :
         LeadsTo(pend[c].ring[i], t)' => t # s /\ LeadsTo(pend[c].ring[i], t)
  BY <1>2, <1>4, <1>5 DEF LeadsTo
<1>7. PromiseKeptInv'
  <2>1. GoalsPast' /\ BegunOnce' /\ TargetsApart' /\ FillRecorded'
    BY <1>1, <1>2, <1>3, <1>4
    DEF GoalsPast, BegunOnce, TargetsApart, Unclaimed, FillRecorded
  <2>2. FreshTarget'
    BY <1>1, <1>2, <1>4, <1>5, <1>6 DEF FreshTarget, Unclaimed
  <2>3. MappingsAwaited'
    BY <1>1, <1>2, <1>4, <1>6 DEF MappingsAwaited
  <2>4. LastFrameDelivered'
    BY <1>1, <1>2, <1>4, <1>5 DEF LastFrameDelivered, Stale
  <2> QED
    BY <2>1, <2>2, <2>3, <2>4 DEF PromiseKeptInv
<1>8. Promise!Free(s)
  <2>1. View(surf'[s], goal'[s]) = [st |-> "gone", want |-> goal[s].pic, shows |-> 0]
    BY <1>2, <1>3, <1>4 DEF View, StateOf, Black
  <2>2. PromiseOf[s] = View(surf[s], goal[s])
        /\ PromiseOf' = [PromiseOf EXCEPT ![s] = View(surf'[s], goal'[s])]
    BY <1>1, <1>2, <1>4, OneView
  <2>3. PromiseOf[s].want = goal[s].pic /\ PromiseOf[s].st \notin {"none", "gone"}
    BY <1>2, <2>2 DEF View, StateOf, Live
  <2>4. PromiseOf' = [PromiseOf EXCEPT ![s].st = "gone", ![s].shows = 0]
    <3>1. 0 \in Nat
      OBVIOUS
    <3>2. [PromiseOf EXCEPT ![s].st = "gone", ![s].shows = 0] =
             [PromiseOf EXCEPT ![s] = [st |-> "gone", want |-> PromiseOf[s].want, shows |-> 0]]
      BY <1>1, <3>1, RewriteStateAndShows, Zenon DEF States
    <3> QED
      BY <2>1, <2>2, <2>3, <3>2
  <2>5. Aged' = Aged \ {s}
    <3>1. \A t \in Surfaces \ {s} : (Stale(t)' <=> Stale(t)) /\ (Filling(t)' <=> Filling(t))
      BY <1>2, <1>4 DEF Stale, Filling
    <3> QED
      BY <1>5, <3>1, InAged
  <2>6. Told' = Told
    BY <1>2 DEF Told
  <2> QED
    BY <2>3, <2>4, <2>5, <2>6 DEF Promise!Free, Promise!Exists
<1> QED
  BY <1>7, <1>8 DEF Promise!Next

-----------------------------------------------------------------------------
(* A backfill: the pixels first, which fill the surface, then the claim of    *)
(* the epoch, which tells the client.                                         *)

LEMMA FillKeeps ==
    ASSUME PromiseSafe, TypeOK', NEW s \in Surfaces, SyncSurface(s), Stale(s)
    PROVE  PromiseKeptInv' /\ [Promise!Next]_Promise!vars
<1> DEFINE x == [surf[s] EXCEPT !.px = FillPixels(s)]
           g == [goal[s] EXCEPT !.filled = TRUE]
           t == reg.lastFrame
<1>1. /\ TypeOK /\ GoalsPast /\ BegunOnce /\ FreshTarget /\ TargetsApart
      /\ MappingsAwaited /\ LastFrameDelivered /\ FillRecorded
  BY DEF PromiseSafe, Safe, PairingInv, PromiseKeptInv
<1>2. /\ Live(s) /\ SyncIdle /\ surf' = [surf EXCEPT ![s] = x]
      /\ goal' = [goal EXCEPT ![s] = g]
      /\ sync' = [st |-> "filling", s |-> s, c |-> None]
      /\ UNCHANGED <<reg, pend, cur, pc, pictures>>
  BY <1>1 DEF SyncSurface, MaySync, TypeOK
<1>3. /\ x.life = surf[s].life /\ x.gen = surf[s].gen /\ x.decoded = surf[s].decoded
      /\ x.queued = surf[s].queued /\ x.owner = surf[s].owner /\ x.epoch = surf[s].epoch
      /\ x.px = FillPixels(s) /\ g.pic = goal[s].pic /\ g.filled
  BY <1>1, RepaintedStanding DEF TypeOK, GoalRecord
<1> HIDE DEF x, g
<1>4. /\ surf'[s] = x /\ \A u \in Surfaces \ {s} : surf'[u] = surf[u]
      /\ goal'[s] = g /\ \A u \in Surfaces \ {s} : goal'[u] = goal[u]
  BY <1>1, <1>2 DEF TypeOK
<1>5. \A u \in Surfaces : (Live(u)' <=> Live(u)) /\ (Stale(u)' <=> Stale(u))
  BY <1>2, <1>3, <1>4 DEF Live, Stale
<1>6. \A c \in Contexts, u \in Surfaces : \A i \in 0 .. RingSize - 1 :
         LeadsTo(pend[c].ring[i], u)' <=> LeadsTo(pend[c].ring[i], u)
  BY <1>2, <1>3, <1>4, <1>5 DEF LeadsTo
<1>7. PromiseKeptInv'
  <2>1. GoalsPast'
    BY <1>1, <1>2, <1>3, <1>4 DEF GoalsPast, Live
  <2>2. BegunOnce' /\ TargetsApart' /\ FillRecorded'
    BY <1>1, <1>2, <1>3, <1>4 DEF BegunOnce, TargetsApart, Unclaimed, FillRecorded
  <2>3. FreshTarget'
    BY <1>1, <1>2, <1>3, <1>4, <1>5, <1>6 DEF FreshTarget, Unclaimed
  <2>4. MappingsAwaited'
    BY <1>1, <1>3, <1>4, <1>6 DEF MappingsAwaited
  <2>5. LastFrameDelivered'
    BY <1>1, <1>2, <1>4, <1>5 DEF LastFrameDelivered
  <2> QED
    BY <2>1, <2>2, <2>3, <2>4, <2>5 DEF PromiseKeptInv
<1>8. Promise!Fill(s)
  <2>1. PromiseOf[s] = View(surf[s], goal[s])
        /\ PromiseOf' = [PromiseOf EXCEPT ![s] = View(surf'[s], goal'[s])]
    BY <1>1, <1>4, OneView
  <2>2. View(surf'[s], goal'[s]) =
           [st |-> "filled", want |-> goal[s].pic, shows |-> FillPixels(s).pic]
    BY <1>2, <1>3, <1>4 DEF View, StateOf, Live
  <2>3. PromiseOf[s].want = goal[s].pic /\ PromiseOf[s].st \notin {"none", "gone"}
    BY <1>2, <2>1 DEF View, StateOf, Live
  <2> DEFINE y == FillPixels(s).pic
  <2>4. y \in Nat
    <3>1. FillPixels(s) \in Pixels
      BY <1>1 DEF FillPixels, Repeatable, Live, Black, Pixels, TypeOK, SurfaceRecord
    <3> QED
      BY <3>1 DEF Pixels
  <2>5. PromiseOf' = [PromiseOf EXCEPT ![s].st = "filled", ![s].shows = y]
    <3> HIDE DEF y
    <3>1. [PromiseOf EXCEPT ![s].st = "filled", ![s].shows = y] =
             [PromiseOf EXCEPT ![s] = [st |-> "filled", want |-> PromiseOf[s].want,
                                       shows |-> y]]
      BY <1>1, <2>4, RewriteStateAndShows, Zenon DEF States
    <3> QED
      BY <2>1, <2>2, <2>3, <3>1 DEF y
  <2>6. s \in Aged /\ Aged' = Aged \ {s}
    <3>1. /\ \A u \in Surfaces : ~Filling(u) /\ (Filling(u)' <=> u = s)
      BY <1>2 DEF Filling, SyncIdle
    <3> QED
      BY <1>2, <1>5, <3>1, InAged
  <2>7. Told' = None
    BY <1>2 DEF Told
  <2>8. FillPixels(s).pic \in {0} \cup {PromiseOf[u].shows :
                          u \in {v \in Surfaces \ Aged : PromiseOf[v].st = "ready"}}
    <3>1. CASE Repeatable(s)
      <4>1. t \in Surfaces /\ Live(t) /\ surf[t].decoded /\ ~Stale(t)
        BY <3>1 DEF Repeatable, Live, Stale
      <4>2. ~goal[t].filled
        BY <1>1, <3>1, <4>1 DEF LastFrameDelivered, Repeatable
      <4>3. t \notin Aged
        BY <4>1, InAged
      <4>4. PromiseOf[t].st = "ready" /\ PromiseOf[t].shows = surf[t].px.pic
        BY <1>1, <4>1, <4>2, PromiseBefore DEF View, StateOf, Live
      <4>5. FillPixels(s).pic = surf[t].px.pic
        BY <3>1 DEF FillPixels
      <4> HIDE DEF t
      <4> QED
        BY <4>1, <4>3, <4>4, <4>5
    <3>2. CASE ~Repeatable(s)
      BY <3>2 DEF FillPixels, Black
    <3> QED
      BY <3>1, <3>2
  <2> QED
    BY <2>3, <2>5, <2>6, <2>7, <2>8 DEF Promise!Fill, Promise!Exists
<1> QED
  BY <1>7, <1>8 DEF Promise!Next

LEMMA FilledKeeps ==
    ASSUME PromiseSafe, TypeOK', SyncFilled
    PROVE  PromiseKeptInv' /\ [Promise!Next]_Promise!vars
<1> DEFINE s == sync.s
           x == Backfilled(surf[s])
<1>1. /\ TypeOK /\ GoalsPast /\ BegunOnce /\ FreshTarget /\ TargetsApart
      /\ MappingsAwaited /\ LastFrameDelivered /\ FillRecorded
  BY DEF PromiseSafe, Safe, PairingInv, PromiseKeptInv
<1>2. /\ Live(s) /\ goal[s].filled /\ sync.st = "filling"
      /\ surf' = [surf EXCEPT ![s] = x] /\ sync'.st = "returned" /\ sync'.s = s
      /\ UNCHANGED <<reg, pend, cur, pc, goal, pictures>>
  BY <1>1 DEF SyncFilled, TypeOK, SyncRecord, FillRecorded, history, PromiseSafe, Safe,
              SyncedSurfaceCurrent, SyncIdle
<1>3. /\ x.life = surf[s].life /\ x.gen = surf[s].gen /\ x.decoded
      /\ x.queued = surf[s].queued /\ x.owner = surf[s].owner /\ x.epoch = reg.epoch
      /\ x.px = surf[s].px
  BY <1>1, <1>2, BackfilledStanding DEF TypeOK, Live
<1> HIDE DEF x
<1>4. s \in Surfaces /\ surf'[s] = x /\ \A u \in Surfaces \ {s} : surf'[u] = surf[u]
  BY <1>1, <1>2 DEF TypeOK, Live
<1> HIDE DEF s
<1>5. \A u \in Surfaces : (Live(u)' <=> Live(u))
  BY <1>3, <1>4 DEF Live
<1>6. \A c \in Contexts, u \in Surfaces : \A i \in 0 .. RingSize - 1 :
         LeadsTo(pend[c].ring[i], u)' <=> LeadsTo(pend[c].ring[i], u)
  BY <1>2, <1>3, <1>4, <1>5 DEF LeadsTo
<1>7. PromiseKeptInv'
  <2>1. GoalsPast' /\ BegunOnce' /\ TargetsApart' /\ FillRecorded'
    BY <1>1, <1>2, <1>3, <1>4
    DEF GoalsPast, Live, BegunOnce, TargetsApart, Unclaimed, FillRecorded
  <2>2. FreshTarget'
    BY <1>1, <1>2, <1>3, <1>4, <1>5, <1>6 DEF FreshTarget, Unclaimed
  <2>3. MappingsAwaited'
    BY <1>1, <1>2, <1>3, <1>4, <1>6 DEF MappingsAwaited
  <2>4. LastFrameDelivered'
    BY <1>1, <1>2, <1>3, <1>4, <1>5 DEF LastFrameDelivered, Stale
  <2> QED
    BY <2>1, <2>2, <2>3, <2>4 DEF PromiseKeptInv
<1>8. Promise!Tell(s)
  <2>1. PromiseOf' = PromiseOf
    <3>1. \A u \in Surfaces : View(surf'[u], goal'[u]) = View(surf[u], goal[u])
      BY <1>2, <1>3, <1>4 DEF View, StateOf
    <3> QED
      BY <1>1, <3>1, SameViews
  <2>2. PromiseOf[s].st = "filled"
    BY <1>1, <1>2, <1>4, PromiseBefore DEF View, StateOf, Live
  <2>3. Aged' = Aged
    <3>1. \A u \in Surfaces : /\ Filling(u) <=> u = s
                              /\ ~Filling(u)'
                              /\ u # s => (Stale(u)' <=> Stale(u))
                              /\ u = s => ~Stale(u)'
      BY <1>2, <1>3, <1>4 DEF Filling, Stale, s
    <3> QED
      BY <1>5, <3>1, InAged
  <2>4. Told' = s
    BY <1>2 DEF Told
  <2> QED
    BY <1>4, <2>1, <2>2, <2>3, <2>4 DEF Promise!Tell, Promise!Exists, Promise!Pending
<1> QED
  BY <1>4, <1>8, <1>7 DEF Promise!Next

-----------------------------------------------------------------------------
(* A picture is begun, then claims its target                                 *)

LEMMA BeginKeeps ==
    ASSUME PromiseSafe, TypeOK', ~ConcurrentClient, ~FieldPictures, NEW c \in Contexts,
           NEW s \in Surfaces, NEW field \in 0 .. 2, NEW poc \in Pocs,
           BeginPicture(c, s, field, poc)
    PROVE  PromiseKeptInv' /\ [Promise!Next]_Promise!vars
<1> DEFINE x == Begun(surf[s])
           p == pictures + 1
           new == [begun |-> TRUE, target |-> s, gen |-> surf[s].gen + 1, field |-> 0,
                   pic |-> p, poc |-> poc]
           g == [pic |-> p, filled |-> FALSE]
<1>1. /\ TypeOK /\ NoPairs /\ GenerationsPast /\ GoalsPast /\ BegunOnce /\ FreshTarget
      /\ TargetsApart /\ MappingsAwaited /\ LastFrameDelivered /\ FillRecorded
  BY DEF PromiseSafe, Safe, PairingInv, PromiseKeptInv
<1>2. /\ Live(s) /\ pc[c] = "idle"
      /\ \A d \in Contexts \ {c} : ~RenderedBy(d, s)
      /\ surf' = [surf EXCEPT ![s] = x]
      /\ cur' = [cur EXCEPT ![c] = new]
      /\ goal' = [goal EXCEPT ![s] = g]
      /\ pictures' = p
      /\ UNCHANGED <<reg, pend, pc, sync>>
  BY <1>1, BeginEffects
<1>3. SyncIdle
  BY DEF BeginPicture, MayCall
<1>4. /\ x.life = surf[s].life /\ x.gen = surf[s].gen + 1 /\ x.px = surf[s].px
      /\ ~x.decoded /\ ~x.queued /\ x.epoch = surf[s].epoch
      /\ g.pic = p /\ ~g.filled
      /\ new.begun /\ new.target = s /\ new.gen = surf[s].gen + 1
      /\ surf[s].gen \in Nat /\ p \in Nat /\ pictures \in Nat
  BY <1>1, BegunStanding DEF TypeOK, SurfaceRecord
<1>5. /\ surf'[s] = x /\ \A u \in Surfaces \ {s} : surf'[u] = surf[u]
      /\ goal'[s] = g /\ \A u \in Surfaces \ {s} : goal'[u] = goal[u]
      /\ cur'[c] = new /\ \A d \in Contexts \ {c} : cur'[d] = cur[d]
      /\ \A u \in Surfaces : goal[u].pic \in Nat /\ goal[u].pic <= pictures
  BY <1>1, <1>2 DEF TypeOK, GoalRecord, GoalsPast
<1> HIDE DEF x, new, g, p
<1>6. \A u \in Surfaces : (Live(u)' <=> Live(u)) /\ (Stale(u)' <=> Stale(u))
  BY <1>2, <1>4, <1>5 DEF Live, Stale
(* No mapping is of the new generation.                                       *)
<1>7. \A d \in Contexts, u \in Surfaces : \A i \in 0 .. RingSize - 1 :
         LeadsTo(pend[d].ring[i], u)' => u # s /\ LeadsTo(pend[d].ring[i], u)
  <2> SUFFICES ASSUME NEW d \in Contexts, NEW u \in Surfaces, NEW i \in 0 .. RingSize - 1,
                      LeadsTo(pend[d].ring[i], u)'
               PROVE  u # s /\ LeadsTo(pend[d].ring[i], u)
    OBVIOUS
  <2>1. pend[d].ring[i].used /\ pend[d].ring[i].target = u /\ Live(u)
        /\ pend[d].ring[i].gen = surf'[u].gen
    BY <1>2, <1>6 DEF LeadsTo
  <2>2. pend[d].ring[i].gen <= surf[u].gen
    BY <1>1, <2>1 DEF GenerationsPast, Past
  <2>3. u # s
    BY <1>4, <1>5, <2>1, <2>2
  <2> QED
    BY <1>5, <2>1, <2>3 DEF LeadsTo
(* The other pictures under way have other targets.                           *)
<1>8. \A d \in Contexts \ {c} : /\ Unclaimed(d)' <=> Unclaimed(d)
                                /\ Unclaimed(d) => cur[d].target # s
  BY <1>2, <1>5 DEF Unclaimed, RenderedBy
<1>9. PromiseKeptInv'
  <2>1. GoalsPast'
    BY <1>1, <1>2, <1>4, <1>5 DEF GoalsPast, Live, p
  <2>2. BegunOnce' /\ FillRecorded'
    BY <1>1, <1>2, <1>3, <1>5 DEF BegunOnce, FillRecorded, SyncIdle
  <2>3. FreshTarget'
    <3> SUFFICES ASSUME NEW d \in Contexts, NEW u \in Surfaces, Unclaimed(d)',
                        cur'[d].target = u, Live(u)'
                 PROVE  /\ cur'[d].gen = surf'[u].gen
                        /\ goal'[u].pic # 0
                        /\ ~surf'[u].queued
                        /\ surf'[u].decoded => goal'[u].filled
                        /\ \A e \in Contexts : \A i \in 0 .. RingSize - 1 :
                              ~LeadsTo(pend[e].ring[i], u)'
      BY DEF FreshTarget
    <3>1. CASE d = c
      <4>1. u = s
        BY <1>4, <1>5, <3>1
      <4> QED
        BY <1>4, <1>5, <1>7, <3>1, <4>1 DEF p
    <3>2. CASE d # c
      <4>1. Unclaimed(d) /\ cur[d].target = u /\ u # s /\ Live(u)
        BY <1>5, <1>6, <1>8, <3>2
      <4> QED
        BY <1>1, <1>5, <1>7, <3>2, <4>1 DEF FreshTarget
    <3> QED
      BY <3>1, <3>2
  <2>4. TargetsApart'
    BY <1>1, <1>4, <1>5, <1>8 DEF TargetsApart
  <2>5. MappingsAwaited'
    <3> SUFFICES ASSUME NEW d \in Contexts, NEW u \in Surfaces, NEW i \in 0 .. RingSize - 1,
                        LeadsTo(pend[d].ring[i], u)'
                 PROVE  /\ surf'[u].queued /\ surf'[u].owner = d
                        /\ surf'[u].decoded => goal'[u].filled
                        /\ \A j \in 0 .. RingSize - 1 :
                              LeadsTo(pend[d].ring[j], u)' => i = j
      BY DEF MappingsAwaited
    <3> QED
      BY <1>1, <1>5, <1>7 DEF MappingsAwaited
  <2>6. LastFrameDelivered'
    BY <1>1, <1>2, <1>4, <1>5, <1>6 DEF LastFrameDelivered
  <2> QED
    BY <2>1, <2>2, <2>3, <2>4, <2>5, <2>6 DEF PromiseKeptInv
<1>10. Promise!Begin(s, p)
  <2>1. PromiseOf[s] = View(surf[s], goal[s])
        /\ PromiseOf' = [PromiseOf EXCEPT ![s] = View(surf'[s], goal'[s])]
    BY <1>1, <1>5, OneView
  <2>2. View(surf'[s], goal'[s]) = [st |-> "open", want |-> p, shows |-> surf[s].px.pic]
    BY <1>2, <1>4, <1>5 DEF View, StateOf, Live
  <2>3. PromiseOf[s].shows = surf[s].px.pic /\ PromiseOf[s].st \notin {"none", "gone"}
    BY <1>2, <2>1 DEF View, StateOf, Live
  <2>4. PromiseOf' = [PromiseOf EXCEPT ![s].st = "open", ![s].want = p]
    <3>1. [PromiseOf EXCEPT ![s].st = "open", ![s].want = p] =
             [PromiseOf EXCEPT ![s] = [st |-> "open", want |-> p,
                                       shows |-> PromiseOf[s].shows]]
      BY <1>1, <1>4, RewriteBegun, Zenon
    <3> QED
      BY <2>1, <2>2, <2>3, <3>1
  <2>5. \A u \in Surfaces : p > PromiseOf[u].want
    BY <1>1, <1>4, <1>5, PromiseBefore DEF View, p
  <2>6. Aged' = Aged
    <3>1. \A u \in Surfaces : Filling(u)' <=> Filling(u)
      BY <1>2 DEF Filling
    <3> QED
      BY <1>6, <3>1, InAged
  <2>7. Told' = Told
    BY <1>2 DEF Told
  <2>8. p \in Nat \ {0}
    BY <1>4 DEF p
  <2> QED
    BY <2>3, <2>4, <2>5, <2>6, <2>7, <2>8 DEF Promise!Begin, Promise!Exists
<1>11. PromiseOf'[s].want = p
  BY <1>4, <1>5, PromiseAfter DEF View
<1> QED
  BY <1>9, <1>10, <1>11 DEF Promise!Next

LEMMA ClaimKeeps ==
    ASSUME PromiseSafe, TypeOK', NEW c \in Contexts, ClaimTarget(c)
    PROVE  PromiseKeptInv' /\ [Promise!Next]_Promise!vars
<1> DEFINE k == SlotOf(ctx[c].seq)
           t == cur[c].target
           new == [used |-> TRUE, seq |-> ctx[c].seq, target |-> t, gen |-> cur[c].gen]
<1>1. /\ TypeOK /\ NoPairs /\ GoalsPast /\ BegunOnce /\ FreshTarget
      /\ TargetsApart /\ MappingsAwaited /\ LastFrameDelivered /\ FillRecorded
  BY DEF PromiseSafe, Safe, PairingInv, PromiseKeptInv
<1>2. /\ pc[c] = "prepare" /\ pc' = [pc EXCEPT ![c] = "feed"]
      /\ surf' = [s \in Surfaces |-> IF s = t /\ Live(s) THEN Claimed(surf[s], c, Token(c)) ELSE surf[s]]
      /\ pend' = [pend EXCEPT ![c].ring[k] = new]
      /\ UNCHANGED <<reg, cur, sync, goal, pictures>>
  BY <1>1 DEF ClaimTarget, NoPairs, history
<1>3. k \in 0 .. RingSize - 1
  BY <1>1, SlotInRing DEF TypeOK, ContextRecord
<1>4. /\ pend'[c].ring = [pend[c].ring EXCEPT ![k] = new]
      /\ \A d \in Contexts \ {c} : pend'[d] = pend[d]
  BY <1>1, <1>2 DEF TypeOK, PendingRecord
<1>5. /\ pend'[c].ring[k] = new
      /\ \A i \in 0 .. RingSize - 1 : i # k => pend'[c].ring[i] = pend[c].ring[i]
  BY <1>1, <1>3, <1>4 DEF TypeOK, PendingRecord
<1>6. \A s \in Surfaces :
         /\ SameWork(surf'[s], surf[s]) /\ surf'[s].epoch = surf[s].epoch
         /\ s = t /\ Live(s) => surf'[s].queued /\ surf'[s].owner = c
         /\ s # t \/ ~Live(s) => surf'[s] = surf[s]
  <2> SUFFICES ASSUME NEW s \in Surfaces
               PROVE  /\ SameWork(surf'[s], surf[s]) /\ surf'[s].epoch = surf[s].epoch
                      /\ s = t /\ Live(s) => surf'[s].queued /\ surf'[s].owner = c
                      /\ s # t \/ ~Live(s) => surf'[s] = surf[s]
    OBVIOUS
  <2>1. surf'[s] = IF s = t /\ Live(s) THEN Claimed(surf[s], c, Token(c)) ELSE surf[s]
    BY <1>2
  <2>2. surf[s] \in SurfaceRecord
    BY <1>1 DEF TypeOK
  <2> HIDE DEF t
  <2> QED
    BY <2>1, <2>2, ClaimedStanding DEF SameWork
<1>7. Unclaimed(c) /\ ~cur[c].begun
  BY <1>1, <1>2 DEF Unclaimed, BegunOnce
<1>8. /\ ~Unclaimed(c)'
      /\ \A d \in Contexts \ {c} : /\ Unclaimed(d)' <=> Unclaimed(d)
                                   /\ Unclaimed(d) => cur[d].target # t
  BY <1>1, <1>2, <1>7 DEF TypeOK, Unclaimed, TargetsApart
<1>9. new.used /\ new.target = t /\ new.gen = cur[c].gen
  OBVIOUS
<1> HIDE DEF k, new
<1>10. \A s \in Surfaces : (Live(s)' <=> Live(s)) /\ (Stale(s)' <=> Stale(s))
  BY <1>2, <1>6 DEF Live, Stale, SameWork
<1>11. \A d \in Contexts, s \in Surfaces : \A i \in 0 .. RingSize - 1 :
          LeadsTo(pend[d].ring[i], s)' =>
             \/ LeadsTo(pend[d].ring[i], s)
             \/ d = c /\ i = k /\ s = t /\ Live(t)
  <2> SUFFICES ASSUME NEW d \in Contexts, NEW s \in Surfaces, NEW i \in 0 .. RingSize - 1,
                      LeadsTo(pend[d].ring[i], s)'
               PROVE  \/ LeadsTo(pend[d].ring[i], s)
                      \/ d = c /\ i = k /\ s = t /\ Live(t)
    OBVIOUS
  <2>1. \/ pend'[d].ring[i] = pend[d].ring[i]
        \/ d = c /\ i = k /\ pend'[d].ring[i] = new
    BY <1>4, <1>5
  <2>2. CASE pend'[d].ring[i] = pend[d].ring[i]
    BY <1>6, <1>10, <2>2 DEF LeadsTo, SameWork
  <2>3. CASE d = c /\ i = k /\ pend'[d].ring[i] = new
    BY <1>9, <1>10, <2>3 DEF LeadsTo
  <2> QED
    BY <2>1, <2>2, <2>3
<1>12. Live(t) => /\ goal[t].pic # 0 /\ ~surf[t].queued
                  /\ surf[t].decoded => goal[t].filled
                  /\ \A d \in Contexts : \A i \in 0 .. RingSize - 1 :
                        ~LeadsTo(pend[d].ring[i], t)
  BY <1>1, <1>7 DEF FreshTarget, Live
<1>13. PromiseKeptInv'
  <2>1. GoalsPast'
    BY <1>1, <1>2, <1>6 DEF GoalsPast, SameWork, Live
  <2>2. BegunOnce' /\ TargetsApart' /\ FillRecorded'
    BY <1>1, <1>2, <1>7, <1>8 DEF TypeOK, BegunOnce, TargetsApart, FillRecorded
  <2>3. FreshTarget'
    <3> SUFFICES ASSUME NEW d \in Contexts, NEW s \in Surfaces, Unclaimed(d)',
                        cur'[d].target = s, Live(s)'
                 PROVE  /\ cur'[d].gen = surf'[s].gen
                        /\ goal'[s].pic # 0
                        /\ ~surf'[s].queued
                        /\ surf'[s].decoded => goal'[s].filled
                        /\ \A e \in Contexts : \A i \in 0 .. RingSize - 1 :
                              ~LeadsTo(pend[e].ring[i], s)'
      BY DEF FreshTarget
    <3>1. Unclaimed(d) /\ cur[d].target = s /\ s # t /\ Live(s) /\ surf'[s] = surf[s]
      BY <1>2, <1>6, <1>8, <1>10
    <3> HIDE DEF t
    <3> QED
      BY <1>1, <1>2, <1>11, <3>1 DEF FreshTarget
  <2>4. MappingsAwaited'
    <3> SUFFICES ASSUME NEW d \in Contexts, NEW s \in Surfaces, NEW i \in 0 .. RingSize - 1,
                        LeadsTo(pend[d].ring[i], s)'
                 PROVE  /\ surf'[s].queued /\ surf'[s].owner = d
                        /\ surf'[s].decoded => goal'[s].filled
                        /\ \A j \in 0 .. RingSize - 1 :
                              LeadsTo(pend[d].ring[j], s)' => i = j
      BY DEF MappingsAwaited
    <3> HIDE DEF t
    <3>1. CASE s = t
      <4>1. Live(t) /\ d = c /\ i = k
        BY <1>10, <1>11, <1>12, <3>1 DEF LeadsTo
      <4>2. \A j \in 0 .. RingSize - 1 : LeadsTo(pend[d].ring[j], s)' => i = j
        BY <1>11, <1>12, <3>1, <4>1
      <4> QED
        BY <1>2, <1>6, <1>12, <3>1, <4>1, <4>2 DEF SameWork
    <3>2. CASE s # t
      BY <1>1, <1>2, <1>6, <1>11, <3>2 DEF MappingsAwaited
    <3> QED
      BY <3>1, <3>2
  <2>5. LastFrameDelivered'
    BY <1>1, <1>2, <1>10 DEF LastFrameDelivered
  <2> QED
    BY <2>1, <2>2, <2>3, <2>4, <2>5 DEF PromiseKeptInv
<1>14. Aged' = Aged /\ Told' = Told
  <2>1. \A s \in Surfaces : Filling(s)' <=> Filling(s)
    BY <1>2 DEF Filling
  <2> QED
    BY <1>2, <1>10, <2>1, InAged DEF Told
<1>15. CASE Live(t) /\ ~goal[t].filled
  <2> HIDE DEF t
  <2>1. t \in Surfaces /\ \A s \in Surfaces \ {t} : surf'[s] = surf[s]
    BY <1>6, <1>15 DEF Live
  <2>2. PromiseOf[t] = View(surf[t], goal[t])
        /\ PromiseOf' = [PromiseOf EXCEPT ![t] = View(surf'[t], goal'[t])]
    <3>1. \A s \in Surfaces \ {t} : View(surf'[s], goal'[s]) = View(surf[s], goal[s])
      BY <1>2, <2>1
    <3> QED
      BY <1>1, <2>1, <3>1, OneView
  <2>3. View(surf[t], goal[t]) = [st |-> "open", want |-> goal[t].pic, shows |-> surf[t].px.pic]
    BY <1>12, <1>15 DEF View, StateOf, Live
  <2>4. View(surf'[t], goal'[t]) =
           [st |-> "pending", want |-> goal[t].pic, shows |-> surf[t].px.pic]
    BY <1>2, <1>6, <1>12, <1>15, <2>1, RegistryAssumption DEF View, StateOf, Live, SameWork
  <2>5. PromiseOf' = [PromiseOf EXCEPT ![t].st = "pending"]
    <3>1. [PromiseOf EXCEPT ![t].st = "pending"] =
             [PromiseOf EXCEPT ![t] = [st |-> "pending", want |-> PromiseOf[t].want,
                                       shows |-> PromiseOf[t].shows]]
      BY <1>1, <2>1, RewriteState, Zenon DEF States
    <3> QED
      BY <2>2, <2>3, <2>4, <3>1
  <2>6. PromiseOf[t].st = "open" /\ PromiseOf[t].want # 0
    BY <1>12, <1>15, <2>2, <2>3
  <2>7. Promise!Accept(t)
    BY <1>14, <2>5, <2>6 DEF Promise!Accept
  <2> QED
    BY <1>13, <2>1, <2>7 DEF Promise!Next
<1>16. CASE ~Live(t) \/ goal[t].filled
  <2>1. \A s \in Surfaces : View(surf'[s], goal'[s]) = View(surf[s], goal[s])
    <3> HIDE DEF t
    <3> QED
      BY <1>2, <1>6, <1>16 DEF View, StateOf, SameWork, Live
  <2>2. PromiseOf' = PromiseOf
    BY <1>1, <2>1, SameViews
  <2> QED
    BY <1>13, <1>14, <2>2 DEF Promise!vars
<1> QED
  BY <1>15, <1>16

-----------------------------------------------------------------------------
(* A stream is abandoned: a boundary, or a context that is destroyed          *)

(* What is pending and owned by c is given up, the rest stays as it is.       *)
StreamEnds(c) ==
    /\ \A s \in Surfaces :
          /\ SameWork(surf'[s], surf[s]) /\ surf'[s].epoch = surf[s].epoch
          /\ surf'[s] = surf[s] \/ Live(s)
          /\ surf'[s].queued => surf[s].queued
          /\ surf'[s].owner \in {surf[s].owner, None}
          /\ surf[s].owner # c =>
                surf'[s].queued = surf[s].queued /\ surf'[s].owner = surf[s].owner
          /\ Pending(s) /\ surf[s].owner = c => ~surf'[s].queued \/ surf'[s].owner = None
    /\ UNCHANGED <<goal, pictures, sync>>
    /\ reg' = NextEpoch
    /\ pend'[c] = NoPending
    /\ SlotsKept /\ ClaimsKept
    /\ SyncIdle

LEMMA StreamEndSteps ==
    ASSUME PromiseSafe, NEW c \in Contexts, Restart(c) \/ Teardown(c)
    PROVE  StreamEnds(c)
<1>1. TypeOK /\ BegunOnce
  BY DEF PromiseSafe, Safe, PromiseKeptInv
<1>2. CallStep(c) /\ ~ClaimTarget(c) /\ ~Feed(c) /\ ~TakeFrame(c)
  BY DEF CallStep, Restart, Teardown, ClaimTarget, Feed, TakeFrame, Looping
<1>3. SlotsKept /\ ClaimsKept
  BY <1>1, <1>2, CallQuiet, CallClaims
<1>4. /\ UNCHANGED <<goal, pictures, sync>> /\ reg' = NextEpoch
      /\ pend' = [pend EXCEPT ![c] = NoPending]
      /\ surf' = Disowned(c) \/ surf' = Detached(c)
      /\ pc[c] \in {"restart", "teardown"}
  BY DEF Restart, Teardown, history
<1>5. pend'[c] = NoPending
  BY <1>1, <1>4 DEF TypeOK
<1>6. SyncIdle
  BY <1>4 DEF PromiseSafe, Safe, OneCall
<1>7. \A s \in Surfaces :
         /\ SameWork(surf'[s], surf[s]) /\ surf'[s].epoch = surf[s].epoch
         /\ surf'[s] = surf[s] \/ Live(s)
         /\ surf'[s].queued => surf[s].queued
         /\ surf'[s].owner \in {surf[s].owner, None}
         /\ surf[s].owner # c =>
               surf'[s].queued = surf[s].queued /\ surf'[s].owner = surf[s].owner
         /\ Pending(s) /\ surf[s].owner = c => ~surf'[s].queued \/ surf'[s].owner = None
  <2>1. CASE surf' = Disowned(c)
    BY <1>1, <2>1, DisownedStanding
  <2>2. CASE surf' = Detached(c)
    BY <1>1, <2>2, DetachedStanding DEF Pending
  <2> QED
    BY <1>4, <2>1, <2>2
<1> QED
  BY <1>3, <1>4, <1>5, <1>6, <1>7 DEF StreamEnds

LEMMA LostIsOwed ==
    ASSUME TypeOK, NEW s \in Surfaces, PromiseOf[s].st = "pending"
    PROVE  Pending(s) /\ ~goal[s].filled
<1>1. PromiseOf[s] = View(surf[s], goal[s])
  BY PromiseBefore
<1> QED
  BY <1>1 DEF View, StateOf, Pending, Live, TypeOK, SurfaceRecord

(* Nothing the surfaces of c are waiting for is given up.                     *)
NothingOwed(c) == \A s \in Surfaces : ~(Pending(s) /\ surf[s].owner = c)

LEMMA StreamEndKeeps ==
    ASSUME PromiseSafe, TypeOK', NEW c \in Contexts, StreamEnds(c)
    PROVE  /\ PromiseKeptInv'
           /\ Faults # {} \/ NothingOwed(c) => [Promise!Next]_Promise!vars
<1>1. TypeOK /\ GenerationsPast /\ PromiseKeptInv /\ EpochsPast
  BY DEF PromiseSafe, Safe, PairingInv
<1>2. PromiseKeptInv'
  <2>1. \A s \in Surfaces : KeptSurface(s)
    BY DEF StreamEnds, KeptSurface, SameUse, SameWork
  <2>2. reg'.lastFrame = None
    BY DEF StreamEnds, NextEpoch
  <2>3. ClaimsRest
    BY <2>1, <2>2 DEF StreamEnds, ClaimsRest
  <2> QED
    BY <1>1, <2>3, QuietKeepsPromise
<1> DEFINE lost == {s \in Surfaces : PromiseOf[s].st = "pending" /\ surf[s].owner = c}
<1>3. ASSUME Faults # {} \/ NothingOwed(c) PROVE Promise!Seek(lost)
  <2>1. \A s \in Surfaces : s \in Aged' <=> Promise!Exists(s)
    <3>1. reg.epoch \in Nat /\ reg'.epoch = reg.epoch + 1
      BY <1>1 DEF TypeOK, RegistryRecord, StreamEnds, NextEpoch
    <3>2. \A s \in Surfaces : Stale(s)' /\ ~Filling(s)' /\ (Live(s)' <=> Live(s))
      <4> SUFFICES ASSUME NEW s \in Surfaces
                   PROVE  Stale(s)' /\ ~Filling(s)' /\ (Live(s)' <=> Live(s))
        OBVIOUS
      <4>1. surf[s].epoch <= reg.epoch /\ surf[s].epoch \in Nat
        BY <1>1 DEF EpochsPast, TypeOK, SurfaceRecord
      <4>2. Stale(s)'
        BY <3>1, <4>1 DEF Stale, StreamEnds
      <4>3. ~Filling(s)' /\ (Live(s)' <=> Live(s))
        BY DEF Filling, SyncIdle, Live, StreamEnds, SameWork
      <4> QED
        BY <4>2, <4>3
    <3>3. \A s \in Surfaces : Promise!Exists(s) <=> Live(s)
      <4> SUFFICES ASSUME NEW s \in Surfaces PROVE Promise!Exists(s) <=> Live(s)
        OBVIOUS
      <4>1. surf[s].life \in {"unborn", "live", "freed"}
        BY <1>1 DEF TypeOK, SurfaceRecord
      <4>2. PromiseOf[s].st = StateOf(surf[s], goal[s])
        BY <1>1, PromiseBefore DEF View
      <4> QED
        BY <4>1, <4>2 DEF Promise!Exists, StateOf, Live
    <3> QED
      BY <3>2, <3>3, InAged
  <2>2. Aged' = {s \in Surfaces : Promise!Exists(s)}
    <3>1. \A s \in Aged' : s \in Surfaces
      BY InAged
    <3> QED
      BY <2>1, <3>1
  <2>3. \A s \in Surfaces :
           PromiseOf'[s] = IF s \in lost THEN [PromiseOf[s] EXCEPT !.st = "open"] ELSE PromiseOf[s]
    <3> SUFFICES ASSUME NEW s \in Surfaces
                 PROVE  PromiseOf'[s] = IF s \in lost THEN [PromiseOf[s] EXCEPT !.st = "open"]
                                                      ELSE PromiseOf[s]
      OBVIOUS
    <3>1. /\ PromiseOf[s] = View(surf[s], goal[s]) /\ PromiseOf[s] \in Views
          /\ PromiseOf'[s] = View(surf'[s], goal'[s])
      BY <1>1, PromiseBefore, PromiseAfter, PromiseTyped
    <3>2. /\ SameWork(surf'[s], surf[s]) /\ goal'[s] = goal[s]
          /\ surf'[s] = surf[s] \/ Live(s)
          /\ surf'[s].queued => surf[s].queued
          /\ surf'[s].owner \in {surf[s].owner, None}
          /\ surf[s].owner # c =>
                surf'[s].queued = surf[s].queued /\ surf'[s].owner = surf[s].owner
          /\ Pending(s) /\ surf[s].owner = c => ~surf'[s].queued \/ surf'[s].owner = None
      BY DEF StreamEnds
    <3>3. CASE s \in lost
      <4>1. Pending(s) /\ surf[s].owner = c /\ ~goal[s].filled
        BY <3>3, LostIsOwed DEF PromiseSafe, Safe
      <4>2. PromiseOf'[s] = [st |-> "open", want |-> PromiseOf[s].want,
                             shows |-> PromiseOf[s].shows]
        BY <3>1, <3>2, <4>1 DEF View, StateOf, Pending, Live, SameWork
      <4> DEFINE r == PromiseOf[s]
      <4>3. r \in Views
        BY <3>1
      <4> HIDE DEF r
      <4>4. [r EXCEPT !.st = "open"] = [st |-> "open", want |-> r.want, shows |-> r.shows]
        BY <4>3 DEF Views
      <4> QED
        BY <3>3, <4>2, <4>4 DEF r
    <3>4. CASE s \notin lost
      BY <3>1, <3>2, <3>4 DEF View, StateOf, SameWork
    <3> QED
      BY <3>3, <3>4
  <2>4. PromiseOf' = [s \in Surfaces |-> IF s \in lost THEN [PromiseOf[s] EXCEPT !.st = "open"]
                                                       ELSE PromiseOf[s]]
    <3> HIDE DEF lost
    <3>1. PromiseOf' = [s \in Surfaces |-> PromiseOf'[s]]
      BY PromiseAfter
    <3> QED
      BY <2>3, <3>1
  <2>5. Told' = Told
    BY DEF StreamEnds, Told
  <2>6. NothingOwed(c) => lost = {}
    BY LostIsOwed DEF NothingOwed, PromiseSafe, Safe
  <2>7. lost # {} => Faults # {}
    BY <1>3, <2>6
  <2> QED
    BY <2>2, <2>4, <2>5, <2>7 DEF Promise!Seek
<1>4. lost \in SUBSET Promise!Pending
  BY DEF Promise!Pending
<1> QED
  BY <1>2, <1>3, <1>4 DEF Promise!Next

-----------------------------------------------------------------------------
(* A frame that lands, or whose copy fails                                    *)

(* assign_frame uses up the mapping it follows.                               *)
LEMMA MappingUsedUp ==
    ASSUME TypeOK, ~HevcFifo, NEW c \in Contexts, NEW f \in Frame, NEW i \in 0 .. RingSize - 1,
           pend[c].ring[i].used, f.ts = Timestamp(pend[c].ring[i].seq), i = SlotOf(FrameSeq(f))
    PROVE  ~MappingTaken(c, f).ring[i].used
<1> DEFINE slot == [pend[c].ring[i] EXCEPT !.used = FALSE]
           ring == [pend[c].ring EXCEPT ![i] = slot]
<1>1. pend[c] \in PendingRecord
  BY DEF TypeOK
<1>2. pend[c].ring \in [0 .. RingSize - 1 -> Slot] /\ pend[c].ring[i].seq \in Nat
  BY <1>1 DEF PendingRecord, Slot
<1>3. FrameSeq(f) = pend[c].ring[i].seq /\ f.ts # 0
  BY <1>2 DEF FrameSeq, Timestamp
<1>4. MappingTaken(c, f) = [pend[c] EXCEPT !.ring[SlotOf(FrameSeq(f))].used = FALSE]
  BY <1>3 DEF MappingTaken, Unassignable, Matching
<1>5. [pend[c] EXCEPT !.ring[SlotOf(FrameSeq(f))].used = FALSE] = [pend[c] EXCEPT !.ring = ring]
  BY <1>1 DEF PendingRecord
<1>6. ring[i] = slot /\ ~slot.used
  BY <1>2 DEF Slot
<1> HIDE DEF ring, slot
<1> QED
  BY <1>1, <1>4, <1>5, <1>6 DEF PendingRecord

LEMMA TakeFrameQuiet ==
    ASSUME PromiseSafe, ~HevcFifo, NEW c \in Contexts, TakeFrame(c)
    PROVE  /\ UNCHANGED <<cur, pictures>> /\ ClaimsKept /\ SlotsKept
           /\ Told' = Told /\ sync.st # "filling" /\ sync'.st # "filling"
<1>1. TypeOK /\ BegunOnce /\ SessionInv
  BY DEF PromiseSafe, Safe, PromiseKeptInv
<1>2. UNCHANGED <<cur, pictures>> /\ ClaimsKept
  BY <1>1, CallClaims DEF CallStep
<1>3. SlotsKept
  <2> DEFINE f == Head(dev[c].cap)
  <2>1. f \in Frame /\ pend' = [pend EXCEPT ![c] = MappingTaken(c, f)]
    BY <1>1, TakeFrameEffects
  <2>2. pend'[c] = MappingTaken(c, f) /\ \A d \in Contexts \ {c} : pend'[d] = pend[d]
    BY <1>1, <2>1 DEF TypeOK
  <2> HIDE DEF f
  <2>3. \A i \in 0 .. RingSize - 1 :
           pend'[c].ring[i] = pend[c].ring[i] \/ ~pend'[c].ring[i].used
    BY <1>1, <2>1, <2>2, MappingTakenRing
  <2> QED
    BY <2>2, <2>3 DEF SlotsKept
<1>4. sync' = sync \/ sync' = NoSync
  BY DEF TakeFrame, Failing
<1>5. /\ sync.st # "filling" /\ sync'.st # "filling"
      /\ sync' = sync \/ (sync.st = "inside" /\ sync'.st # "returned")
  <2>1. NoSync.st = "none"
    BY DEF NoSync
  <2> QED
    BY <1>4, <2>1, CallMovesSync DEF PromiseSafe, CallStep
<1>6. Told' = Told
  BY <1>5 DEF Told
<1> QED
  BY <1>2, <1>3, <1>5, <1>6

LEMMA LandingKeeps ==
    ASSUME PromiseSafe, TypeOK', ~HevcFifo, NEW c \in Contexts, TakeFrame(c),
           NEW f \in Frame, UnitPair(f) \in InSession(c),
           pend' = [pend EXCEPT ![c] = MappingTaken(c, f)],
           NEW s \in Surfaces, NEW i \in 0 .. RingSize - 1, LeadsTo(pend[c].ring[i], s),
           f.ts = Timestamp(pend[c].ring[i].seq), i = SlotOf(FrameSeq(f)), LandsIn(c, s, f)
    PROVE  PromiseKeptInv' /\ [Promise!Next]_Promise!vars
<1> DEFINE x == Landed(surf[s], c, f.px)
           g == [goal[s] EXCEPT !.filled = FALSE]
<1>1. /\ TypeOK /\ GenerationsPast /\ MappedPicture /\ GoalsPast /\ BegunOnce /\ FreshTarget
      /\ TargetsApart /\ MappingsAwaited /\ LastFrameDelivered /\ FillRecorded
  BY DEF PromiseSafe, Safe, PairingInv, PromiseKeptInv
<1>2. /\ UNCHANGED <<cur, pictures>> /\ ClaimsKept /\ SlotsKept
      /\ Told' = Told /\ sync.st # "filling" /\ sync'.st # "filling"
  BY TakeFrameQuiet
<1>3. /\ surf' = [surf EXCEPT ![s] = x] /\ goal' = [goal EXCEPT ![s] = g]
      /\ reg' = LastFrameIs(s)
  BY <1>1 DEF LandsIn, TypeOK
<1>4. /\ x.life = surf[s].life /\ x.gen = surf[s].gen /\ x.decoded /\ x.px = f.px
      /\ x.queued /\ x.owner = c /\ x.epoch = reg.epoch
      /\ g.pic = goal[s].pic /\ ~g.filled
      /\ reg'.epoch = reg.epoch /\ reg'.lastFrame = s
  BY <1>1, <1>3, LandedStanding DEF TypeOK, GoalRecord, RegistryRecord, LastFrameIs
<1>5. Live(s) /\ surf[s].queued /\ surf[s].owner = c /\ (surf[s].decoded => goal[s].filled)
      /\ \A j \in 0 .. RingSize - 1 : LeadsTo(pend[c].ring[j], s) => i = j
  BY <1>1 DEF MappingsAwaited, LeadsTo
<1>6. f.px.pic = goal[s].pic
  <2>1. UnitPair(f).ts = f.ts /\ UnitPair(f).pic = f.px.pic
    BY DEF UnitPair
  <2> QED
    BY <1>1, <2>1 DEF MappedPicture
<1> HIDE DEF x, g
<1>7. /\ surf'[s] = x /\ \A u \in Surfaces \ {s} : surf'[u] = surf[u]
      /\ goal'[s] = g /\ \A u \in Surfaces \ {s} : goal'[u] = goal[u]
  BY <1>1, <1>3 DEF TypeOK
<1>8. \A u \in Surfaces : /\ Live(u)' <=> Live(u)
                          /\ u # s => (Stale(u)' <=> Stale(u))
                          /\ u = s => ~Stale(u)'
  BY <1>4, <1>7 DEF Live, Stale
<1>9. \A d \in Contexts, u \in Surfaces : \A j \in 0 .. RingSize - 1 :
         LeadsTo(pend[d].ring[j], u)' => u # s /\ LeadsTo(pend[d].ring[j], u)
  <2> SUFFICES ASSUME NEW d \in Contexts, NEW u \in Surfaces, NEW j \in 0 .. RingSize - 1,
                      LeadsTo(pend[d].ring[j], u)'
               PROVE  u # s /\ LeadsTo(pend[d].ring[j], u)
    OBVIOUS
  <2>1. pend'[d].ring[j].used /\ pend'[d].ring[j] = pend[d].ring[j]
    BY <1>2 DEF LeadsTo, SlotsKept
  <2>2. LeadsTo(pend[d].ring[j], u)
    BY <1>4, <1>7, <1>8, <2>1 DEF LeadsTo
  <2>3. u # s
    <3> SUFFICES ASSUME u = s PROVE FALSE
      OBVIOUS
    <3>1. surf[s].owner = d
      BY <1>1, <2>2 DEF MappingsAwaited
    <3>2. d = c /\ j = i
      BY <1>5, <2>2, <3>1
    <3>3. pend'[c] = MappingTaken(c, f)
      BY <1>1 DEF TypeOK
    <3>4. pend[c].ring[i].used
      BY DEF LeadsTo
    <3>5. ~MappingTaken(c, f).ring[i].used
      BY <1>1, <3>4, MappingUsedUp
    <3> QED
      BY <2>1, <3>2, <3>3, <3>5
  <2> QED
    BY <2>2, <2>3
<1>10. PromiseKeptInv'
  <2>1. GoalsPast' /\ BegunOnce' /\ FillRecorded'
    BY <1>1, <1>2, <1>4, <1>5, <1>7 DEF GoalsPast, Live, BegunOnce, ClaimsKept, FillRecorded
  <2>2. FreshTarget'
    <3> SUFFICES ASSUME NEW d \in Contexts, NEW u \in Surfaces, Unclaimed(d)',
                        cur'[d].target = u, Live(u)'
                 PROVE  /\ cur'[d].gen = surf'[u].gen
                        /\ goal'[u].pic # 0
                        /\ ~surf'[u].queued
                        /\ surf'[u].decoded => goal'[u].filled
                        /\ \A e \in Contexts : \A j \in 0 .. RingSize - 1 :
                              ~LeadsTo(pend[e].ring[j], u)'
      BY DEF FreshTarget
    <3>1. Unclaimed(d) /\ cur[d].target = u /\ cur'[d].gen = cur[d].gen /\ Live(u)
      BY <1>2, <1>8 DEF ClaimsKept
    <3>2. u # s
      BY <1>1, <3>1 DEF FreshTarget
    <3> QED
      BY <1>1, <1>7, <1>9, <3>1, <3>2 DEF FreshTarget
  <2>3. TargetsApart'
    BY <1>1, <1>2 DEF TargetsApart, ClaimsKept
  <2>4. MappingsAwaited'
    <3> SUFFICES ASSUME NEW d \in Contexts, NEW u \in Surfaces, NEW j \in 0 .. RingSize - 1,
                        LeadsTo(pend[d].ring[j], u)'
                 PROVE  /\ surf'[u].queued /\ surf'[u].owner = d
                        /\ surf'[u].decoded => goal'[u].filled
                        /\ \A k \in 0 .. RingSize - 1 :
                              LeadsTo(pend[d].ring[k], u)' => j = k
      BY DEF MappingsAwaited
    <3> QED
      BY <1>1, <1>7, <1>9 DEF MappingsAwaited
  <2>5. LastFrameDelivered'
    BY <1>4, <1>7, <1>8 DEF LastFrameDelivered
  <2> QED
    BY <2>1, <2>2, <2>3, <2>4, <2>5 DEF PromiseKeptInv
<1>11. Promise!Deliver(s)
  <2>1. PromiseOf[s] = View(surf[s], goal[s])
        /\ PromiseOf' = [PromiseOf EXCEPT ![s] = View(surf'[s], goal'[s])]
    BY <1>1, <1>7, OneView
  <2>2. View(surf'[s], goal'[s]) =
           [st |-> "ready", want |-> goal[s].pic, shows |-> goal[s].pic]
    BY <1>4, <1>5, <1>6, <1>7 DEF View, StateOf, Live
  <2>3. PromiseOf[s].want = goal[s].pic /\ PromiseOf[s].st \in {"pending", "filled"}
    BY <1>5, <2>1, RegistryAssumption DEF View, StateOf, Live
  <2> DEFINE y == PromiseOf[s].want
  <2>4. y \in Nat
    BY <1>1, <2>3 DEF TypeOK, GoalRecord
  <2>5. PromiseOf' = [PromiseOf EXCEPT ![s].st = "ready", ![s].shows = y]
    <3> HIDE DEF y
    <3>1. [PromiseOf EXCEPT ![s].st = "ready", ![s].shows = y] =
             [PromiseOf EXCEPT ![s] = [st |-> "ready", want |-> PromiseOf[s].want,
                                       shows |-> y]]
      BY <1>1, <2>4, RewriteStateAndShows, Zenon DEF States
    <3> QED
      BY <2>1, <2>2, <2>3, <3>1 DEF y
  <2>6. Aged' = Aged \ {s}
    <3>1. \A u \in Surfaces : ~Filling(u) /\ ~Filling(u)'
      BY <1>2 DEF Filling
    <3> QED
      BY <1>8, <3>1, InAged
  <2> QED
    BY <1>2, <2>3, <2>5, <2>6 DEF Promise!Deliver
<1> QED
  BY <1>10, <1>11 DEF Promise!Next

LEMMA FailedCopyKeeps ==
    ASSUME PromiseSafe, TypeOK', ~HevcFifo, NEW c \in Contexts, TakeFrame(c),
           NEW f \in Frame, UnitPair(f) \in InSession(c),
           NEW s \in Surfaces, NEW i \in 0 .. RingSize - 1, LeadsTo(pend[c].ring[i], s),
           f.ts = Timestamp(pend[c].ring[i].seq), CopyFails(s, f)
    PROVE  PromiseKeptInv' /\ [Promise!Next]_Promise!vars
<1>1. /\ TypeOK /\ GenerationsPast /\ MappedPicture /\ MappingsAwaited /\ PromiseKeptInv
  BY DEF PromiseSafe, Safe, PairingInv, PromiseKeptInv
<1>2. /\ UNCHANGED <<cur, pictures>> /\ ClaimsKept /\ SlotsKept
      /\ Told' = Told /\ sync.st # "filling" /\ sync'.st # "filling"
  BY TakeFrameQuiet
<1>3. PICK x \in HalfLanded(surf[s], f.px) : surf' = [surf EXCEPT ![s] = x]
  BY DEF CopyFails
<1>4. "copy" \in Faults /\ UNCHANGED <<reg, goal>>
  BY DEF CopyFails
<1>5. /\ x.life = surf[s].life /\ x.gen = surf[s].gen /\ x.decoded = surf[s].decoded
      /\ x.queued = surf[s].queued /\ x.owner = surf[s].owner /\ x.epoch = surf[s].epoch
      /\ x.px = surf[s].px \/ x.px = f.px
  BY <1>1, HalfLandedStanding DEF TypeOK
<1>6. surf'[s] = x /\ \A u \in Surfaces \ {s} : surf'[u] = surf[u]
  BY <1>1, <1>3 DEF TypeOK
<1>7. Live(s) /\ surf[s].queued /\ surf[s].owner = c /\ (surf[s].decoded => goal[s].filled)
  BY <1>1 DEF MappingsAwaited, LeadsTo
<1>8. f.px.pic = goal[s].pic
  <2>1. UnitPair(f).ts = f.ts /\ UnitPair(f).pic = f.px.pic
    BY DEF UnitPair
  <2> QED
    BY <1>1, <2>1 DEF MappedPicture
<1>9. PromiseKeptInv'
  <2>1. \A u \in Surfaces : KeptSurface(u)
    BY <1>5, <1>6, <1>7 DEF KeptSurface, SameUse
  <2>2. ClaimsRest
    BY <1>2, <1>4, <2>1 DEF ClaimsRest
  <2> QED
    BY <1>1, <2>2, QuietKeepsPromise
<1>10. Aged' = Aged
  <2>1. \A u \in Surfaces : /\ ~Filling(u) /\ ~Filling(u)'
                            /\ (Live(u)' <=> Live(u)) /\ (Stale(u)' <=> Stale(u))
    BY <1>2, <1>4, <1>5, <1>6 DEF Filling, Live, Stale
  <2> QED
    BY <2>1, InAged
<1>11. CASE x.px = surf[s].px
  <2>1. \A u \in Surfaces : View(surf'[u], goal'[u]) = View(surf[u], goal[u])
    BY <1>4, <1>5, <1>6, <1>11 DEF View, StateOf
  <2>2. PromiseOf' = PromiseOf
    BY <1>1, <2>1, SameViews
  <2> QED
    BY <1>2, <1>9, <1>10, <2>2 DEF Promise!vars
<1>12. CASE x.px = f.px
  <2>1. PromiseOf[s] = View(surf[s], goal[s])
        /\ PromiseOf' = [PromiseOf EXCEPT ![s] = View(surf'[s], goal'[s])]
    <3>1. \A u \in Surfaces \ {s} : View(surf'[u], goal'[u]) = View(surf[u], goal[u])
      BY <1>4, <1>6
    <3> QED
      BY <1>1, <3>1, OneView
  <2>2. /\ PromiseOf[s].want = goal[s].pic /\ PromiseOf[s].st \in {"pending", "filled"}
        /\ View(surf'[s], goal'[s]) =
              [st |-> PromiseOf[s].st, want |-> goal[s].pic, shows |-> goal[s].pic]
    <3>1. PromiseOf[s].want = goal[s].pic /\ PromiseOf[s].st = StateOf(surf[s], goal[s])
      BY <2>1 DEF View
    <3>2. StateOf(surf[s], goal[s]) \in {"pending", "filled"}
      BY <1>7, RegistryAssumption DEF StateOf, Live
    <3>3. StateOf(surf'[s], goal'[s]) = StateOf(surf[s], goal[s])
      BY <1>4, <1>5, <1>6 DEF StateOf
    <3> QED
      BY <1>4, <1>6, <1>8, <1>12, <3>1, <3>2, <3>3 DEF View
  <2> DEFINE y == PromiseOf[s].want
  <2>3. y \in Nat
    BY <1>1, <2>2 DEF TypeOK, GoalRecord
  <2>4. PromiseOf' = [PromiseOf EXCEPT ![s].shows = y]
    <3> HIDE DEF y
    <3>1. [PromiseOf EXCEPT ![s].shows = y] =
             [PromiseOf EXCEPT ![s] = [st |-> PromiseOf[s].st, want |-> PromiseOf[s].want,
                                       shows |-> y]]
      BY <1>1, <2>3, RewriteShows, Zenon
    <3> QED
      BY <2>1, <2>2, <3>1 DEF y
  <2>5. Promise!Spoil(s)
    BY <1>2, <1>4, <1>10, <2>2, <2>4 DEF Promise!Spoil
  <2> QED
    BY <1>9, <2>5 DEF Promise!Next
<1> QED
  BY <1>5, <1>11, <1>12

-----------------------------------------------------------------------------
(* The theorems                                                               *)

LEMMA StandKeeps ==
    ASSUME PromiseSafe, TypeOK', StandStep
    PROVE  PromiseKeptInv' /\ [Promise!Next]_Promise!vars
<1>1. TypeOK /\ GenerationsPast /\ PromiseKeptInv
  BY DEF PromiseSafe, Safe, PairingInv
<1> QED
  BY <1>1, StandIsQuiet, QuietKeepsPromise, StandMaps

LEMMA TakeFrameKeeps ==
    ASSUME PromiseSafe, TypeOK', ~HevcFifo, NEW c \in Contexts, TakeFrame(c)
    PROVE  PromiseKeptInv' /\ [Promise!Next]_Promise!vars
<1> DEFINE f == Head(dev[c].cap)
<1>1. /\ f \in Frame /\ UnitPair(f) \in InSession(c)
      /\ pend' = [pend EXCEPT ![c] = MappingTaken(c, f)]
      /\ \/ UNCHANGED <<surf, reg, goal>>
         \/ \E s \in Surfaces, i \in 0 .. RingSize - 1 :
               /\ LeadsTo(pend[c].ring[i], s)
               /\ f.ts = Timestamp(pend[c].ring[i].seq)
               /\ i = SlotOf(FrameSeq(f))
               /\ LandsIn(c, s, f) \/ CopyFails(s, f)
  BY TakeFrameEffects DEF PromiseSafe, Safe
<1> HIDE DEF f
<1>2. CASE UNCHANGED <<surf, reg, goal>>
  BY <1>2, TakeFrameQuiet, LostFrameStands, StandKeeps
<1>3. ASSUME NEW s \in Surfaces, NEW i \in 0 .. RingSize - 1, LeadsTo(pend[c].ring[i], s),
             f.ts = Timestamp(pend[c].ring[i].seq), i = SlotOf(FrameSeq(f)),
             LandsIn(c, s, f) \/ CopyFails(s, f)
      PROVE  PromiseKeptInv' /\ [Promise!Next]_Promise!vars
  BY <1>1, <1>3, LandingKeeps, FailedCopyKeeps
<1> QED
  BY <1>1, <1>2, <1>3

(* A stream or a context that ends leaves nothing owed.                       *)
EndsServed == \A c \in Contexts : Restart(c) \/ Teardown(c) => NothingOwed(c)

(* Every step of the code is a step of the promise, or none; only giving up   *)
(* what is pending needs a reason.                                            *)
LEMMA PromiseStep ==
    ASSUME PromiseSafe, TypeOK', [Next]_vars,
           ~FieldPictures, ~HevcFifo, ~ConcurrentClient, "start" \notin Faults
    PROVE  PromiseKeptInv' /\ (Faults # {} \/ EndsServed => [Promise!Next]_Promise!vars)
<1>1. ASSUME NEW c \in Contexts, NEW s \in Surfaces, NEW field \in 0 .. 2, NEW poc \in Pocs,
             BeginPicture(c, s, field, poc)
      PROVE  PromiseKeptInv' /\ [Promise!Next]_Promise!vars
  BY <1>1, BeginKeeps
<1>2. ASSUME NEW c \in Contexts,
             \/ CreateContext(c) \/ EndPictureFails(c) \/ DestroyContext(c)
             \/ \E ra, cue \in BOOLEAN : EndPicture(c, ra, cue)
      PROVE  PromiseKeptInv' /\ [Promise!Next]_Promise!vars
  BY <1>2, ClientStands, StandKeeps
<1>3. ASSUME NEW c \in Contexts, CallStep(c)
      PROVE  PromiseKeptInv' /\ (Faults # {} \/ EndsServed => [Promise!Next]_Promise!vars)
  <2>1. CASE ClaimTarget(c)
    BY <2>1, ClaimKeeps
  <2>2. CASE TakeFrame(c)
    BY <2>2, TakeFrameKeeps
  <2>3. CASE Restart(c) \/ Teardown(c)
    BY <2>3, StreamEndSteps, StreamEndKeeps DEF EndsServed
  <2>4. CASE ~ClaimTarget(c) /\ ~TakeFrame(c) /\ ~Restart(c) /\ ~Teardown(c)
    BY <1>3, <2>4, CallStands, StandKeeps
  <2> QED
    BY <2>1, <2>2, <2>3, <2>4
<1>4. CASE \E s \in Surfaces : AllocSurface(s)
  BY <1>4, AllocKeeps
<1>5. CASE \E s \in Surfaces : FreeSurface(s)
  BY <1>5, FreeKeeps
<1>6. CASE \E s \in Surfaces : SyncSurface(s) /\ Stale(s)
  BY <1>6, FillKeeps
<1>7. CASE SyncFilled
  BY <1>7, FilledKeeps
<1>8. CASE \/ \E c \in Contexts : Firmware(c) \/ SyncEnter(c)
           \/ \E s \in Surfaces : ExportSurface(s) \/ (SyncSurface(s) /\ ~Stale(s))
           \/ UNCHANGED vars
  BY <1>8, OffCallStands, StandKeeps
<1>9. CASE OffCall
  BY <1>4, <1>5, <1>6, <1>7, <1>8, <1>9 DEF OffCall, SurfaceCall, SyncStep
<1>10. \A c \in Contexts : Feed(c) \/ ClaimTarget(c) \/ TakeFrame(c) => CallStep(c)
  BY DEF CallStep
<1> QED
  BY <1>1, <1>2, <1>3, <1>9, <1>10, StepKinds

LEMMA PromiseInitially == Init => PromiseKeptInv /\ Promise!Init
<1> SUFFICES ASSUME Init PROVE PromiseKeptInv /\ Promise!Init
  OBVIOUS
<1>1. TypeOK
  BY InitType
<1>2. /\ \A s \in Surfaces : surf[s] = UnbornSurface /\ goal[s] = [pic |-> 0, filled |-> FALSE]
      /\ \A c \in Contexts : cur[c] = NoPicture /\ pc[c] = "idle"
      /\ sync = NoSync /\ pictures = 0
  BY DEF Init, RegistryInit
<1>3. /\ UnbornSurface.life = "unborn" /\ UnbornSurface.px.pic = 0
      /\ ~NoPicture.begun /\ NoSync.st = "none"
  BY DEF UnbornSurface, Black, NoPicture, NoSync
<1>4. \A s \in Surfaces : ~Live(s)
  BY <1>2, <1>3 DEF Live
<1>5. PromiseKeptInv
  BY <1>2, <1>3, <1>4
  DEF PromiseKeptInv, GoalsPast, BegunOnce, FreshTarget, TargetsApart, Unclaimed,
      MappingsAwaited, LeadsTo, LastFrameDelivered, FillRecorded
<1>6. Promise!Init
  <2>1. \A s \in Surfaces : View(surf[s], goal[s]) = [st |-> "none", want |-> 0, shows |-> 0]
    BY <1>2, <1>3 DEF View, StateOf
  <2>2. PromiseOf = [s \in Surfaces |-> [st |-> "none", want |-> 0, shows |-> 0]]
    BY <1>1, <2>1, PromiseBefore
  <2>3. Aged = {} /\ Told = None
    BY <1>2, <1>3, <1>4 DEF Aged, Told
  <2> QED
    BY <2>2, <2>3 DEF Promise!Init
<1> QED
  BY <1>5, <1>6

(* Between vaBeginPicture and the frame that lands, one picture or one ring   *)
(* slot claims a surface, and only one (decode.c:104-181, decode.c:382-393).  *)
THEOREM ClaimsHold ==
    ASSUME ~FieldPictures, ~HevcFifo, ~ConcurrentClient, "start" \notin Faults
    PROVE  Spec => []PromiseKeptInv
<1>1. Init => PromiseKeptInv
  BY PromiseInitially
<1>2. CurrentPixelsInv /\ OwnershipInv /\ TypeOK /\ PairingInv /\ PromiseKeptInv => PromiseSafe
  BY DEF PromiseSafe, Safe, SessionInv, CurrentPixelsInv
<1>3. PromiseSafe /\ TypeOK' /\ [Next]_vars => PromiseKeptInv'
  BY PromiseStep
<1> QED
  BY <1>1, <1>2, <1>3, TypeCorrect, OwnershipHolds, PixelsHold, PairingHolds, PTL DEF Spec

(* The code keeps the promise of a surface: the picture last begun is the one *)
(* that lands, a surface is filled only once it is aged, what is pending is   *)
(* given up only at a seek or a destroyed context, and no sync returns before *)
(* (decode.h:33-35, decode.c:375-393, surface.c:603-631).                     *)
THEOREM DecodeImplementsThePromise ==
    ASSUME ~FieldPictures, ~HevcFifo, ~ConcurrentClient, "start" \notin Faults, Faults # {}
    PROVE  Spec => KeepsThePromise
<1>1. Init => Promise!Init
  BY PromiseInitially
<1>2. CurrentPixelsInv /\ OwnershipInv /\ TypeOK /\ PairingInv /\ PromiseKeptInv => PromiseSafe
  BY DEF PromiseSafe, Safe, SessionInv, CurrentPixelsInv
<1>3. PromiseSafe /\ TypeOK' /\ [Next]_vars => [Promise!Next]_Promise!vars
  BY PromiseStep
<1> QED
  BY <1>1, <1>2, <1>3, TypeCorrect, OwnershipHolds, PixelsHold, PairingHolds, ClaimsHold, PTL
  DEF Spec, KeepsThePromise, Promise!Spec

(* A surface the code reports ready, and did not backfill, is ready in the     *)
(* promise.                                                                  *)
LEMMA ReadySurface ==
    ASSUME NEW s \in Surfaces, Live(s), surf[s].decoded, ~goal[s].filled
    PROVE  /\ PromiseOf[s].st = "ready"
           /\ PromiseOf[s].want = goal[s].pic
           /\ PromiseOf[s].shows = surf[s].px.pic
  BY DEF PromiseOf, PromiseState, Live, Pending

LEMMA PromiseHoldsAtFirst == Promise!Init => Promise!PromiseInv
BY DEF Promise!Init, Promise!PromiseInv, Promise!Typed, Promise!ReadyShowsItsPicture,
       Promise!Promised

LEMMA PromiseStepHolds ==
    Promise!PromiseInv /\ [Promise!Next]_Promise!vars => Promise!PromiseInv'
<1> SUFFICES ASSUME Promise!PromiseInv, [Promise!Next]_Promise!vars
             PROVE  Promise!PromiseInv'
    OBVIOUS
<1> USE DEF Promise!PromiseInv, Promise!Typed, Promise!ReadyShowsItsPicture, Promise!Promised
<1>1. CASE UNCHANGED Promise!vars
    BY <1>1 DEF Promise!vars
<1>2. ASSUME NEW s \in Surfaces,
             \/ Promise!Create(s) \/ Promise!Free(s) \/ Promise!Accept(s)
             \/ Promise!Deliver(s) \/ Promise!Spoil(s)
      PROVE  Promise!PromiseInv'
    BY <1>2 DEF Promise!Create, Promise!Free, Promise!Accept, Promise!Deliver,
                Promise!Spoil, Promise!Exists
<1>3. ASSUME NEW s \in Surfaces, NEW p, Promise!Begin(s, p)
      PROVE  Promise!PromiseInv'
    BY <1>3 DEF Promise!Begin, Promise!Exists
<1>4. ASSUME NEW s \in Surfaces, Promise!Fill(s)
      PROVE  Promise!PromiseInv'
    <2>1. PICK shown \in {0} \cup {PromiseOf[t].shows :
                        t \in {u \in Surfaces \ Aged : PromiseOf[u].st = "ready"}} :
              PromiseOf' = [PromiseOf EXCEPT ![s].st = "filled", ![s].shows = shown]
        BY <1>4, Zenon DEF Promise!Fill
    <2>2. shown = 0 \/ \E t \in Surfaces : shown = PromiseOf[t].shows
        BY <2>1
    <2>3. shown \in Nat
        BY <2>2
    <2> QED
        BY <2>1, <2>3
<1>5. ASSUME NEW s \in Surfaces, Promise!Tell(s)
      PROVE  Promise!PromiseInv'
    BY <1>5 DEF Promise!Tell
<1>6. ASSUME NEW lost \in SUBSET Promise!Pending, Promise!Seek(lost)
      PROVE  Promise!PromiseInv'
    BY <1>6 DEF Promise!Seek
<1>7. CASE Promise!Wait
    BY <1>7 DEF Promise!Wait
<1>8. ASSUME NEW s \in Surfaces, Promise!Begin(s, PromiseOf'[s].want)
      PROVE  Promise!PromiseInv'
    <2>1. PICK p : p = PromiseOf'[s].want
        OBVIOUS
    <2>2. Promise!Begin(s, p)
        BY <1>8, <2>1
    <2> QED
        BY <1>3, <2>2
<1> QED
    BY <1>1, <1>2, <1>4, <1>5, <1>6, <1>7, <1>8 DEF Promise!Next

(* Whoever keeps the promise shows the right picture: what is reported ready  *)
(* (decode.c:382-393) is never another picture.                               *)
THEOREM ReadyIsRight == Promise!Spec => []Promise!ReadyShowsItsPicture
<1>1. Promise!PromiseInv => Promise!ReadyShowsItsPicture
    BY DEF Promise!PromiseInv
<1> QED
    BY <1>1, PromiseHoldsAtFirst, PromiseStepHolds, PTL DEF Promise!Spec

(* What keeping it is worth: from the abstract theorem ReadyIsRight, a         *)
(* surface reported ready shows the picture the client last began on it       *)
(* (DecodedHoldsItsPicture, decode.c:382-393).                                *)
THEOREM PromiseShowsPictures == KeepsThePromise => []DecodedHoldsItsPicture
<1>1. Promise!ReadyShowsItsPicture => DecodedHoldsItsPicture
  BY ReadySurface DEF Promise!ReadyShowsItsPicture, DecodedHoldsItsPicture
<1> QED
  BY <1>1, ReadyIsRight, PTL DEF KeepsThePromise

-----------------------------------------------------------------------------
(* Nothing is lost: for every value of the constants, with one client thread, *)
(* in decode order, without PAFF field pairs, and as long as the firmware,    *)
(* the copies and the submissions work (time limits, refused STOPs, refused   *)
(* sessions and units that cannot be built are allowed).  What is waited for  *)
(* can complete, a boundary or a destroyed context leaves nothing behind, no  *)
(* fence is signalled early, and the promise of SurfacePromise is kept        *)
(* without ever giving a picture up.  DeliveryInv is the inductive invariant: *)
(* since vaEndPicture takes every frame that is there, a session holds fewer  *)
(* units than the rings have slots, one sequence number after the other, so   *)
(* that no mapping is overwritten while its picture is on its way.            *)

(* Nothing goes wrong that loses a picture.                                   *)
Reliable ==
    /\ ~ConcurrentClient /\ ~FieldPictures /\ ~DisplayOrder
    /\ Faults \subseteq {"timeout", "build", "stop", "open"}

-----------------------------------------------------------------------------
(* Frames in a CAPTURE queue                                                  *)

(* LAST counts for nothing, wherever the queue ends.                          *)
LEMMA FramesCounted ==
    ASSUME NEW q \in Seq(Frame)
    PROVE  /\ FrameCount(q) \in Nat /\ FrameCount(q) <= Len(q)
           /\ q = <<>> => FrameCount(q) = 0
           /\ (\A i \in DOMAIN q : ~q[i].last) => FrameCount(q) = Len(q)
           /\ \A i \in DOMAIN q : ~q[i].last => i <= FrameCount(q)
<1> DEFINE n == Len(q)
<1>1. n \in Nat /\ DOMAIN q = 1 .. n /\ (q = <<>> <=> n = 0)
  BY LenProperties, EmptySeq
<1>2. FrameCount(q) = IF n # 0 /\ q[n].last THEN n - 1 ELSE n
  BY <1>1 DEF FrameCount
<1> HIDE DEF n
<1>3. FrameCount(q) \in Nat /\ FrameCount(q) <= n /\ (n = 0 => FrameCount(q) = 0)
  BY <1>1, <1>2
<1>4. (\A i \in DOMAIN q : ~q[i].last) => FrameCount(q) = n
  <2>1. n # 0 => n \in DOMAIN q
    BY <1>1
  <2> QED
    BY <1>2, <2>1
<1>5. ASSUME NEW i \in DOMAIN q, ~q[i].last PROVE i <= FrameCount(q)
  <2>1. CASE i = n
    BY <1>1, <1>2, <1>5, <2>1
  <2>2. CASE i # n
    BY <1>1, <1>2, <2>2
  <2> QED
    BY <2>1, <2>2
<1> QED
  BY <1>1, <1>3, <1>4, <1>5 DEF n

LEMMA FramesOfTail ==
    ASSUME NEW q \in Seq(Frame), q # <<>>, NEW sent, LastAtEnd(q, sent)
    PROVE  FrameCount(Tail(q)) = FrameCount(q) - (IF Head(q).last THEN 0 ELSE 1)
<1>1. /\ Tail(q) \in Seq(Frame) /\ Len(Tail(q)) = Len(q) - 1 /\ Len(q) \in Nat
      /\ \A i \in 1 .. Len(Tail(q)) : Tail(q)[i] = q[i + 1]
      /\ Head(q) = q[1]
  BY HeadTailProperties, LenProperties
<1>2. /\ DOMAIN q = 1 .. Len(q) /\ Len(q) # 0
      /\ (Tail(q) = <<>> <=> Len(Tail(q)) = 0)
  BY <1>1, LenProperties, EmptySeq
<1> DEFINE r == Tail(q)
<1>3. CASE Len(q) = 1
  <2>1. FrameCount(r) = 0 /\ FrameCount(q) = IF Head(q).last THEN 0 ELSE 1
    <3>1. r = <<>> /\ Len(r) = 0
      BY <1>1, <1>2, <1>3
    <3> HIDE DEF r
    <3> QED
      BY <1>1, <1>3, <3>1 DEF FrameCount
  <2> QED
    BY <2>1
<1>4. CASE Len(q) > 1
  <2>1. r[Len(r)] = q[Len(q)] /\ ~Head(q).last /\ r # <<>> /\ Len(r) = Len(q) - 1
    BY <1>1, <1>2, <1>4 DEF LastAtEnd
  <2> HIDE DEF r
  <2>2. FrameCount(q) = IF q[Len(q)].last THEN Len(q) - 1 ELSE Len(q)
    BY <1>1 DEF FrameCount
  <2>3. FrameCount(r) = IF q[Len(q)].last THEN Len(r) - 1 ELSE Len(r)
    BY <2>1 DEF FrameCount
  <2> QED
    BY <1>1, <2>1, <2>2, <2>3 DEF r
<1> QED
  BY <1>1, <1>2, <1>3, <1>4

LEMMA FramesOfAppend ==
    ASSUME NEW q \in Seq(Frame), NEW f \in Frame, LastAtEnd(q, FALSE)
    PROVE  /\ FrameCount(q) = Len(q)
           /\ FrameCount(Append(q, f)) = Len(q) + (IF f.last THEN 0 ELSE 1)
<1> DEFINE r == Append(q, f)
<1>1. /\ Len(r) = Len(q) + 1 /\ Len(q) \in Nat
      /\ r[Len(q) + 1] = f /\ r # <<>>
      /\ DOMAIN q = 1 .. Len(q)
  BY AppendProperties, LenProperties, EmptySeq
<1>2. FrameCount(q) = Len(q)
  BY FramesCounted DEF LastAtEnd
<1> HIDE DEF r
<1>3. FrameCount(r) = Len(q) + (IF f.last THEN 0 ELSE 1)
  BY <1>1 DEF FrameCount
<1> QED
  BY <1>2, <1>3 DEF r

-----------------------------------------------------------------------------
(* The local part of DeliveryInv, one context at a time: what is known of x,   *)
(* its flags, of d, its session, of m, its mappings, when its call is at p.    *)

Serving(x, d, p) ==
    /\ ~x.fatal /\ p # "unwind"
    /\ p \in {"drain", "wait"} => x.started
    /\ p = "sync" => x.open
    /\ d.fw # <<>> \/ d.cap # <<>> => x.started
    /\ p = "teardown" /\ "stop" \notin Faults => UnitCount(d) = 0

Numbered(seq, d) ==
    /\ UnitCount(d) <= seq
    /\ \A i \in 1 .. Len(d.fw) :
          d.fw[i].field = 0 /\ d.fw[i].ts = Timestamp(seq) - (Len(d.fw) + 1 - i)
    /\ \A i \in 1 .. Len(d.cap) :
          ~d.cap[i].last => d.cap[i].ts = Timestamp(seq) - (UnitCount(d) + 1 - i)

Fits(d, p) == UnitCount(d) <= OutBuffers + (IF p = "drain" THEN 1 ELSE 0)

Held(seq, n, m) ==
    /\ HevcFifo => Len(m.fifo) = n
    /\ \A k \in 1 .. n :
          LET slot == m.ring[SlotOf(seq - k)]
          IN  /\ slot.used /\ slot.seq = seq - k
              /\ HevcFifo => m.fifo[n + 1 - k] = [target |-> slot.target, gen |-> slot.gen]

Serves(x, d, p, m) ==
    Serving(x, d, p) /\ Numbered(x.seq, d) /\ Fits(d, p) /\ Held(x.seq, UnitCount(d), m)

ServedInv == \A c \in Contexts : Serves(ctx[c], dev[c], pc[c], pend[c])

LEMMA ServedMeans ==
    DeliveryInv <=> /\ ServedInv
                    /\ sync.st = "blocked" => ctx[sync.c].open
                    /\ OwnGeneration /\ PendingAwaited
  BY DEF DeliveryInv, NothingFailed, SessionsServe, UnitsInOrder, UnitsFit, MappingsInOrder,
         UnitSlot, ServedInv, Serves, Serving, Numbered, Fits, Held

LEMMA UnitsCounted ==
    ASSUME NEW d \in SessionRecord
    PROVE  /\ UnitCount(d) \in Nat /\ Len(d.fw) \in Nat /\ FrameCount(d.cap) \in Nat
           /\ UnitCount(d) = Len(d.fw) + FrameCount(d.cap)
           /\ d.fw \in Seq(AccessUnit) /\ d.cap \in Seq(Frame)
<1>1. d.fw \in Seq(AccessUnit) /\ d.cap \in Seq(Frame)
  BY DEF SessionRecord
<1>2. Len(d.fw) \in Nat /\ FrameCount(d.cap) \in Nat
  BY <1>1, LenProperties, FramesCounted
<1> QED
  BY <1>1, <1>2 DEF UnitCount

LEMMA NothingCounted ==
    ASSUME NEW d, d.fw = <<>>, d.cap = <<>>
    PROVE  UnitCount(d) = 0
<1>1. Len(<<>>) = 0
  BY EmptySeq
<1> QED
  BY <1>1 DEF UnitCount, FrameCount

(* Less than a turn of target_ring apart, two pictures have two slots.        *)
LEMMA SlotsApart ==
    ASSUME NEW a \in Nat, NEW b \in Nat, a < b, b - a < RingSize
    PROVE  SlotOf(a) # SlotOf(b)
<1>1. RingSize \in Nat \ {0}
  BY DecodeAssumption
<1> DEFINE p == a \div RingSize
           q == b \div RingSize
<1>2. /\ p \in Int /\ q \in Int
      /\ a = RingSize * p + (a % RingSize) /\ b = RingSize * q + (b % RingSize)
  BY <1>1
<1> HIDE DEF p, q
<1>3. ASSUME a % RingSize = b % RingSize PROVE FALSE
  <2>1. b - a = RingSize * q - RingSize * p
    BY <1>1, <1>2, <1>3
  <2>2. b - a = RingSize * (q - p)
    BY <1>1, <1>2, <2>1
  <2> DEFINE k == q - p
  <2>3. k \in Int /\ RingSize * k = b - a
    BY <1>2, <2>2
  <2> HIDE DEF k
  <2>4. CASE k <= 0
    <3>1. RingSize * k <= 0
      BY <1>1, <2>3, <2>4
    <3> QED
      BY <2>3, <3>1
  <2>5. CASE k >= 1
    <3>1. RingSize * k >= RingSize
      BY <1>1, <2>3, <2>5
    <3> QED
      BY <1>1, <2>3, <3>1
  <2> QED
    BY <2>3, <2>4, <2>5
<1> QED
  BY <1>3 DEF SlotOf

-----------------------------------------------------------------------------
(* Sequence numbers along the queues                                          *)

(* In a session whose next unit gets timestamp t, the a units of q, and the   *)
(* frames of the b entries of q if n units are held from there on.            *)
UnitsStamped(q, a, t) ==
    \A i \in 1 .. a : q[i].field = 0 /\ q[i].ts = t - (a + 1 - i)
FramesStamped(q, b, t, n) ==
    \A i \in 1 .. b : ~q[i].last => q[i].ts = t - (n + 1 - i)

(* Sequence r goes on after the a entries of q, or starts with the second of  *)
(* its a + 1; ring "new" differs from "ring" in slot k only.                  *)
Continues(r, q, a) == \A i \in 1 .. a : r[i] = q[i]
Follows(r, q, a) == \A i \in 1 .. a : r[i] = q[i + 1]
SameBut(new, ring, k) == \A i \in 0 .. RingSize - 1 : i # k => new[i] = ring[i]

SameCount(e, d) == UnitCount(e) = UnitCount(d)

LEMMA NumberedMeans ==
    ASSUME NEW seq, NEW d
    PROVE  Numbered(seq, d) <=> /\ UnitCount(d) <= seq
                                /\ UnitsStamped(d.fw, Len(d.fw), Timestamp(seq))
                                /\ FramesStamped(d.cap, Len(d.cap), Timestamp(seq), UnitCount(d))
  BY DEF Numbered, UnitsStamped, FramesStamped

LEMMA StampsOfFed ==
    ASSUME NEW a \in Nat, NEW t \in Nat, NEW q, NEW r, UnitsStamped(q, a, t),
           Continues(r, q, a), r[a + 1].field = 0, r[a + 1].ts = t
    PROVE  UnitsStamped(r, a + 1, t + 1)
<1> SUFFICES ASSUME NEW i \in 1 .. a + 1
             PROVE  r[i].field = 0 /\ r[i].ts = (t + 1) - ((a + 1) + 1 - i)
  BY DEF UnitsStamped
<1>1. CASE i = a + 1
  <2>1. t = (t + 1) - ((a + 1) + 1 - i)
    BY <1>1
  <2> QED
    BY <1>1, <2>1
<1>2. CASE i # a + 1
  <2>1. i \in 1 .. a /\ t - (a + 1 - i) = (t + 1) - ((a + 1) + 1 - i)
    BY <1>2
  <2> QED
    BY <2>1 DEF UnitsStamped, Continues
<1> QED
  BY <1>1, <1>2

LEMMA StampsShift ==
    ASSUME NEW b \in Nat, NEW t \in Nat, NEW n \in Nat, NEW q, FramesStamped(q, b, t, n)
    PROVE  FramesStamped(q, b, t + 1, n + 1)
<1> SUFFICES ASSUME NEW i \in 1 .. b, ~q[i].last
             PROVE  q[i].ts = (t + 1) - ((n + 1) + 1 - i)
  BY DEF FramesStamped
<1>1. t - (n + 1 - i) = (t + 1) - ((n + 1) + 1 - i)
  OBVIOUS
<1> QED
  BY <1>1 DEF FramesStamped

LEMMA StampsOfDecoded ==
    ASSUME NEW a \in Nat \ {0}, NEW b \in Nat, NEW t \in Nat, NEW q, NEW r, NEW v, NEW w,
           UnitsStamped(q, a, t), FramesStamped(v, b, t, a + b),
           Follows(r, q, a - 1), Continues(w, v, b), w[b + 1].ts = q[1].ts
    PROVE  UnitsStamped(r, a - 1, t) /\ FramesStamped(w, b + 1, t, a + b)
<1>1. ASSUME NEW i \in 1 .. a - 1
      PROVE  r[i].field = 0 /\ r[i].ts = t - ((a - 1) + 1 - i)
  <2>1. i + 1 \in 1 .. a /\ t - (a + 1 - (i + 1)) = t - ((a - 1) + 1 - i)
    OBVIOUS
  <2> QED
    BY <2>1 DEF UnitsStamped, Follows
<1>2. ASSUME NEW i \in 1 .. b + 1, ~w[i].last PROVE w[i].ts = t - ((a + b) + 1 - i)
  <2>1. CASE i = b + 1
    <3>1. 1 \in 1 .. a /\ t - (a + 1 - 1) = t - ((a + b) + 1 - i)
      BY <2>1
    <3>2. q[1].ts = t - (a + 1 - 1)
      BY <3>1 DEF UnitsStamped
    <3> QED
      BY <2>1, <3>1, <3>2
  <2>2. CASE i # b + 1
    <3>1. i \in 1 .. b
      BY <2>2
    <3> QED
      BY <1>2, <3>1 DEF FramesStamped, Continues
  <2> QED
    BY <2>1, <2>2
<1> QED
  BY <1>1, <1>2 DEF UnitsStamped, FramesStamped

LEMMA StampsOfLast ==
    ASSUME NEW b \in Nat, NEW t, NEW n, NEW q, NEW r, FramesStamped(q, b, t, n),
           Continues(r, q, b), r[b + 1].last
    PROVE  FramesStamped(r, b + 1, t, n)
<1> SUFFICES ASSUME NEW i \in 1 .. b + 1, ~r[i].last PROVE r[i].ts = t - (n + 1 - i)
  BY DEF FramesStamped
<1>1. i \in 1 .. b
  <2>1. i # b + 1
    OBVIOUS
  <2> QED
    BY <2>1
<1> QED
  BY <1>1 DEF FramesStamped, Continues

LEMMA StampsOfTaken ==
    ASSUME NEW b \in Nat \ {0}, NEW t \in Nat, NEW n \in Nat, NEW q, NEW r,
           FramesStamped(q, b, t, n), Follows(r, q, b - 1)
    PROVE  FramesStamped(r, b - 1, t, n - 1)
<1> SUFFICES ASSUME NEW i \in 1 .. b - 1, ~r[i].last
             PROVE  r[i].ts = t - ((n - 1) + 1 - i)
  BY DEF FramesStamped
<1>1. i + 1 \in 1 .. b /\ t - (n + 1 - (i + 1)) = t - ((n - 1) + 1 - i)
  OBVIOUS
<1> QED
  BY <1>1 DEF FramesStamped, Follows

(* The same along the mappings: n slots of a ring, and the FIFO q.            *)
RingHolds(seq, n, ring) ==
    \A k \in 1 .. n : ring[SlotOf(seq - k)].used /\ ring[SlotOf(seq - k)].seq = seq - k
Entry(slot) == [target |-> slot.target, gen |-> slot.gen]
FifoHolds(seq, n, ring, q) ==
    \A k \in 1 .. n : q[n + 1 - k] = Entry(ring[SlotOf(seq - k)])

LEMMA HeldMeans ==
    ASSUME NEW seq, NEW n, NEW m
    PROVE  Held(seq, n, m) <=> /\ RingHolds(seq, n, m.ring)
                               /\ HevcFifo => /\ Len(m.fifo) = n
                                              /\ FifoHolds(seq, n, m.ring, m.fifo)
  BY DEF Held, RingHolds, FifoHolds, Entry

LEMMA RingOfFed ==
    ASSUME NEW seq \in Nat, NEW n \in Nat, NEW ring, RingHolds(seq, n, ring),
           ring[SlotOf(seq)].used, ring[SlotOf(seq)].seq = seq
    PROVE  RingHolds(seq + 1, n + 1, ring)
<1> SUFFICES ASSUME NEW k \in 1 .. n + 1
             PROVE  /\ ring[SlotOf((seq + 1) - k)].used
                    /\ ring[SlotOf((seq + 1) - k)].seq = (seq + 1) - k
  BY DEF RingHolds
<1>1. CASE k = 1
  <2>1. (seq + 1) - k = seq
    BY <1>1
  <2> QED
    BY <2>1
<1>2. CASE k # 1
  <2>1. k - 1 \in 1 .. n /\ (seq + 1) - k = seq - (k - 1)
    BY <1>2
  <2> QED
    BY <2>1 DEF RingHolds
<1> QED
  BY <1>1, <1>2

LEMMA FifoOfFed ==
    ASSUME NEW seq \in Nat, NEW n \in Nat, NEW ring, NEW q, NEW r, FifoHolds(seq, n, ring, q),
           Continues(r, q, n), r[n + 1] = Entry(ring[SlotOf(seq)])
    PROVE  FifoHolds(seq + 1, n + 1, ring, r)
<1> SUFFICES ASSUME NEW k \in 1 .. n + 1
             PROVE  r[(n + 1) + 1 - k] = Entry(ring[SlotOf((seq + 1) - k)])
  BY DEF FifoHolds
<1>1. CASE k = 1
  <2>1. (seq + 1) - k = seq /\ (n + 1) + 1 - k = n + 1
    BY <1>1
  <2> QED
    BY <2>1
<1>2. CASE k # 1
  <2> DEFINE j == k - 1
  <2>1. /\ j \in 1 .. n /\ (seq + 1) - k = seq - j
        /\ (n + 1) + 1 - k = n + 1 - j /\ n + 1 - j \in 1 .. n
    BY <1>2
  <2> HIDE DEF j
  <2> QED
    BY <2>1 DEF FifoHolds, Continues
<1> QED
  BY <1>1, <1>2

(* Along n units, two rings have the same slots.                              *)
SameSlots(seq, n, new, ring) ==
    \A k \in 1 .. n : new[SlotOf(seq - k)] = ring[SlotOf(seq - k)]

LEMMA RingOfOthers ==
    ASSUME NEW seq \in Nat, NEW n \in Nat, NEW ring, NEW new, NEW j \in Nat,
           n <= seq, n < RingSize, RingHolds(seq, n, ring),
           j = 0 \/ j = n + 1, j <= seq, j <= RingSize,
           SameBut(new, ring, SlotOf(seq - j))
    PROVE  RingHolds(seq, n, new) /\ SameSlots(seq, n, new, ring)
<1>1. ASSUME NEW k \in 1 .. n PROVE new[SlotOf(seq - k)] = ring[SlotOf(seq - k)]
  <2>1. seq - k \in Nat /\ seq - j \in Nat /\ RingSize \in Nat
    BY DecodeAssumption
  <2>2. SlotOf(seq - k) # SlotOf(seq - j)
    <3>1. CASE j = 0
      <4>1. seq - k < seq - j /\ (seq - j) - (seq - k) < RingSize
        BY <2>1, <3>1
      <4> QED
        BY <2>1, <4>1, SlotsApart
    <3>2. CASE j = n + 1
      <4>1. seq - j < seq - k /\ (seq - k) - (seq - j) < RingSize
        BY <2>1, <3>2
      <4> QED
        BY <2>1, <4>1, SlotsApart
    <3> QED
      BY <3>1, <3>2
  <2>3. SlotOf(seq - k) \in 0 .. RingSize - 1
    BY <2>1, SlotInRing
  <2> QED
    BY <2>2, <2>3 DEF SameBut
<1> QED
  BY <1>1 DEF RingHolds, SameSlots

LEMMA FifoOfTaken ==
    ASSUME NEW seq \in Nat, NEW n \in Nat, NEW ring, NEW new, NEW q, NEW r,
           FifoHolds(seq, n + 1, ring, q), Follows(r, q, n), SameSlots(seq, n, new, ring)
    PROVE  FifoHolds(seq, n, new, r)
<1> SUFFICES ASSUME NEW k \in 1 .. n
             PROVE  r[n + 1 - k] = Entry(new[SlotOf(seq - k)])
  BY DEF FifoHolds
<1>1. n + 1 - k \in 1 .. n /\ (n + 1 - k) + 1 = (n + 1) + 1 - k /\ k \in 1 .. n + 1
  OBVIOUS
<1> QED
  BY <1>1 DEF FifoHolds, Follows, SameSlots

LEMMA HoldsLess ==
    ASSUME NEW seq, NEW n \in Nat, NEW ring, RingHolds(seq, n + 1, ring)
    PROVE  RingHolds(seq, n, ring)
  BY DEF RingHolds

-----------------------------------------------------------------------------
(* What becomes of a context that serves                                      *)

(* A step of one context.                                                     *)
LEMMA OneServes ==
    ASSUME ServedInv, NEW c \in Contexts,
           \A d \in Contexts \ {c} : /\ ctx'[d] = ctx[d] /\ dev'[d] = dev[d]
                                     /\ pc'[d] = pc[d] /\ pend'[d] = pend[d],
           Serves(ctx'[c], dev'[c], pc'[c], pend'[c])
    PROVE  ServedInv'
<1>1. \A d \in Contexts : Serves(ctx'[d], dev'[d], pc'[d], pend'[d])
  BY DEF ServedInv
<1> QED
  BY <1>1 DEF ServedInv, Serves, Serving, Numbered, Fits, Held, UnitCount, FrameCount

(* An empty session, just drained, closed, or never opened.                   *)
LEMMA NothingServed ==
    ASSUME NEW x \in ContextRecord, NEW d, NEW m, NEW p, ~x.fatal,
           d.fw = <<>>, d.cap = <<>>,
           p \notin {"unwind", "drain", "wait", "sync"}, HevcFifo => Len(m.fifo) = 0
    PROVE  Serves(x, d, p, m) /\ UnitCount(d) = 0
<1>1. Len(<<>>) = 0 /\ x.seq \in Nat /\ OutBuffers \in Nat
  BY EmptySeq, DecodeAssumption DEF ContextRecord
<1>2. UnitCount(d) = 0
  BY NothingCounted
<1> QED
  BY <1>1, <1>2 DEF Serves, Serving, Numbered, Fits, Held

(* The flags change, and the session keeps its units and mappings.            *)
LEMMA FlagsServe ==
    ASSUME NEW x, NEW y, NEW d \in SessionRecord, NEW e \in SessionRecord,
           NEW p, NEW q, NEW m, Serves(x, d, p, m),
           y.seq = x.seq, e.fw = d.fw, e.cap = d.cap, Serving(y, e, q),
           p = "drain" /\ q # "drain" => d.cap = <<>> /\ Len(d.fw) <= OutBuffers
    PROVE  Serves(y, e, q, m)
<1>1. UnitCount(e) = UnitCount(d) /\ UnitCount(d) = Len(d.fw) + FrameCount(d.cap)
      /\ Len(d.fw) \in Nat /\ FrameCount(d.cap) \in Nat /\ OutBuffers \in Nat
      /\ (d.cap = <<>> => FrameCount(d.cap) = 0)
  BY UnitsCounted, FramesCounted, DecodeAssumption DEF UnitCount
<1>2. Fits(e, q)
  BY <1>1 DEF Serves, Fits
<1> QED
  BY <1>1, <1>2 DEF Serves, Numbered

(* The target of the picture with the next sequence number gets its slot.     *)
LEMMA ClaimServes ==
    ASSUME NEW x \in ContextRecord, NEW d \in SessionRecord, NEW m, NEW w,
           Serves(x, d, "prepare", m), x.open, w.fifo = m.fifo,
           SameBut(w.ring, m.ring, SlotOf(x.seq))
    PROVE  Serves(x, d, "feed", w)
<1> DEFINE n == UnitCount(d)
           seq == x.seq
<1>1. /\ n \in Nat /\ n <= seq /\ seq \in Nat /\ n < RingSize
      /\ RingSize \in Nat /\ RingHolds(seq, n, m.ring)
      /\ HevcFifo => Len(m.fifo) = n /\ FifoHolds(seq, n, m.ring, m.fifo)
  BY UnitsCounted, HeldMeans, DecodeAssumption DEF Serves, Numbered, Fits, ContextRecord
<1>2. 0 \in Nat /\ 0 <= seq /\ 0 <= RingSize /\ seq - 0 = seq
  BY <1>1
<1> HIDE DEF n, seq
<1>3. RingHolds(seq, n, w.ring) /\ SameSlots(seq, n, w.ring, m.ring)
  <2>1. SameBut(w.ring, m.ring, SlotOf(seq - 0))
    BY <1>2 DEF seq
  <2> QED
    BY <1>1, <1>2, <2>1, RingOfOthers
<1>4. FifoHolds(seq, n, m.ring, m.fifo) => FifoHolds(seq, n, w.ring, w.fifo)
  BY <1>3 DEF FifoHolds, SameSlots
<1>5. Held(seq, n, w)
  BY <1>1, <1>3, <1>4, HeldMeans
<1> QED
  BY <1>5 DEF Serves, Serving, Fits, n, seq

(* A unit is fed: it is the newest, its slot was claimed before.              *)
LEMMA FeedServes ==
    ASSUME NEW x \in ContextRecord, NEW y \in ContextRecord,
           NEW d \in SessionRecord, NEW e \in SessionRecord,
           NEW m \in PendingRecord, NEW w \in PendingRecord, NEW u \in AccessUnit,
           Serves(x, d, "feed", m),
           y.seq = x.seq + 1, y.started, ~y.fatal,
           e.fw = Append(d.fw, u), e.cap = d.cap,
           u.field = 0, u.ts = Timestamp(x.seq),
           w.ring = m.ring,
           m.ring[SlotOf(x.seq)].used, m.ring[SlotOf(x.seq)].seq = x.seq,
           HevcFifo => w.fifo = Append(m.fifo, Entry(m.ring[SlotOf(x.seq)]))
    PROVE  Serves(y, e, "drain", w) /\ UnitCount(e) = UnitCount(d) + 1
<1> DEFINE n == UnitCount(d)
           a == Len(d.fw)
           t == Timestamp(x.seq)
           seq == x.seq
<1>1. /\ n \in Nat /\ a \in Nat /\ n <= seq /\ seq \in Nat /\ n <= OutBuffers
      /\ OutBuffers \in Nat /\ n = a + FrameCount(d.cap) /\ FrameCount(d.cap) \in Nat
  BY UnitsCounted, DecodeAssumption DEF Serves, Numbered, Fits, ContextRecord
<1>2. /\ t \in Nat /\ Timestamp(y.seq) = t + 1
  BY <1>1 DEF Timestamp
<1>3. Len(e.fw) = a + 1 /\ e.fw[a + 1] = u /\ Continues(e.fw, d.fw, a)
  BY UnitsCounted, AppendProperties DEF Continues
<1>4. UnitCount(e) = n + 1
  BY <1>1, <1>3 DEF UnitCount
<1>5. /\ UnitsStamped(d.fw, a, t) /\ FramesStamped(d.cap, Len(d.cap), t, n)
      /\ Len(d.cap) \in Nat
  BY UnitsCounted, LenProperties, NumberedMeans DEF Serves
<1>6. RingHolds(seq, n, m.ring) /\ (HevcFifo => Len(m.fifo) = n /\ FifoHolds(seq, n, m.ring, m.fifo))
  BY HeldMeans DEF Serves
<1>7. /\ Serving(y, e, "drain") /\ y.seq = seq + 1
      /\ w.ring = m.ring /\ m.ring[SlotOf(seq)].used /\ m.ring[SlotOf(seq)].seq = seq
      /\ HevcFifo => w.fifo = Append(m.fifo, Entry(m.ring[SlotOf(seq)]))
  BY DEF Serving
<1> HIDE DEF n, a, t, seq
<1>8. Numbered(y.seq, e)
  <2>1. UnitsStamped(e.fw, a + 1, t + 1)
    BY <1>1, <1>2, <1>3, <1>5, StampsOfFed DEF t
  <2>2. FramesStamped(e.cap, Len(e.cap), t + 1, n + 1)
    BY <1>1, <1>2, <1>5, StampsShift
  <2>3. n + 1 <= y.seq
    BY <1>1, <1>7
  <2> QED
    BY <1>2, <1>3, <1>4, <2>1, <2>2, <2>3, NumberedMeans
<1>9. Held(y.seq, n + 1, w)
  <2>1. RingHolds(seq + 1, n + 1, w.ring)
    BY <1>1, <1>6, <1>7, RingOfFed
  <2>2. ASSUME HevcFifo
        PROVE  Len(w.fifo) = n + 1 /\ FifoHolds(seq + 1, n + 1, w.ring, w.fifo)
    <3> DEFINE g == Entry(m.ring[SlotOf(seq)])
    <3>1. m.fifo \in Seq(Mapping) /\ Len(m.fifo) = n /\ w.fifo = Append(m.fifo, g)
      BY <1>6, <1>7, <2>2 DEF PendingRecord
    <3> HIDE DEF g
    <3>2. Len(w.fifo) = n + 1 /\ w.fifo[n + 1] = g /\ Continues(w.fifo, m.fifo, n)
      BY <3>1, AppendProperties DEF Continues
    <3> QED
      BY <1>1, <1>6, <1>7, <2>2, <3>2, FifoOfFed DEF g
  <2> QED
    BY <1>7, <2>1, <2>2, HeldMeans
<1>10. Fits(e, "drain")
  BY <1>1, <1>4 DEF Fits
<1> QED
  BY <1>4, <1>7, <1>8, <1>9, <1>10 DEF Serves, n

(* The firmware turns its first unit into the newest frame.                   *)
LEMMA DecodeServes ==
    ASSUME NEW x \in ContextRecord, NEW p, NEW m,
           NEW d \in SessionRecord, NEW e \in SessionRecord, NEW f \in Frame,
           Serves(x, d, p, m), x.started, LastAtEnd(d.cap, FALSE),
           d.fw # <<>>, Len(e.fw) = Len(d.fw) - 1,
           Follows(e.fw, d.fw, Len(d.fw) - 1),
           e.cap = Append(d.cap, f), ~f.last, f.ts = d.fw[1].ts
    PROVE  Serves(x, e, p, m) /\ SameCount(e, d)
<1> DEFINE n == UnitCount(d)
           a == Len(d.fw)
           b == Len(d.cap)
           t == Timestamp(x.seq)
<1>1. /\ a \in Nat \ {0} /\ b \in Nat /\ d.cap \in Seq(Frame) /\ x.seq \in Nat
      /\ n = a + FrameCount(d.cap) /\ n <= x.seq
  BY UnitsCounted, LenProperties, EmptySeq DEF Serves, Numbered, ContextRecord
<1>2. FrameCount(d.cap) = b /\ FrameCount(e.cap) = b + 1
  BY <1>1, FramesOfAppend
<1>3. Len(e.cap) = b + 1 /\ e.cap[b + 1] = f /\ Continues(e.cap, d.cap, b)
  BY <1>1, AppendProperties DEF Continues
<1>4. UnitCount(e) = n /\ n = a + b /\ t \in Nat
  <2>1. UnitCount(e) = (a - 1) + (b + 1)
    BY <1>2 DEF UnitCount
  <2>2. n = a + b /\ t \in Nat
    BY <1>1, <1>2 DEF Timestamp
  <2> HIDE DEF a, b, n, t
  <2>3. (a - 1) + (b + 1) = a + b
    BY <1>1
  <2> QED
    BY <2>1, <2>2, <2>3
<1>5. UnitsStamped(d.fw, a, t) /\ FramesStamped(d.cap, b, t, n)
  BY NumberedMeans DEF Serves
<1>6. Len(e.fw) = a - 1 /\ Follows(e.fw, d.fw, a - 1) /\ f.ts = d.fw[1].ts
  OBVIOUS
<1>7. Serving(x, e, p) /\ Fits(e, p) /\ Held(x.seq, n, m)
  BY <1>4 DEF Serves, Serving, Fits
<1> HIDE DEF n, a, b, t
<1>8. UnitsStamped(e.fw, a - 1, t) /\ FramesStamped(e.cap, b + 1, t, a + b)
  BY <1>1, <1>3, <1>4, <1>5, <1>6, StampsOfDecoded
<1>9. Numbered(x.seq, e)
  BY <1>1, <1>3, <1>4, <1>6, <1>8, NumberedMeans DEF t
<1> QED
  BY <1>4, <1>7, <1>9 DEF Serves, SameCount, n

(* LAST is no unit, neither when it comes nor when it goes.                   *)
LEMMA LastServes ==
    ASSUME NEW x, NEW p, NEW m, NEW d \in SessionRecord, NEW e \in SessionRecord,
           Serves(x, d, p, m), x.started, LastAtEnd(d.cap, FALSE),
           e.fw = d.fw, e.cap = Append(d.cap, LastMarker)
    PROVE  Serves(x, e, p, m) /\ SameCount(e, d)
<1> DEFINE n == UnitCount(d)
           b == Len(d.cap)
           t == Timestamp(x.seq)
<1>1. /\ n \in Nat /\ d.cap \in Seq(Frame)
      /\ n = Len(d.fw) + FrameCount(d.cap) /\ b \in Nat
  BY UnitsCounted, LenProperties
<1>2. LastMarker \in Frame /\ LastMarker.last
  BY DEF LastMarker, Frame, Black, Pixels
<1>3. FrameCount(d.cap) = b /\ FrameCount(e.cap) = b
  <2>1. FrameCount(e.cap) = b + 0
    BY <1>1, <1>2, FramesOfAppend
  <2>2. FrameCount(d.cap) = b
    BY <1>1, <1>2, FramesOfAppend
  <2> QED
    BY <1>1, <2>1, <2>2
<1>4. Len(e.cap) = b + 1 /\ e.cap[b + 1].last /\ Continues(e.cap, d.cap, b)
  BY <1>1, <1>2, AppendProperties DEF Continues
<1>5. UnitCount(e) = n
  BY <1>1, <1>3 DEF UnitCount
<1>6. /\ n <= x.seq /\ UnitsStamped(d.fw, Len(d.fw), t) /\ FramesStamped(d.cap, b, t, n)
  BY NumberedMeans DEF Serves
<1>7. Serving(x, e, p) /\ Fits(e, p) /\ Held(x.seq, n, m)
  BY <1>5 DEF Serves, Serving, Fits
<1> HIDE DEF n, b, t
<1>8. FramesStamped(e.cap, b + 1, t, n)
  BY <1>1, <1>4, <1>6, StampsOfLast
<1>9. Numbered(x.seq, e)
  BY <1>4, <1>5, <1>6, <1>8, NumberedMeans DEF t
<1> QED
  BY <1>5, <1>7, <1>9 DEF Serves, SameCount, n

(* The oldest unit, at the head of the CAPTURE queue, and its mapping leave.  *)
LEMMA TakeServes ==
    ASSUME NEW x \in ContextRecord, NEW p, NEW d \in SessionRecord, NEW e \in SessionRecord,
           NEW m \in PendingRecord, NEW w, NEW sent,
           Serves(x, d, p, m), LastAtEnd(d.cap, sent), d.cap # <<>>, ~Head(d.cap).last,
           e.fw = d.fw, e.cap = Tail(d.cap), p # "teardown",
           SameBut(w.ring, m.ring, SlotOf(x.seq - UnitCount(d))),
           HevcFifo => w.fifo = Tail(m.fifo)
    PROVE  Serves(x, e, p, w) /\ UnitCount(e) = UnitCount(d) - 1 /\ UnitCount(d) >= 1
<1> DEFINE n == UnitCount(d)
           b == Len(d.cap)
           t == Timestamp(x.seq)
           seq == x.seq
           k == n - 1
<1>1. /\ n \in Nat /\ Len(d.fw) \in Nat /\ d.cap \in Seq(Frame)
      /\ n = Len(d.fw) + FrameCount(d.cap) /\ b \in Nat /\ FrameCount(d.cap) \in Nat
  BY UnitsCounted, LenProperties
<1>2. /\ Len(e.cap) = b - 1 /\ b \in Nat \ {0}
      /\ Follows(e.cap, d.cap, b - 1)
  BY <1>1, HeadTailProperties, EmptySeq DEF Follows
<1>3. FrameCount(e.cap) = FrameCount(d.cap) - 1 /\ FrameCount(e.cap) \in Nat
  <2>1. FrameCount(e.cap) = FrameCount(d.cap) - 1
    BY <1>1, FramesOfTail
  <2> QED
    BY <2>1, UnitsCounted
<1>4. UnitCount(e) = k /\ k \in Nat /\ n = k + 1
  BY <1>1, <1>3 DEF UnitCount
<1>5. /\ UnitsStamped(d.fw, Len(d.fw), t) /\ FramesStamped(d.cap, b, t, n)
      /\ n <= seq /\ seq \in Nat /\ n <= OutBuffers + 1 /\ t \in Nat
  <2>1. Numbered(x.seq, d) /\ Fits(d, p) /\ OutBuffers \in Nat /\ x.seq \in Nat
    BY DecodeAssumption DEF Serves, ContextRecord
  <2>2. n <= OutBuffers + 1
    BY <1>1, <2>1 DEF Fits
  <2> QED
    BY <2>1, <2>2, NumberedMeans DEF Timestamp
<1>6. OutBuffers \in Nat /\ RingSize \in Nat /\ OutBuffers + 1 <= RingSize
  BY DecodeAssumption
<1>7. /\ RingHolds(seq, n, m.ring)
      /\ HevcFifo => Len(m.fifo) = n /\ FifoHolds(seq, n, m.ring, m.fifo)
  BY HeldMeans DEF Serves
<1>8. Serving(x, e, p) /\ Fits(e, p)
  <2>1. Serving(x, d, p) /\ Fits(d, p) /\ x.started
    BY DEF Serves, Serving
  <2>2. Serving(x, e, p)
    BY <2>1 DEF Serving
  <2>3. Fits(e, p)
    BY <1>4, <1>6, <2>1 DEF Fits
  <2> QED
    BY <2>2, <2>3
<1>9. SameBut(w.ring, m.ring, SlotOf(seq - n))
  OBVIOUS
<1> HIDE DEF b, n, t, seq, k
<1>10. FramesStamped(e.cap, b - 1, t, k)
  <2>1. FramesStamped(e.cap, b - 1, t, n - 1)
    BY <1>1, <1>2, <1>5, StampsOfTaken
  <2> QED
    BY <2>1 DEF k
<1>11. Numbered(seq, e)
  <2>1. k <= seq
    BY <1>4, <1>5
  <2> QED
    BY <1>2, <1>4, <1>5, <1>10, <2>1, NumberedMeans DEF t, seq
<1>12. RingHolds(seq, k, w.ring) /\ SameSlots(seq, k, w.ring, m.ring)
  <2>1. RingHolds(seq, k, m.ring)
    BY <1>4, <1>7, HoldsLess
  <2>2. k <= seq /\ k < RingSize /\ n <= RingSize /\ n = k + 1
    BY <1>4, <1>5, <1>6
  <2> QED
    BY <1>1, <1>4, <1>5, <1>9, <2>1, <2>2, RingOfOthers
<1>13. ASSUME HevcFifo PROVE Len(w.fifo) = k /\ FifoHolds(seq, k, w.ring, w.fifo)
  <2>1. m.fifo \in Seq(Mapping) /\ Len(m.fifo) = n /\ w.fifo = Tail(m.fifo)
    BY <1>7, <1>13 DEF PendingRecord
  <2>2. m.fifo # <<>>
    BY <1>4, <2>1, EmptySeq
  <2>3. Len(w.fifo) = n - 1 /\ Follows(w.fifo, m.fifo, n - 1)
    BY <2>1, <2>2, HeadTailProperties DEF Follows
  <2>4. Len(w.fifo) = k /\ Follows(w.fifo, m.fifo, k)
    BY <2>3 DEF k
  <2>5. FifoHolds(seq, k + 1, m.ring, m.fifo)
    BY <1>4, <1>7, <1>13
  <2>6. FifoHolds(seq, k, w.ring, w.fifo)
    BY <1>4, <1>5, <1>12, <2>4, <2>5, FifoOfTaken
  <2> QED
    BY <2>4, <2>6
<1>14. Held(seq, k, w)
  BY <1>12, <1>13, HeldMeans
<1>15. UnitCount(e) = n - 1 /\ n >= 1
  BY <1>1, <1>4
<1> QED
  BY <1>4, <1>8, <1>11, <1>14, <1>15 DEF Serves, seq, n

(* Removing the first unit of a queue leaves those that follow it.            *)
LEMMA RemovedFirst ==
    ASSUME NEW S, NEW q \in Seq(S), q # <<>>
    PROVE  /\ Len(Removed(q, 1, 1)) = Len(q) - 1
           /\ Follows(Removed(q, 1, 1), q, Len(q) - 1)
<1> DEFINE l == SubSeq(q, 1, 1 - 1)
           r == SubSeq(q, 1 + 1, Len(q))
<1>1. Len(q) \in Nat /\ Len(q) >= 1 /\ \A j \in 1 .. Len(q) : q[j] \in S
  BY LenProperties, ElementOfSeq, EmptySeq
<1>2. l \in Seq(S) /\ Len(l) = 0
  <2>1. \A j \in 1 .. 1 - 1 : q[j] \in S
    BY <1>1
  <2>2. 1 \in Int /\ 1 - 1 \in Int
    OBVIOUS
  <2>3. l \in Seq(S) /\ Len(l) = IF 1 <= 1 - 1 THEN 1 - 1 - 1 + 1 ELSE 0
    BY <2>1, <2>2, SubSeqProperties
  <2> QED
    BY <2>3
<1>3. /\ r \in Seq(S) /\ Len(r) = Len(q) - 1
      /\ \A k \in 1 .. Len(q) - 1 : r[k] = q[k + 1]
  <2>1. \A j \in 1 + 1 .. Len(q) : q[j] \in S
    BY <1>1
  <2>2. 1 + 1 \in Int /\ Len(q) \in Int
    BY <1>1
  <2>3. /\ r \in Seq(S)
        /\ Len(r) = IF 1 + 1 <= Len(q) THEN Len(q) - (1 + 1) + 1 ELSE 0
        /\ \A k \in 1 .. Len(q) - (1 + 1) + 1 : r[k] = q[1 + 1 + k - 1]
    BY <2>1, <2>2, SubSeqProperties
  <2> HIDE DEF r
  <2>4. Len(r) = Len(q) - 1
    <3> DEFINE n == Len(q)
               m == Len(r)
    <3>1. n \in Nat /\ n >= 1
      BY <1>1
    <3>2. m = IF 1 + 1 <= n THEN n - (1 + 1) + 1 ELSE 0
      BY <2>3
    <3> HIDE DEF n, m
    <3>3. m = n - 1
      BY <3>1, <3>2
    <3> QED
      BY <3>3 DEF n, m
  <2>5. ASSUME NEW k \in 1 .. Len(q) - 1 PROVE r[k] = q[k + 1]
    <3>1. k \in 1 .. Len(q) - (1 + 1) + 1 /\ 1 + 1 + k - 1 = k + 1
      BY <1>1
    <3> QED
      BY <2>3, <3>1
  <2> QED
    BY <2>3, <2>4, <2>5
<1>4. Removed(q, 1, 1) = l \o r
  BY DEF Removed
<1> HIDE DEF l, r
<1>5. /\ Len(l \o r) = Len(l) + Len(r)
      /\ \A k \in 1 .. Len(l) + Len(r) :
            (l \o r)[k] = IF k <= Len(l) THEN l[k] ELSE r[k - Len(l)]
  BY <1>2, <1>3, ConcatProperties, Zenon
<1>6. Len(l \o r) = Len(q) - 1
  BY <1>1, <1>2, <1>3, <1>5
<1>7. ASSUME NEW k \in 1 .. Len(q) - 1 PROVE (l \o r)[k] = q[k + 1]
  <2>1. (l \o r)[k] = r[k - 0] /\ k - 0 = k
    BY <1>1, <1>2, <1>3, <1>5
  <2> QED
    BY <1>3, <2>1
<1> QED
  BY <1>4, <1>6, <1>7 DEF Follows

-----------------------------------------------------------------------------
(* The steps of Decode                                                        *)

DeliverySafe ==
    /\ TypeOK /\ OwnershipInv /\ SessionInv /\ PairingInv /\ OneCall
    /\ SessionsEnd /\ DeliveryInv

LEMMA ServedAt ==
    ASSUME DeliverySafe, NEW c \in Contexts
    PROVE  /\ Serves(ctx[c], dev[c], pc[c], pend[c]) /\ Ended(ctx[c], dev[c], pc[c])
           /\ ServedInv /\ TypeOK
           /\ ctx[c] \in ContextRecord /\ dev[c] \in SessionRecord /\ pend[c] \in PendingRecord
           /\ dev[c].cap \in Seq(Frame) /\ dev[c].fw \in Seq(AccessUnit)
           /\ ~ctx[c].fatal /\ pc[c] # "unwind"
  BY SessionsEndIsEnded, ServedMeans
  DEF DeliverySafe, ServedInv, TypeOK, SessionRecord, Serves, Serving

(* A call goes on at q, and nothing else changes.                             *)
LEMMA MovesServe ==
    ASSUME DeliverySafe, NEW c \in Contexts, NEW q, UNCHANGED <<ctx, dev, pend>>,
           pc' = [pc EXCEPT ![c] = q], Serves(ctx[c], dev[c], q, pend[c])
    PROVE  ServedInv'
<1>1. pc'[c] = q /\ \A d \in Contexts \ {c} : pc'[d] = pc[d]
  BY ServedAt DEF TypeOK
<1> QED
  BY <1>1, ServedAt, OneServes

LEMMA StopServes ==
    ASSUME DeliverySafe, NEW c \in Contexts, NEW q \in {"boundary", "destroy"},
           UNCHANGED pend, pc[c] = "idle", StopSession(c, q)
    PROVE  ServedInv'
<1> DEFINE x == [ctx[c] EXCEPT !.eos = TRUE]
           d == [dev[c] EXCEPT !.stop = TRUE]
<1>1. TypeOK /\ ctx[c] \in ContextRecord /\ dev[c] \in SessionRecord
      /\ Serves(ctx[c], dev[c], pc[c], pend[c]) /\ ServedInv
  BY ServedAt
<1>2. ctx' = [ctx EXCEPT ![c] = x] /\ dev' = [dev EXCEPT ![c] = d] /\ pc' = [pc EXCEPT ![c] = q]
  BY <1>1 DEF TypeOK, StopSession
<1>3. /\ x.seq = ctx[c].seq /\ x.started = ctx[c].started /\ x.fatal = ctx[c].fatal
      /\ d.fw = dev[c].fw /\ d.cap = dev[c].cap /\ d \in SessionRecord
  BY <1>1 DEF ContextRecord, SessionRecord
<1> HIDE DEF x, d
<1>4. Serving(x, d, q)
  BY <1>1, <1>3 DEF Serves, Serving
<1>5. Serves(x, d, q, pend[c])
  BY <1>1, <1>3, <1>4, FlagsServe
<1>6. /\ ctx'[c] = x /\ dev'[c] = d /\ pc'[c] = q
      /\ \A e \in Contexts \ {c} : ctx'[e] = ctx[e] /\ dev'[e] = dev[e] /\ pc'[e] = pc[e]
  BY <1>1, <1>2 DEF TypeOK
<1> QED
  BY <1>1, <1>5, <1>6, OneServes

(* The entries of calls.  Without failures a session that was stopped is      *)
(* being drained, so that no call finds one.                                  *)
LEMMA ClientServes ==
    ASSUME DeliverySafe, NEW c \in Contexts, Client(c)
    PROVE  ServedInv'
<1>1. /\ TypeOK /\ ctx[c] \in ContextRecord /\ dev[c] \in SessionRecord
      /\ Serves(ctx[c], dev[c], pc[c], pend[c]) /\ Ended(ctx[c], dev[c], pc[c])
      /\ ServedInv /\ ~ctx[c].fatal
  BY ServedAt
<1>2. pc[c] = "idle" => ~ctx[c].eos
  BY <1>1 DEF Ended
<1>3. ASSUME NEW q \in {"prepare", "teardown"}, pc[c] = "idle",
             q = "teardown" /\ "stop" \notin Faults => ~ctx[c].started
      PROVE  Serves(ctx[c], dev[c], q, pend[c])
  <2>1. ~ctx[c].started => UnitCount(dev[c]) = 0
    <3>1. ~ctx[c].started => dev[c].fw = <<>> /\ dev[c].cap = <<>>
      BY <1>1 DEF Serves, Serving
    <3> QED
      BY <3>1, NothingCounted
  <2>2. Serving(ctx[c], dev[c], q)
    BY <1>1, <1>3, <2>1 DEF Serves, Serving
  <2> QED
    BY <1>1, <1>3, <2>2, FlagsServe
<1>4. CASE CreateContext(c)
  <2> DEFINE x == [ctx[c] EXCEPT !.life = "live"]
  <2>1. ctx' = [ctx EXCEPT ![c] = x] /\ UNCHANGED <<dev, pc, pend>>
    BY <1>1, <1>4 DEF TypeOK, CreateContext
  <2>2. /\ x.started = ctx[c].started /\ x.open = ctx[c].open /\ x.seq = ctx[c].seq
        /\ x.fatal = ctx[c].fatal
    BY <1>1 DEF ContextRecord
  <2> HIDE DEF x
  <2>3. Serves(x, dev[c], pc[c], pend[c])
    BY <1>1, <2>2 DEF Serves, Serving
  <2>4. ctx'[c] = x /\ \A d \in Contexts \ {c} : ctx'[d] = ctx[d]
    BY <1>1, <2>1 DEF TypeOK
  <2> QED
    BY <1>1, <2>1, <2>3, <2>4, OneServes
<1>5. CASE UNCHANGED <<ctx, dev, pc, pend>>
  BY <1>1, <1>5, OneServes
<1>6. CASE \E ra, cue \in BOOLEAN : EndPicture(c, ra, cue)
  <2>1. pc[c] = "idle" /\ UNCHANGED pend
    BY <1>6 DEF EndPicture, MayCall
  <2>2. \/ UNCHANGED <<ctx, dev>> /\ pc' = [pc EXCEPT ![c] = "prepare"]
        \/ StopSession(c, "boundary")
    BY <1>2, <1>6, <2>1 DEF EndPicture
  <2>3. CASE StopSession(c, "boundary")
    BY <2>1, <2>3, StopServes
  <2>4. CASE UNCHANGED <<ctx, dev>> /\ pc' = [pc EXCEPT ![c] = "prepare"]
    BY <1>3, <2>1, <2>4, MovesServe
  <2> QED
    BY <2>2, <2>3, <2>4
<1>7. CASE DestroyContext(c)
  <2>1. pc[c] = "idle" /\ UNCHANGED pend
    BY <1>7 DEF DestroyContext, MayCall
  <2>2. CASE StopSession(c, "destroy")
    BY <2>1, <2>2, StopServes
  <2>3. CASE /\ Drainable(c) => "stop" \in Faults
             /\ UNCHANGED <<ctx, dev>> /\ pc' = [pc EXCEPT ![c] = "teardown"]
    <3>1. "stop" \notin Faults => ~ctx[c].started
      BY <1>1, <1>2, <2>1, <2>3 DEF Drainable
    <3> QED
      BY <1>3, <2>1, <2>3, <3>1, MovesServe
  <2> QED
    BY <1>7, <2>2, <2>3 DEF DestroyContext
<1>8. (\E s \in Surfaces, field \in 0 .. 2, poc \in Pocs : BeginPicture(c, s, field, poc))
        \/ EndPictureFails(c) => UNCHANGED <<ctx, dev, pc, pend>>
  BY DEF BeginPicture, EndPictureFails
<1> QED
  BY <1>4, <1>5, <1>6, <1>7, <1>8 DEF Client

(* What cannot happen while nothing fails.                                    *)
LEMMA NoFailure ==
    ASSUME DeliverySafe, Reliable, NEW c \in Contexts
    PROVE  /\ ~SubmitFails(c) /\ ~StartFails(c) /\ ~Unwind(c) /\ ~CallFails(c) /\ ~FwDrop(c)
           /\ TimesOut(c) => pc[c] \in {"wait", "sync"}
           /\ OpenSession(c) => ~ctx[c].open /\ ~ctx[c].eos
<1>1. /\ Serves(ctx[c], dev[c], pc[c], pend[c]) /\ Ended(ctx[c], dev[c], pc[c])
      /\ dev[c] \in SessionRecord /\ dev[c].fw \in Seq(AccessUnit)
  BY ServedAt
<1>2. /\ "submit" \notin Faults /\ "start" \notin Faults /\ "device" \notin Faults
      /\ "drop" \notin Faults /\ "drain" \notin Faults
  BY DEF Reliable
<1>3. ~ctx[c].started => Len(dev[c].fw) = 0 /\ OutBuffers >= 1
  BY <1>1, EmptySeq, DecodeAssumption DEF Serves, Serving
<1>4. ~SubmitFails(c)
  BY <1>2, <1>3, DecodeAssumption DEF SubmitFails, InputFull
<1>5. ~StartFails(c) /\ ~Unwind(c) /\ ~FwDrop(c)
  BY <1>1, <1>2 DEF StartFails, Unwind, FwDrop, Serves, Serving
<1>6. ~CallFails(c)
  <2>1. Looping(c) => ctx[c].open /\ ~ctx[c].fatal
    BY <1>1 DEF Looping, Serves, Serving, Ended
  <2> QED
    BY <1>2, <2>1 DEF CallFails
<1>7. TimesOut(c) => pc[c] \in {"wait", "sync"}
  BY <1>2 DEF TimesOut
<1>8. OpenSession(c) => ~ctx[c].open /\ ~ctx[c].eos
  BY <1>1 DEF OpenSession, Serves, Serving, Ended
<1> QED
  BY <1>4, <1>5, <1>6, <1>7, <1>8

(* A session ends: the old one is replaced by none.                           *)
LEMMA ClosingServes ==
    ASSUME DeliverySafe, Reliable, NEW c \in Contexts,
           FlushDone(c) \/ Restart(c) \/ OpenSession(c) \/ Teardown(c)
    PROVE  ServedInv'
<1>1. /\ TypeOK /\ ctx[c] \in ContextRecord /\ dev[c] \in SessionRecord /\ ServedInv
      /\ Serves(ctx[c], dev[c], pc[c], pend[c]) /\ Ended(ctx[c], dev[c], pc[c])
      /\ pend[c] \in PendingRecord /\ dev[c].cap \in Seq(Frame)
  BY ServedAt
<1>2. CASE FlushDone(c)
  <2> DEFINE d == [dev[c] EXCEPT !.cap = Tail(@)]
             p == IF pc[c] = "boundary" THEN "restart" ELSE "teardown"
  <2>1. /\ dev' = [dev EXCEPT ![c] = d] /\ pc' = [pc EXCEPT ![c] = p]
        /\ UNCHANGED <<ctx, pend>> /\ dev[c].cap # <<>> /\ Head(dev[c].cap).last
    BY <1>1, <1>2 DEF TypeOK, FlushDone
  <2>2. d.fw = dev[c].fw /\ d.cap = Tail(dev[c].cap)
    BY <1>1 DEF SessionRecord
  <2> HIDE DEF d
  <2>3. /\ d.fw = <<>> /\ d.cap = <<>> /\ dev[c].fw = <<>>
        /\ FrameCount(d.cap) = FrameCount(dev[c].cap) - 0
    <3>1. Tail(dev[c].cap) = <<>> /\ dev[c].lastSent
      BY <1>1, <2>1, LastOfTail DEF Ended
    <3>2. FrameCount(Tail(dev[c].cap)) = FrameCount(dev[c].cap) - 0
      BY <1>1, <2>1, FramesOfTail DEF Ended
    <3> QED
      BY <1>1, <2>2, <3>1, <3>2 DEF Ended
  <2>4. UnitCount(dev[c]) = 0
    <3>1. UnitCount(d) = 0 /\ FrameCount(d.cap) = 0
      BY <1>1, <2>3, NothingCounted, FramesCounted, EmptySeq
    <3>2. Len(dev[c].fw) = 0
      BY <2>3, EmptySeq
    <3>3. FrameCount(dev[c].cap) \in Nat
      BY <1>1, FramesCounted
    <3> QED
      BY <2>3, <3>1, <3>2, <3>3 DEF UnitCount
  <2>5. HevcFifo => Len(pend[c].fifo) = 0
    BY <1>1, <2>4 DEF Serves, Held
  <2>6. Serves(ctx[c], d, p, pend[c])
    BY <1>1, <2>3, <2>5, NothingServed DEF Serves, Serving
  <2>7. /\ dev'[c] = d /\ pc'[c] = p /\ ctx'[c] = ctx[c] /\ pend'[c] = pend[c]
        /\ \A e \in Contexts \ {c} : /\ ctx'[e] = ctx[e] /\ dev'[e] = dev[e]
                                     /\ pc'[e] = pc[e] /\ pend'[e] = pend[e]
    BY <1>1, <2>1 DEF TypeOK
  <2> QED
    BY <1>1, <2>6, <2>7, OneServes
<1>3. CASE Restart(c) \/ Teardown(c)
  <2> DEFINE p == IF Restart(c) THEN "prepare" ELSE "idle"
  <2>1. \E x \in ContextRecord :
           ctx' = [ctx EXCEPT ![c] = x] /\ ~x.fatal
    <3>1. Closed(c, ctx[c].seq) \in ContextRecord /\ ~Closed(c, ctx[c].seq).fatal
      BY <1>1, ClosedTyped DEF Closed, ContextRecord
    <3>2. [NoContext EXCEPT !.life = "gone"] \in ContextRecord
          /\ ~[NoContext EXCEPT !.life = "gone"].fatal
      BY DEF NoContext, ContextRecord
    <3> QED
      BY <1>3, <3>1, <3>2 DEF Restart, Teardown
  <2>2. PICK x \in ContextRecord : ctx' = [ctx EXCEPT ![c] = x] /\ ~x.fatal
    BY <2>1
  <2>3. /\ pend' = [pend EXCEPT ![c] = NoPending] /\ dev' = [dev EXCEPT ![c] = NoSession]
        /\ \E q \in {"prepare", "idle"} : pc' = [pc EXCEPT ![c] = q]
    BY <1>3 DEF Restart, Teardown
  <2>4. PICK q \in {"prepare", "idle"} : pc' = [pc EXCEPT ![c] = q]
    BY <2>3
  <2>5. NoSession.fw = <<>> /\ NoSession.cap = <<>> /\ Len(NoPending.fifo) = 0
    BY EmptySeq DEF NoSession, NoPending
  <2>6. Serves(x, NoSession, q, NoPending)
    BY <2>2, <2>5, NothingServed
  <2>7. /\ ctx'[c] = x /\ dev'[c] = NoSession /\ pc'[c] = q /\ pend'[c] = NoPending
        /\ \A e \in Contexts \ {c} : /\ ctx'[e] = ctx[e] /\ dev'[e] = dev[e]
                                     /\ pc'[e] = pc[e] /\ pend'[e] = pend[e]
    BY <1>1, <2>2, <2>3, <2>4 DEF TypeOK
  <2> QED
    BY <1>1, <2>6, <2>7, OneServes
<1>4. CASE OpenSession(c)
  <2>1. ~ctx[c].open /\ ~ctx[c].eos
    BY <1>4, NoFailure
  <2>2. dev[c].fw = <<>> /\ dev[c].cap = <<>>
    BY <1>1, <2>1 DEF Serves, Serving, Ended
  <2>3. PICK ok \in BOOLEAN :
           /\ ctx' = [ctx EXCEPT ![c] = [ctx[c] EXCEPT !.open = ok]]
           /\ pc' = [pc EXCEPT ![c] = IF ok THEN pc[c] ELSE "idle"]
    BY <1>1, <1>4, <2>1, Zenon DEF TypeOK, OpenSession, OldSessionEnded
  <2> DEFINE x == [ctx[c] EXCEPT !.open = ok]
             p == IF ok THEN pc[c] ELSE "idle"
  <2>4. /\ dev' = [dev EXCEPT ![c] = NoSession] /\ pend' = pend /\ pc[c] = "prepare"
    BY <1>4, <2>1 DEF OpenSession, OldSessionEnded
  <2>5. NoSession.fw = <<>> /\ NoSession.cap = <<>>
    BY DEF NoSession
  <2>6. x \in ContextRecord /\ ~x.fatal
    BY <1>1 DEF ContextRecord, Serves, Serving
  <2>7. HevcFifo => Len(pend[c].fifo) = 0
    BY <1>1, <2>2, NothingCounted DEF Serves, Held
  <2> HIDE DEF x
  <2>8. Serves(x, NoSession, p, pend[c])
    BY <2>4, <2>5, <2>6, <2>7, NothingServed
  <2>9. /\ ctx'[c] = x /\ dev'[c] = NoSession /\ pc'[c] = p /\ pend'[c] = pend[c]
        /\ \A e \in Contexts \ {c} : /\ ctx'[e] = ctx[e] /\ dev'[e] = dev[e]
                                     /\ pc'[e] = pc[e] /\ pend'[e] = pend[e]
    BY <1>1, <2>3, <2>4 DEF TypeOK, x
  <2> QED
    BY <1>1, <2>8, <2>9, OneServes
<1> QED
  BY <1>2, <1>3, <1>4

(* vaEndPicture goes on: the target is claimed, then the unit is fed.         *)
LEMMA ClaimTargetServes ==
    ASSUME DeliverySafe, NEW c \in Contexts, ClaimTarget(c)
    PROVE  ServedInv'
<1>1. /\ TypeOK /\ ctx[c] \in ContextRecord /\ dev[c] \in SessionRecord /\ ServedInv
      /\ Serves(ctx[c], dev[c], "prepare", pend[c])
      /\ pend[c] \in PendingRecord /\ ctx[c].open
  BY ServedAt DEF ClaimTarget
<1>2. ~paff[c].second
  BY DEF DeliverySafe, PairingInv, NoPairs
<1> DEFINE k == SlotOf(ctx[c].seq)
           z == [used |-> TRUE, seq |-> ctx[c].seq, target |-> cur[c].target, gen |-> cur[c].gen]
           w == [pend[c] EXCEPT !.ring[k] = z]
<1>3. /\ pend' = [pend EXCEPT ![c] = w] /\ pc' = [pc EXCEPT ![c] = "feed"]
      /\ UNCHANGED <<ctx, dev>>
  BY <1>1, <1>2 DEF TypeOK, ClaimTarget
<1>4. w.fifo = pend[c].fifo /\ SameBut(w.ring, pend[c].ring, k)
  BY <1>1 DEF PendingRecord, SameBut
<1> HIDE DEF w, k
<1>5. Serves(ctx[c], dev[c], "feed", w)
  BY <1>1, <1>4, ClaimServes DEF k
<1>6. /\ pend'[c] = w /\ pc'[c] = "feed" /\ ctx'[c] = ctx[c] /\ dev'[c] = dev[c]
      /\ \A e \in Contexts \ {c} : /\ ctx'[e] = ctx[e] /\ dev'[e] = dev[e]
                                   /\ pc'[e] = pc[e] /\ pend'[e] = pend[e]
  BY <1>1, <1>3 DEF TypeOK
<1> QED
  BY <1>1, <1>5, <1>6, OneServes

(* hevc_ring has room for another mapping.                                    *)
LEMMA FifoHasRoom ==
    ASSUME DeliverySafe, NEW c \in Contexts, pc[c] = "feed", HevcFifo
    PROVE  FifoAdded(c) = Append(pend[c].fifo, [target |-> cur[c].target, gen |-> cur[c].gen])
<1>1. Serves(ctx[c], dev[c], pc[c], pend[c]) /\ dev[c] \in SessionRecord
  BY ServedAt
<1>2. Len(pend[c].fifo) = UnitCount(dev[c]) /\ UnitCount(dev[c]) <= OutBuffers + 0
      /\ UnitCount(dev[c]) \in Nat
  BY <1>1, UnitsCounted DEF Serves, Held, Fits
<1>3. Len(pend[c].fifo) < FifoSize
  BY <1>2, DecodeAssumption
<1> QED
  BY <1>3 DEF FifoAdded

LEMMA FeedingServes ==
    ASSUME DeliverySafe, NEW c \in Contexts, Feed(c)
    PROVE  /\ ServedInv'
           /\ UnitCount(dev'[c]) = UnitCount(dev[c]) + 1
           /\ ctx'[c].seq = ctx[c].seq + 1 /\ pend'[c].ring = pend[c].ring
<1>1. /\ TypeOK /\ ctx[c] \in ContextRecord /\ dev[c] \in SessionRecord /\ ServedInv
      /\ Serves(ctx[c], dev[c], "feed", pend[c]) /\ pend[c] \in PendingRecord
      /\ pc[c] = "feed" /\ ~ctx[c].fatal
  BY ServedAt DEF Feed
<1>2. ~paff[c].second /\ cur[c].field = 0
  BY DEF DeliverySafe, PairingInv, NoPairs
<1>3. /\ TypeOK' /\ ctx'[c] \in ContextRecord /\ dev'[c] \in SessionRecord
      /\ pend'[c] \in PendingRecord
  <2>1. TypeOK'
    BY <1>1, FeedType
  <2> QED
    BY <2>1 DEF TypeOK
<1> DEFINE k == SlotOf(ctx[c].seq)
           x == [ctx[c] EXCEPT !.started = TRUE, !.seq = ctx[c].seq + 1]
           d == [dev[c] EXCEPT !.fw = Append(@, Unit(c))]
           w == IF HevcFifo THEN [pend[c] EXCEPT !.fifo = FifoAdded(c)] ELSE pend[c]
<1>4. /\ ctx' = [ctx EXCEPT ![c] = x] /\ dev' = [dev EXCEPT ![c] = d]
      /\ pend' = [pend EXCEPT ![c] = w] /\ pc' = [pc EXCEPT ![c] = "drain"]
  BY <1>1, <1>2 DEF TypeOK, Feed, NextSeq
<1>5. /\ x.seq = ctx[c].seq + 1 /\ x.started /\ ~x.fatal
      /\ d.fw = Append(dev[c].fw, Unit(c)) /\ d.cap = dev[c].cap
      /\ w.ring = pend[c].ring
      /\ HevcFifo => w.fifo = FifoAdded(c)
  BY <1>1 DEF ContextRecord, SessionRecord, PendingRecord
<1>6. /\ pend[c].ring[k].used /\ pend[c].ring[k].seq = ctx[c].seq
      /\ Entry(pend[c].ring[k]) = [target |-> cur[c].target, gen |-> cur[c].gen]
  <2>1. pend[c].ring[k] = [used |-> TRUE, seq |-> ctx[c].seq,
                           target |-> cur[c].target, gen |-> cur[c].gen]
    BY <1>1 DEF DeliverySafe, PairingInv, TargetClaimed
  <2> QED
    BY <2>1 DEF Entry
<1>7. HevcFifo => w.fifo = Append(pend[c].fifo, Entry(pend[c].ring[k]))
  BY <1>1, <1>5, <1>6, FifoHasRoom
<1>8. Unit(c) \in AccessUnit /\ Unit(c).field = 0 /\ Unit(c).ts = Timestamp(ctx[c].seq)
  BY <1>1, <1>2, UnitTyped DEF Unit
<1> HIDE DEF x, d, w
<1>9. /\ ctx'[c] = x /\ dev'[c] = d /\ pend'[c] = w /\ pc'[c] = "drain"
      /\ \A e \in Contexts \ {c} : /\ ctx'[e] = ctx[e] /\ dev'[e] = dev[e]
                                   /\ pc'[e] = pc[e] /\ pend'[e] = pend[e]
  BY <1>1, <1>4 DEF TypeOK
<1>10. Serves(x, d, "drain", w) /\ UnitCount(d) = UnitCount(dev[c]) + 1
  <2>1. x \in ContextRecord /\ d \in SessionRecord /\ w \in PendingRecord
    BY <1>3, <1>9
  <2> DEFINE v == ctx[c]
             e == dev[c]
             m == pend[c]
             u == Unit(c)
  <2>2. /\ v \in ContextRecord /\ e \in SessionRecord /\ m \in PendingRecord
        /\ u \in AccessUnit /\ Serves(v, e, "feed", m)
    BY <1>1, <1>8
  <2>3. /\ x.seq = v.seq + 1 /\ x.started /\ ~x.fatal
        /\ d.fw = Append(e.fw, u) /\ d.cap = e.cap
        /\ u.field = 0 /\ u.ts = Timestamp(v.seq)
        /\ w.ring = m.ring
        /\ m.ring[SlotOf(v.seq)].used /\ m.ring[SlotOf(v.seq)].seq = v.seq
        /\ HevcFifo => w.fifo = Append(m.fifo, Entry(m.ring[SlotOf(v.seq)]))
    BY <1>5, <1>6, <1>7, <1>8
  <2> HIDE DEF v, e, m, u
  <2>4. Serves(x, d, "drain", w) /\ UnitCount(d) = UnitCount(e) + 1
    BY <2>1, <2>2, <2>3, FeedServes
  <2> QED
    BY <2>4 DEF e
<1>11. ServedInv'
  BY <1>1, <1>9, <1>10, OneServes
<1> QED
  BY <1>5, <1>9, <1>10, <1>11

(* A call leaves its loop: nothing is left to take.                           *)
LEMMA ReturnServes ==
    ASSUME DeliverySafe, Reliable, NEW c \in Contexts,
           DrainDone(c) \/ WaitDone(c) \/ TimesOut(c) \/ SyncReturn(c)
    PROVE  ServedInv' /\ UNCHANGED <<ctx, dev, pend, surf, cur>>
<1>1. /\ TypeOK /\ dev[c] \in SessionRecord
      /\ Serves(ctx[c], dev[c], pc[c], pend[c])
  BY ServedAt
<1>2. /\ UNCHANGED <<ctx, dev, pend, surf, cur>>
      /\ pc[c] \in {"drain", "wait", "sync"}
      /\ pc[c] = "drain" => dev[c].cap = <<>>
  BY NoFailure DEF DrainDone, WaitDone, TimesOut, SyncReturn
<1>3. PICK q \in {"wait", "idle"} :
         pc' = [pc EXCEPT ![c] = q] /\ (q = "wait" => pc[c] = "drain")
  BY NoFailure, <1>1 DEF DrainDone, WaitDone, TimesOut, SyncReturn, Failing, AfterError
<1>4. Len(dev[c].fw) <= OutBuffers
  BY <1>1 DEF TypeOK, WithinBuffers
<1>5. Serving(ctx[c], dev[c], q)
  BY <1>1, <1>3 DEF Serves, Serving
<1>6. Serves(ctx[c], dev[c], q, pend[c])
  BY <1>1, <1>2, <1>4, <1>5, FlagsServe
<1> QED
  BY <1>2, <1>3, <1>6, MovesServe

LEMMA SyncServes ==
    ASSUME DeliverySafe, NEW c \in Contexts, SyncEnter(c)
    PROVE  ServedInv'
<1>1. /\ TypeOK /\ dev[c] \in SessionRecord /\ ServedInv
      /\ Serves(ctx[c], dev[c], pc[c], pend[c])
  BY ServedAt
<1>2. UNCHANGED <<ctx, dev, pend>> /\ pc[c] = "idle" /\ ctx[c].open
  BY ServedMeans DEF DeliverySafe, SyncEnter
<1>3. CASE pc' = [pc EXCEPT ![c] = "sync"]
  <2>1. Serving(ctx[c], dev[c], "sync")
    BY <1>1, <1>2 DEF Serves, Serving
  <2>2. Serves(ctx[c], dev[c], "sync", pend[c])
    BY <1>1, <1>2, <2>1, FlagsServe
  <2> QED
    BY <1>2, <1>3, <2>2, MovesServe
<1>4. CASE pc' = pc
  BY <1>1, <1>2, <1>4, OneServes
<1> QED
  BY <1>3, <1>4 DEF SyncEnter

(* The frame a loop takes is the oldest unit of the session, and its mapping  *)
(* is there: hevc_ring and target_ring agree on it.                           *)
LEMMA FrameTaken ==
    ASSUME DeliverySafe, Reliable, NEW c \in Contexts, TakeFrame(c)
    PROVE  LET f == Head(dev[c].cap)
               n == UnitCount(dev[c])
           IN  /\ f \in Frame /\ ~f.last /\ f.ts # 0
               /\ n \in Nat /\ n >= 1 /\ n <= ctx[c].seq /\ n <= RingSize
               /\ FrameSeq(f) = ctx[c].seq - n
               /\ Matching(c, f)
               /\ HevcFifo => MappedByStamp(c, f)
               /\ ~Unassignable(c, f)
<1> DEFINE f == Head(dev[c].cap)
           d == dev[c]
           x == ctx[c]
           n == UnitCount(d)
           m == pend[c]
<1>1. /\ x \in ContextRecord /\ d \in SessionRecord /\ m \in PendingRecord
      /\ Serves(x, d, pc[c], m) /\ Ended(x, d, pc[c]) /\ d.cap \in Seq(Frame)
  BY ServedAt
<1>2. /\ d.cap # <<>> /\ Looping(c) /\ (pc[c] \in {"boundary", "destroy"} => ~f.last)
  BY DEF TakeFrame
<1>3. f = d.cap[1] /\ 1 \in DOMAIN d.cap /\ 1 \in 1 .. Len(d.cap) /\ f \in Frame
  BY <1>1, <1>2, HeadTailProperties, EmptySeq, LenProperties, ElementOfSeq
<1>4. ~f.last
  <2>1. f.last => x.eos
    BY <1>1, <1>3 DEF Ended, LastAtEnd
  <2>2. x.eos => pc[c] \in {"boundary", "restart", "destroy", "teardown"}
    BY <1>1 DEF Ended, Serves, Serving
  <2>3. pc[c] \notin {"restart", "teardown"}
    BY <1>2 DEF Looping
  <2> QED
    BY <1>2, <2>1, <2>2, <2>3
<1>5. n \in Nat /\ n >= 1
  <2>1. 1 <= FrameCount(d.cap)
    BY <1>1, <1>3, <1>4, FramesCounted
  <2>2. /\ n = Len(d.fw) + FrameCount(d.cap) /\ Len(d.fw) \in Nat /\ FrameCount(d.cap) \in Nat
    BY <1>1, UnitsCounted
  <2> QED
    BY <2>1, <2>2
<1>6. /\ x.seq \in Nat /\ n <= x.seq /\ n <= OutBuffers + 1
      /\ f.ts = Timestamp(x.seq) - (n + 1 - 1)
  <2>1. x.seq \in Nat /\ OutBuffers \in Nat
    BY <1>1, DecodeAssumption DEF ContextRecord
  <2>2. f.ts = Timestamp(x.seq) - (n + 1 - 1)
    BY <1>1, <1>3, <1>4 DEF Serves, Numbered
  <2>3. n <= x.seq
    BY <1>1 DEF Serves, Numbered
  <2>4. n <= OutBuffers + 1
    BY <1>1, <1>5, <2>1 DEF Serves, Fits
  <2> QED
    BY <2>1, <2>2, <2>3, <2>4
<1>7. n <= RingSize
  <2>1. OutBuffers \in Nat /\ CapBuffers \in Nat \ {0} /\ RingSize \in Nat
        /\ OutBuffers + CapBuffers <= RingSize
    BY DecodeAssumption
  <2> QED
    BY <1>5, <1>6, <2>1
<1>8. n \in 1 .. n
  BY <1>5
<1>9. /\ m.ring[SlotOf(x.seq - n)].used /\ m.ring[SlotOf(x.seq - n)].seq = x.seq - n
      /\ HevcFifo => /\ Len(m.fifo) = n
                     /\ m.fifo[n + 1 - n] = Entry(m.ring[SlotOf(x.seq - n)])
  BY <1>1, <1>8 DEF Serves, Held, Entry
<1>10. FrameSeq(f) = x.seq - n /\ f.ts # 0
  <2> DEFINE seq == x.seq
             ts == f.ts
  <2>1. ts = (seq + 1000) - (n + 1 - 1) /\ seq \in Nat /\ n \in Nat /\ n <= seq
    BY <1>5, <1>6 DEF Timestamp
  <2> HIDE DEF seq, ts, n
  <2>2. ts - 1000 = seq - n /\ ts # 0
    BY <2>1
  <2> QED
    BY <2>2 DEF FrameSeq, seq, ts
<1>11. Matching(c, f)
  BY <1>9, <1>10 DEF Matching
<1>12. HevcFifo => m.fifo # <<>> /\ m.fifo[1] = Entry(m.ring[SlotOf(x.seq - n)])
                   /\ Head(m.fifo) = m.fifo[1]
  <2>1. n + 1 - n = 1
    BY <1>5
  <2>2. m.fifo \in Seq(Mapping)
    BY <1>1 DEF PendingRecord
  <2>3. HevcFifo => m.fifo # <<>>
    BY <1>5, <1>9, <2>2, EmptySeq
  <2> QED
    BY <1>9, <2>1, <2>2, <2>3, HeadTailProperties
<1>13. ~Unassignable(c, f) /\ (HevcFifo => MappedByStamp(c, f))
  BY <1>4, <1>10, <1>11, <1>12 DEF Unassignable, MappedByStamp, Entry
<1> QED
  BY <1>3, <1>4, <1>5, <1>6, <1>7, <1>10, <1>11, <1>13

LEMMA TakeFrameServes ==
    ASSUME DeliverySafe, Reliable, NEW c \in Contexts, TakeFrame(c)
    PROVE  /\ ServedInv' /\ UNCHANGED <<ctx, pc, sync, cur>>
           /\ UnitCount(dev'[c]) = UnitCount(dev[c]) - 1
           /\ LET f == Head(dev[c].cap)
              IN  /\ pend' = [pend EXCEPT ![c] = MappingTaken(c, f)]
                  /\ \/ ~Lands(c, f) /\ surf' = surf
                     \/ /\ Lands(c, f)
                        /\ surf' = [surf EXCEPT ![MappedTo(c, f).target] = Landed(@, c, f.px)]
           /\ SameBut(pend'[c].ring, pend[c].ring, SlotOf(ctx[c].seq - UnitCount(dev[c])))
<1> DEFINE f == Head(dev[c].cap)
           n == UnitCount(dev[c])
           w == MappingTaken(c, f)
           d == [dev[c] EXCEPT !.cap = Tail(@)]
<1>1. /\ TypeOK /\ ctx[c] \in ContextRecord /\ dev[c] \in SessionRecord /\ ServedInv
      /\ Serves(ctx[c], dev[c], pc[c], pend[c]) /\ Ended(ctx[c], dev[c], pc[c])
      /\ pend[c] \in PendingRecord
  BY ServedAt
<1>2. /\ f \in Frame /\ ~f.last /\ FrameSeq(f) = ctx[c].seq - n /\ ~Unassignable(c, f)
      /\ Matching(c, f)
  BY FrameTaken
<1>3. "copy" \notin Faults
  BY DEF Reliable
<1>4. Assign(c, f, TRUE) /\ UNCHANGED <<ctx, pc, sync>>
  BY <1>2, <1>3 DEF TakeFrame
<1>5. /\ dev' = [dev EXCEPT ![c] = d] /\ pend' = [pend EXCEPT ![c] = w] /\ UNCHANGED cur
      /\ dev[c].cap # <<>> /\ pc[c] # "teardown"
  BY <1>1, <1>4 DEF TypeOK, TakeFrame, Assign, Looping
<1>6. \/ ~Lands(c, f) /\ surf' = surf
      \/ Lands(c, f) /\ surf' = [surf EXCEPT ![MappedTo(c, f).target] = Landed(@, c, f.px)]
  BY <1>2, <1>4 DEF Assign
<1>7. d.fw = dev[c].fw /\ d.cap = Tail(dev[c].cap) /\ d \in SessionRecord
  <2>1. TypeOK'
    BY <1>1, TakeFrameType
  <2> QED
    BY <1>1, <1>5, <2>1 DEF TypeOK, SessionRecord
<1> HIDE DEF d
<1>8. /\ HevcFifo => w.fifo = Tail(pend[c].fifo)
      /\ SameBut(w.ring, pend[c].ring, SlotOf(ctx[c].seq - n))
  <2> DEFINE k == SlotOf(FrameSeq(f))
  <2>1. w = IF HevcFifo THEN [pend[c] EXCEPT !.fifo = Tail(@)]
            ELSE [pend[c] EXCEPT !.ring[k].used = FALSE]
    BY <1>2 DEF MappingTaken
  <2>2. k = SlotOf(ctx[c].seq - n)
    BY <1>2
  <2> HIDE DEF k, w
  <2>3. SameBut(w.ring, pend[c].ring, k)
    BY <1>1, <2>1 DEF PendingRecord, SameBut
  <2> QED
    BY <1>1, <2>1, <2>2, <2>3 DEF PendingRecord
<1> HIDE DEF w
<1>9. Serves(ctx[c], d, pc[c], w) /\ UnitCount(d) = n - 1
  <2>1. LastAtEnd(dev[c].cap, dev[c].lastSent)
    BY <1>1 DEF Ended
  <2> DEFINE x == ctx[c]
             e == dev[c]
             m == pend[c]
             p == pc[c]
             sent == dev[c].lastSent
  <2>2. /\ x \in ContextRecord /\ e \in SessionRecord /\ m \in PendingRecord
        /\ Serves(x, e, p, m) /\ LastAtEnd(e.cap, sent) /\ e.cap # <<>> /\ p # "teardown"
        /\ ~Head(e.cap).last
    BY <1>1, <1>2, <1>5, <2>1
  <2>3. /\ d \in SessionRecord /\ d.fw = e.fw /\ d.cap = Tail(e.cap)
        /\ SameBut(w.ring, m.ring, SlotOf(x.seq - UnitCount(e)))
        /\ HevcFifo => w.fifo = Tail(m.fifo)
    BY <1>7, <1>8
  <2> HIDE DEF x, e, m, p, sent
  <2>4. Serves(x, d, p, w) /\ UnitCount(d) = UnitCount(e) - 1
    BY <2>2, <2>3, TakeServes
  <2> QED
    BY <2>4 DEF x, e, p
<1>10. /\ pend'[c] = w /\ dev'[c] = d /\ ctx'[c] = ctx[c] /\ pc'[c] = pc[c]
       /\ \A e \in Contexts \ {c} : /\ ctx'[e] = ctx[e] /\ dev'[e] = dev[e]
                                    /\ pc'[e] = pc[e] /\ pend'[e] = pend[e]
  BY <1>1, <1>4, <1>5 DEF TypeOK
<1>11. ServedInv'
  BY <1>1, <1>9, <1>10, OneServes
<1> QED
  BY <1>4, <1>5, <1>6, <1>8, <1>9, <1>10, <1>11 DEF w

(* The firmware decodes in order, one unit at a time.                         *)
LEMMA FirmwareServes ==
    ASSUME DeliverySafe, Reliable, NEW c \in Contexts, Firmware(c)
    PROVE  /\ ServedInv' /\ UNCHANGED <<surf, reg, ctx, pend, cur, pc, sync>>
           /\ \A b \in Contexts : UnitCount(dev'[b]) = UnitCount(dev[b])
<1> DEFINE x == ctx[c]
           d == dev[c]
           p == pc[c]
           m == pend[c]
<1>1. /\ TypeOK /\ x \in ContextRecord /\ d \in SessionRecord /\ ServedInv
      /\ Serves(x, d, p, m) /\ Ended(x, d, p)
      /\ d.fw \in Seq(AccessUnit) /\ d.cap \in Seq(Frame)
  BY ServedAt
<1>2. PICK e \in SessionRecord : e = dev'[c]
  BY <1>1, FirmwareType DEF TypeOK
<1>3. /\ UNCHANGED <<surf, reg, ctx, pend, cur, pc, sync>> /\ x.started
      /\ \A b \in Contexts \ {c} : dev'[b] = dev[b]
  BY <1>1 DEF TypeOK, Firmware, FwDecode, FwDrop, FwLast, Running
<1>4. ~FwDrop(c)
  BY NoFailure
<1>5. ASSUME FwDecode(c) PROVE Serves(x, e, p, m) /\ SameCount(e, d)
  <2>1. PICK i \in 1 .. Len(d.fw) :
           /\ NextOut(c, i)
           /\ dev' = [dev EXCEPT
                ![c].fw  = Removed(d.fw, i, Fields(c, i)),
                ![c].cap = Append(d.cap, [ts |-> d.fw[i].ts, px |-> d.fw[i].px, last |-> FALSE])]
    BY <1>1, <1>5 DEF TypeOK, FwDecode
  <2>2. i = 1 /\ d.fw # <<>>
    BY <1>1, <2>1, EmptySeq DEF NextOut, Reliable
  <2>3. d.fw[1] \in AccessUnit /\ d.fw[1].field = 0
    BY <1>1, <2>1, <2>2, ElementOfSeq DEF Serves, Numbered
  <2>4. Fields(c, i) = 1
    BY <2>2, <2>3 DEF Fields
  <2> DEFINE f == [ts |-> d.fw[1].ts, px |-> d.fw[1].px, last |-> FALSE]
  <2>5. e.fw = Removed(d.fw, 1, 1) /\ e.cap = Append(d.cap, f)
    BY <1>1, <1>2, <2>1, <2>2, <2>4 DEF TypeOK, SessionRecord
  <2>6. f \in Frame /\ ~f.last /\ f.ts = d.fw[1].ts
    BY <2>3 DEF AccessUnit, Frame
  <2>7. LastAtEnd(d.cap, FALSE)
    BY <1>1, <2>2 DEF Ended, LastAtEnd
  <2>8. Len(e.fw) = Len(d.fw) - 1 /\ Follows(e.fw, d.fw, Len(d.fw) - 1)
    BY <1>1, <2>2, <2>5, RemovedFirst
  <2>9. /\ x \in ContextRecord /\ d \in SessionRecord /\ e \in SessionRecord
        /\ Serves(x, d, p, m) /\ x.started
    BY <1>1, <1>2, <1>3
  <2> HIDE DEF x, d, p, m, f
  <2>10. Serves(x, e, p, m) /\ SameCount(e, d)
    BY <2>2, <2>5, <2>6, <2>7, <2>8, <2>9, DecodeServes
  <2> QED
    BY <2>10 DEF x, d, p, m
<1>6. ASSUME FwLast(c) PROVE Serves(x, e, p, m) /\ SameCount(e, d)
  <2>1. e.fw = d.fw /\ e.cap = Append(d.cap, LastMarker)
    BY <1>1, <1>2, <1>6 DEF TypeOK, SessionRecord, FwLast
  <2>2. LastAtEnd(d.cap, FALSE)
    BY <1>1, <1>6 DEF FwLast, Ended, LastAtEnd
  <2>3. /\ x \in ContextRecord /\ d \in SessionRecord /\ e \in SessionRecord
        /\ Serves(x, d, p, m) /\ x.started
    BY <1>1, <1>2, <1>3
  <2> HIDE DEF x, d, p, m
  <2>4. Serves(x, e, p, m) /\ SameCount(e, d)
    BY <2>1, <2>2, <2>3, LastServes
  <2> QED
    BY <2>4 DEF x, d, p, m
<1>7. Serves(ctx'[c], dev'[c], pc'[c], pend'[c]) /\ UnitCount(dev'[c]) = UnitCount(dev[c])
  BY <1>2, <1>3, <1>4, <1>5, <1>6 DEF Firmware, SameCount
<1>8. ServedInv'
  BY <1>1, <1>3, <1>7, OneServes
<1> QED
  BY <1>3, <1>7, <1>8

LEMMA ServedNext ==
    ASSUME DeliverySafe, Reliable, [Next]_vars
    PROVE  ServedInv'
<1>1. ServedInv
  BY ServedMeans DEF DeliverySafe
<1>2. ASSUME NEW c \in Contexts, CallStep(c) PROVE ServedInv'
  BY <1>2, NoFailure, ClosingServes, ClaimTargetServes, FeedingServes, ReturnServes,
     TakeFrameServes
  DEF CallStep
<1>3. CASE UNCHANGED <<ctx, dev, pc, pend>>
  BY <1>1, <1>3 DEF ServedInv
<1>4. ASSUME NEW s \in Surfaces, SurfaceCall(s) PROVE UNCHANGED <<ctx, dev, pc, pend>>
  BY <1>4 DEF SurfaceCall, AllocSurface, ExportSurface, FreeSurface, SyncSurface
<1>5. SyncFilled => UNCHANGED <<ctx, dev, pc, pend>>
  BY DEF SyncFilled
<1>6. UNCHANGED vars => UNCHANGED <<ctx, dev, pc, pend>>
  BY DEF vars
<1> QED
  BY <1>2, <1>3, <1>4, <1>5, <1>6, ClientServes, FirmwareServes, SyncServes DEF Next, SyncStep

(* The context a sync is waiting for keeps its session.                       *)
BlockedOnOpen == sync.st = "blocked" => ctx[sync.c].open

LEMMA BlockedStep ==
    ASSUME DeliverySafe, Reliable, [Next]_vars
    PROVE  BlockedOnOpen'
<1>1. TypeOK /\ BlockedOnOpen /\ PendingAwaited
  BY ServedMeans DEF DeliverySafe, BlockedOnOpen
<1>2. ASSUME NEW c \in Contexts, CallStep(c) PROVE sync'.st # "blocked"
  <2>1. pc[c] # "idle" /\ (sync' = sync \/ sync' = NoSync \/ sync' = [sync EXCEPT !.st = "returned"])
    BY <1>1, <1>2, CallStepMoves
  <2>2. sync.st # "blocked"
    BY <2>1 DEF DeliverySafe, OneCall, AllIdle
  <2> QED
    BY <1>1, <2>1, <2>2 DEF TypeOK, SyncRecord, NoSync
<1>3. ASSUME NEW c \in Contexts, Client(c) PROVE sync'.st # "blocked"
  BY <1>1, <1>3, ClientMoves DEF Reliable, SyncIdle
<1>4. ASSUME NEW c \in Contexts, Firmware(c) PROVE BlockedOnOpen'
  BY <1>1, <1>4, FirmwareServes DEF BlockedOnOpen
<1>5. ASSUME NEW s \in Surfaces, SyncSurface(s) PROVE BlockedOnOpen'
  <2>1. /\ UNCHANGED <<ctx, dev, pend, pc, cur>> /\ Live(s) /\ AllIdle
        /\ sync'.st = "blocked" => /\ Pending(s) /\ surf[s].owner # None
                                   /\ sync'.c = surf[s].owner
    BY <1>5 DEF SyncSurface, Pending, MaySync, Reliable
  <2>2. ASSUME NEW c \in Contexts, Pending(s), surf[s].owner = c PROVE ctx[c].open
    <3>1. PICK k \in 1 .. UnitCount(dev[c]) : TRUE
      BY <1>1, <2>1, <2>2 DEF PendingAwaited, Awaited, AllIdle
    <3>2. UnitCount(dev[c]) # 0
      BY <3>1
    <3>3. dev[c].fw # <<>> \/ dev[c].cap # <<>>
      BY <3>2, NothingCounted
    <3> QED
      BY <3>3, ServedAt DEF Serves, Serving, Ended
  <2>3. surf[s].owner \in Contexts \cup {None}
    BY <1>1 DEF TypeOK, SurfaceRecord
  <2> QED
    BY <2>1, <2>2, <2>3 DEF BlockedOnOpen
<1>6. ASSUME NEW s \in Surfaces, AllocSurface(s) \/ ExportSurface(s) \/ FreeSurface(s)
      PROVE  BlockedOnOpen'
  BY <1>1, <1>6 DEF AllocSurface, ExportSurface, FreeSurface, BlockedOnOpen
<1>7. SyncFilled => BlockedOnOpen'
  BY <1>1 DEF SyncFilled, BlockedOnOpen, TypeOK, SyncRecord
<1>8. ASSUME NEW c \in Contexts, SyncEnter(c) PROVE BlockedOnOpen'
  BY <1>1, <1>8 DEF SyncEnter, BlockedOnOpen, TypeOK, SyncRecord, NoSync
<1>9. UNCHANGED vars => BlockedOnOpen'
  BY <1>1 DEF vars, BlockedOnOpen
<1> QED
  BY <1>2, <1>3, <1>4, <1>5, <1>6, <1>7, <1>8, <1>9
  DEF Next, SurfaceCall, SyncStep, BlockedOnOpen

-----------------------------------------------------------------------------
(* What is waited for                                                         *)

(* One of the n newest slots of a ring leads to generation gen of s.          *)
Reaches(seq, n, ring, s, gen) ==
    \E k \in 1 .. n : ring[SlotOf(seq - k)].target = s /\ ring[SlotOf(seq - k)].gen = gen

LEMMA AwaitedMeans ==
    ASSUME NEW c \in Contexts, NEW s \in Surfaces
    PROVE  /\ Awaited(c, s) <=>
                \/ pc[c] = "feed" /\ cur[c].target = s
                \/ Reaches(ctx[c].seq, UnitCount(dev[c]), pend[c].ring, s, surf[s].gen)
           /\ Awaited(c, s)' <=>
                \/ pc'[c] = "feed" /\ cur'[c].target = s
                \/ Reaches(ctx'[c].seq, UnitCount(dev'[c]), pend'[c].ring, s, surf'[s].gen)
  BY DEF Awaited, UnitSlot, Reaches, UnitCount, FrameCount

LEMMA ReachesFed ==
    ASSUME NEW seq \in Nat, NEW n \in Nat, NEW ring, NEW s, NEW gen
    PROVE  /\ Reaches(seq, n, ring, s, gen) => Reaches(seq + 1, n + 1, ring, s, gen)
           /\ ring[SlotOf(seq)].target = s /\ ring[SlotOf(seq)].gen = gen
                => Reaches(seq + 1, n + 1, ring, s, gen)
<1>1. ASSUME NEW k \in 1 .. n, ring[SlotOf(seq - k)].target = s, ring[SlotOf(seq - k)].gen = gen
      PROVE  Reaches(seq + 1, n + 1, ring, s, gen)
  <2>1. k + 1 \in 1 .. n + 1 /\ (seq + 1) - (k + 1) = seq - k
    OBVIOUS
  <2> QED
    BY <1>1, <2>1 DEF Reaches
<1>2. ASSUME ring[SlotOf(seq)].target = s, ring[SlotOf(seq)].gen = gen
      PROVE  Reaches(seq + 1, n + 1, ring, s, gen)
  <2>1. 1 \in 1 .. n + 1 /\ (seq + 1) - 1 = seq
    OBVIOUS
  <2> QED
    BY <1>2, <2>1 DEF Reaches
<1> QED
  BY <1>1, <1>2 DEF Reaches

LEMMA ReachesAlong ==
    ASSUME NEW seq, NEW n, NEW ring, NEW new, NEW s, NEW gen,
           SameSlots(seq, n, new, ring), Reaches(seq, n, ring, s, gen)
    PROVE  Reaches(seq, n, new, s, gen)
  BY DEF Reaches, SameSlots

LEMMA ReachesLess ==
    ASSUME NEW seq \in Nat, NEW n \in Nat \ {0}, NEW ring, NEW s, NEW gen,
           Reaches(seq, n, ring, s, gen)
    PROVE  \/ Reaches(seq, n - 1, ring, s, gen)
           \/ ring[SlotOf(seq - n)].target = s /\ ring[SlotOf(seq - n)].gen = gen
<1>1. PICK k \in 1 .. n : ring[SlotOf(seq - k)].target = s /\ ring[SlotOf(seq - k)].gen = gen
  BY DEF Reaches
<1>2. k = n \/ k \in 1 .. n - 1
  OBVIOUS
<1> QED
  BY <1>1, <1>2 DEF Reaches

(* A step is quiet when it begins, claims, feeds and takes no picture.        *)
GensStay ==
    \A s \in Surfaces :
        surf'[s].life = "live" =>
            surf[s].life = "unborn" \/ (surf[s].life = "live" /\ surf'[s].gen = surf[s].gen)
PendingStay ==
    \A s \in Surfaces :
        Pending(s)' => Pending(s) /\ surf'[s].owner = surf[s].owner /\ surf'[s].gen = surf[s].gen
UnderWayStay ==
    \A c \in Contexts :
        UnderWay(c)' => /\ UnderWay(c)
                        /\ cur'[c].target = cur[c].target /\ cur'[c].gen = cur[c].gen
SessionStays(c) ==
    /\ UnitCount(dev'[c]) = UnitCount(dev[c]) /\ ctx'[c].seq = ctx[c].seq
    /\ pend'[c].ring = pend[c].ring
    /\ pc[c] = "feed" => pc'[c] = "feed" /\ cur'[c].target = cur[c].target

LEMMA OwnGenerationStays ==
    ASSUME TypeOK, GenerationsPast, OwnGeneration, GensStay, UnderWayStay
    PROVE  OwnGeneration'
<1> SUFFICES ASSUME NEW c \in Contexts, NEW s \in Surfaces,
                    UnderWay(c)', cur'[c].target = s, Live(s)'
             PROVE  cur'[c].gen = surf'[s].gen
  BY DEF OwnGeneration
<1>1. UnderWay(c) /\ cur[c].target = s /\ cur'[c].gen = cur[c].gen /\ surf'[s].life = "live"
  BY DEF UnderWayStay, Live
<1>2. surf[s].life # "unborn"
  BY <1>1 DEF GenerationsPast, Past
<1>3. Live(s) /\ surf'[s].gen = surf[s].gen
  BY <1>1, <1>2 DEF GensStay, Live
<1> QED
  BY <1>1, <1>3 DEF OwnGeneration

LEMMA AwaitedStays ==
    ASSUME PendingAwaited, NEW c \in Contexts, NEW s \in Surfaces, SessionStays(c),
           Pending(s), surf[s].owner = c, surf'[s].gen = surf[s].gen
    PROVE  Awaited(c, s)'
<1>1. Awaited(c, s)
  BY DEF PendingAwaited
<1> QED
  BY <1>1, AwaitedMeans DEF SessionStays

LEMMA QuietDelivers ==
    ASSUME PendingAwaited, PendingStay, \A c \in Contexts : SessionStays(c)
    PROVE  PendingAwaited'
<1> SUFFICES ASSUME NEW c \in Contexts, NEW s \in Surfaces, Pending(s)', surf'[s].owner = c
             PROVE  Awaited(c, s)'
  BY DEF PendingAwaited
<1>1. Pending(s) /\ surf[s].owner = c /\ surf'[s].gen = surf[s].gen
  BY DEF PendingStay
<1> QED
  BY <1>1, AwaitedStays

(* What leaves the surfaces alone, or their work.                             *)
LEMMA SameWorkStays ==
    ASSUME TypeOK, \A s \in Surfaces : /\ SameWork(surf'[s], surf[s])
                                       /\ surf'[s].queued => surf[s].queued
                                       /\ surf'[s].owner \in {surf[s].owner, None}
    PROVE  GensStay /\ PendingStay
  BY DEF GensStay, PendingStay, SameWork, Pending, Live

LEMMA SameSurfacesStay ==
    ASSUME TypeOK, UNCHANGED surf
    PROVE  GensStay /\ PendingStay
  BY DEF GensStay, PendingStay, Pending, Live

LEMMA SameSessionsStay ==
    ASSUME UNCHANGED <<ctx, dev, pend>>,
           \A c \in Contexts : pc[c] = "feed" => pc'[c] = "feed" /\ cur'[c].target = cur[c].target
    PROVE  \A c \in Contexts : SessionStays(c)
  BY DEF SessionStays

(* The steps on surfaces                                                      *)
LEMMA SurfaceCallStays ==
    ASSUME TypeOK, NEW s \in Surfaces, SurfaceCall(s)
    PROVE  GensStay /\ PendingStay /\ UnderWayStay /\ \A c \in Contexts : SessionStays(c)
<1>1. UNCHANGED <<ctx, dev, pend, pc, cur>>
  BY DEF SurfaceCall, AllocSurface, ExportSurface, FreeSurface, SyncSurface
<1>2. UnderWayStay /\ \A c \in Contexts : SessionStays(c)
  BY <1>1, SameSessionsStay DEF UnderWayStay, UnderWay, Unclaimed
<1> DEFINE x == surf'[s]
           y == surf[s]
<1>3. /\ \A t \in Surfaces \ {s} : surf'[t] = surf[t]
      /\ \/ y.life = "unborn" /\ x = Allocated
         \/ x = [y EXCEPT !.exported = TRUE]
         \/ x = [UnbornSurface EXCEPT !.life = "freed"]
         \/ x = [y EXCEPT !.px = FillPixels(s)]
         \/ x = y
  BY DEF TypeOK, SurfaceCall, AllocSurface, ExportSurface, FreeSurface, SyncSurface
<1>4. y \in SurfaceRecord
  BY DEF TypeOK
<1>5. \/ y.life = "unborn" /\ x.life = "live" /\ ~x.queued
      \/ x.life = "freed"
      \/ /\ x.life = y.life /\ x.gen = y.gen /\ x.queued = y.queued
         /\ x.decoded = y.decoded /\ x.owner = y.owner
  BY <1>3, <1>4 DEF SurfaceRecord, Allocated, UnbornSurface
<1>6. GensStay /\ PendingStay
  BY <1>3, <1>5 DEF GensStay, PendingStay, Pending, Live
<1> QED
  BY <1>2, <1>6

LEMMA SyncStepStays ==
    ASSUME DeliverySafe, SyncStep
    PROVE  GensStay /\ PendingStay /\ UnderWayStay /\ \A c \in Contexts : SessionStays(c)
<1>1. UNCHANGED <<ctx, dev, pend, cur>> /\ TypeOK
  BY ServedAt DEF DeliverySafe, SyncStep, SyncFilled, SyncEnter
<1>2. \A c \in Contexts : pc'[c] = pc[c] \/ (pc[c] = "idle" /\ pc'[c] = "sync")
  BY <1>1 DEF TypeOK, SyncStep, SyncFilled, SyncEnter
<1>3. UnderWayStay /\ \A c \in Contexts : SessionStays(c)
  BY <1>1, <1>2, SameSessionsStay DEF UnderWayStay, UnderWay, Unclaimed
<1>4. CASE SyncFilled
  <2>1. \A s \in Surfaces : surf'[s] = surf[s] \/ surf'[s] = Backfilled(surf[s])
    BY <1>1, <1>4 DEF SyncFilled, TypeOK
  <2>2. \A s \in Surfaces : /\ Backfilled(surf[s]).life = surf[s].life
                            /\ Backfilled(surf[s]).gen = surf[s].gen
                            /\ Backfilled(surf[s]).decoded
    BY <1>1 DEF TypeOK, SurfaceRecord, Backfilled
  <2>3. GensStay
    BY <1>1, <2>1, <2>2 DEF TypeOK, SurfaceRecord, GensStay
  <2>4. PendingStay
    BY <2>1, <2>2 DEF PendingStay, Pending, Live
  <2> QED
    BY <1>3, <2>3, <2>4
<1>5. CASE \E c \in Contexts : SyncEnter(c)
  BY <1>1, <1>3, <1>5, SameSurfacesStay DEF SyncEnter
<1> QED
  BY <1>4, <1>5 DEF SyncStep

(* The entries of calls                                                       *)
LEMMA ClientStays ==
    ASSUME DeliverySafe, NEW c \in Contexts,
           \/ CreateContext(c) \/ EndPictureFails(c) \/ DestroyContext(c)
           \/ \E ra, cue \in BOOLEAN : EndPicture(c, ra, cue)
    PROVE  GensStay /\ PendingStay /\ UnderWayStay /\ \A d \in Contexts : SessionStays(d)
<1>1. TypeOK /\ UNCHANGED <<surf, pend>> /\ GensStay /\ PendingStay
  BY ServedAt, ClientQuiet, SameSurfacesStay DEF DeliverySafe
<1>2. /\ \A d \in Contexts \ {c} : /\ ctx'[d] = ctx[d] /\ dev'[d] = dev[d]
                                   /\ pc'[d] = pc[d] /\ cur'[d] = cur[d]
      /\ ctx'[c].seq = ctx[c].seq /\ dev'[c].fw = dev[c].fw /\ dev'[c].cap = dev[c].cap
  <2>1. \A x \in ContextRecord : \A b : [x EXCEPT !.eos = b].seq = x.seq /\ [x EXCEPT !.life = b].seq = x.seq
    BY DEF ContextRecord
  <2>2. \A d \in SessionRecord : \A b : [d EXCEPT !.stop = b].fw = d.fw /\ [d EXCEPT !.stop = b].cap = d.cap
    BY DEF SessionRecord
  <2>3. ctx[c] \in ContextRecord /\ dev[c] \in SessionRecord
    BY <1>1 DEF TypeOK
  <2>4. CASE CreateContext(c)
    BY <1>1, <2>1, <2>3, <2>4 DEF TypeOK, CreateContext
  <2>5. CASE EndPictureFails(c)
    BY <1>1, <2>5 DEF TypeOK, EndPictureFails
  <2>6. CASE StopSession(c, "boundary") \/ StopSession(c, "destroy")
    <3>1. /\ \A d \in Contexts \ {c} : ctx'[d] = ctx[d] /\ dev'[d] = dev[d] /\ pc'[d] = pc[d]
          /\ ctx'[c] = [ctx[c] EXCEPT !.eos = TRUE] /\ dev'[c] = [dev[c] EXCEPT !.stop = TRUE]
      BY <1>1, <2>6 DEF TypeOK, StopSession
    <3>2. \A d \in Contexts \ {c} : cur'[d] = cur[d]
      BY <1>1 DEF TypeOK, CreateContext, EndPictureFails, EndPicture, DestroyContext
    <3> QED
      BY <2>1, <2>2, <2>3, <3>1, <3>2
  <2>7. CASE DestroyContext(c) \/ \E ra, cue \in BOOLEAN : EndPicture(c, ra, cue)
    BY <1>1, <2>6, <2>7 DEF TypeOK, EndPicture, DestroyContext
  <2> QED
    BY <2>4, <2>5, <2>7
<1>3. pc[c] = "feed" => CreateContext(c) /\ UNCHANGED <<pc, cur>>
  BY DEF MayCall, CreateContext, EndPictureFails, DestroyContext, EndPicture
<1>4. \A d \in Contexts : SessionStays(d)
  BY <1>1, <1>2, <1>3 DEF SessionStays, UnitCount, FrameCount
<1>5. UnderWay(c)' => /\ UnderWay(c)
                      /\ cur'[c].target = cur[c].target /\ cur'[c].gen = cur[c].gen
  <2>1. CASE CreateContext(c)
    BY <2>1 DEF CreateContext, UnderWay, Unclaimed
  <2>2. CASE EndPictureFails(c) \/ \E ra, cue \in BOOLEAN : EndPicture(c, ra, cue)
    BY <1>1, <2>2 DEF TypeOK, PictureRecord, EndPictureFails, EndPicture, UnderWay, Unclaimed
  <2>3. CASE DestroyContext(c)
    <3>1. cur'[c] = NoPicture /\ pc'[c] \in {"destroy", "teardown"}
      BY <1>1, <2>3 DEF TypeOK, DestroyContext, StopSession
    <3> QED
      BY <3>1 DEF UnderWay, Unclaimed, NoPicture
  <2> QED
    BY <2>1, <2>2, <2>3
<1>6. UnderWayStay
  BY <1>2, <1>5 DEF UnderWayStay, UnderWay, Unclaimed
<1> QED
  BY <1>1, <1>4, <1>6

(* vaBeginPicture: the target waits for nothing yet.                          *)
LEMMA BeginDelivers ==
    ASSUME DeliverySafe, Reliable, NEW c \in Contexts, NEW s \in Surfaces,
           NEW field \in 0 .. 2, NEW poc \in Pocs, BeginPicture(c, s, field, poc)
    PROVE  OwnGeneration' /\ PendingAwaited'
<1>1. TypeOK /\ OwnGeneration /\ PendingAwaited /\ NoPairs /\ ~FieldPictures
  BY ServedMeans DEF DeliverySafe, PairingInv, Reliable
<1>2. /\ Live(s) /\ pc[c] = "idle"
      /\ \A d \in Contexts \ {c} : ~RenderedBy(d, s)
      /\ surf' = [surf EXCEPT ![s] = Begun(surf[s])]
      /\ cur'[c].target = s /\ cur'[c].gen = surf[s].gen + 1
      /\ \A d \in Contexts \ {c} : cur'[d] = cur[d]
      /\ UNCHANGED <<reg, ctx, pend, pc, dev, sync, stream>>
  BY <1>1, BeginEffects DEF TypeOK
<1>3. /\ surf'[s].gen = surf[s].gen + 1 /\ ~surf'[s].queued
      /\ \A t \in Surfaces \ {s} : surf'[t] = surf[t]
  BY <1>1, <1>2, BegunStanding DEF TypeOK
<1>4. OwnGeneration'
  <2> SUFFICES ASSUME NEW d \in Contexts, NEW t \in Surfaces,
                      UnderWay(d)', cur'[d].target = t, Live(t)'
               PROVE  cur'[d].gen = surf'[t].gen
    BY DEF OwnGeneration
  <2>1. CASE d = c
    BY <1>2, <1>3, <2>1
  <2>2. CASE d # c
    <3>1. UnderWay(d) /\ cur[d].target = t
      BY <1>2, <2>2 DEF UnderWay, Unclaimed
    <3>2. t # s
      BY <1>2, <2>2, <3>1 DEF RenderedBy, UnderWay, Unclaimed
    <3> QED
      BY <1>1, <1>2, <1>3, <2>2, <3>1, <3>2 DEF OwnGeneration, Live
  <2> QED
    BY <2>1, <2>2
<1>5. PendingStay
  BY <1>3 DEF PendingStay, Pending, Live
<1>6. \A d \in Contexts : SessionStays(d)
  BY <1>2 DEF SessionStays
<1> QED
  BY <1>1, <1>4, <1>5, <1>6, QuietDelivers

(* The steps of a call that neither claim, feed nor take, and that end no     *)
(* stream.                                                                    *)
LEMMA CallUnderWay ==
    ASSUME DeliverySafe, Reliable, NEW c \in Contexts, CallStep(c)
    PROVE  UnderWayStay /\ UNCHANGED cur
<1>1. TypeOK /\ UNCHANGED cur
  BY ServedAt DEF CallStep, FlushDone, Restart, OpenSession, ClaimTarget, Feed, SubmitFails,
         StartFails, Unwind, DrainDone, WaitDone, TakeFrame, CallFails, TimesOut, SyncReturn,
         Teardown, history
<1>2. \A d \in Contexts \ {c} : pc'[d] = pc[d]
  BY <1>1, CallStepMoves DEF TypeOK
<1> DEFINE Early == {"boundary", "restart", "prepare", "feed"}
<1>3. pc'[c] \in Early => pc[c] \in Early
  <2>1. CASE TakeFrame(c)
    BY <2>1, TakeFrameServes
  <2>2. CASE TimesOut(c)
    BY <1>1, <2>2, NoFailure DEF TypeOK, TimesOut, Failing, AfterError
  <2>3. CASE Restart(c) \/ ClaimTarget(c) \/ Feed(c) \/ WaitDone(c) \/ SyncReturn(c) \/ Teardown(c)
    BY <1>1, <2>3 DEF TypeOK, Restart, ClaimTarget, Feed, WaitDone, SyncReturn, Teardown
  <2>4. CASE OpenSession(c)
    BY <2>4 DEF OpenSession
  <2>5. CASE FlushDone(c)
    BY <1>1, <2>5 DEF TypeOK, FlushDone
  <2>6. CASE DrainDone(c)
    BY <1>1, <2>6 DEF TypeOK, DrainDone
  <2> QED
    BY <2>1, <2>2, <2>3, <2>4, <2>5, <2>6, NoFailure DEF CallStep
<1> QED
  BY <1>1, <1>2, <1>3 DEF UnderWayStay, UnderWay, Unclaimed

LEMMA CallStays ==
    ASSUME DeliverySafe, Reliable, NEW c \in Contexts,
           \/ FlushDone(c) \/ OpenSession(c) \/ DrainDone(c) \/ WaitDone(c) \/ TimesOut(c)
           \/ SyncReturn(c)
    PROVE  GensStay /\ PendingStay /\ \A d \in Contexts : SessionStays(d)
<1>1. /\ TypeOK /\ ctx[c] \in ContextRecord /\ dev[c] \in SessionRecord
      /\ Serves(ctx[c], dev[c], pc[c], pend[c]) /\ Ended(ctx[c], dev[c], pc[c])
      /\ dev[c].cap \in Seq(Frame) /\ UNCHANGED cur
  BY ServedAt, CallUnderWay DEF CallStep
<1>2. /\ UNCHANGED <<surf, pend, cur>> /\ pc[c] # "feed"
      /\ \A d \in Contexts \ {c} : ctx'[d] = ctx[d] /\ dev'[d] = dev[d] /\ pc'[d] = pc[d]
  <2>1. CASE OpenSession(c)
    BY <1>1, <2>1, NoFailure DEF TypeOK, OpenSession, OldSessionEnded
  <2>2. CASE FlushDone(c)
    BY <1>1, <2>2 DEF TypeOK, FlushDone
  <2>3. CASE DrainDone(c) \/ WaitDone(c) \/ TimesOut(c) \/ SyncReturn(c)
    BY <1>1, <2>3, ReturnServes, NoFailure
    DEF TypeOK, DrainDone, WaitDone, TimesOut, SyncReturn, Failing
  <2> QED
    BY <2>1, <2>2, <2>3
<1>3. ctx'[c].seq = ctx[c].seq /\ UnitCount(dev'[c]) = UnitCount(dev[c])
  <2>1. CASE OpenSession(c)
    <3>1. ~ctx[c].open /\ ~ctx[c].eos
      BY <2>1, NoFailure
    <3>2. dev[c].fw = <<>> /\ dev[c].cap = <<>> /\ dev'[c].fw = <<>> /\ dev'[c].cap = <<>>
      BY <1>1, <2>1, <3>1 DEF TypeOK, OpenSession, NoSession, Serves, Serving, Ended
    <3>3. PICK ok \in BOOLEAN : ctx' = [ctx EXCEPT ![c] = [ctx[c] EXCEPT !.open = ok]]
      BY <1>1, <2>1, <3>1, Zenon DEF TypeOK, OpenSession, OldSessionEnded
    <3>4. ctx'[c].seq = ctx[c].seq
      BY <1>1, <3>3 DEF TypeOK, ContextRecord
    <3> QED
      BY <3>2, <3>4, NothingCounted
  <2>2. CASE FlushDone(c)
    <3>1. /\ dev[c].cap # <<>> /\ Head(dev[c].cap).last /\ UNCHANGED ctx
          /\ dev'[c].fw = dev[c].fw /\ dev'[c].cap = Tail(dev[c].cap)
      BY <1>1, <2>2 DEF TypeOK, SessionRecord, FlushDone
    <3>2. FrameCount(Tail(dev[c].cap)) = FrameCount(dev[c].cap) - 0
      BY <1>1, <3>1, FramesOfTail DEF Ended
    <3>3. FrameCount(dev[c].cap) \in Nat
      BY <1>1, FramesCounted
    <3> QED
      BY <3>1, <3>2, <3>3 DEF UnitCount
  <2>3. CASE DrainDone(c) \/ WaitDone(c) \/ TimesOut(c) \/ SyncReturn(c)
    BY <2>3, ReturnServes
  <2> QED
    BY <2>1, <2>2, <2>3
<1>4. \A d \in Contexts : SessionStays(d)
  BY <1>2, <1>3 DEF SessionStays
<1> QED
  BY <1>1, <1>2, <1>4, SameSurfacesStay

(* A stream ends.  At a boundary nothing is waited for; the surfaces of a     *)
(* destroyed context are left without an owner.                               *)
LEMMA StreamEndDelivers ==
    ASSUME DeliverySafe, NEW c \in Contexts, Restart(c) \/ Teardown(c)
    PROVE  GensStay /\ PendingAwaited'
<1>1. /\ TypeOK /\ PendingAwaited /\ Ended(ctx[c], dev[c], pc[c])
  BY ServedAt, ServedMeans DEF DeliverySafe
<1>2. \A s \in Surfaces : /\ SameWork(surf'[s], surf[s])
                          /\ surf'[s].queued => surf[s].queued
                          /\ surf'[s].owner \in {surf[s].owner, None}
                          /\ Teardown(c) /\ Live(s) => surf'[s].owner # c
  <2>1. CASE Restart(c)
    <3>1. surf' = Disowned(c) /\ ~Teardown(c)
      BY <2>1 DEF Restart, Teardown
    <3> QED
      BY <1>1, <3>1, DisownedStanding
  <2>2. CASE Teardown(c)
    BY <1>1, <2>2, DetachedStanding, RegistryAssumption DEF Teardown
  <2> QED
    BY <2>1, <2>2
<1>3. GensStay /\ PendingStay
  BY <1>1, <1>2, SameWorkStays
<1>4. \A d \in Contexts \ {c} : SessionStays(d)
  BY <1>1 DEF TypeOK, Restart, Teardown, SessionStays
<1>5. \A s \in Surfaces : ~(Pending(s)' /\ surf'[s].owner = c)
  <2> SUFFICES ASSUME NEW s \in Surfaces, Pending(s)', surf'[s].owner = c PROVE FALSE
    OBVIOUS
  <2>1. Pending(s) /\ surf[s].owner = c
    BY <1>3 DEF PendingStay
  <2>2. Restart(c)
    BY <1>2, <2>1 DEF Pending
  <2>3. dev[c].fw = <<>> /\ dev[c].cap = <<>> /\ pc[c] = "restart"
    BY <1>1, <2>2 DEF Restart, Ended
  <2>4. UnitCount(dev[c]) = 0
    BY <2>3, NothingCounted
  <2>5. PICK k \in 1 .. UnitCount(dev[c]) : TRUE
    BY <1>1, <2>1, <2>3 DEF PendingAwaited, Awaited
  <2> QED
    BY <2>4, <2>5
<1>6. PendingAwaited'
  <2> SUFFICES ASSUME NEW d \in Contexts, NEW s \in Surfaces, Pending(s)', surf'[s].owner = d
               PROVE  Awaited(d, s)'
    BY DEF PendingAwaited
  <2>1. d # c /\ Pending(s) /\ surf[s].owner = d /\ surf'[s].gen = surf[s].gen
    BY <1>3, <1>5 DEF PendingStay
  <2> QED
    BY <1>1, <1>4, <2>1, AwaitedStays
<1> QED
  BY <1>3, <1>6

(* vaEndPicture claims its target: it is now waited for, and the slot it is   *)
(* given in target_ring was the slot of no picture still on its way.          *)
LEMMA ClaimDelivers ==
    ASSUME DeliverySafe, NEW c \in Contexts, ClaimTarget(c)
    PROVE  GensStay /\ PendingAwaited'
<1> DEFINE x == ctx[c]
           n == UnitCount(dev[c])
           m == pend[c]
           k == SlotOf(x.seq)
           z == [used |-> TRUE, seq |-> x.seq, target |-> cur[c].target, gen |-> cur[c].gen]
           w == [m EXCEPT !.ring[k] = z]
<1>1. /\ TypeOK /\ x \in ContextRecord /\ dev[c] \in SessionRecord /\ m \in PendingRecord
      /\ Serves(x, dev[c], "prepare", m) /\ PendingAwaited
  BY ServedAt, ServedMeans DEF ClaimTarget, DeliverySafe
<1>2. ~paff[c].second
  BY DEF DeliverySafe, PairingInv, NoPairs
<1>3. /\ pend' = [pend EXCEPT ![c] = w] /\ pc' = [pc EXCEPT ![c] = "feed"]
      /\ UNCHANGED <<ctx, dev, cur>>
      /\ \A s \in Surfaces : surf'[s] = IF s = cur[c].target /\ Live(s)
                                        THEN Claimed(surf[s], c, Token(c)) ELSE surf[s]
  BY <1>1, <1>2 DEF TypeOK, ClaimTarget
<1>4. SameBut(w.ring, m.ring, k)
  BY <1>1 DEF PendingRecord, SameBut
<1>5. /\ pend'[c] = w /\ pc'[c] = "feed" /\ pc[c] = "prepare"
      /\ \A d \in Contexts \ {c} : pend'[d] = pend[d] /\ pc'[d] = pc[d]
  BY <1>1, <1>3 DEF TypeOK, ClaimTarget
<1>6. \A s \in Surfaces : /\ surf'[s].life = surf[s].life /\ surf'[s].gen = surf[s].gen
                          /\ s = cur[c].target /\ Live(s) => surf'[s].owner = c
                          /\ s # cur[c].target \/ ~Live(s) => surf'[s] = surf[s]
  BY <1>1, <1>3 DEF TypeOK, SurfaceRecord, Claimed, Finished
<1> HIDE DEF w, z
<1>7. GensStay
  BY <1>6 DEF GensStay, TypeOK, SurfaceRecord
<1>8. \A d \in Contexts \ {c} : SessionStays(d)
  BY <1>3, <1>5 DEF SessionStays
<1>9. SameSlots(x.seq, n, w.ring, m.ring)
  <2> DEFINE seq == x.seq
             new == w.ring
             ring == m.ring
  <2>1. /\ n \in Nat /\ n <= seq /\ seq \in Nat /\ n < RingSize
        /\ RingSize \in Nat /\ RingHolds(seq, n, ring)
    BY <1>1, UnitsCounted, HeldMeans, DecodeAssumption DEF Serves, Numbered, Fits, ContextRecord
  <2>2. 0 \in Nat /\ 0 <= seq /\ 0 <= RingSize /\ seq - 0 = seq
    BY <2>1
  <2>3. SameBut(new, ring, SlotOf(seq - 0))
    BY <1>4, <2>2
  <2> HIDE DEF n, seq, new, ring
  <2>4. SameSlots(seq, n, new, ring)
    BY <2>1, <2>2, <2>3, RingOfOthers
  <2> QED
    BY <2>4 DEF seq, new, ring
<1>10. PendingAwaited'
  <2> SUFFICES ASSUME NEW d \in Contexts, NEW s \in Surfaces, Pending(s)', surf'[s].owner = d
               PROVE  Awaited(d, s)'
    BY DEF PendingAwaited
  <2>1. CASE s = cur[c].target /\ Live(s)
    BY <1>3, <1>5, <1>6, <2>1 DEF Awaited
  <2>2. CASE ~(s = cur[c].target /\ Live(s))
    <3>1. Pending(s) /\ surf[s].owner = d /\ surf'[s].gen = surf[s].gen
      BY <1>6, <2>2 DEF Pending, Live
    <3>2. CASE d # c
      BY <1>1, <1>8, <3>1, <3>2, AwaitedStays
    <3>3. CASE d = c
      <4>1. Reaches(x.seq, n, m.ring, s, surf[s].gen)
        BY <1>1, <1>5, <3>1, <3>3, AwaitedMeans DEF PendingAwaited
      <4>2. Reaches(x.seq, n, w.ring, s, surf[s].gen)
        BY <1>9, <4>1, ReachesAlong
      <4> QED
        BY <1>3, <1>5, <3>1, <3>3, <4>2, AwaitedMeans
    <3> QED
      BY <3>2, <3>3
  <2> QED
    BY <2>1, <2>2
<1> QED
  BY <1>7, <1>10

(* The unit is fed: what waited for it now waits for the newest of the units. *)
LEMMA FeedDelivers ==
    ASSUME DeliverySafe, NEW c \in Contexts, Feed(c)
    PROVE  GensStay /\ PendingAwaited'
<1> DEFINE seq == ctx[c].seq
           n == UnitCount(dev[c])
           ring == pend[c].ring
<1>1. /\ TypeOK /\ ctx[c] \in ContextRecord /\ dev[c] \in SessionRecord
      /\ OwnGeneration /\ PendingAwaited /\ pc[c] = "feed"
      /\ UNCHANGED <<surf, cur>>
  BY ServedAt, ServedMeans DEF Feed, DeliverySafe
<1>2. UnitCount(dev'[c]) = n + 1 /\ ctx'[c].seq = seq + 1 /\ pend'[c].ring = ring
  BY FeedingServes
<1>3. \A d \in Contexts \ {c} : SessionStays(d)
  BY <1>1 DEF TypeOK, Feed, SessionStays
<1>4. ring[SlotOf(seq)].target = cur[c].target /\ ring[SlotOf(seq)].gen = cur[c].gen
  <2>1. ring[SlotOf(seq)] = [used |-> TRUE, seq |-> seq,
                             target |-> cur[c].target, gen |-> cur[c].gen]
    BY <1>1 DEF DeliverySafe, PairingInv, TargetClaimed
  <2> QED
    BY <2>1
<1>5. seq \in Nat /\ n \in Nat
  BY <1>1, UnitsCounted DEF ContextRecord
<1>6. GensStay /\ PendingStay
  BY <1>1, SameSurfacesStay
<1>7. PendingAwaited'
  <2> SUFFICES ASSUME NEW d \in Contexts, NEW s \in Surfaces, Pending(s)', surf'[s].owner = d
               PROVE  Awaited(d, s)'
    BY DEF PendingAwaited
  <2>1. Pending(s) /\ surf[s].owner = d /\ surf'[s].gen = surf[s].gen
    BY <1>6 DEF PendingStay
  <2>2. CASE d # c
    BY <1>1, <1>3, <2>1, <2>2, AwaitedStays
  <2>3. CASE d = c
    <3> DEFINE gen == surf[s].gen
    <3>1. \/ cur[c].target = s
          \/ Reaches(seq, n, ring, s, gen)
      BY <1>1, <2>1, <2>3, AwaitedMeans DEF PendingAwaited
    <3>2. cur[c].target = s => cur[c].gen = gen
      BY <1>1, <2>1 DEF OwnGeneration, UnderWay, Pending
    <3>3. \/ ring[SlotOf(seq)].target = s /\ ring[SlotOf(seq)].gen = gen
          \/ Reaches(seq, n, ring, s, gen)
      BY <1>4, <3>1, <3>2
    <3> HIDE DEF seq, n, ring, gen
    <3>4. Reaches(seq + 1, n + 1, ring, s, gen)
      BY <1>5, <3>3, ReachesFed
    <3> QED
      BY <1>2, <2>1, <2>3, <3>4, AwaitedMeans DEF gen
  <2> QED
    BY <2>2, <2>3
<1> QED
  BY <1>6, <1>7

(* A frame is taken: the oldest unit is gone, and if a surface waited for it  *)
(* the frame has landed there.                                                *)
LEMMA TakeDelivers ==
    ASSUME DeliverySafe, Reliable, NEW c \in Contexts, TakeFrame(c)
    PROVE  GensStay /\ PendingAwaited'
<1> DEFINE f == Head(dev[c].cap)
           seq == ctx[c].seq
           n == UnitCount(dev[c])
           ring == pend[c].ring
           new == pend'[c].ring
           slot == ring[SlotOf(seq - n)]
           t == MappedTo(c, f).target
<1>1. /\ TypeOK /\ ctx[c] \in ContextRecord /\ dev[c] \in SessionRecord
      /\ PendingAwaited /\ Serves(ctx[c], dev[c], pc[c], pend[c])
  BY ServedAt, ServedMeans DEF DeliverySafe
<1>2. /\ n \in Nat /\ n >= 1 /\ n <= seq /\ n <= RingSize /\ FrameSeq(f) = seq - n
      /\ Matching(c, f) /\ (HevcFifo => MappedByStamp(c, f)) /\ ~Unassignable(c, f)
  BY FrameTaken
<1>3. /\ UNCHANGED <<ctx, pc, cur>>
      /\ UnitCount(dev'[c]) = n - 1
      /\ pend' = [pend EXCEPT ![c] = MappingTaken(c, f)]
      /\ \/ ~Lands(c, f) /\ surf' = surf
         \/ Lands(c, f) /\ surf' = [surf EXCEPT ![t] = Landed(@, c, f.px)]
      /\ SameBut(new, ring, SlotOf(seq - n))
  BY TakeFrameServes
<1>4. MappedTo(c, f) = [target |-> slot.target, gen |-> slot.gen]
  BY <1>2 DEF MappedTo, MappedByStamp
<1>5. \A d \in Contexts \ {c} : SessionStays(d)
  BY <1>1, <1>3 DEF TypeOK, TakeFrame, SessionStays
<1>6. Lands(c, f) <=> Live(slot.target) /\ surf[slot.target].gen = slot.gen
  BY <1>2, <1>4 DEF Lands
<1> HIDE DEF f
<1>7. \A s \in Surfaces : /\ surf'[s].life = surf[s].life /\ surf'[s].gen = surf[s].gen
                          /\ surf'[s] = surf[s] \/ surf'[s].decoded
                          /\ Lands(c, f) /\ s = slot.target => surf'[s].decoded
  <2>1. CASE ~Lands(c, f) /\ surf' = surf
    BY <2>1
  <2>2. CASE Lands(c, f) /\ surf' = [surf EXCEPT ![t] = Landed(@, c, f.px)]
    <3>1. t = slot.target /\ t \in Surfaces
      BY <1>4, <1>6, <2>2 DEF Live
    <3>2. /\ surf'[t] = Landed(surf[t], c, f.px)
          /\ \A s \in Surfaces \ {t} : surf'[s] = surf[s]
      BY <1>1, <2>2, <3>1 DEF TypeOK
    <3>3. surf'[t].life = surf[t].life /\ surf'[t].gen = surf[t].gen /\ surf'[t].decoded
      BY <1>1, <3>1, <3>2, LandedStanding DEF TypeOK
    <3> QED
      BY <3>1, <3>2, <3>3
  <2> QED
    BY <1>3, <2>1, <2>2
<1>8. GensStay
  BY <1>7 DEF GensStay, TypeOK, SurfaceRecord
<1>9. SameSlots(seq, n - 1, new, ring)
  <2>1. n - 1 \in Nat /\ n - 1 <= seq /\ seq \in Nat /\ n - 1 < RingSize /\ RingSize \in Nat
        /\ n = (n - 1) + 1 /\ n \in Nat
    BY <1>1, <1>2, DecodeAssumption DEF ContextRecord
  <2>2. RingHolds(seq, n, ring)
    BY <1>1, <1>2, HeldMeans DEF Serves
  <2> DEFINE b == n - 1
  <2>3. RingHolds(seq, b, ring)
    BY <2>1, <2>2, HoldsLess
  <2>4. b \in Nat /\ b <= seq /\ b < RingSize /\ n = b + 1 /\ n <= RingSize /\ n <= seq
    BY <1>2, <2>1
  <2> HIDE DEF b, n, seq, ring, new
  <2>5. SameSlots(seq, b, new, ring)
    BY <1>3, <2>1, <2>3, <2>4, RingOfOthers
  <2> QED
    BY <2>5 DEF b
<1>10. PendingAwaited'
  <2> SUFFICES ASSUME NEW d \in Contexts, NEW s \in Surfaces, Pending(s)', surf'[s].owner = d
               PROVE  Awaited(d, s)'
    BY DEF PendingAwaited
  <2>1. /\ ~surf'[s].decoded /\ surf'[s] = surf[s] /\ ~(Lands(c, f) /\ s = slot.target)
        /\ Pending(s) /\ surf[s].owner = d
    BY <1>7 DEF Pending, Live
  <2>2. CASE d # c
    BY <1>1, <1>5, <2>1, <2>2, AwaitedStays
  <2>3. CASE d = c
    <3> DEFINE gen == surf[s].gen
    <3>1. (pc[c] = "feed" /\ cur[c].target = s) \/ Reaches(seq, n, ring, s, gen)
      BY <1>1, <2>1, <2>3, AwaitedMeans DEF PendingAwaited
    <3>2. CASE pc[c] = "feed" /\ cur[c].target = s
      BY <1>3, <2>1, <2>3, <3>2, AwaitedMeans
    <3>3. CASE Reaches(seq, n, ring, s, gen)
      <4>1. ~(slot.target = s /\ slot.gen = gen)
        BY <1>6, <2>1 DEF Pending
      <4>2. seq \in Nat /\ n \in Nat \ {0}
        BY <1>1, <1>2 DEF ContextRecord
      <4>3. Reaches(seq, n - 1, ring, s, gen)
        BY <3>3, <4>1, <4>2, ReachesLess
      <4>4. Reaches(seq, n - 1, new, s, gen)
        BY <1>9, <4>3, ReachesAlong
      <4> QED
        BY <1>3, <2>1, <2>3, <4>4, AwaitedMeans
    <3> QED
      BY <3>1, <3>2, <3>3
  <2> QED
    BY <2>2, <2>3
<1> QED
  BY <1>8, <1>10

(* Every step delivers.                                                       *)
LEMMA DeliversNext ==
    ASSUME DeliverySafe, Reliable, [Next]_vars
    PROVE  OwnGeneration' /\ PendingAwaited'
<1>1. TypeOK /\ GenerationsPast /\ OwnGeneration /\ PendingAwaited
  BY ServedMeans DEF DeliverySafe, PairingInv
<1>2. ASSUME GensStay, PendingStay, UnderWayStay, \A c \in Contexts : SessionStays(c)
      PROVE  OwnGeneration' /\ PendingAwaited'
  BY <1>1, <1>2, OwnGenerationStays, QuietDelivers
<1>3. ASSUME NEW c \in Contexts, CallStep(c) PROVE OwnGeneration' /\ PendingAwaited'
  <2>1. UnderWayStay
    BY <1>3, CallUnderWay
  <2>2. GensStay => OwnGeneration'
    BY <1>1, <2>1, OwnGenerationStays
  <2>3. CASE \/ FlushDone(c) \/ OpenSession(c) \/ DrainDone(c) \/ WaitDone(c) \/ TimesOut(c)
             \/ SyncReturn(c)
    <3>1. GensStay /\ PendingStay /\ \A d \in Contexts : SessionStays(d)
      BY <2>3, CallStays
    <3> QED
      BY <1>2, <2>1, <3>1
  <2>4. CASE ClaimTarget(c) \/ Feed(c) \/ TakeFrame(c) \/ Restart(c) \/ Teardown(c)
    BY <2>2, <2>4, ClaimDelivers, FeedDelivers, TakeDelivers, StreamEndDelivers
  <2> QED
    BY <1>3, <2>3, <2>4, NoFailure DEF CallStep
<1>4. ASSUME NEW c \in Contexts, Firmware(c) PROVE OwnGeneration' /\ PendingAwaited'
  <2>1. UNCHANGED <<surf, ctx, pend, cur, pc>>
        /\ \A b \in Contexts : UnitCount(dev'[b]) = UnitCount(dev[b])
    BY <1>4, FirmwareServes
  <2>2. \A b \in Contexts : SessionStays(b)
    BY <2>1 DEF SessionStays
  <2>3. UnderWayStay
    BY <2>1 DEF UnderWayStay, UnderWay, Unclaimed
  <2> QED
    BY <1>1, <1>2, <2>1, <2>2, <2>3, SameSurfacesStay
<1>5. ASSUME UNCHANGED vars PROVE OwnGeneration' /\ PendingAwaited'
  <2>1. UNCHANGED <<surf, ctx, pend, cur, pc, dev>>
    BY <1>5 DEF vars
  <2>2. GensStay /\ PendingStay
    BY <1>1, <2>1, SameSurfacesStay
  <2>3. UnderWayStay /\ \A c \in Contexts : SessionStays(c)
    BY <2>1 DEF UnderWayStay, UnderWay, Unclaimed, SessionStays
  <2> QED
    BY <1>2, <2>2, <2>3
<1>6. ASSUME NEW c \in Contexts, Client(c) PROVE OwnGeneration' /\ PendingAwaited'
  BY <1>2, <1>6, ClientStays, BeginDelivers DEF Client
<1> QED
  BY <1>1, <1>2, <1>3, <1>4, <1>5, <1>6, SurfaceCallStays, SyncStepStays DEF Next

-----------------------------------------------------------------------------
(* The theorems                                                               *)

LEMMA DeliverySafeInit == Init => DeliverySafe
<1> SUFFICES ASSUME Init PROVE DeliverySafe
  OBVIOUS
<1>1. /\ \A c \in Contexts : /\ ctx[c] = NoContext /\ dev[c] = NoSession /\ pc[c] = "idle"
                             /\ pend[c] = NoPending /\ cur[c] = NoPicture
      /\ \A s \in Surfaces : surf[s] = UnbornSurface
      /\ sync = NoSync
  BY DEF Init, RegistryInit
<1>2. ServedInv
  <2>1. /\ NoContext \in ContextRecord /\ ~NoContext.fatal /\ NoSession.fw = <<>>
        /\ NoSession.cap = <<>> /\ Len(NoPending.fifo) = 0
    BY EmptySeq DEF NoContext, ContextRecord, NoSession, NoPending
  <2>2. Serves(NoContext, NoSession, "idle", NoPending)
    BY <2>1, NothingServed
  <2> QED
    BY <1>1, <2>2 DEF ServedInv
<1>3. sync.st # "blocked"
  BY <1>1 DEF NoSync
<1>4. OwnGeneration /\ PendingAwaited
  BY <1>1 DEF OwnGeneration, PendingAwaited, Pending, Live, UnbornSurface
<1>5. DeliveryInv
  BY <1>2, <1>3, <1>4, ServedMeans
<1>6. OneCall
  BY <1>1 DEF OneCall, NoSync, AllIdle
<1> QED
  BY <1>5, <1>6, InitType, InitOwns, SessionInit, PairingInit, InitEnds DEF DeliverySafe

LEMMA ServedDelivers ==
    ServedInv /\ BlockedOnOpen /\ OwnGeneration /\ PendingAwaited => DeliveryInv
  BY ServedMeans DEF BlockedOnOpen

LEMMA DeliverySafeNext ==
    ASSUME Reliable
    PROVE  DeliverySafe /\ [Next]_vars => DeliverySafe'
<1> SUFFICES ASSUME DeliverySafe, [Next]_vars PROVE DeliverySafe'
  OBVIOUS
<1>1. /\ TypeOK /\ OwnershipInv /\ SessionInv /\ PairingInv /\ OneCall /\ SessionsEnd
  BY DEF DeliverySafe
<1>2. /\ ~ConcurrentClient /\ ~FieldPictures /\ "start" \notin Faults
      /\ "drain" \notin Faults /\ "device" \notin Faults
  BY DEF Reliable
<1>3. \A c \in Contexts : TakeFrame(c) => (HevcFifo => MappedByStamp(c, Head(dev[c].cap)))
  BY FrameTaken
<1>4. TypeOK' /\ OwnershipInv' /\ SessionInv' /\ OneCall' /\ SessionsEnd'
  BY <1>1, <1>2, NextType, NextOwns, SessionStep, OneCallStep, NextEnds
<1>5. PairingInv'
  BY <1>1, <1>2, <1>3, PairingNext
<1>6. ServedInv' /\ BlockedOnOpen' /\ OwnGeneration' /\ PendingAwaited'
  BY ServedNext, BlockedStep, DeliversNext
<1>7. DeliveryInv'
  BY <1>6, ServedDelivers, PTL
<1> QED
  BY <1>4, <1>5, <1>7 DEF DeliverySafe

(* No picture of a session is lost: the session holds the units fed last, one *)
(* sequence number after the other, with their mappings, and whatever is      *)
(* waited for is among them (decode.c:633-727, decode.c:302-441).             *)
THEOREM DeliveryHolds ==
    ASSUME Reliable
    PROVE  Spec => []DeliverySafe
<1> QED
  BY DeliverySafeInit, DeliverySafeNext, PTL DEF Spec

-----------------------------------------------------------------------------
(* A queued picture can complete                                              *)

(* Every unit counted has its sequence number as its timestamp.               *)
LEMMA UnitFound ==
    ASSUME DeliverySafe, NEW c \in Contexts, NEW k \in 1 .. UnitCount(dev[c])
    PROVE  \E u \in InSession(c) : u.ts = Timestamp(ctx[c].seq - k)
<1> DEFINE d == dev[c]
           a == Len(d.fw)
           b == FrameCount(d.cap)
           next == Timestamp(ctx[c].seq)
           n == UnitCount(d)
<1>1. /\ d \in SessionRecord /\ Serves(ctx[c], d, pc[c], pend[c]) /\ Ended(ctx[c], d, pc[c])
      /\ ctx[c].seq \in Nat
  BY ServedAt DEF ContextRecord
<1>2. /\ n = a + b /\ a \in Nat /\ b \in Nat /\ DOMAIN d.fw = 1 .. a
      /\ d.fw \in Seq(AccessUnit) /\ d.cap \in Seq(Frame) /\ DOMAIN d.cap = 1 .. Len(d.cap)
      /\ b <= Len(d.cap) /\ Len(d.cap) \in Nat
  BY <1>1, UnitsCounted, FramesCounted, LenProperties
<1>3. Timestamp(ctx[c].seq - k) = next - k
  BY <1>1 DEF Timestamp
<1>4. CASE k <= a
  <2> DEFINE i == a + 1 - k
  <2>1. i \in 1 .. a /\ a + 1 - i = k
    BY <1>2, <1>4
  <2> HIDE DEF i
  <2>2. d.fw[i].ts = next - (a + 1 - i)
    BY <1>1, <2>1 DEF Serves, Numbered
  <2>3. [ts |-> d.fw[i].ts, pic |-> d.fw[i].px.pic] \in InSession(c)
    BY <1>2, <2>1 DEF InSession, Units
  <2> QED
    BY <1>3, <2>1, <2>2, <2>3
<1>5. CASE k > a
  <2> DEFINE i == n + 1 - k
  <2>0. k \in Int /\ k <= n /\ n = a + b
    BY <1>2
  <2> HIDE DEF a, b, n
  <2>1. i \in 1 .. b /\ n + 1 - i = k /\ i \in 1 .. Len(d.cap)
    BY <1>2, <1>5, <2>0
  <2> USE DEF a, b, n
  <2> HIDE DEF i
  <2>2. ~d.cap[i].last
    <3>1. ASSUME d.cap[i].last PROVE FALSE
      <4>1. i = Len(d.cap)
        BY <1>1, <1>2, <2>1, <3>1 DEF Ended, LastAtEnd
      <4>2. d.cap # <<>>
        BY <1>2, <2>1, EmptySeq
      <4>3. b = Len(d.cap) - 1
        BY <3>1, <4>1, <4>2 DEF FrameCount
      <4> QED
        BY <1>2, <2>1, <4>1, <4>3
    <3> QED
      BY <3>1
  <2>3. d.cap[i].ts = next - (n + 1 - i)
    BY <1>1, <2>1, <2>2 DEF Serves, Numbered
  <2>4. [ts |-> d.cap[i].ts, pic |-> d.cap[i].px.pic] \in InSession(c)
    BY <1>2, <2>1 DEF InSession, Units
  <2> QED
    BY <1>3, <2>1, <2>3, <2>4
<1> QED
  BY <1>2, <1>4, <1>5

LEMMA AwaitedIsMapped ==
    ASSUME DeliverySafe, NEW c \in Contexts, NEW s \in Surfaces,
           Pending(s), surf[s].owner = c, ~Submitting(c)
    PROVE  Mapped(c, s)
<1> DEFINE n == UnitCount(dev[c])
           seq == ctx[c].seq
           m == pend[c]
<1>1. /\ m \in PendingRecord /\ Held(seq, n, m) /\ n \in Nat /\ n <= seq /\ seq \in Nat
  BY ServedAt, UnitsCounted DEF Serves, Numbered, ContextRecord
<1>2. PICK k \in 1 .. n : UnitSlot(c, k).target = s /\ UnitSlot(c, k).gen = surf[s].gen
  BY ServedMeans DEF DeliverySafe, PendingAwaited, Awaited, Submitting
<1> DEFINE j == SlotOf(seq - k)
<1>3. /\ m.ring[j].used /\ m.ring[j].seq = seq - k /\ m.ring[j].target = s
      /\ m.ring[j].gen = surf[s].gen
      /\ HevcFifo => /\ Len(m.fifo) = n
                     /\ m.fifo[n + 1 - k] = [target |-> m.ring[j].target, gen |-> m.ring[j].gen]
  BY <1>1, <1>2 DEF Held, UnitSlot
<1>4. j \in DOMAIN m.ring
  <2>1. seq - k \in Nat
    BY <1>1
  <2>2. DOMAIN m.ring = 0 .. RingSize - 1
    BY <1>1 DEF PendingRecord
  <2> QED
    BY <2>1, <2>2, SlotInRing
<1>5. PICK u \in InSession(c) : u.ts = Timestamp(seq - k)
  BY UnitFound
<1>6. n + 1 - k \in DOMAIN m.fifo \/ ~HevcFifo
  BY <1>1, <1>3, LenProperties DEF PendingRecord
<1>7. goal[s].pic = u.pic
  <2>1. j \in 0 .. RingSize - 1 /\ Live(s)
    BY <1>1, <1>4 DEF PendingRecord, Pending
  <2> HIDE DEF j
  <2>2. LeadsTo(m.ring[j], s) /\ u.ts = Timestamp(m.ring[j].seq)
    BY <1>3, <1>5, <2>1 DEF LeadsTo
  <2> QED
    BY <2>1, <2>2 DEF DeliverySafe, PairingInv, MappedPicture
<1> HIDE DEF j, n, seq
<1> QED
  BY <1>3, <1>4, <1>5, <1>6, <1>7 DEF Mapped

(* A queued picture is never lost: the session of its owner still holds it,   *)
(* and target_ring and hevc_ring lead back to its surface, however long the   *)
(* video runs and however often the client gives up waiting for a frame       *)
(* (decode.c:690-727, decode.c:302-441).                                      *)
THEOREM QueuedWillComplete ==
    ASSUME Reliable
    PROVE  Spec => []QueuedCanComplete
<1>1. DeliverySafe => QueuedCanComplete
  <2> SUFFICES ASSUME DeliverySafe, NEW s \in Surfaces, Pending(s), ~Submitting(surf[s].owner)
               PROVE  Mapped(surf[s].owner, s)
    BY DEF QueuedCanComplete
  <2>1. surf[s].owner \in Contexts
    BY DEF DeliverySafe, TypeOK, SurfaceRecord, Pending
  <2> QED
    BY <2>1, AwaitedIsMapped
<1> QED
  BY <1>1, DeliveryHolds, PTL

(* A surface reported ready, and not backfilled, shows the picture the client *)
(* last began on it, also where hevc_ring hands out the mappings in the order *)
(* the frames come (decode.c:382-393, decode.c:338-353).                      *)
THEOREM PicturesAreRightInOrder ==
    ASSUME Reliable
    PROVE  Spec => []DecodedHoldsItsPicture
<1>1. DeliverySafe => DecodedHoldsItsPicture
  BY DEF DeliverySafe, PairingInv, PicturesShown, DecodedHoldsItsPicture
<1> QED
  BY <1>1, DeliveryHolds, PTL

-----------------------------------------------------------------------------
(* What was accepted is in its surface when its stream or its context ends    *)

LEMMA NothingLeft ==
    ASSUME DeliverySafe, NEW c \in Contexts, UnitCount(dev[c]) = 0, pc[c] # "feed",
           NEW s \in Surfaces
    PROVE  ~(Pending(s) /\ surf[s].owner = c)
<1> SUFFICES ASSUME Pending(s), surf[s].owner = c PROVE FALSE
  OBVIOUS
<1>1. PICK k \in 1 .. UnitCount(dev[c]) : TRUE
  BY ServedMeans DEF DeliverySafe, PendingAwaited, Awaited
<1> QED
  BY <1>1

(* What ends a stream or a context finds nothing owed.                        *)
LEMMA EndsAreServed ==
    ASSUME DeliverySafe, "stop" \notin Faults
    PROVE  EndsServed
<1> SUFFICES ASSUME NEW c \in Contexts, NEW s \in Surfaces, Restart(c) \/ Teardown(c)
             PROVE  ~(Pending(s) /\ surf[s].owner = c)
  BY DEF EndsServed, NothingOwed
<1>1. Serves(ctx[c], dev[c], pc[c], pend[c]) /\ Ended(ctx[c], dev[c], pc[c])
  BY ServedAt
<1>2. UnitCount(dev[c]) = 0 /\ pc[c] # "feed"
  <2>1. CASE Restart(c)
    BY <1>1, <2>1, NothingCounted DEF Restart, Ended
  <2>2. CASE Teardown(c)
    BY <1>1, <2>2 DEF Teardown, Serves, Serving
  <2> QED
    BY <2>1, <2>2
<1> QED
  BY <1>2, NothingLeft

(* Where a stream or a context ends.                                          *)
LEMMA WhereItEnds ==
    ASSUME DeliverySafe, Reliable, [Next]_vars, NEW c \in Contexts,
           stream'[c] # stream[c] \/ ctx'[c].life # ctx[c].life
    PROVE  Restart(c) \/ Teardown(c) \/ CreateContext(c)
<1>1. TypeOK /\ ctx[c] \in ContextRecord
  BY ServedAt
<1>2. \A x \in ContextRecord : \A b :
         /\ [x EXCEPT !.eos = b].life = x.life /\ [x EXCEPT !.open = b].life = x.life
         /\ [x EXCEPT !.started = TRUE, !.seq = b].life = x.life
  BY DEF ContextRecord
<1>3. ASSUME NEW d \in Contexts, Client(d) PROVE CreateContext(c)
  <2>1. UNCHANGED stream
    BY <1>3 DEF Client, CreateContext, BeginPicture, EndPicture, EndPictureFails,
                DestroyContext, history
  <2>2. CASE CreateContext(d)
    BY <1>1, <2>1, <2>2 DEF CreateContext, TypeOK
  <2>3. CASE UNCHANGED ctx
    BY <2>1, <2>3
  <2>4. CASE StopSession(d, "boundary") \/ StopSession(d, "destroy")
    <3>1. ctx' = [ctx EXCEPT ![d] = [ctx[d] EXCEPT !.eos = TRUE]]
      BY <1>1, <2>4 DEF StopSession, TypeOK
    <3>2. ctx'[c].life = ctx[c].life
      BY <1>1, <1>2, <3>1 DEF TypeOK
    <3> QED
      BY <2>1, <3>2
  <2> QED
    <3>1. (\E ra, cue \in BOOLEAN : EndPicture(d, ra, cue))
              \/ DestroyContext(d)
            => UNCHANGED ctx \/ StopSession(d, "boundary") \/ StopSession(d, "destroy")
      BY DEF EndPicture, DestroyContext
    <3>2. (\E s \in Surfaces, field \in 0 .. 2, poc \in Pocs : BeginPicture(d, s, field, poc))
              \/ EndPictureFails(d) => UNCHANGED ctx
      BY DEF BeginPicture, EndPictureFails
    <3> QED
      BY <1>3, <2>2, <2>3, <2>4, <3>1, <3>2 DEF Client
<1>4. ASSUME NEW d \in Contexts, CallStep(d) PROVE Restart(c) \/ Teardown(c)
  <2>1. CASE Restart(d) \/ Teardown(d)
    <3>1. d = c
      BY <1>1, <2>1 DEF Restart, Teardown, TypeOK, history
    <3> QED
      BY <2>1, <3>1
  <2>2. CASE ~Restart(d) /\ ~Teardown(d)
    <3>1. UNCHANGED stream
      BY <1>4, <2>2 DEF CallStep, FlushDone, OpenSession, ClaimTarget, Feed, SubmitFails,
           StartFails, Unwind, DrainDone, WaitDone, TakeFrame, CallFails, TimesOut, SyncReturn,
           history
    <3>2. CASE OpenSession(d)
      <4>1. ~ctx[d].open /\ ~ctx[d].eos
        BY <3>2, NoFailure
      <4>2. PICK ok \in BOOLEAN : ctx' = [ctx EXCEPT ![d] = [ctx[d] EXCEPT !.open = ok]]
        BY <1>1, <3>2, <4>1, Zenon DEF TypeOK, OpenSession, OldSessionEnded
      <4> QED
        BY <1>1, <1>2, <3>1, <4>2 DEF TypeOK
    <3>3. CASE Feed(d)
      <4>1. ctx' = [ctx EXCEPT ![d] = [ctx[d] EXCEPT !.started = TRUE, !.seq = NextSeq(d)]]
        BY <1>1, <3>3 DEF TypeOK, Feed
      <4> QED
        BY <1>1, <1>2, <3>1, <4>1 DEF TypeOK
    <3>4. CASE TakeFrame(d)
      BY <3>1, <3>4, TakeFrameServes
    <3> QED
      BY <1>4, <2>2, <3>1, <3>2, <3>3, <3>4, NoFailure
      DEF CallStep, FlushDone, ClaimTarget, DrainDone, WaitDone, TimesOut, SyncReturn
  <2> QED
    BY <2>1, <2>2
<1>5. \A d \in Contexts : Firmware(d) => UNCHANGED <<ctx, stream>>
  BY DEF Firmware, FwDecode, FwDrop, FwLast, history
<1>6. UNCHANGED vars \/ SyncStep \/ (\E s \in Surfaces : SurfaceCall(s))
        => UNCHANGED <<ctx, stream>>
  BY DEF vars, SyncStep, SyncFilled, SyncEnter, SurfaceCall, AllocSurface, ExportSurface,
         FreeSurface, SyncSurface, history
<1> QED
  BY <1>3, <1>4, <1>5, <1>6 DEF Next

(* Neither a boundary nor the destruction of a context abandons an accepted   *)
(* picture (decode.c:125-128, stream.c:334-338): a refused STOP is the only   *)
(* way to lose one, and that is not allowed here.                             *)
THEOREM AcceptedWorkIsDone ==
    ASSUME Reliable, "stop" \notin Faults
    PROVE  Spec => AcceptedWorkCompletes
<1>1. ASSUME DeliverySafe, [Next]_vars
      PROVE  [\A c \in Contexts :
                 stream'[c] # stream[c] \/ ctx'[c].life # ctx[c].life =>
                     \A s \in Surfaces : ~(Pending(s) /\ surf[s].owner = c)]_vars
  <2> SUFFICES ASSUME NEW c \in Contexts, NEW s \in Surfaces,
                      stream'[c] # stream[c] \/ ctx'[c].life # ctx[c].life
               PROVE  ~(Pending(s) /\ surf[s].owner = c)
    OBVIOUS
  <2>1. Restart(c) \/ Teardown(c) \/ CreateContext(c)
    BY <1>1, WhereItEnds
  <2>3. CASE Restart(c) \/ Teardown(c)
    BY <1>1, <2>3, EndsAreServed DEF EndsServed, NothingOwed
  <2>4. CASE CreateContext(c)
    <3>1. surf[s].owner # None => ctx[surf[s].owner].life = "live"
      BY <1>1 DEF DeliverySafe, OwnershipInv, OwnersAlive
    <3> QED
      BY <2>4, <3>1, RegistryAssumption DEF CreateContext
  <2> QED
    BY <2>1, <2>3, <2>4
<1> QED
  BY <1>1, DeliveryHolds, PTL DEF Spec, AcceptedWorkCompletes

(* The promise of a surface is kept without giving a picture up: a seek and a *)
(* destroyed context age surfaces, but with nothing going wrong (Faults = {}) *)
(* no picture they accepted is lost (decode.h:33-35, decode.c:125-128).       *)
THEOREM NoPictureIsGivenUp ==
    ASSUME Reliable, ~HevcFifo, "stop" \notin Faults
    PROVE  Spec => KeepsThePromise
<1>1. Init => Promise!Init
  BY PromiseInitially
<1>2. CurrentPixelsInv /\ DeliverySafe /\ PromiseKeptInv => PromiseSafe
  BY DEF PromiseSafe, Safe, SessionInv, CurrentPixelsInv, DeliverySafe
<1>3. PromiseSafe /\ DeliverySafe /\ DeliverySafe' /\ [Next]_vars
        => [Promise!Next]_Promise!vars
  <2> SUFFICES ASSUME PromiseSafe, DeliverySafe, DeliverySafe', [Next]_vars
               PROVE  [Promise!Next]_Promise!vars
    OBVIOUS
  <2>1. TypeOK' /\ EndsServed
    BY EndsAreServed DEF DeliverySafe
  <2> QED
    BY <2>1, PromiseStep DEF Reliable
<1>4. Spec => []PromiseKeptInv /\ []CurrentPixelsInv
  BY ClaimsHold, PixelsHold DEF Reliable
<1> QED
  BY <1>1, <1>2, <1>3, <1>4, DeliveryHolds, PTL DEF Spec, KeepsThePromise, Promise!Spec

-----------------------------------------------------------------------------
(* Fences                                                                     *)

CoverSafe == DeliverySafe /\ FenceInv /\ CoverInv

(* The newest token c may have given out.                                     *)
NewestToken(x, p) == x.seq + (IF p = "feed" THEN 1 ELSE 0)

(* No context with tokens out goes back in its numbering.                     *)
NumberingKept ==
    \A s \in Surfaces :
        surf'[s].fence # 0 =>
            LET c == surf'[s].owner
            IN  NewestToken(ctx[c], pc[c]) <= NewestToken(ctx'[c], pc'[c])

(* Whoever waits after the step waited before, behind the same fence.         *)
WaitsKept ==
    \A s \in Surfaces :
        Pending(s)' => /\ Pending(s)
                       /\ surf'[s].owner = surf[s].owner /\ surf'[s].fence = surf[s].fence
                       /\ FenceOf(s) \in resv'

(* In a context that keeps its sequence numbers and goes on at the same place *)
(* or at one that is no submission, nor was one.                              *)
LEMMA NumbersKept ==
    ASSUME TypeOK, NEW c \in Contexts,
           ctx'[c].seq = ctx[c].seq, pc'[c] = pc[c] \/ pc[c] # "feed"
    PROVE  NewestToken(ctx[c], pc[c]) <= NewestToken(ctx'[c], pc'[c])
<1>1. ctx[c].seq \in Nat
  BY DEF TypeOK, ContextRecord
<1> QED
  BY <1>1 DEF NewestToken

LEMMA CoverKept ==
    ASSUME TypeOK, TypeOK', OwnershipInv', CoverInv, TokensKept, NumberingKept, WaitsKept
    PROVE  CoverInv'
<1>1. TokensApart'
  <2> SUFFICES ASSUME NEW s \in Surfaces, surf'[s].fence # 0
               PROVE  /\ surf'[s].fence <= NewestToken(ctx'[surf'[s].owner], pc'[surf'[s].owner])
                      /\ \A t \in Surfaces :
                            surf'[t].owner = surf'[s].owner /\ surf'[t].fence = surf'[s].fence
                                => t = s
    BY DEF TokensApart, NewestToken
  <2> DEFINE c == surf'[s].owner
  <2>1. surf[s].fence = surf'[s].fence /\ surf[s].owner = c
    BY DEF TokensKept
  <2>2. surf[s].fence <= NewestToken(ctx[c], pc[c])
    BY <2>1 DEF CoverInv, TokensApart, NewestToken
  <2>3. c \in Contexts
    BY OwnersTyped DEF OwnershipInv, FenceOwnerOpen, TypeOK, SurfaceRecord
  <2>4. /\ NewestToken(ctx[c], pc[c]) \in Nat /\ NewestToken(ctx'[c], pc'[c]) \in Nat
        /\ surf'[s].fence \in Nat
    BY <2>3 DEF NewestToken, TypeOK, ContextRecord, SurfaceRecord
  <2>5. NewestToken(ctx[c], pc[c]) <= NewestToken(ctx'[c], pc'[c])
    BY DEF NumberingKept
  <2>6. surf'[s].fence <= NewestToken(ctx'[c], pc'[c])
    BY <2>1, <2>2, <2>4, <2>5
  <2>7. ASSUME NEW t \in Surfaces, surf'[t].owner = c, surf'[t].fence = surf'[s].fence
        PROVE  t = s
    <3>1. surf[t].owner = c /\ surf[t].fence = surf[s].fence
      BY <2>1, <2>7 DEF TokensKept
    <3> QED
      BY <2>1, <3>1 DEF CoverInv, TokensApart
  <2> QED
    BY <2>6, <2>7
<1>2. WritesCovered'
  BY DEF WaitsKept, WritesCovered, FenceOf
<1> QED
  BY <1>1, <1>2 DEF CoverInv

(* Signalling what one surface of c has leaves the fence of every other.      *)
LEMMA OthersCovered ==
    ASSUME TypeOK, CoverInv, NEW c \in Contexts, NEW t \in Surfaces, LeftAlone(c, t),
           NEW s \in Surfaces, s # t, Pending(s)
    PROVE  FenceOf(s) \in Signalled(c, {surf[t].fence})
<1>1. FenceOf(s) \in resv /\ surf[s].fence # 0
  <2>1. FenceOf(s) \in resv
    BY DEF CoverInv, WritesCovered
  <2>2. FenceOf(s).token = surf[s].fence
    BY DEF FenceOf
  <2> QED
    BY <2>1, <2>2, FencesTyped DEF FenceTyped
<1>2. ~(surf[s].owner = c /\ surf[s].fence = surf[t].fence)
  BY <1>1 DEF CoverInv, TokensApart, LeftAlone
<1> QED
  BY <1>1, <1>2 DEF Signalled, FenceOf

(* A sweep of c leaves the fences of the others.                              *)
LEMMA SweptOthers ==
    ASSUME CoverInv, NEW c \in Contexts, NEW s \in Surfaces, Pending(s), surf[s].owner # c
    PROVE  FenceOf(s) \in Swept(c)
  BY DEF CoverInv, WritesCovered, Swept, Signalled, FenceOf

(* What waits in a surface the step leaves alone.                             *)
Waits(x) == x.life = "live" /\ x.queued /\ ~x.decoded /\ x.owner # None

LEMMA WaitsMeans ==
    ASSUME NEW s \in Surfaces
    PROVE  (Pending(s) <=> Waits(surf[s])) /\ (Pending(s)' <=> Waits(surf'[s]))
  BY DEF Pending, Live, Waits

LEMMA OneSurfaceWaits ==
    ASSUME TypeOK, CoverInv, NEW t \in Surfaces, NEW x, surf' = [surf EXCEPT ![t] = x],
           Waits(x) => /\ Waits(surf[t]) /\ UNCHANGED resv
                       /\ x.owner = surf[t].owner /\ x.fence = surf[t].fence,
           UNCHANGED resv \/ \E c \in Contexts :
                                LeftAlone(c, t) /\ resv' = Signalled(c, {surf[t].fence})
    PROVE  WaitsKept
<1>1. surf'[t] = x /\ \A s \in Surfaces \ {t} : surf'[s] = surf[s]
  BY DEF TypeOK
<1>2. ASSUME NEW s \in Surfaces, s # t, Waits(surf'[s])
      PROVE  Waits(surf[s]) /\ surf'[s] = surf[s] /\ FenceOf(s) \in resv'
  <2>1. Waits(surf[s]) /\ surf'[s] = surf[s]
    BY <1>1, <1>2
  <2>2. FenceOf(s) \in resv
    BY <2>1, WaitsMeans DEF CoverInv, WritesCovered
  <2> QED
    BY <1>2, <2>1, <2>2, OthersCovered, WaitsMeans
<1>3. ASSUME Waits(surf'[t])
      PROVE  /\ Waits(surf[t]) /\ FenceOf(t) \in resv'
             /\ surf'[t].owner = surf[t].owner /\ surf'[t].fence = surf[t].fence
  BY <1>1, <1>3, WaitsMeans DEF CoverInv, WritesCovered
<1> QED
  BY <1>2, <1>3, WaitsMeans DEF WaitsKept

LEMMA NoSurfaceWaits ==
    ASSUME CoverInv, UNCHANGED <<surf, resv>>
    PROVE  WaitsKept
  BY DEF WaitsKept, CoverInv, WritesCovered, Pending, Live

-----------------------------------------------------------------------------
(* The fence of each write                                                    *)

(* The calls on surfaces and the firmware.                                    *)
LEMMA OffCallCovers ==
    ASSUME CoverSafe, OffCall
    PROVE  TokensKept /\ NumberingKept /\ WaitsKept
<1>0. /\ TypeOK /\ OwnershipInv /\ CoverInv /\ AttachedRecorded
      /\ \A s \in Surfaces : surf[s] \in SurfaceRecord
  BY DEF CoverSafe, DeliverySafe, FenceInv, TypeOK
<1>1. TokensKept
  BY <1>0, OffCallFences
<1>2. NumberingKept
  <2>1. \A c \in Contexts : ctx'[c] = ctx[c] /\ (pc'[c] = pc[c] \/ pc[c] # "feed")
    BY <1>0 DEF OffCall, Firmware, FwDecode, FwDrop, FwLast, SurfaceCall, AllocSurface,
        ExportSurface, FreeSurface, SyncSurface, SyncStep, SyncFilled, SyncEnter, vars, TypeOK
  <2>2. ASSUME NEW s \in Surfaces, surf'[s].fence # 0 PROVE surf'[s].owner \in Contexts
    <3>1. surf[s].fence # 0 /\ surf'[s].owner = surf[s].owner
      BY <1>1, <2>2 DEF TokensKept
    <3> QED
      BY <1>0, <3>1, OwnersTyped DEF OwnershipInv, FenceOwnerOpen
  <2> QED
    BY <1>0, <2>1, <2>2, NumbersKept DEF NumberingKept
<1>3. ASSUME NEW s \in Surfaces, AllocSurface(s) PROVE WaitsKept
  <2>1. surf' = [surf EXCEPT ![s] = Allocated] /\ UNCHANGED resv
    BY <1>3 DEF AllocSurface
  <2>2. ~Waits(Allocated)
    BY DEF Allocated, UnbornSurface, Waits
  <2> QED
    BY <1>0, <2>1, <2>2, OneSurfaceWaits
<1>4. ASSUME NEW s \in Surfaces, ExportSurface(s) PROVE WaitsKept
  <2> DEFINE x == [surf[s] EXCEPT !.exported = TRUE]
  <2>1. surf' = [surf EXCEPT ![s] = x] /\ UNCHANGED resv
    BY <1>0, <1>4 DEF TypeOK, ExportSurface
  <2>2. (Waits(x) => Waits(surf[s])) /\ x.fence = surf[s].fence /\ x.owner = surf[s].owner
    BY <1>0 DEF SurfaceRecord, Waits
  <2> HIDE DEF x
  <2> QED
    BY <1>0, <2>1, <2>2, OneSurfaceWaits
<1>5. ASSUME NEW s \in Surfaces, FreeSurface(s) PROVE WaitsKept
  <2> DEFINE x == [UnbornSurface EXCEPT !.life = "freed"]
  <2>1. surf' = [surf EXCEPT ![s] = x] /\ ~Waits(x)
    BY <1>5 DEF FreeSurface, UnbornSurface, Waits
  <2>2. \/ UNCHANGED resv
        \/ surf[s].owner # None /\ resv' = Signalled(surf[s].owner, {surf[s].fence})
    BY <1>5 DEF FreeSurface
  <2>3. surf[s].owner \in Contexts \cup {None}
    BY <1>0, OwnersTyped
  <2> HIDE DEF x
  <2> QED
    BY <1>0, <2>1, <2>2, <2>3, OneSurfaceWaits DEF LeftAlone
<1>6. ASSUME NEW s \in Surfaces, SyncSurface(s), Stale(s) PROVE WaitsKept
  <2> DEFINE x == [surf[s] EXCEPT !.px = FillPixels(s)]
  <2>1. surf' = [surf EXCEPT ![s] = x] /\ UNCHANGED resv
    BY <1>0, <1>6 DEF TypeOK, SyncSurface
  <2>2. (Waits(x) => Waits(surf[s])) /\ x.fence = surf[s].fence /\ x.owner = surf[s].owner
    BY <1>0 DEF SurfaceRecord, Waits
  <2> HIDE DEF x
  <2> QED
    BY <1>0, <2>1, <2>2, OneSurfaceWaits
<1>7. ASSUME SyncFilled PROVE WaitsKept
  <2> DEFINE x == Backfilled(surf[sync.s])
  <2>0. UNCHANGED resv /\ surf' = [surf EXCEPT ![sync.s] = x]
    BY <1>0, <1>7 DEF SyncFilled, TypeOK
  <2>1. CASE sync.s \in Surfaces
    <3>1. ~Waits(x)
      BY <1>0, <2>1 DEF SurfaceRecord, Backfilled, Waits
    <3> HIDE DEF x
    <3> QED
      BY <1>0, <2>0, <2>1, <3>1, OneSurfaceWaits
  <2>2. CASE sync.s \notin Surfaces
    <3> HIDE DEF x
    <3>1. \A t \in Surfaces : surf'[t] = surf[t]
      BY <1>0, <2>0, <2>2 DEF TypeOK
    <3> QED
      BY <1>0, <2>0, <3>1 DEF WaitsKept, CoverInv, WritesCovered, Pending, Live
  <2> QED
    BY <2>1, <2>2
<1>8. \/ UNCHANGED <<surf, resv>>
      \/ \E s \in Surfaces :
            AllocSurface(s) \/ ExportSurface(s) \/ FreeSurface(s) \/ (SyncSurface(s) /\ Stale(s))
      \/ SyncFilled
  BY DEF OffCall, Firmware, FwDecode, FwDrop, FwLast, SurfaceCall, SyncSurface, SyncStep,
         SyncEnter, vars
<1>9. WaitsKept
  BY <1>0, <1>3, <1>4, <1>5, <1>6, <1>7, <1>8, NoSurfaceWaits
<1> QED
  BY <1>1, <1>2, <1>9

(* The entries of calls, vaBeginPicture among them.                           *)
LEMMA ClientCovers ==
    ASSUME CoverSafe, Reliable, NEW c \in Contexts, Client(c)
    PROVE  TokensKept /\ NumberingKept /\ WaitsKept
<1>0. /\ TypeOK /\ OwnershipInv /\ CoverInv /\ AttachedRecorded /\ NoPairs
      /\ \A s \in Surfaces : surf[s] \in SurfaceRecord
  BY DEF CoverSafe, DeliverySafe, FenceInv, TypeOK
<1>1. UNCHANGED resv
  BY DEF Client, CreateContext, BeginPicture, EndPicture, EndPictureFails, DestroyContext
<1>2. UNCHANGED surf
      \/ \E s \in Surfaces, field \in 0 .. 2, poc \in Pocs : BeginPicture(c, s, field, poc)
  BY DEF Client, CreateContext, EndPicture, EndPictureFails, DestroyContext
<1>3. TokensKept /\ WaitsKept
  <2>1. CASE UNCHANGED surf
    BY <1>0, <1>1, <2>1, NoSurfaceWaits, SameFences
  <2>2. ASSUME NEW s \in Surfaces, NEW field \in 0 .. 2, NEW poc \in Pocs,
               BeginPicture(c, s, field, poc)
        PROVE  TokensKept /\ WaitsKept
    <3>1. surf' = [surf EXCEPT ![s] = Begun(surf[s])]
      BY <1>0, <2>2, BeginEffects DEF Reliable
    <3>2. ~Waits(Begun(surf[s])) /\ Same(Begun(surf[s]), surf[s])
      BY <1>0, WriteEffects DEF Begun, Waits, SurfaceRecord
    <3>3. \A t \in Surfaces : Same(surf'[t], surf[t])
      BY <1>0, <3>1, <3>2 DEF TypeOK, Same
    <3>4. WaitsKept
      BY <1>0, <1>1, <3>1, <3>2, OneSurfaceWaits
    <3> QED
      BY <1>0, <1>1, <3>3, <3>4, SameFences DEF Same
  <2> QED
    BY <1>2, <2>1, <2>2
<1>4. NumberingKept
  <2>1. SeqsKept
    BY <1>0, FlagsKeepSeq
    DEF Client, StopSession, CreateContext, BeginPicture, EndPicture, EndPictureFails, DestroyContext
  <2>2. \A d \in Contexts : pc'[d] = pc[d] \/ pc[d] # "feed"
    BY <1>0 DEF Client, StopSession, MayCall, CreateContext, BeginPicture, EndPicture,
        EndPictureFails, DestroyContext, TypeOK
  <2>3. ASSUME NEW s \in Surfaces, surf'[s].fence # 0 PROVE surf'[s].owner \in Contexts
    <3>1. surf[s].fence # 0 /\ surf'[s].owner = surf[s].owner
      BY <1>3, <2>3 DEF TokensKept
    <3> QED
      BY <1>0, <3>1, OwnersTyped DEF OwnershipInv, FenceOwnerOpen
  <2> QED
    BY <1>0, <2>1, <2>2, <2>3, NumbersKept DEF NumberingKept, SeqsKept
<1> QED
  BY <1>3, <1>4

(* Only c moves, and its numbering does not go back, unless nothing that c    *)
(* fenced is left.                                                            *)
LEMMA OneContextNumbers ==
    ASSUME TypeOK, TypeOK', OwnershipInv', NEW c \in Contexts,
           \A d \in Contexts \ {c} : ctx'[d] = ctx[d] /\ pc'[d] = pc[d],
           \/ NewestToken(ctx[c], pc[c]) <= NewestToken(ctx'[c], pc'[c])
           \/ \A s \in Surfaces : surf'[s].owner = c => surf'[s].fence = 0
    PROVE  NumberingKept
<1> SUFFICES ASSUME NEW s \in Surfaces, surf'[s].fence # 0
             PROVE  LET d == surf'[s].owner
                    IN  NewestToken(ctx[d], pc[d]) <= NewestToken(ctx'[d], pc'[d])
  BY DEF NumberingKept
<1> DEFINE d == surf'[s].owner
<1>1. d \in Contexts
  BY OwnersTyped DEF OwnershipInv, FenceOwnerOpen, TypeOK, SurfaceRecord
<1>2. NewestToken(ctx[d], pc[d]) \in Nat
  BY <1>1 DEF NewestToken, TypeOK, ContextRecord
<1>3. CASE d = c
  BY <1>3
<1>4. CASE d # c
  <2>1. NewestToken(ctx'[d], pc'[d]) = NewestToken(ctx[d], pc[d])
    BY <1>1, <1>4
  <2> QED
    BY <1>2, <2>1
<1> QED
  BY <1>3, <1>4

(* The end of a session: c gives up what it has in flight, and only that.     *)
LEMMA EndCovers ==
    ASSUME CoverSafe, TypeOK', OwnershipInv', NEW c \in Contexts, Restart(c) \/ Teardown(c)
    PROVE  NumberingKept /\ WaitsKept
<1>0. TypeOK /\ OwnershipInv /\ CoverInv
  BY DEF CoverSafe, DeliverySafe
<1>1. NumberingKept
  <2>1. \A d \in Contexts \ {c} : ctx'[d] = ctx[d] /\ pc'[d] = pc[d]
    BY <1>0 DEF Restart, Teardown, TypeOK
  <2>2. CASE Restart(c)
    <3>1. Closed(c, ctx[c].seq).seq = ctx[c].seq
      BY <1>0 DEF Closed, TypeOK, ContextRecord
    <3>2. ctx'[c].seq = ctx[c].seq /\ pc[c] # "feed"
      BY <1>0, <2>2, <3>1 DEF Restart, TypeOK
    <3>3. NewestToken(ctx[c], pc[c]) <= NewestToken(ctx'[c], pc'[c])
      BY <1>0, <3>2, NumbersKept
    <3> QED
      BY <1>0, <2>1, <3>3, OneContextNumbers
  <2>3. CASE Teardown(c)
    <3>1. ~ctx'[c].open
      BY <1>0, <2>3 DEF Teardown, NoContext, TypeOK
    <3>2. \A s \in Surfaces : surf'[s].owner = c => surf'[s].fence = 0
      BY <3>1 DEF OwnershipInv, FenceOwnerOpen
    <3> QED
      BY <1>0, <2>1, <3>2, OneContextNumbers
  <2> QED
    BY <2>2, <2>3
<1>2. ASSUME NEW s \in Surfaces, Waits(surf'[s])
      PROVE  Waits(surf[s]) /\ surf'[s] = surf[s] /\ FenceOf(s) \in resv'
  <2>1. surf[s] \in SurfaceRecord
    BY <1>0 DEF TypeOK
  <2>2. CASE Live(s) /\ surf[s].owner = c
    <3>1. CASE Restart(c)
      <4> DEFINE x == [Finished(surf[s]) EXCEPT
                          !.queued = IF Abandoned(surf[s], c) THEN FALSE ELSE @]
      <4>1. surf'[s] = x
        BY <2>2, <3>1 DEF Restart, Disowned
      <4>2. ~Waits(x)
        BY <2>1, <2>2 DEF SurfaceRecord, Finished, Abandoned, Waits
      <4> HIDE DEF x
      <4> QED
        BY <1>2, <4>1, <4>2
    <3>2. CASE Teardown(c)
      <4>1. surf'[s].owner = None
        BY <1>0, <2>2, <3>2, DetachedEffect DEF Teardown
      <4> QED
        BY <1>2, <4>1 DEF Waits
    <3> QED
      BY <3>1, <3>2
  <2>3. CASE ~(Live(s) /\ surf[s].owner = c)
    <3>1. surf'[s] = surf[s]
      BY <2>3 DEF Restart, Disowned, Teardown, Detached
    <3>2. Pending(s) /\ surf[s].owner # c
      BY <1>2, <2>3, <3>1, WaitsMeans DEF Pending
    <3>3. resv' = Swept(c) \/ resv' = resv
      BY DEF Restart, Teardown
    <3>4. FenceOf(s) \in resv
      BY <1>0, <3>2 DEF CoverInv, WritesCovered
    <3> QED
      BY <1>0, <1>2, <3>1, <3>2, <3>3, <3>4, SweptOthers
  <2> QED
    BY <2>2, <2>3
<1>3. WaitsKept
  BY <1>2, WaitsMeans DEF WaitsKept
<1> QED
  BY <1>1, <1>3

(* The other steps of a call, without failures: no surface changes.           *)
LEMMA CallCovers ==
    ASSUME CoverSafe, Reliable, TypeOK', OwnershipInv', NEW c \in Contexts, CallStep(c),
           ~ClaimTarget(c), ~TakeFrame(c)
    PROVE  TokensKept /\ NumberingKept /\ WaitsKept
<1>0. TypeOK /\ OwnershipInv /\ CoverInv /\ AttachedRecorded /\ DeliverySafe /\ NoPairs
  BY DEF CoverSafe, DeliverySafe, FenceInv
<1>1. TokensKept
  BY <1>0, CallFences
<1>2. CASE Restart(c) \/ Teardown(c)
  BY <1>0, <1>1, <1>2, EndCovers
<1>3. CASE ~Restart(c) /\ ~Teardown(c)
  <2>1. ~SubmitFails(c) /\ ~StartFails(c) /\ ~Unwind(c) /\ ~CallFails(c)
    BY <1>0, NoFailure
  <2>2. OpenSession(c) => ~ctx[c].open /\ ~ctx[c].eos
    BY <1>0, NoFailure
  <2>3. UNCHANGED <<surf, resv>>
    BY <1>3, <2>1, <2>2
    DEF CallStep, FlushDone, OpenSession, OldSessionEnded, Feed, DrainDone, WaitDone, TimesOut,
        SyncReturn
  <2>4. WaitsKept
    BY <1>0, <2>3, NoSurfaceWaits
  <2>5. \A d \in Contexts \ {c} : ctx'[d] = ctx[d] /\ pc'[d] = pc[d]
    BY <1>0, <1>3, <2>1
    DEF CallStep, FlushDone, OpenSession, Feed, DrainDone, WaitDone, TimesOut, Failing,
        SyncReturn, TypeOK
  <2>6. CASE Feed(c)
    <3>1. ctx'[c].seq = ctx[c].seq + 1 /\ pc[c] = "feed" /\ pc'[c] = "drain"
      BY <1>0, <2>6 DEF Feed, NextSeq, NoPairs, TypeOK, ContextRecord
    <3>2. ctx[c].seq \in Nat
      BY <1>0 DEF TypeOK, ContextRecord
    <3>3. NewestToken(ctx[c], pc[c]) <= NewestToken(ctx'[c], pc'[c])
      BY <3>1, <3>2 DEF NewestToken
    <3> QED
      BY <1>0, <1>1, <2>4, <2>5, <3>3, OneContextNumbers
  <2>7. CASE ~Feed(c)
    <3>1. pc'[c] = pc[c] \/ pc[c] # "feed"
      BY <1>0, <1>3, <2>1, <2>7
      DEF CallStep, FlushDone, OpenSession, DrainDone, WaitDone, TimesOut, SyncReturn, TypeOK
    <3>2. ctx'[c].seq = ctx[c].seq
      <4>1. CASE OpenSession(c)
        <5>1. PICK ok \in BOOLEAN : ctx' = [ctx EXCEPT ![c] = [ctx[c] EXCEPT !.open = ok]]
          BY <1>0, <2>2, <4>1, Zenon DEF TypeOK, OpenSession, OldSessionEnded
        <5>2. [ctx[c] EXCEPT !.open = ok].seq = ctx[c].seq
          BY <1>0 DEF TypeOK, ContextRecord
        <5> QED
          BY <1>0, <5>1, <5>2 DEF TypeOK
      <4>2. CASE ~OpenSession(c)
        BY <1>0, <1>3, <2>1, <2>7, <4>2
        DEF CallStep, FlushDone, DrainDone, WaitDone, TimesOut, SyncReturn
      <4> QED
        BY <4>1, <4>2
    <3>3. NewestToken(ctx[c], pc[c]) <= NewestToken(ctx'[c], pc'[c])
      BY <1>0, <3>1, <3>2, NumbersKept
    <3> QED
      BY <1>0, <1>1, <2>4, <2>5, <3>3, OneContextNumbers
  <2> QED
    BY <2>6, <2>7
<1> QED
  BY <1>2, <1>3

(* A frame lands, and with it the fence of its surface goes.                  *)
LEMMA TakeFrameCovers ==
    ASSUME CoverSafe, Reliable, NEW c \in Contexts, TakeFrame(c)
    PROVE  TokensKept /\ NumberingKept /\ WaitsKept
<1>0. TypeOK /\ OwnershipInv /\ CoverInv /\ AttachedRecorded /\ ClaimsOwn /\ DeliverySafe
  BY DEF CoverSafe, DeliverySafe, FenceInv
<1> DEFINE f == Head(dev[c].cap)
           t == MappedTo(c, f).target
<1>1. UNCHANGED <<ctx, pc>>
  BY <1>0, TakeFrameServes
<1>2. /\ f \in Frame
      /\ \/ ~Lands(c, f) /\ UNCHANGED <<surf, resv>>
         \/ /\ Lands(c, f)
            /\ \E px : surf' = [surf EXCEPT ![t] = Landed(surf[t], c, px)]
            /\ resv' = Signalled(c, {surf[t].fence})
  BY <1>0, TakeFrameMoves DEF Reliable
<1> HIDE DEF f
<1>3. TokensKept /\ WaitsKept
  <2>1. CASE UNCHANGED <<surf, resv>>
    BY <1>0, <2>1, NoSurfaceWaits, SameFences
  <2>2. CASE /\ Lands(c, f) /\ \E px : surf' = [surf EXCEPT ![t] = Landed(surf[t], c, px)]
             /\ resv' = Signalled(c, {surf[t].fence})
    <3>1. PICK px : surf' = [surf EXCEPT ![t] = Landed(surf[t], c, px)]
      BY <2>2
    <3>2. t \in Surfaces /\ Live(t) /\ Claims(c, t)
      BY <1>0, <1>2, <2>2, LandsOnClaim DEF Lands, Live
    <3> DEFINE x == Landed(surf[t], c, px)
    <3>3. x.fence = 0 /\ ~Waits(x)
      BY <1>0, <3>2 DEF Landed, Finished, Waits, TypeOK, SurfaceRecord
    <3> HIDE DEF x, t
    <3>4. LeftAlone(c, t)
      BY <1>0, <3>2 DEF ClaimsOwn
    <3>5. WaitsKept
      BY <1>0, <2>2, <3>1, <3>2, <3>3, <3>4, OneSurfaceWaits DEF x
    <3>6. surf'[t] = x /\ \A s \in Surfaces \ {t} : surf'[s] = surf[s]
      BY <1>0, <3>1, <3>2 DEF x, TypeOK
    <3>7. TokensKept
      BY <3>3, <3>6 DEF TokensKept
    <3> QED
      BY <3>5, <3>7
  <2> QED
    BY <1>2, <2>1, <2>2
<1>4. NumberingKept
  <2>1. ASSUME NEW s \in Surfaces, surf'[s].fence # 0 PROVE surf'[s].owner \in Contexts
    <3>1. surf[s].fence # 0 /\ surf'[s].owner = surf[s].owner
      BY <1>3, <2>1 DEF TokensKept
    <3> QED
      BY <1>0, <3>1, OwnersTyped DEF OwnershipInv, FenceOwnerOpen
  <2> QED
    BY <1>0, <1>1, <2>1, NumbersKept DEF NumberingKept
<1> QED
  BY <1>3, <1>4

(* A new picture takes the next token of its context.                         *)
LEMMA ClaimCovers ==
    ASSUME CoverSafe, TypeOK', OwnershipInv', NEW c \in Contexts, ClaimTarget(c)
    PROVE  CoverInv'
<1>0. TypeOK /\ OwnershipInv /\ CoverInv /\ AttachedRecorded /\ ClaimsOwn /\ NoPairs
  BY DEF CoverSafe, DeliverySafe, FenceInv
<1> DEFINE t == cur[c].target
           tok == Token(c)
           x == Claimed(surf[t], c, tok)
<1>1. /\ UNCHANGED ctx /\ pc' = [pc EXCEPT ![c] = "feed"] /\ pc[c] = "prepare"
      /\ surf' = [s \in Surfaces |-> IF s = t /\ Live(s) THEN Claimed(surf[s], c, tok)
                                     ELSE surf[s]]
      /\ resv' = IF Live(t) THEN Attached(c, t, tok) ELSE resv
  BY <1>0 DEF ClaimTarget, NoPairs
<1>2. tok = ctx[c].seq + 1 /\ ctx[c].seq \in Nat
  BY <1>0 DEF Token, TypeOK, ContextRecord
<1>3. /\ NewestToken(ctx'[c], pc'[c]) = tok /\ NewestToken(ctx[c], pc[c]) = ctx[c].seq
      /\ \A d \in Contexts \ {c} : NewestToken(ctx'[d], pc'[d]) = NewestToken(ctx[d], pc[d])
  BY <1>0, <1>1, <1>2 DEF NewestToken, TypeOK
<1>4. Live(t) => x.fence = tok /\ x.owner = c /\ surf'[t] = x
  BY <1>0, <1>1 DEF Live, Claimed, Finished, TypeOK, SurfaceRecord
<1>5. \A s \in Surfaces : s # t \/ ~Live(t) => surf'[s] = surf[s]
  BY <1>1
<1> HIDE DEF x, tok, t
<1>6. ASSUME NEW s \in Surfaces, surf[s].fence # 0
      PROVE  /\ surf[s].owner \in Contexts /\ surf[s].fence \in Nat
             /\ surf[s].fence <= NewestToken(ctx[surf[s].owner], pc[surf[s].owner])
             /\ NewestToken(ctx[surf[s].owner], pc[surf[s].owner]) \in Nat
             /\ surf[s].owner = c => surf[s].fence # tok
  <2>1. surf[s].owner \in Contexts
    BY <1>0, <1>6, OwnersTyped DEF OwnershipInv, FenceOwnerOpen
  <2>2. /\ surf[s].fence \in Nat
        /\ NewestToken(ctx[surf[s].owner], pc[surf[s].owner]) \in Nat
    BY <1>0, <2>1 DEF TypeOK, SurfaceRecord, NewestToken, ContextRecord
  <2>3. surf[s].fence <= NewestToken(ctx[surf[s].owner], pc[surf[s].owner])
    BY <1>0, <1>6 DEF CoverInv, TokensApart, NewestToken
  <2>4. surf[s].owner = c => surf[s].fence # tok
    BY <1>2, <1>3, <2>2, <2>3
  <2> QED
    BY <2>1, <2>2, <2>3, <2>4
<1>7. TokensApart'
  <2> SUFFICES ASSUME NEW s \in Surfaces, surf'[s].fence # 0
               PROVE  /\ surf'[s].fence <= NewestToken(ctx'[surf'[s].owner], pc'[surf'[s].owner])
                      /\ \A r \in Surfaces :
                            surf'[r].owner = surf'[s].owner /\ surf'[r].fence = surf'[s].fence
                                => r = s
    BY DEF TokensApart, NewestToken
  <2>1. CASE s = t /\ Live(t)
    <3>1. surf'[s].owner = c /\ surf'[s].fence = tok
      BY <1>4, <2>1
    <3>2. tok <= tok
      BY <1>2
    <3>3. ASSUME NEW r \in Surfaces, surf'[r].owner = c, surf'[r].fence = tok PROVE r = s
      <4>1. tok # 0
        BY <1>2
      <4> QED
        BY <1>5, <1>6, <2>1, <3>3, <4>1
    <3> QED
      BY <1>3, <3>1, <3>2, <3>3
  <2>2. CASE ~(s = t /\ Live(t))
    <3>1. surf'[s] = surf[s]
      BY <1>5, <2>2
    <3>2. surf[s].fence <= NewestToken(ctx'[surf[s].owner], pc'[surf[s].owner])
      <4>1. CASE surf[s].owner = c
        BY <1>2, <1>3, <1>6, <3>1, <4>1
      <4>2. CASE surf[s].owner # c
        BY <1>3, <1>6, <3>1, <4>2
      <4> QED
        BY <4>1, <4>2
    <3>3. ASSUME NEW r \in Surfaces, surf'[r].owner = surf[s].owner,
                 surf'[r].fence = surf[s].fence
          PROVE  r = s
      <4>1. CASE r = t /\ Live(t)
        BY <1>4, <1>6, <3>1, <3>3, <4>1
      <4>2. CASE ~(r = t /\ Live(t))
        BY <1>0, <1>5, <3>1, <3>3, <4>2 DEF CoverInv, TokensApart
      <4> QED
        BY <4>1, <4>2
    <3> QED
      BY <3>1, <3>2, <3>3
  <2> QED
    BY <2>1, <2>2
<1>8. WritesCovered'
  <2> SUFFICES ASSUME NEW s \in Surfaces, Pending(s)' PROVE FenceOf(s)' \in resv'
    BY DEF WritesCovered
  <2>1. CASE ~Live(t)
    <3>1. surf'[s] = surf[s] /\ resv' = resv
      BY <1>1, <1>5, <2>1
    <3>2. Pending(s) /\ FenceOf(s)' = FenceOf(s)
      BY <3>1, WaitsMeans DEF FenceOf
    <3> QED
      BY <1>0, <3>1, <3>2 DEF CoverInv, WritesCovered
  <2>2. CASE Live(t) /\ s = t
    <3>1. FenceOf(s)' = [ctx |-> c, s |-> t, token |-> tok]
      BY <1>4, <2>2 DEF FenceOf
    <3> QED
      BY <1>1, <2>2, <3>1 DEF Attached
  <2>3. CASE Live(t) /\ s # t
    <3>1. surf'[s] = surf[s]
      BY <1>5, <2>3
    <3>2. Pending(s) /\ FenceOf(s)' = FenceOf(s)
      BY <3>1, WaitsMeans DEF FenceOf
    <3>3. LeftAlone(c, t) /\ t \in Surfaces
      BY <1>0, <1>1, <2>3 DEF ClaimsOwn, Claims, UnderWay, Unclaimed, Live, t
    <3>4. FenceOf(s) \in Signalled(c, {surf[t].fence})
      BY <1>0, <2>3, <3>2, <3>3, OthersCovered
    <3> QED
      BY <1>1, <2>3, <3>2, <3>4 DEF Attached
  <2> QED
    BY <2>1, <2>2, <2>3
<1> QED
  BY <1>7, <1>8 DEF CoverInv

LEMMA CoverInit == Init => CoverInv
  BY DEF Init, RegistryInit, UnbornSurface, CoverInv, TokensApart, WritesCovered, Pending, Live

LEMMA CoverNext ==
    ASSUME CoverSafe, Reliable, TypeOK', OwnershipInv', [Next]_vars
    PROVE  CoverInv'
<1>0. TypeOK /\ OwnershipInv /\ CoverInv
  BY DEF CoverSafe, DeliverySafe
<1>1. ASSUME NEW c \in Contexts, Client(c) PROVE CoverInv'
  BY <1>0, <1>1, ClientCovers, CoverKept
<1>2. ASSUME NEW c \in Contexts, CallStep(c) PROVE CoverInv'
  <2>1. CASE ClaimTarget(c)
    BY <2>1, ClaimCovers
  <2>2. CASE TakeFrame(c)
    BY <1>0, <2>2, TakeFrameCovers, CoverKept
  <2>3. CASE ~ClaimTarget(c) /\ ~TakeFrame(c)
    BY <1>0, <1>2, <2>3, CallCovers, CoverKept
  <2> QED
    BY <2>1, <2>2, <2>3
<1>3. CASE OffCall
  BY <1>0, <1>3, OffCallCovers, CoverKept
<1> QED
  BY <1>1, <1>2, <1>3 DEF Next, OffCall

LEMMA CoverSafeNext ==
    ASSUME Reliable, ~SharedTargets
    PROVE  CoverSafe /\ [Next]_vars => CoverSafe'
<1> SUFFICES ASSUME CoverSafe, [Next]_vars PROVE CoverSafe'
  OBVIOUS
<1>1. DeliverySafe'
  BY DeliverySafeNext DEF CoverSafe
<1>2. FenceInv'
  BY FenceNext DEF CoverSafe, DeliverySafe, Reliable
<1>3. CoverInv'
  BY <1>1, CoverNext DEF DeliverySafe
<1> QED
  BY <1>1, <1>2, <1>3 DEF CoverSafe

(* While a picture is on its way into its surface, the fence of that write is *)
(* in the kernel and unsignalled: it outlasts timeouts, drains, seeks of      *)
(* other contexts and late frames, and the tokens of one session are never    *)
(* taken for those of another (decode.c:680-693, surface.c:116-163), as long  *)
(* as clients leave a surface to the context that has it in flight.           *)
THEOREM FencesCoverWrites ==
    ASSUME Reliable, ~SharedTargets
    PROVE  Spec => []FenceCoversTheWrite
<1>1. Init => CoverSafe
  BY DeliverySafeInit, FenceInit, CoverInit DEF CoverSafe
<1>2. CoverSafe => FenceCoversTheWrite
  BY DEF CoverSafe, CoverInv, WritesCovered, FenceCoversTheWrite
<1> QED
  BY <1>1, <1>2, CoverSafeNext, PTL DEF Spec

-----------------------------------------------------------------------------
(* A finished picture stays, where no other context moves the epoch on        *)

OneContext == \A c, d \in Contexts : c = d

(* s holds a picture that was decoded into it, and not filled over.           *)
Finishes(s) == Live(s) /\ surf[s].decoded /\ ~goal[s].filled

(* Pixels of a context that is gone, or of a stream it no longer plays.       *)
Outlived(px) == ctx[px.ctx].life = "gone" \/ px.stream < stream[px.ctx]

(* What a context decoded grows stale only with the stream it was decoded in. *)
FinishedInv ==
    \A s \in Surfaces :
        Finishes(s) => /\ surf[s].px.ctx # None
                       /\ Stale(s) => Outlived(surf[s].px)

(* What a step may do to a surface: finished pictures are those of before, or *)
(* have just landed, and only a stale one is painted over.                    *)
FinishedStep(s) ==
    /\ Finishes(s)' =>
          \/ Finishes(s) /\ surf'[s].px = surf[s].px /\ surf'[s].epoch = surf[s].epoch
          \/ surf'[s].px.ctx # None /\ surf'[s].epoch = reg'.epoch
    /\ Finishes(s) /\ Live(s)' => \/ surf'[s].px = surf[s].px
                                  \/ Stale(s) \/ surf'[s].gen # surf[s].gen

LEMMA SameWorkStep ==
    ASSUME NEW s \in Surfaces, SameWork(surf'[s], surf[s]), surf'[s].epoch = surf[s].epoch,
           goal'[s] = goal[s]
    PROVE  FinishedStep(s)
  BY DEF SameWork, FinishedStep, Finishes, Live

(* A frame that lands belongs to its context, into a surface that waits.      *)
LEMMA TakeFrameFinishes ==
    ASSUME PromiseSafe, ~HevcFifo, NEW c \in Contexts, TakeFrame(c), NEW t \in Surfaces
    PROVE  FinishedStep(t) /\ reg'.epoch = reg.epoch
<1> DEFINE f == Head(dev[c].cap)
<1>1. TypeOK /\ SessionInv /\ MappingsAwaited
  BY DEF PromiseSafe, Safe, PromiseKeptInv
<1>2. /\ f \in Frame
      /\ \/ UNCHANGED <<surf, reg, goal>>
         \/ \E s \in Surfaces, i \in 0 .. RingSize - 1 :
               /\ LeadsTo(pend[c].ring[i], s)
               /\ f.ts = Timestamp(pend[c].ring[i].seq)
               /\ LandsIn(c, s, f) \/ CopyFails(s, f)
  BY <1>1, TakeFrameEffects
<1>3. f.last => f.ts = 0
  BY <1>1, HeadFrame DEF TakeFrame
<1>4. f.last \/ f.px.ctx = c
  <2>1. dev[c].cap \in Seq(Frame) /\ dev[c].cap # <<>> /\ FramesOf(c, stream[c], dev[c].cap)
    BY <1>1, SessionInvMeans DEF TakeFrame, TypeOK, SessionRecord, SessionsOf
  <2>2. FrameOf(c, stream[c], f)
    BY <2>1, PopKeepsStream
  <2> QED
    BY <2>2 DEF FrameOf
<1> HIDE DEF f
<1>5. CASE UNCHANGED <<surf, reg, goal>>
  BY <1>5, SameWorkStep DEF SameWork
<1>6. ASSUME NEW s \in Surfaces, NEW i \in 0 .. RingSize - 1, LeadsTo(pend[c].ring[i], s),
             f.ts = Timestamp(pend[c].ring[i].seq)
      PROVE  /\ ~Finishes(s) /\ f.px.ctx = c /\ c # None /\ surf[s] \in SurfaceRecord
             /\ goal[s] \in GoalRecord
  <2>1. pend[c].ring[i].seq \in Nat
    BY <1>1 DEF TypeOK, PendingRecord, Slot
  <2>2. ~f.last
    BY <1>3, <1>6, <2>1 DEF Timestamp
  <2> QED
    BY <1>1, <1>4, <1>6, <2>2, RegistryAssumption DEF TypeOK, MappingsAwaited, Finishes
<1>7. ASSUME NEW s \in Surfaces, NEW i \in 0 .. RingSize - 1, LeadsTo(pend[c].ring[i], s),
             f.ts = Timestamp(pend[c].ring[i].seq), LandsIn(c, s, f)
      PROVE  FinishedStep(t) /\ reg'.epoch = reg.epoch
  <2> DEFINE x == Landed(surf[s], c, f.px)
             g == [goal[s] EXCEPT !.filled = FALSE]
  <2>1. /\ surf' = [surf EXCEPT ![s] = x] /\ goal' = [goal EXCEPT ![s] = g]
        /\ reg'.epoch = reg.epoch
    BY <1>1, <1>7 DEF LandsIn, LastFrameIs, TypeOK, RegistryRecord
  <2>2. ~Finishes(s) /\ x.px = f.px /\ x.epoch = reg.epoch /\ f.px.ctx # None
    BY <1>6, <1>7, LandedStanding
  <2> HIDE DEF x, g
  <2>3. CASE t = s
    BY <1>1, <2>1, <2>2, <2>3 DEF TypeOK, FinishedStep
  <2>4. CASE t # s
    BY <1>1, <2>1, <2>4, SameWorkStep DEF TypeOK, SameWork
  <2> QED
    BY <2>1, <2>3, <2>4
<1>8. ASSUME NEW s \in Surfaces, NEW i \in 0 .. RingSize - 1, LeadsTo(pend[c].ring[i], s),
             f.ts = Timestamp(pend[c].ring[i].seq), CopyFails(s, f)
      PROVE  FinishedStep(t) /\ reg'.epoch = reg.epoch
  <2>1. PICK x \in HalfLanded(surf[s], f.px) : surf' = [surf EXCEPT ![s] = x]
    BY <1>8 DEF CopyFails
  <2>2. UNCHANGED <<reg, goal>>
    BY <1>8 DEF CopyFails
  <2>3. ~Finishes(s) /\ x.life = surf[s].life /\ x.decoded = surf[s].decoded
    BY <1>6, <1>8, HalfLandedStanding
  <2>4. CASE t = s
    BY <1>1, <2>1, <2>2, <2>3, <2>4 DEF TypeOK, FinishedStep, Finishes, Live
  <2>5. CASE t # s
    BY <1>1, <2>1, <2>2, <2>5, SameWorkStep DEF TypeOK, SameWork
  <2> QED
    BY <2>2, <2>4, <2>5
<1> QED
  BY <1>2, <1>5, <1>7, <1>8

(* The client's calls on a surface, and the picture it begins.                *)
LEMMA OneSurfaceFinishes ==
    ASSUME PromiseSafe, ~FieldPictures, NEW t \in Surfaces,
           \/ \E s \in Surfaces : AllocSurface(s) \/ FreeSurface(s)
           \/ \E s \in Surfaces : SyncSurface(s) /\ Stale(s)
           \/ SyncFilled
           \/ \E c \in Contexts, s \in Surfaces, field \in 0 .. 2, poc \in Pocs :
                 BeginPicture(c, s, field, poc)
    PROVE  FinishedStep(t) /\ reg'.epoch = reg.epoch
<1>1. TypeOK /\ NoPairs /\ FillRecorded /\ GoalsPast
  BY DEF PromiseSafe, Safe, PairingInv, PromiseKeptInv
<1>2. UNCHANGED reg
  <2>1. ASSUME NEW s \in Surfaces, AllocSurface(s) \/ FreeSurface(s) PROVE UNCHANGED reg
    BY <2>1 DEF AllocSurface, FreeSurface
  <2>2. ASSUME NEW s \in Surfaces, SyncSurface(s), Stale(s) PROVE UNCHANGED reg
    BY <2>2 DEF SyncSurface
  <2>3. SyncFilled => UNCHANGED reg
    BY DEF SyncFilled
  <2>4. ASSUME NEW c \in Contexts, NEW s \in Surfaces, NEW field \in 0 .. 2, NEW poc \in Pocs,
               BeginPicture(c, s, field, poc)
        PROVE  UNCHANGED reg
    BY <2>4 DEF BeginPicture
  <2> QED
    BY <2>1, <2>2, <2>3, <2>4
<1>3. ASSUME NEW s \in Surfaces, NEW x, NEW g,
             surf' = [surf EXCEPT ![s] = x], goal' = [goal EXCEPT ![s] = g], t # s
      PROVE  FinishedStep(t)
  <2>1. surf'[t] = surf[t] /\ goal'[t] = goal[t]
    BY <1>1, <1>3 DEF TypeOK
  <2> QED
    BY <2>1, SameWorkStep DEF SameWork
<1>4. ASSUME NEW s \in Surfaces, AllocSurface(s) PROVE FinishedStep(t)
  <2>1. surf' = [surf EXCEPT ![s] = Allocated] /\ goal' = [goal EXCEPT ![s] = goal[s]]
        /\ ~Live(s)
    BY <1>1, <1>4 DEF TypeOK, AllocSurface, history, Live
  <2>2. ~Allocated.decoded
    BY DEF Allocated, UnbornSurface
  <2>3. CASE t = s
    BY <1>1, <2>1, <2>2, <2>3 DEF TypeOK, FinishedStep, Finishes
  <2> QED
    BY <1>3, <2>1, <2>3
<1>5. ASSUME NEW s \in Surfaces, FreeSurface(s) PROVE FinishedStep(t)
  <2> DEFINE x == [UnbornSurface EXCEPT !.life = "freed"]
  <2>1. surf' = [surf EXCEPT ![s] = x] /\ goal' = [goal EXCEPT ![s] = goal[s]]
    BY <1>1, <1>5 DEF TypeOK, FreeSurface, history
  <2>2. x.life = "freed"
    BY DEF UnbornSurface
  <2> HIDE DEF x
  <2>3. CASE t = s
    BY <1>1, <2>1, <2>2, <2>3 DEF TypeOK, FinishedStep, Finishes, Live
  <2> QED
    BY <1>3, <2>1, <2>3
<1>6. ASSUME NEW s \in Surfaces, SyncSurface(s), Stale(s) PROVE FinishedStep(t)
  <2> DEFINE x == [surf[s] EXCEPT !.px = FillPixels(s)]
             g == [goal[s] EXCEPT !.filled = TRUE]
  <2>1. surf' = [surf EXCEPT ![s] = x] /\ goal' = [goal EXCEPT ![s] = g] /\ g.filled
    BY <1>1, <1>6 DEF TypeOK, SyncSurface, GoalRecord
  <2> HIDE DEF x, g
  <2>2. CASE t = s
    BY <1>1, <1>6, <2>1, <2>2 DEF TypeOK, FinishedStep, Finishes
  <2> QED
    BY <1>3, <2>1, <2>2
<1>7. ASSUME SyncFilled PROVE FinishedStep(t)
  <2>0. PICK s \in {sync.s}, x \in {Backfilled(surf[sync.s])} : TRUE
    OBVIOUS
  <2>1. /\ Live(s) /\ goal[s].filled /\ surf' = [surf EXCEPT ![s] = x]
        /\ goal' = [goal EXCEPT ![s] = goal[s]]
    BY <1>1, <1>7 DEF SyncFilled, TypeOK, FillRecorded, history, PromiseSafe, Safe,
                      SyncedSurfaceCurrent, SyncIdle
  <2>2. s \in Surfaces
    BY <2>1 DEF Live
  <2>3. CASE t = s
    BY <1>1, <2>1, <2>2, <2>3 DEF TypeOK, FinishedStep, Finishes
  <2> QED
    BY <1>3, <2>1, <2>2, <2>3
<1>8. ASSUME NEW c \in Contexts, NEW s \in Surfaces, NEW field \in 0 .. 2, NEW poc \in Pocs,
             BeginPicture(c, s, field, poc)
      PROVE  FinishedStep(t)
  <2> DEFINE x == Begun(surf[s])
             g == [pic |-> pictures + 1, filled |-> FALSE]
  <2>1. surf' = [surf EXCEPT ![s] = x] /\ goal' = [goal EXCEPT ![s] = g]
    BY <1>1, <1>8, BeginEffects
  <2>2. ~x.decoded /\ x.px = surf[s].px
    BY <1>1, BegunStanding DEF TypeOK
  <2> HIDE DEF x, g
  <2>3. CASE t = s
    BY <1>1, <2>1, <2>2, <2>3 DEF TypeOK, FinishedStep, Finishes
  <2> QED
    BY <1>3, <2>1, <2>3
<1> QED
  BY <1>2, <1>4, <1>5, <1>6, <1>7, <1>8

LEMMA StandFinishes ==
    ASSUME TypeOK, StandStep, NEW t \in Surfaces
    PROVE  FinishedStep(t) /\ reg'.epoch = reg.epoch
  BY SameWorkStep DEF StandStep, Standing

LEMMA ClaimFinishes ==
    ASSUME TypeOK, NEW c \in Contexts, ClaimTarget(c), NEW t \in Surfaces
    PROVE  FinishedStep(t) /\ reg'.epoch = reg.epoch
<1>1. /\ surf'[t] = surf[t] \/ surf'[t] = Claimed(surf[t], c, Token(c))
      /\ UNCHANGED <<goal, reg>>
  BY DEF ClaimTarget, history
<1>2. SameWork(surf'[t], surf[t]) /\ surf'[t].epoch = surf[t].epoch
  BY <1>1, ClaimedStanding DEF TypeOK, SameWork
<1> QED
  BY <1>1, <1>2, SameWorkStep

(* A step leaves finished pictures alone, or ends the stream of a context.    *)
LEMMA FinishedSteps ==
    ASSUME PromiseSafe, [Next]_vars,
           ~FieldPictures, ~HevcFifo, ~ConcurrentClient, "start" \notin Faults
    PROVE  \A t \in Surfaces :
              /\ FinishedStep(t)
              /\ \/ reg'.epoch = reg.epoch
                 \/ \E c \in Contexts : Restart(c) \/ Teardown(c)
<1>1. TypeOK
  BY DEF PromiseSafe, Safe
<1> DEFINE Quiet == \A t \in Surfaces : FinishedStep(t) /\ reg'.epoch = reg.epoch
<1>2. ASSUME NEW c \in Contexts,
             \/ CreateContext(c) \/ EndPictureFails(c) \/ DestroyContext(c)
             \/ \E ra, cue \in BOOLEAN : EndPicture(c, ra, cue)
      PROVE  Quiet
  BY <1>1, <1>2, ClientStands, StandFinishes
<1>3. ASSUME NEW c \in Contexts, CallStep(c), ~Restart(c), ~Teardown(c) PROVE Quiet
  <2>1. CASE ClaimTarget(c)
    BY <1>1, <2>1, ClaimFinishes
  <2>2. CASE TakeFrame(c)
    BY <2>2, TakeFrameFinishes
  <2>3. CASE ~ClaimTarget(c) /\ ~TakeFrame(c)
    BY <1>1, <1>3, <2>3, CallStands, StandFinishes
  <2> QED
    BY <2>1, <2>2, <2>3
<1>4. ASSUME NEW c \in Contexts, Restart(c) \/ Teardown(c)
      PROVE  \A t \in Surfaces : FinishedStep(t)
  BY <1>4, StreamEndSteps, SameWorkStep DEF StreamEnds
<1>5. CASE OffCall
  <2>1. CASE \/ \E c \in Contexts : Firmware(c) \/ SyncEnter(c)
             \/ \E s \in Surfaces : ExportSurface(s) \/ (SyncSurface(s) /\ ~Stale(s))
             \/ UNCHANGED vars
    BY <1>1, <2>1, OffCallStands, StandFinishes
  <2>2. CASE \/ \E s \in Surfaces : AllocSurface(s) \/ FreeSurface(s)
             \/ \E s \in Surfaces : SyncSurface(s) /\ Stale(s)
             \/ SyncFilled
    BY <2>2, OneSurfaceFinishes
  <2> QED
    BY <1>5, <2>1, <2>2 DEF OffCall, SurfaceCall, SyncStep
<1>6. ASSUME NEW c \in Contexts, NEW s \in Surfaces, NEW field \in 0 .. 2, NEW poc \in Pocs,
             BeginPicture(c, s, field, poc)
      PROVE  Quiet
  BY <1>6, OneSurfaceFinishes
<1>7. \A c \in Contexts : Feed(c) \/ ClaimTarget(c) \/ TakeFrame(c) => CallStep(c)
  BY DEF CallStep
<1> QED
  BY <1>2, <1>3, <1>4, <1>5, <1>6, <1>7, StepKinds

(* Streams are abandoned for good: a context that is gone is not created      *)
(* again, and streams are only counted up.                                    *)
LEMMA StreamsAge ==
    ASSUME Safe, [Next]_vars, NEW c \in Contexts
    PROVE  /\ ctx[c].life = "gone" => ctx'[c].life = "gone"
           /\ stream[c] <= stream'[c]
           /\ Restart(c) => stream[c] < stream'[c]
           /\ Teardown(c) => ctx'[c].life = "gone"
<1>1. ctx \in [Contexts -> ContextRecord] /\ stream \in [Contexts -> Nat] /\ CallsOnLive
  BY DEF Safe, TypeOK, OwnershipInv
<1>2. ASSUME NEW d \in Contexts, Client(d) PROVE UNCHANGED stream /\ (c # d => ctx'[c] = ctx[c])
  BY <1>1, <1>2 DEF Client, CreateContext, BeginPicture, EndPicture, EndPictureFails,
                    DestroyContext, StopSession, history
<1>3. ASSUME NEW d \in Contexts, Client(d) PROVE ctx[d].life # "gone"
  BY <1>3 DEF Client, CreateContext, BeginPicture, EndPicture, EndPictureFails, DestroyContext,
              MayCall
<1>4. ASSUME NEW d \in Contexts, CallStep(d)
      PROVE  ctx[d].life # "gone" /\ (c # d => ctx'[c] = ctx[c])
  <2>1. pc[d] # "idle"
    BY <1>4, CallStepMoves DEF Safe
  <2>2. ctx[d].life = "live"
    BY <1>1, <2>1 DEF CallsOnLive
  <2>3. c # d => ctx'[c] = ctx[c]
    BY <1>1, <1>4 DEF CallStep, FlushDone, Restart, OpenSession, ClaimTarget, Feed, SubmitFails,
         StartFails, Unwind, DrainDone, WaitDone, TakeFrame, CallFails, TimesOut, SyncReturn,
         Teardown
  <2> QED
    BY <2>2, <2>3
<1>5. ASSUME NEW d \in Contexts, CallStep(d)
      PROVE  UNCHANGED stream \/ stream' = [stream EXCEPT ![d] = @ + 1]
  BY <1>5 DEF CallStep, FlushDone, Restart, OpenSession, ClaimTarget, Feed, SubmitFails,
       StartFails, Unwind, DrainDone, WaitDone, TakeFrame, CallFails, TimesOut, SyncReturn,
       Teardown, history
<1>6. \A d \in Contexts : Firmware(d) => UNCHANGED <<ctx, stream>>
  BY DEF Firmware, FwDecode, FwDrop, FwLast, history
<1>7. UNCHANGED vars \/ SyncStep \/ (\E s \in Surfaces : SurfaceCall(s))
        => UNCHANGED <<ctx, stream>>
  BY DEF vars, SyncStep, SyncFilled, SyncEnter, SurfaceCall, AllocSurface, ExportSurface,
         FreeSurface, SyncSurface, history
<1>8. /\ ctx[c].life = "gone" => ctx'[c].life = "gone"
      /\ stream[c] <= stream'[c]
  BY <1>1, <1>2, <1>3, <1>4, <1>5, <1>6, <1>7 DEF Next
<1>9. Restart(c) => stream[c] < stream'[c]
  BY <1>1 DEF Restart
<1>10. Teardown(c) => ctx'[c].life = "gone"
  BY <1>1 DEF Teardown, NoContext
<1> QED
  BY <1>8, <1>9, <1>10

LEMMA FinishedNext ==
    ASSUME PromiseSafe, TypeOK', FinishedInv, [Next]_vars, OneContext,
           ~FieldPictures, ~HevcFifo, ~ConcurrentClient, "start" \notin Faults
    PROVE  FinishedInv'
<1> SUFFICES ASSUME NEW s \in Surfaces, Finishes(s)'
             PROVE  surf'[s].px.ctx # None /\ (Stale(s)' => Outlived(surf[s].px)')
  BY DEF FinishedInv
<1>1. Safe /\ TypeOK /\ NoAbandonedPixels
  BY DEF PromiseSafe, Safe
<1>0. PICK px : px = surf[s].px
  OBVIOUS
<1>2. CASE surf'[s].px.ctx # None /\ surf'[s].epoch = reg'.epoch
  BY <1>2 DEF Stale
<1>3. CASE Finishes(s) /\ surf'[s].px = surf[s].px /\ surf'[s].epoch = surf[s].epoch
  <2>1. px.ctx # None /\ (Stale(s) => Outlived(px)) /\ surf'[s].px = px
    BY <1>0, <1>3 DEF FinishedInv
  <2>2. px.ctx \in Contexts /\ px.stream \in Nat
    BY <1>0, <1>1, <2>1 DEF TypeOK, SurfaceRecord, Pixels
  <2>3. stream[px.ctx] \in Nat /\ stream'[px.ctx] \in Nat
    BY <1>1, <2>2 DEF TypeOK
  <2> DEFINE GoneNext == ctx'[px.ctx].life = "gone" \/ px.stream < stream'[px.ctx]
  <2>4. Outlived(px) => GoneNext
    BY <1>1, <2>2, <2>3, StreamsAge DEF Outlived
  <2>8. GoneNext => Outlived(surf[s].px)'
    BY <2>1 DEF Outlived
  <2> HIDE DEF GoneNext
  <2>5. CASE reg'.epoch = reg.epoch
    BY <1>3, <2>1, <2>4, <2>5, <2>8 DEF Stale
  <2>6. ASSUME NEW c \in Contexts, Restart(c) \/ Teardown(c), ~Stale(s)
        PROVE  GoneNext
    <3>1. px.ctx = c
      BY <2>2 DEF OneContext
    <3>2. CurrentPixels(px)
      BY <1>0, <1>1, <1>3, <2>6 DEF NoAbandonedPixels, Finishes
    <3>3. px.stream = stream[c]
      BY <2>1, <3>1, <3>2 DEF CurrentPixels, Black
    <3> QED
      BY <1>1, <2>3, <2>6, <3>1, <3>3, StreamsAge DEF GoneNext
  <2> QED
    <3>1. Stale(s) => GoneNext
      BY <2>1, <2>4
    <3>2. CASE \E c \in Contexts : Restart(c) \/ Teardown(c)
      BY <2>1, <2>6, <2>8, <3>1, <3>2
    <3> QED
      BY <2>5, <3>2, FinishedSteps
<1> QED
  BY <1>2, <1>3, FinishedSteps DEF FinishedStep

(* A finished picture stays in its surface until the client begins another    *)
(* there or the stream that it belongs to ends: late frames, copies that fail *)
(* and syncs leave it alone (decode.c:382-393, surface.c:603-631).  A second  *)
(* context is left out because its seek moves the epoch of the display on.    *)
THEOREM FinishedPicturesStay ==
    ASSUME OneContext, ~FieldPictures, ~HevcFifo, ~ConcurrentClient, "start" \notin Faults
    PROVE  Spec => FinishedPictureStays
<1>1. Init => FinishedInv
  BY DEF Init, RegistryInit, UnbornSurface, FinishedInv, Finishes, Live
<1>2. CurrentPixelsInv /\ OwnershipInv /\ TypeOK /\ PairingInv /\ PromiseKeptInv => PromiseSafe
  BY DEF PromiseSafe, Safe, SessionInv, CurrentPixelsInv
<1>3. PromiseSafe /\ TypeOK' /\ FinishedInv /\ [Next]_vars => FinishedInv'
  BY FinishedNext
<1>4. ASSUME PromiseSafe, FinishedInv, [Next]_vars
      PROVE  [\A s \in Surfaces :
                 ShowsItsPicture(s) /\ Live(s)' /\ CurrentPixels(surf[s].px)'
                 /\ surf'[s].gen = surf[s].gen
                     => surf'[s].px = surf[s].px]_vars
  <2> SUFFICES ASSUME NEW s \in Surfaces, ShowsItsPicture(s), Live(s)',
                      surf'[s].gen = surf[s].gen
               PROVE  surf'[s].px = surf[s].px
    OBVIOUS
  <2>1. Finishes(s) /\ CurrentPixels(surf[s].px)
    BY DEF ShowsItsPicture, Finishes
  <2>2. ~Outlived(surf[s].px)
    <3>1. surf[s].px.ctx # None
      BY <1>4, <2>1 DEF FinishedInv
    <3>2. surf[s].px.ctx \in Contexts
      BY <1>4, <3>1 DEF PromiseSafe, Safe, TypeOK, SurfaceRecord, Pixels
    <3>3. stream[surf[s].px.ctx] \in Nat
      BY <1>4, <3>2 DEF PromiseSafe, Safe, TypeOK
    <3> QED
      BY <2>1, <3>1, <3>3 DEF CurrentPixels, Black, Outlived
  <2>3. ~Stale(s)
    BY <1>4, <2>1, <2>2 DEF FinishedInv
  <2> QED
    BY <1>4, <2>1, <2>3, FinishedSteps DEF FinishedStep
<1> QED
  BY <1>1, <1>2, <1>3, <1>4, TypeCorrect, OwnershipHolds, PixelsHold, PairingHolds, ClaimsHold,
     PTL
  DEF Spec, FinishedPictureStays
=============================================================================
