---------------------------- MODULE VaFrontend ----------------------------
(* The object tables of the VA-API frontend (src/src/vaapi): configs, decode  *)
(* contexts, surfaces, buffers and images of one display, and the VP9         *)
(* sessions that outlive their context because the client may still reference *)
(* what they decoded.  libva calls the driver with the display's lock held by *)
(* the client, so every entry point is one action.                            *)
(*                                                                            *)
(* A table is a sequence in the order of the C array: an object is appended   *)
(* and its place is refilled with the last one.  A decode context (struct     *)
(* vpu_decode_ctx) is a number, its fields are decs[d].  What its firmware    *)
(* session does inside a call is module Decode's subject; here a session is   *)
(* fresh, decoding, at its end of stream, or failed.                          *)
EXTENDS Integers, FiniteSets, SequencesExt

CONSTANTS
    Profiles,       \* VAProfiles a client may ask a config for
    Vp9Profiles,    \* those of them that are VP9
    Sizes,          \* picture sizes, ordered: both sides grow together
    MaxConfigs,     \* VPU_MAX_CONFIGS
    MaxEngines,     \* VPU_MAX_ENGINES: active contexts, and retired ones
    MaxSurfaces,    \* VPU_MAX_SURFACES
    MaxBuffers,     \* entries of buf_ids
    MaxImages,      \* entries of img_ids
    MaxDerived,     \* entries of derived_ids
    Clients         \* bounds of a behaviour: how many ids of each kind, how many
                    \* failures, which profiles and sizes

ASSUME FrontendAssumption ==
    /\ Vp9Profiles \subseteq Profiles
    /\ Sizes \subseteq Nat
    /\ {MaxConfigs, MaxEngines, MaxSurfaces, MaxBuffers, MaxImages, MaxDerived}
          \subseteq Nat \ {0}
    /\ Clients \subseteq [config : Nat, context : Nat, surface : Nat, buffer : Nat,
                           fault : Nat, profiles : SUBSET Profiles, sizes : SUBSET Sizes]

VARIABLES
    ids,            \* config_id, context_id, surface_id, buffer_id of the display,
                    \* and the failures so far
    configs,        \* [id, profile]
    engines,        \* [id, dec, target, pic]; pic is what the client is drawing
    retired,        \* retired_vp9: the decode contexts without a VA context
    decs,           \* the fields of every decode context created so far
    surfs,          \* the registry's records: [id, owner, st, fresh]
    bufs,           \* [id, type]
    imgs,           \* [id]
    derived,        \* [id, mem]: mem is the surface whose backing is mapped
    releaseAu,      \* VPU_PLATFORM_QUIRK_VP9_RELEASE_AU, a fact of the platform
    client,         \* the member of Clients this behaviour keeps to
    held,           \* history: the handles the client holds and what each names
    refs            \* history: refs[d], the surfaces whose picture d's firmware
                    \* session decoded and can still predict from

tables == <<configs, bufs, imgs, derived>>
vars == <<ids, tables, engines, retired, decs, surfs, releaseAu, client, held, refs>>

-----------------------------------------------------------------------------
(* Tables.                                                                    *)

Has(t, id) == \E i \in DOMAIN t : t[i].id = id

(* The first entry with the id, as every lookup loop finds it.                *)
Place(t, id) ==
    CHOOSE i \in DOMAIN t : t[i].id = id /\ \A j \in 1..(i - 1) : t[j].id # id

Entry(t, id) == t[Place(t, id)]

(* The last entry moves into place i.                                         *)
Drop(t, i) == [j \in 1..(Len(t) - 1) |-> IF j = i THEN t[Len(t)] ELSE t[j]]

(* Mutant of SweepOut: the loop steps past the entry moved into the hole.     *)
SweepOutSkipping(t, gone) ==
    LET sweep[k \in 0..Len(t)] ==
          IF k = 0 THEN [t |-> t, i |-> 1]
          ELSE LET s == sweep[k - 1]
               IN  IF s.i > Len(s.t) THEN s
                   ELSE IF s.t[s.i] \in gone THEN [t |-> Drop(s.t, s.i), i |-> s.i + 1]
                   ELSE [s EXCEPT !.i = @ + 1]
    IN  sweep[Len(t)].t

(* Remove every entry that goes: an entry that stays advances the loop, one   *)
(* that goes leaves it where it is, to look at the entry moved there.         *)
Swept(s, gone) ==
    IF s.t[s.i] \in gone THEN [t |-> Drop(s.t, s.i), i |-> s.i]
                         ELSE [t |-> s.t, i |-> s.i + 1]

SweepOut(t, gone) ==
    LET sweep[k \in 0..Len(t)] ==
          IF k = 0 THEN [t |-> t, i |-> 1] ELSE Swept(sweep[k - 1], gone)
    IN  sweep[Len(t)].t

-----------------------------------------------------------------------------
(* Decode contexts and the registry, as far as the frontend can tell.         *)

None == 0           \* no decode context, no surface

NoPicture == [stage |-> "none", key |-> TRUE, from |-> None]
BegunPicture == [NoPicture EXCEPT !.stage = "begun"]

FreshDec(p, w) ==
    [profile |-> p, size |-> w, open |-> FALSE, started |-> FALSE, eos |-> FALSE,
     fatal |-> FALSE, cur |-> None, last |-> None, frame |-> FALSE]

(* A decode context that was freed.                                           *)
Gone == FreshDec("none", 0)

(* reset_decoder_session_state: the firmware session is gone, the picture     *)
(* collected for the next one stays.                                          *)
Reset(x) == [x EXCEPT !.open = FALSE, !.started = FALSE, !.eos = FALSE,
                      !.fatal = FALSE, !.last = None]

IsVp9(d) == decs[d].profile \in Vp9Profiles
Active == {engines[i].dec : i \in DOMAIN engines}
Retired == {retired[i] : i \in DOMAIN retired}

(* find_surface of the registry r.                                            *)
Owner(r, s) == IF Has(r, s) THEN Entry(r, s).owner ELSE None

(* A frame of d arrives in every surface of r that still waits for one.       *)
AllLanded(r, d) ==
    [i \in DOMAIN r |-> IF r[i].owner = d /\ r[i].st = "queued"
                        THEN [r[i] EXCEPT !.st = "decoded", !.fresh = TRUE] ELSE r[i]]

(* vpu_decode_retain_vp9 for the registry r.                                  *)
Retain(r, d) ==
    /\ IsVp9(d) /\ decs[d].started /\ ~decs[d].eos /\ ~decs[d].fatal
    /\ \E i \in DOMAIN r : r[i].owner = d

(* vpu_decode_destroy of every context in D: a last drain, the epoch moves on *)
(* unless it was VP9, and the surfaces lose their owner.                      *)
Destroyed(r, D) ==
    [i \in DOMAIN r |->
        LET drained == r[i].owner \in D /\ r[i].st = "queued"
                       /\ decs[r[i].owner].started /\ ~decs[r[i].owner].eos
                       /\ ~decs[r[i].owner].fatal
        IN  [r[i] EXCEPT !.st = IF drained THEN "decoded" ELSE @,
                         !.owner = IF @ \in D THEN None ELSE @,
                         !.fresh = (@ \/ drained) /\ \A d \in D : IsVp9(d)]]

-----------------------------------------------------------------------------
NoIds == [config |-> 0, context |-> 0, surface |-> 0, buffer |-> 0, fault |-> 0]

Init ==
    /\ ids = NoIds
    /\ configs = <<>> /\ bufs = <<>> /\ imgs = <<>> /\ derived = <<>>
    /\ engines = <<>> /\ retired = <<>> /\ decs = <<>> /\ surfs = <<>>
    /\ held = {} /\ refs = <<>>
    /\ releaseAu \in BOOLEAN
    /\ client \in Clients

(* The next id of a counter, within the bound of this behaviour.              *)
NextId(kind) == ids[kind] + 1
MayName(kind, n) == ids[kind] + n <= client[kind]

Platform == UNCHANGED <<releaseAu, client>>
OnlyTables == UNCHANGED <<engines, retired, decs, surfs, refs>> /\ Platform
Sound == UNCHANGED ids
Fails == MayName("fault", 1) /\ ids' = [ids EXCEPT !.fault = @ + 1]
OnlySessions == UNCHANGED <<tables, held>> /\ Platform

Handle(kind, id, what) == [kind |-> kind, id |-> id, what |-> what]
Without(kind, id) == {h \in held : ~(h.kind = kind /\ h.id = id)}

CreateConfig(p) ==
    /\ MayName("config", 1) /\ Len(configs) < MaxConfigs
    /\ ids' = [ids EXCEPT !.config = @ + 1]
    /\ configs' = Append(configs, [id |-> NextId("config"), profile |-> p])
    /\ held' = held \cup {Handle("config", NextId("config"), p)}
    /\ UNCHANGED <<bufs, imgs, derived>> /\ OnlyTables

DestroyConfig(c) ==
    /\ Has(configs, c)
    /\ configs' = Drop(configs, Place(configs, c))
    /\ held' = Without("config", c)
    /\ UNCHANGED <<ids, bufs, imgs, derived>> /\ OnlyTables

(* vaCreateContext begins with a fresh decode context; it takes nothing from  *)
(* a retired one.                                                             *)
CreateContext(c, w) ==
    LET p == Entry(configs, c).profile
        d == Len(decs) + 1
    IN  /\ MayName("context", 1)
        /\ Has(configs, c)
        /\ Len(engines) < MaxEngines
        /\ decs' = Append(decs, FreshDec(p, w))
        /\ refs' = Append(refs, {})
        /\ ids' = [ids EXCEPT !.context = @ + 1]
        /\ engines' = Append(engines, [id |-> NextId("context"), dec |-> d,
                                       target |-> None, pic |-> NoPicture])
        /\ held' = held \cup {Handle("context", NextId("context"), p)}
        /\ UNCHANGED <<tables, retired, surfs>> /\ Platform

(* The contexts of D are freed, and with them what they decoded.              *)
Freed(D) == [d \in DOMAIN decs |-> IF d \in D THEN Gone ELSE decs[d]]
Forgotten(D) == [d \in DOMAIN refs |-> IF d \in D THEN {} ELSE refs[d]]

(* Mutant of Kept: every context is destroyed with its VA context.            *)
KeptNever(d) == FALSE

(* Mutant of Kept: the table of retired contexts is not bounded.              *)
KeptAlways(d) == Retain(surfs, d)

(* The VP9 session of a context stays while surfaces it decoded are there.    *)
Kept(d) == Len(retired) < MaxEngines /\ Retain(surfs, d)

DestroyContext(c) ==
    /\ Has(engines, c)
    /\ LET i == Place(engines, c)
           d == engines[i].dec
       IN  /\ IF Kept(d)
              THEN retired' = Append(retired, d) /\ UNCHANGED <<decs, surfs, refs>>
              ELSE /\ surfs' = Destroyed(surfs, {d})
                   /\ decs' = Freed({d})
                   /\ refs' = Forgotten({d})
                   /\ UNCHANGED retired
           /\ engines' = Drop(engines, i)
    /\ held' = Without("context", c)
    /\ UNCHANGED <<ids, tables>> /\ Platform

(* vpu_decode_begin: d renders into s next.  It fails, changing nothing, for  *)
(* a surface that is gone and for a session that failed.                      *)
BeginSucceeds(x, r, s) == ~x.fatal /\ Has(r, s)

Begun(x, s) == [x EXCEPT !.cur = s, !.frame = FALSE]

Pending(r, s) == [i \in DOMAIN r |-> IF r[i].id = s THEN [r[i] EXCEPT !.st = "idle"]
                                                     ELSE r[i]]

(* vaBeginPicture: the target is remembered whether or not the begin works.   *)
(* Bounds: one context draws at a time, and a client gives up a picture that  *)
(* it could not begin.                                                        *)
BeginPicture(c, s) ==
    /\ Has(engines, c)
    /\ \A i \in DOMAIN engines : engines[i].id = c \/ engines[i].pic = NoPicture
    /\ LET i == Place(engines, c)
           d == engines[i].dec
       IN  IF BeginSucceeds(decs[d], surfs, s)
           THEN /\ engines' = [engines EXCEPT ![i].target = s, ![i].pic = BegunPicture]
                /\ decs' = [decs EXCEPT ![d] = Begun(@, s)]
                /\ surfs' = Pending(surfs, s)
           ELSE /\ engines' = [engines EXCEPT ![i].target = s, ![i].pic = NoPicture]
                /\ UNCHANGED <<decs, surfs>>
    /\ UNCHANGED <<retired, refs>> /\ Sound /\ OnlySessions

Fits(d, o) == decs[d].profile = decs[o].profile /\ decs[d].size <= decs[o].size

(* Mutant of Predecessor: only a session of the same size is reused.          *)
PredecessorSameSize(d, R) ==
    LET owners == {Owner(surfs, s) : s \in R}
    IN  IF /\ IsVp9(d) /\ ~decs[d].open
           /\ Cardinality(owners) = 1 /\ None \notin owners
           /\ \A o \in owners : Retain(surfs, o) /\ Fits(d, o) /\ Fits(o, d)
        THEN CHOOSE o \in owners : TRUE ELSE None

(* vpu_decode_vp9_predecessor: the one context that owns all references of    *)
(* an inter picture, if d has no session yet and that session can be reused.  *)
Predecessor(d, R) ==
    LET owners == {Owner(surfs, s) : s \in R}
    IN  IF /\ IsVp9(d) /\ ~decs[d].open
           /\ Cardinality(owners) = 1 /\ None \notin owners
           /\ \A o \in owners : Retain(surfs, o) /\ Fits(d, o)
        THEN CHOOSE o \in owners : TRUE ELSE None

(* History: the waiting or own session that holds all references R.           *)
HolderOf(d, R) ==
    LET holders == {o \in DOMAIN decs \ (Active \ {d}) :
                        R # {} /\ R \subseteq refs[o] /\ (o = d \/ (~decs[d].open /\ Fits(d, o)))}
    IN  IF holders = {} THEN None ELSE CHOOSE o \in holders : TRUE

(* Mutant of Unretired: the context taken over stays among the retired.       *)
StillRetired(o) == retired

(* The retired contexts without o.                                            *)
Unretired(o) == Drop(retired, CHOOSE j \in DOMAIN retired : retired[j] = o)

(* vaRenderPicture with the picture parameters of a key frame (R = {}) or of  *)
(* an inter picture that names the surfaces R.  A call with several buffers   *)
(* is these steps in a row, cut short at an id that is no buffer.  A fresh    *)
(* context whose references belong to a retired one is replaced by it.        *)
RenderParameters(c, R) ==
    /\ Has(engines, c) /\ Entry(engines, c).pic = BegunPicture
    /\ LET i == Place(engines, c)
           d == engines[i].dec
           o == IF R = {} THEN None ELSE Predecessor(d, R)
           pic == [stage |-> "named", key |-> R = {}, from |-> HolderOf(d, R)]
       IN  /\ IF o \in Retired
              THEN LET r == Destroyed(surfs, {d})
                       s == engines[i].target
                   IN  /\ engines' = [engines EXCEPT ![i].dec = o, ![i].pic = pic]
                       /\ retired' = Unretired(o)
                       /\ refs' = Forgotten({d})
                       /\ IF BeginSucceeds(decs[o], r, s)
                          THEN /\ decs' = [Freed({d}) EXCEPT ![o] = Begun(@, s)]
                               /\ surfs' = Pending(r, s)
                          ELSE surfs' = r /\ decs' = Freed({d})
              ELSE /\ engines' = [engines EXCEPT ![i].pic = pic]
                   /\ UNCHANGED <<retired, decs, surfs, refs>>
    /\ Sound /\ OnlySessions

(* vaRenderPicture with slice data, after the parameters of its picture.      *)
RenderSlice(c) ==
    /\ Has(engines, c)
    /\ Entry(engines, c).pic.stage = "named"
    /\ decs' = [decs EXCEPT ![Entry(engines, c).dec].frame = TRUE]
    /\ UNCHANGED <<engines, retired, surfs, refs>> /\ Sound /\ OnlySessions

-----------------------------------------------------------------------------
(* vaEndPicture.  A random-access picture after an end of stream or a pause   *)
(* starts a new session; ensure_decoder reopens one at its end of stream.     *)
(* The targets are dead until the next begin and are forgotten here.          *)

(* d's session is drained and closed: pictures it never showed are dropped,   *)
(* and unless it is VP9 the display enters a new epoch.                       *)
Restarted(r, d) ==
    LET q == IF decs[d].eos THEN r ELSE AllLanded(r, d)
    IN  [i \in DOMAIN q |->
            [q[i] EXCEPT !.st = IF q[i].owner = d /\ @ = "queued" THEN "idle" ELSE @,
                         !.fresh = @ /\ IsVp9(d)]]

(* History: a submission of d into s, in a new session or the running one.    *)
Referenced(d, s, new) ==
    [o \in DOMAIN refs |-> IF o = d THEN (IF new THEN {} ELSE refs[o]) \cup {s}
                                    ELSE refs[o] \ {s}]

Queued(r, d, s) ==
    [i \in DOMAIN r |-> IF r[i].id = s THEN [r[i] EXCEPT !.st = "queued", !.owner = d]
                                       ELSE r[i]]

EndPicture(c, key, pause) ==
    /\ Has(engines, c)
    /\ LET i == Place(engines, c)
           d == engines[i].dec
           x == decs[d]
           boundary == x.started /\ key /\ (x.eos \/ pause)
           new == boundary \/ ~x.open \/ x.eos
           y == IF boundary \/ x.eos THEN Reset(x) ELSE x
           r == IF boundary THEN Restarted(surfs, d) ELSE surfs
       IN  /\ x.frame /\ (pause => boundary)
           /\ x.fatal => x.eos # boundary        \* any other is a failed call
           /\ engines[i].pic.stage = "named" /\ key = engines[i].pic.key
           /\ decs' = [decs EXCEPT ![d] = [y EXCEPT !.open = TRUE, !.started = TRUE,
                                                    !.last = x.cur, !.cur = None,
                                                    !.frame = FALSE]]
           /\ surfs' = Queued(r, d, x.cur)
           /\ refs' = IF Has(surfs, x.cur) THEN Referenced(d, x.cur, new)
                      ELSE IF new THEN Forgotten({d}) ELSE refs
           /\ engines' = [engines EXCEPT ![i].pic = NoPicture, ![i].target = None]
    /\ UNCHANGED retired /\ Sound /\ OnlySessions

(* Whether a picture may or must cross a boundary on its way to the session.   *)
(* The drain of a session that failed at its end reports that failure.        *)
Crosses(d, key, boundary) ==
    LET x == decs[d]
    IN  IF boundary THEN x.started /\ key /\ ~(x.fatal /\ x.eos)
                    ELSE ~(x.started /\ key /\ x.eos)

(* The session was told to stop, and LAST does not come: no new session is    *)
(* opened and the target is not claimed.  Some frames may have come.          *)
DrainFails(d) ==
    /\ decs[d].started /\ ~decs[d].eos
    /\ \E failed \in BOOLEAN :
          decs' = [decs EXCEPT ![d].eos = TRUE, ![d].fatal = @ \/ failed]
    /\ refs' = Forgotten({d})
    /\ surfs' \in {surfs, AllLanded(surfs, d)}

(* The unit cannot be built again for the new session, or none is opened.     *)
OpenFails(d, y, r) ==
    /\ ~y.open
    /\ decs' = [decs EXCEPT ![d] = Reset(y)]
    /\ refs' = Forgotten({d})
    /\ surfs' = r

(* The unit is refused, or taken and its frames are not: the target is        *)
(* claimed already.  A running session may have failed for good.              *)
UnitFails(d, y, r) ==
    /\ \E running, failed \in BOOLEAN :
          /\ y.started \/ failed => running
          /\ decs' = [decs EXCEPT ![d] = [y EXCEPT !.open = TRUE, !.started = running,
                                                   !.last = y.cur, !.fatal = @ \/ failed]]
          /\ refs' = [o \in DOMAIN refs |-> IF o = d /\ (failed \/ ~y.started) THEN {}
                                            ELSE refs[o] \ {y.cur}]
    /\ surfs' = Queued(r, d, y.cur)

(* vaEndPicture fails with the picture still collected: before a boundary, or *)
(* at it, or after it.  Where no unit can be built or STOP is refused nothing *)
(* changes.                                                                   *)
EndPictureFails(c) ==
    /\ Has(engines, c)
    /\ LET i == Place(engines, c)
           d == engines[i].dec
           x == decs[d]
           key == engines[i].pic.key
       IN  /\ x.frame /\ engines[i].pic.stage = "named"
           /\ IF x.fatal THEN Sound ELSE Fails
           /\ \/ key /\ DrainFails(d)
              \/ \E boundary \in BOOLEAN :
                    LET y == IF boundary \/ x.eos THEN Reset(x) ELSE x
                        r == IF boundary THEN Restarted(surfs, d) ELSE surfs
                    IN  /\ Crosses(d, key, boundary)
                        /\ OpenFails(d, y, r) \/ UnitFails(d, y, r)
    /\ UNCHANGED <<engines, retired>> /\ OnlySessions

(* Some call drains a frame of s's owner.                                     *)
Land(s) ==
    /\ Has(surfs, s) /\ Entry(surfs, s).st = "queued"
    /\ Owner(surfs, s) \in Active \cup Retired
    /\ ~decs[Owner(surfs, s)].eos /\ ~decs[Owner(surfs, s)].fatal
    /\ surfs' = [surfs EXCEPT ![Place(surfs, s)].st = "decoded",
                              ![Place(surfs, s)].fresh = TRUE]
    /\ UNCHANGED <<engines, retired, decs, refs>> /\ Sound /\ OnlySessions

(* vpu_decode_sync: the last picture of a VP9 session is forced out by an EOS *)
(* unless the platform has a show-existing unit that releases it.             *)
EndsStream(d, s) == s = decs[d].last /\ ~releaseAu

(* vaSyncSurface on a picture that has not arrived.                           *)
SyncSurface(s) ==
    /\ Has(surfs, s)
    /\ LET i == Place(surfs, s)
           d == surfs[i].owner
       IN  \/ /\ ~surfs[i].fresh                        \* backfill
              /\ surfs' = [surfs EXCEPT ![i].fresh = TRUE, ![i].st = "decoded"]
              /\ Sound /\ UNCHANGED <<decs, refs>>
           \/ /\ Sound /\ surfs[i].fresh /\ surfs[i].st = "queued" /\ d # None
              /\ IsVp9(d) /\ decs[d].started /\ ~decs[d].fatal /\ ~decs[d].eos
              /\ EndsStream(d, s)
              /\ decs' = [decs EXCEPT ![d].eos = TRUE]
              /\ surfs' = AllLanded(surfs, d)
              /\ refs' = Forgotten({d})
           \/ /\ Fails /\ surfs[i].fresh /\ surfs[i].st = "queued" /\ d # None
              /\ decs[d].started /\ ~decs[d].fatal
              /\ decs' = [decs EXCEPT ![d].fatal = TRUE]
              /\ refs' = Forgotten({d})
              /\ UNCHANGED surfs
    /\ UNCHANGED <<engines, retired>> /\ OnlySessions

-----------------------------------------------------------------------------
(* vaCreateSurfaces of n surfaces: k of them are allocated before the         *)
(* registry is full or memory runs out.  The client learns of the surfaces    *)
(* only when all are there; the others stay in the registry.                  *)
CreateSurfaces(n, k) ==
    /\ MayName("surface", n)
    /\ k \in 0..n /\ Len(surfs) + k <= MaxSurfaces
    /\ k < n => Len(surfs) + k = MaxSurfaces \/ MayName("fault", 1)
    /\ LET born == [j \in 1..k |-> ids.surface + j]
       IN  /\ ids' = [ids EXCEPT !.surface = IF k = n THEN @ + n ELSE @ + k + 1,
                                 !.fault = IF k = n \/ Len(surfs) + k = MaxSurfaces
                                           THEN @ ELSE @ + 1]
           /\ surfs' = surfs \o [j \in 1..k |-> [id |-> born[j], owner |-> None,
                                                 st |-> "idle", fresh |-> TRUE]]
           /\ held' = IF k = n THEN held \cup {Handle("surface", born[j], born[j]) : j \in 1..k}
                               ELSE held
    /\ UNCHANGED <<tables, engines, retired, decs, refs>> /\ Platform

(* Mutant of FreedOne: the derived images keep the mapping.                   *)
FreedOneKeepingImages(st, s) ==
    IF ~st.ok \/ ~Has(st.surfs, s) THEN [st EXCEPT !.ok = FALSE]
    ELSE [st EXCEPT !.surfs = Drop(@, Place(@, s))]

(* One surface of the list: its derived images go first.                      *)
FreedOne(st, s) ==
    IF ~st.ok \/ ~Has(st.surfs, s) THEN [st EXCEPT !.ok = FALSE]
    ELSE [st EXCEPT !.derived = SweepOut(@, {m \in Range(@) : m.mem = s}),
                    !.surfs = Drop(@, Place(@, s))]

(* The surfaces of the list in turn, up to the first id that is none.         *)
FreedAll(list) ==
    LET freed[k \in 0..Len(list)] ==
          IF k = 0 THEN [ok |-> TRUE, surfs |-> surfs, derived |-> derived]
          ELSE FreedOne(freed[k - 1], list[k])
    IN  freed[Len(list)]

(* vaDestroySurfaces: only when all of the list were surfaces are the retired *)
(* contexts looked at again.                                                  *)
DestroySurfaces(list) ==
    LET st == FreedAll(list)
        kept == IF st.ok THEN SweepOut(retired, {d \in Retired : ~Retain(st.surfs, d)}) ELSE retired
        gone == Retired \ {kept[i] : i \in DOMAIN kept}
        freed == {s \in {list[j] : j \in DOMAIN list} : ~Has(st.surfs, s)}
    IN  /\ derived' = st.derived
        /\ surfs' = Destroyed(st.surfs, gone)
        /\ retired' = kept
        /\ refs' = [d \in DOMAIN refs |-> IF d \in gone THEN {} ELSE refs[d] \ freed]
        /\ held' = {h \in held : ~(h.kind \in {"surface", "derived"} /\ h.what \in freed)}
        /\ decs' = Freed(gone)
        /\ UNCHANGED <<ids, configs, bufs, imgs, engines>> /\ Platform

-----------------------------------------------------------------------------
(* Buffers and images share one counter: image ids are buffer ids.            *)

(* Mutant of ObjectId: the id is the place in the object's own table.         *)
ObjectIdByPlace(t) == Len(t) + 1

(* The id of an object about to enter table t, from the one counter.          *)
ObjectId(t) == ids.buffer + 1

Named(kind, id, what) ==
    /\ MayName("buffer", 1)
    /\ ids' = [ids EXCEPT !.buffer = @ + 1]
    /\ held' = held \cup {Handle(kind, id, what)}

CreateBuffer(type) ==
    /\ Len(bufs) < MaxBuffers
    /\ bufs' = Append(bufs, [id |-> ObjectId(bufs), type |-> type])
    /\ Named("buffer", ObjectId(bufs), type)
    /\ UNCHANGED <<configs, imgs, derived>> /\ OnlyTables

DestroyBuffer(b) ==
    /\ Has(bufs, b)
    /\ bufs' = Drop(bufs, Place(bufs, b))
    /\ held' = Without("buffer", b)
    /\ UNCHANGED <<ids, configs, imgs, derived>> /\ OnlyTables

CreateImage ==
    /\ Len(imgs) < MaxImages
    /\ imgs' = Append(imgs, [id |-> ObjectId(imgs)])
    /\ Named("image", ObjectId(imgs), "image")
    /\ UNCHANGED <<configs, bufs, derived>> /\ OnlyTables

DeriveImage(s) ==
    /\ Has(surfs, s) /\ Len(derived) < MaxDerived
    /\ derived' = Append(derived, [id |-> ObjectId(derived), mem |-> s])
    /\ Named("derived", ObjectId(derived), s)
    /\ UNCHANGED <<configs, bufs, imgs>> /\ OnlyTables

(* vaDestroyImage looks for a derived image first.                            *)
DestroyImage(m) ==
    /\ \/ /\ Has(derived, m)
          /\ derived' = Drop(derived, Place(derived, m))
          /\ UNCHANGED imgs
       \/ /\ ~Has(derived, m) /\ Has(imgs, m)
          /\ imgs' = Drop(imgs, Place(imgs, m))
          /\ UNCHANGED derived
    /\ held' = {h \in held : ~(h.kind \in {"image", "derived"} /\ h.id = m)}
    /\ UNCHANGED <<ids, configs, bufs>> /\ OnlyTables

(* vaMapBuffer: derived images, then images, then buffers.                    *)
Mapped(b) ==
    CASE Has(derived, b) -> <<"derived", Entry(derived, b).mem>>
      [] ~Has(derived, b) /\ Has(imgs, b) -> <<"image", "image">>
      [] ~Has(derived, b) /\ ~Has(imgs, b) /\ Has(bufs, b) -> <<"buffer", Entry(bufs, b).type>>
      [] OTHER -> <<>>

(* vaTerminate destroys everything; a later vaInitialize starts afresh.       *)
Terminate ==
    /\ ids' = NoIds
    /\ configs' = <<>> /\ bufs' = <<>> /\ imgs' = <<>> /\ derived' = <<>>
    /\ engines' = <<>> /\ retired' = <<>> /\ decs' = <<>> /\ surfs' = <<>>
    /\ held' = {} /\ refs' = <<>>
    /\ Platform

-----------------------------------------------------------------------------
SurfaceIds == 1..ids.surface
Lists == {<<s>> : s \in SurfaceIds} \cup {<<s, t>> : s, t \in SurfaceIds}

Next ==
    \/ \E p \in client.profiles : CreateConfig(p)
    \/ \E c \in 1..ids.config : DestroyConfig(c)
    \/ \E c \in 1..ids.config, w \in client.sizes : CreateContext(c, w)
    \/ \E c \in 1..ids.context : DestroyContext(c)
    \/ \E c \in 1..ids.context, s \in SurfaceIds : BeginPicture(c, s)
    \/ \E c \in 1..ids.context, R \in SUBSET SurfaceIds :
          Cardinality(R) <= 3 /\ RenderParameters(c, R)
    \/ \E c \in 1..ids.context : RenderSlice(c)
    \/ \E c \in 1..ids.context, key, pause \in BOOLEAN : EndPicture(c, key, pause)
    \/ \E c \in 1..ids.context : EndPictureFails(c)
    \/ \E s \in SurfaceIds : Land(s)
    \/ \E s \in SurfaceIds : SyncSurface(s)
    \/ \E n \in 1..2 : \E k \in 0..n : CreateSurfaces(n, k)
    \/ \E list \in Lists : DestroySurfaces(list)
    \/ \E type \in {"picture", "slice"} : CreateBuffer(type)
    \/ \E b \in 1..ids.buffer : DestroyBuffer(b)
    \/ CreateImage
    \/ \E s \in SurfaceIds : DeriveImage(s)
    \/ \E m \in 1..ids.buffer : DestroyImage(m)
    \/ Terminate

Spec == Init /\ [][Next]_vars

-----------------------------------------------------------------------------
TypeOK ==
    /\ \A kind \in DOMAIN ids : ids[kind] \in 0..client[kind] + 1
    /\ Len(configs) <= MaxConfigs /\ Len(engines) <= MaxEngines
    /\ Len(retired) <= MaxEngines /\ Len(surfs) <= MaxSurfaces
    /\ Len(bufs) <= MaxBuffers /\ Len(imgs) <= MaxImages /\ Len(derived) <= MaxDerived
    /\ \A d \in DOMAIN decs :
          /\ decs[d] # Gone => decs[d].profile \in Profiles /\ decs[d].size \in Sizes
          /\ decs[d].started => decs[d].open
          /\ decs[d].eos => decs[d].started
          /\ {decs[d].cur, decs[d].last} \subseteq 0..ids.surface
    /\ Len(refs) = Len(decs)

(* Every handle the client holds names the object it was given for, whatever  *)
(* was destroyed since: every table refills a hole with its last entry, and   *)
(* vaMapBuffer asks three tables for one id.                                  *)
Resolves(h) ==
    CASE h.kind = "config"  -> Has(configs, h.id) /\ Entry(configs, h.id).profile = h.what
      [] h.kind = "context" -> Has(engines, h.id)
                               /\ decs[Entry(engines, h.id).dec].profile = h.what
      [] h.kind = "surface" -> Has(surfs, h.id)
      [] OTHER -> Mapped(h.id) = <<h.kind, h.what>>

HandlesResolve == \A h \in held : Resolves(h)

(* vaapi_surface.c: a derived image never outlives the mapping of its         *)
(* surface, "so vaMapBuffer can never return a dangling surface mapping".     *)
MappingsLive == \A i \in DOMAIN derived : Has(surfs, derived[i].mem)

(* A decode context serves one VA context or waits among the retired ones,    *)
(* never both and never twice, and no surface is owned by a destroyed one.    *)
ContextsPlaced ==
    /\ Cardinality(Active \cup Retired) = Len(engines) + Len(retired)
    /\ \A i \in DOMAIN surfs : surfs[i].owner \in Active \cup Retired \cup {None}
    /\ \A d \in DOMAIN refs : refs[d] # {} => d \in Active \cup Retired

(* An inter picture whose references one waiting session decoded is submitted *)
(* to that session: a client that recreates its context on a change of        *)
(* resolution finds its references again.                                     *)
PicturesMeetTheirReferences ==
    \A i \in DOMAIN engines :
        engines[i].pic.from # None => engines[i].dec = engines[i].pic.from

(* A key frame is being submitted to d in this step.                          *)
KeyFrameEnds(d) ==
    \E i \in DOMAIN engines :
        /\ engines[i].dec = d /\ engines[i].pic.key
        /\ decs[d].frame /\ ~decs'[d].frame

(* What a VP9 session decoded stays referenceable until the surface goes or   *)
(* is decoded into elsewhere, or a key frame restarts the stream: no sync, no *)
(* destruction of a context or of other surfaces ends it.  The exceptions are *)
(* the code's own: a failed session, a full table of retired sessions, and a  *)
(* platform without the release unit, where a sync ends the stream.           *)
ReferencesKept ==
    [][\A d \in DOMAIN refs \cap DOMAIN refs' : IsVp9(d) =>
          \A s \in refs[d] \ refs'[d] :
             \/ ~Has(surfs', s)
             \/ Entry(surfs', s).owner \notin {d, None}
             \/ KeyFrameEnds(d)
             \/ ids'.fault > ids.fault
             \/ Len(retired) = MaxEngines /\ Len(engines') < Len(engines)
             \/ ~releaseAu]_vars

(* A vaDestroySurfaces that worked leaves no session waiting among the        *)
(* retired ones whose last reference is gone.                                 *)
SweptSessionsHoldReferences ==
    [][\A list \in Lists :
          /\ Len(surfs) = Len(surfs') + Len(list)
          /\ \A j \in DOMAIN list : Has(surfs, list[j]) /\ ~Has(surfs', list[j])
          /\ DestroySurfaces(list)
          => \A i \in DOMAIN retired' :
                \E j \in DOMAIN surfs' : surfs'[j].owner = retired'[i]]_vars
=============================================================================
