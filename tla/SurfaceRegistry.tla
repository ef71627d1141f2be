--------------------------- MODULE SurfaceRegistry ---------------------------
(* The display-level surface registry of src/src/decode/surface.c: what it    *)
(* records of every VA surface, the stream epoch, and the rewrites of one     *)
(* record that the decode contexts and vaSyncSurface perform.  It declares no *)
(* actions: every rewrite happens inside a call on a decode context or on a   *)
(* surface, and module Decode says which call makes which rewrite.            *)
(*                                                                            *)
(* A backing buffer is what was last written into it: neutral black, or one   *)
(* picture.  A picture is identified by a number and remembers the context    *)
(* that submitted it and the stream (the count of seeks) of that context, so  *)
(* that "pre-seek pixels" is a statement about the state.                     *)
EXTENDS Integers, FiniteSets, Sequences

CONSTANTS
    Surfaces,   \* VASurfaceIDs the client may create; ids are never reused
    Contexts,   \* VAContextIDs the client may create; ids are never reused
    None        \* no surface / no context

ASSUME RegistryAssumption ==
    /\ None \notin Surfaces
    /\ None \notin Contexts

VARIABLES
    surf,       \* surf[s]: the struct vpu_surface of s
    reg,        \* the registry's own fields: epoch, last_frame, last_frame_epoch
    resv        \* the kernel's unsignalled reservation fences (external)

Pixels == [pic : Nat, ctx : Contexts \cup {None}, stream : Nat]
Black  == [pic |-> 0, ctx |-> None, stream |-> 0]

SurfaceRecord ==
    [life : {"unborn", "live", "freed"}, decoded : BOOLEAN, queued : BOOLEAN,
     exported : BOOLEAN, fence : Nat, gen : Nat, epoch : Nat,
     owner : Contexts \cup {None}, px : Pixels]

(* IRIS_SURFACE_FENCE_ATTACH: the session of ctx attached fence token to the   *)
(* backing of s.  A token means something only to the session that attached    *)
(* it; surf[s].fence is the bare token, 0 for none.                            *)
FenceRecord == [ctx : Contexts, s : Surfaces, token : Nat \ {0}]

RegistryRecord ==
    [epoch : Nat, lastFrame : Surfaces \cup {None}, lastFrameEpoch : Nat]

UnbornSurface ==
    [life |-> "unborn", decoded |-> FALSE, queued |-> FALSE, exported |-> FALSE,
     fence |-> 0, gen |-> 0, epoch |-> 0, owner |-> None, px |-> Black]

EmptyRegistry == [epoch |-> 0, lastFrame |-> None, lastFrameEpoch |-> 0]

RegistryInit ==
    /\ surf = [s \in Surfaces |-> UnbornSurface]
    /\ reg = EmptyRegistry
    /\ resv = {}

Live(s) == s \in Surfaces /\ surf[s].life = "live"      \* surfs_find succeeds

(* vpu_surfaces_alloc: a surface is born into the current epoch.              *)
Allocated == [UnbornSurface EXCEPT !.life = "live", !.epoch = reg.epoch]

(* surface_finish_write: the CPU window closes, and the token is forgotten    *)
(* when it has been signalled (Signalled).                                    *)
Finished(x) == [x EXCEPT !.fence = 0]

(* IRIS_SURFACE_FENCE_SIGNAL through the session of c: fences of c with one   *)
(* of these tokens are signalled.  A token this session did not attach        *)
(* signals nothing, whatever another session attached under the same number.  *)
Signalled(c, tokens) == {k \in resv : ~(k.ctx = c /\ k.token \in tokens)}

(* finish_pending_writes: every write c still owes is finished, done or not.  *)
AllFinished(c) ==
    [s \in Surfaces |-> IF Live(s) /\ surf[s].owner = c
                        THEN Finished(surf[s]) ELSE surf[s]]

Swept(c) ==
    Signalled(c, {surf[s].fence : s \in {x \in Surfaces : Live(x) /\ surf[x].owner = c}})

(* Mutants of Begun: the target claims the epoch before a frame lands in it;  *)
(* the picture it held before still counts as decoded.                        *)
BegunInThisEpoch(x) ==
    [x EXCEPT !.gen = @ + 1, !.decoded = FALSE, !.queued = FALSE, !.epoch = reg.epoch]
BegunStillDecoded(x) == [x EXCEPT !.gen = @ + 1, !.queued = FALSE]

(* vpu_decode_begin on a new frame: a new generation, pending again.  The     *)
(* epoch is left alone on purpose: the old pixels are still in the backing.   *)
Begun(x) == [x EXCEPT !.gen = @ + 1, !.decoded = FALSE, !.queued = FALSE]

(* vpu_decode_end before the submission: queued by c, with the reservation   *)
(* fence its session attaches under this token (Attached).  A backing that    *)
(* takes no fence is one that no GPU client waits for.                        *)
Claimed(x, c, token) ==
    [Finished(x) EXCEPT !.queued = TRUE, !.owner = c, !.fence = token]

(* surface_begin_write: the token s still has is signalled through the        *)
(* session of the new claimer c, whichever session attached it; then c        *)
(* attaches its own.                                                          *)
Attached(c, s, token) ==
    Signalled(c, {surf[s].fence}) \cup {[ctx |-> c, s |-> s, token |-> token]}

(* surface_copy and surfaces_mark_decoded: the frame is in the backing.       *)
Landed(x, c, px) ==
    [Finished(x) EXCEPT !.px = px, !.decoded = TRUE, !.queued = TRUE,
                        !.owner = c, !.epoch = reg.epoch]

(* The registry half of surfaces_mark_decoded: s is the frame to repeat.      *)
LastFrameIs(s) == [reg EXCEPT !.lastFrame = s, !.lastFrameEpoch = reg.epoch]

(* Mutant of NextEpoch: the frame to repeat is dropped, the epoch goes on.    *)
SameEpoch == [epoch |-> reg.epoch, lastFrame |-> None, lastFrameEpoch |-> 0]

(* surfs_begin_epoch: abandon the stream, forget the frame to repeat.         *)
NextEpoch == [epoch |-> reg.epoch + 1, lastFrame |-> None, lastFrameEpoch |-> 0]

(* Mutant of Repeatable: the newest frame is repeated also when its surface    *)
(* was begun again.                                                           *)
RepeatableBegun(s) ==
    /\ reg.lastFrameEpoch = reg.epoch
    /\ Live(reg.lastFrame)
    /\ reg.lastFrame # s
    /\ surf[reg.lastFrame].epoch = reg.epoch

(* surfs_backfill_stale, first half: the pixels a stale surface s is filled   *)
(* with, the newest frame of this epoch if it is still there, or black.       *)
Repeatable(s) ==
    /\ reg.lastFrameEpoch = reg.epoch
    /\ Live(reg.lastFrame)
    /\ reg.lastFrame # s
    /\ surf[reg.lastFrame].epoch = reg.epoch
    /\ surf[reg.lastFrame].decoded

FillPixels(s) == IF Repeatable(s) THEN surf[reg.lastFrame].px ELSE Black

(* surfs_backfill_stale, second half: s now counts as decoded in this epoch.  *)
Backfilled(x) == [x EXCEPT !.epoch = reg.epoch, !.decoded = TRUE]

(* vpu_surfaces_sync: s holds pixels of an older epoch.                       *)
Stale(s) == surf[s].epoch # reg.epoch

(* restart_decoder_session: pictures of c that no firmware will ever finish.  *)
Abandoned(x, c) == x.owner = c /\ x.queued /\ ~x.decoded

=============================================================================
