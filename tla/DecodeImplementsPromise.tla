------------------------ MODULE DecodeImplementsPromise ------------------------
(* Decode keeps the promise of SurfacePromise: the refinement mapping.        *)
EXTENDS DecodeProperties

(* What the client may rely on of surface s.  A backfill is one step of the    *)
(* promise and two of the code: it copies pixels, then claims the epoch.     *)
PromiseState(s) ==
    IF surf[s].life = "unborn" THEN "none"
    ELSE IF surf[s].life = "freed" THEN "gone"
    ELSE IF goal[s].filled THEN "filled"
    ELSE IF surf[s].decoded THEN "ready"
    ELSE IF Pending(s) THEN "pending" ELSE "open"

PromiseOf ==
    [s \in Surfaces |-> [st |-> PromiseState(s), want |-> goal[s].pic,
                         shows |-> surf[s].px.pic]]

Aged == {s \in Surfaces : Live(s) /\ Stale(s) /\ ~(sync.st = "filling" /\ sync.s = s)}

(* The surface the last sync returned for, if none is in progress.             *)
Told == IF sync.st = "returned" THEN sync.s ELSE None

Promise == INSTANCE SurfacePromise WITH
    Nobody <- None, Lossy <- Faults # {},
    promise <- PromiseOf, aged <- Aged,
    told <- Told

(* The registry, the scheduler and the stream boundaries together implement   *)
(* the promise of a surface: through reused targets, field pairs, seeks, late *)
(* and lost frames, a surface goes from pending to ready only with its own    *)
(* picture, is filled only when it is aged and only with black or a picture   *)
(* of this stream, loses a pending picture only when something failed, and    *)
(* no sync tells the client it is ready before (decode.h:33-35,              *)
(* decode.c:375-393, surface.c:603-631).                                     *)
KeepsThePromise == Promise!Spec

=============================================================================
