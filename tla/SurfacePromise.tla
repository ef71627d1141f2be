---------------------------- MODULE SurfacePromise ----------------------------
(* What a VA surface promises the client of src/src/decode/decode.h, without  *)
(* contexts, sessions, rings, epochs or fences: a picture begun on a surface  *)
(* and accepted is pending; it is shown when it arrives, and only that one    *)
(* is; whoever waits is told when it is there.  A seek ages every surface,    *)
(* and an aged surface may be filled once, black or with a picture of the     *)
(* stream being played.  Module DecodeImplementsPromise says how Decode keeps *)
(* this promise.                                                             *)
EXTENDS Integers, FiniteSets

CONSTANTS
    Surfaces,
    Nobody,         \* no surface
    Lossy           \* accepted pictures may be lost: something failed

VARIABLES
    promise,        \* per surface: its state, the picture last begun, what it shows
    aged,           \* surfaces not written since the last seek
    told            \* the surface the client was last told is ready

vars == <<promise, aged, told>>

Promised == [st : {"none", "open", "pending", "ready", "filled", "gone"},
             want : Nat, shows : Nat]

Exists(s) == promise[s].st \notin {"none", "gone"}
Pending == {s \in Surfaces : promise[s].st = "pending"}

Init ==
    /\ promise = [s \in Surfaces |-> [st |-> "none", want |-> 0, shows |-> 0]]
    /\ aged = {}
    /\ told = Nobody

-----------------------------------------------------------------------------
Create(s) ==
    /\ promise[s].st = "none"
    /\ promise' = [promise EXCEPT ![s].st = "open"]
    /\ UNCHANGED <<aged, told>>

Free(s) ==
    /\ Exists(s)
    /\ promise' = [promise EXCEPT ![s].st = "gone", ![s].shows = 0]
    /\ aged' = aged \ {s}
    /\ UNCHANGED told

(* A new picture, or the second field of the one before.                     *)
Begin(s, p) ==
    /\ Exists(s)
    /\ p \in Nat \ {0}
    /\ (p = promise[s].want \/ \A t \in Surfaces : p > promise[t].want)
    /\ promise' = [promise EXCEPT ![s].st = "open", ![s].want = p]
    /\ UNCHANGED <<aged, told>>

Accept(s) ==
    /\ promise[s].st = "open" /\ promise[s].want # 0
    /\ promise' = [promise EXCEPT ![s].st = "pending"]
    /\ UNCHANGED <<aged, told>>

(* The picture arrives, perhaps after the surface was filled.                *)
Deliver(s) ==
    /\ promise[s].st \in {"pending", "filled"}
    /\ promise' = [promise EXCEPT ![s].st = "ready", ![s].shows = promise[s].want]
    /\ aged' = aged \ {s}
    /\ UNCHANGED told

(* It arrives, and the call that brought it fails.                           *)
Spoil(s) ==
    /\ Lossy
    /\ promise[s].st \in {"pending", "filled"}
    /\ promise' = [promise EXCEPT ![s].shows = promise[s].want]
    /\ UNCHANGED <<aged, told>>

(* A seek or a destroyed context: pictures it left pending are given up.      *)
Seek(lost) ==
    /\ lost # {} => Lossy
    /\ aged' = {s \in Surfaces : Exists(s)}
    /\ promise' = [s \in Surfaces |->
                    IF s \in lost THEN [promise[s] EXCEPT !.st = "open"] ELSE promise[s]]
    /\ UNCHANGED told

(* Waiting for a surface: it is filled, or the call begins to wait, and the   *)
(* client is told when nothing is pending any more.                          *)
Fill(s) ==
    /\ Exists(s) /\ s \in aged
    /\ \E shown \in {0} \cup {promise[t].shows :
                        t \in {u \in Surfaces \ aged : promise[u].st = "ready"}} :
          promise' = [promise EXCEPT ![s].st = "filled", ![s].shows = shown]
    /\ aged' = aged \ {s}
    /\ told' = Nobody

Wait ==
    /\ told' = Nobody
    /\ UNCHANGED <<promise, aged>>

Tell(s) ==
    /\ Exists(s) /\ s \notin Pending
    /\ told' = s
    /\ UNCHANGED <<promise, aged>>

-----------------------------------------------------------------------------
Next ==
    \/ \E s \in Surfaces :
          \/ Create(s) \/ Free(s) \/ Accept(s) \/ Deliver(s) \/ Spoil(s) \/ Fill(s) \/ Tell(s)
          \/ Begin(s, promise'[s].want)
    \/ \E lost \in SUBSET Pending : Seek(lost)
    \/ Wait

Spec == Init /\ [][Next]_vars

-----------------------------------------------------------------------------
(* What a client concludes: a surface that is ready shows the picture last    *)
(* begun on it, whatever happened to it before.                              *)
Typed == promise \in [Surfaces -> Promised]
ReadyShowsItsPicture ==
    \A s \in Surfaces : promise[s].st = "ready" => promise[s].shows = promise[s].want

PromiseInv == Typed /\ ReadyShowsItsPicture
=============================================================================
