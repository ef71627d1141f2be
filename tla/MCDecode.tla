------------------------------ MODULE MCDecode -------------------------------
(* Model checking Decode: the properties TLC checks and the small sets its    *)
(* configurations use.                                                        *)
EXTENDS DecodeImplementsPromise, TLC

(* Surfaces are interchangeable, and so are contexts: no action orders them.   *)
Symmetry == Permutations(Surfaces) \cup Permutations(Contexts)

=============================================================================
