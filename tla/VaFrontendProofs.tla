--------------------------- MODULE VaFrontendProofs ---------------------------
(* The object tables of one display, for every bound on the tables, every     *)
(* number of ids and failures, every set of profiles and sizes: a handle      *)
(* names the object it was given for until it is destroyed, a derived image   *)
(* never outlives its surface, a decode context is in one place, and a VP9    *)
(* session keeps its references until the code says it does not.              *)
EXTENDS VaFrontend, FiniteSetTheorems, SequenceTheorems, WellFoundedInduction, TLAPS

-----------------------------------------------------------------------------
(* Loops.  A loop over 1..n that turns a state of X into the next one is a    *)
(* function on 0..n.                                                          *)

(* What holds at 0 and is handed on holds for every number.                   *)
LEMMA Counting ==
    ASSUME NEW T, 0 \in T, \A k \in Nat : k \in T => k + 1 \in T
    PROVE  Nat \subseteq T
<1> SUFFICES ASSUME Nat \ T # {} PROVE FALSE
  OBVIOUS
<1> DEFINE R == OpToRel(<, Nat)
<1>1. IsWellFoundedOn(R, Nat)
  BY NatLessThanWellFounded
<1>2. R = {p \in Nat \X Nat : p[1] < p[2]}
  BY DEF OpToRel
<1> HIDE DEF R
<1>3. PICK x \in Nat \ T : \A y \in Nat \ T : <<y, x>> \notin R
  <2> DEFINE U == Nat \ T
  <2>1. U \subseteq Nat /\ U # {}
    OBVIOUS
  <2> HIDE DEF U
  <2>2. \E x \in U : \A y \in U : ~(<<y, x>> \in R)
    BY <1>1, <2>1, WFMin
  <2> QED
    BY <2>2 DEF U
<1>4. x # 0 /\ x - 1 \in Nat
  BY <1>3
<1> DEFINE p == <<x - 1, x>>
<1>5. p \in Nat \X Nat /\ p[1] < p[2]
  BY <1>3, <1>4
<1>6. p \in R
  BY <1>2, <1>5
<1>7. x - 1 \in T
  BY <1>3, <1>4, <1>6
<1> QED
  BY <1>3, <1>4, <1>7

(* The states of a loop, round by round.                                      *)
Rounds(n, X, b, F) ==
    {f \in [0..n -> X] : f[0] = b /\ \A k \in 1..n : f[k] = F[<<k, f[k - 1]>>]}

LEMMA LoopsRun ==
    ASSUME NEW n \in Nat, NEW X, NEW b \in X, NEW F \in [(1..n) \X X -> X]
    PROVE  Rounds(n, X, b, F) # {}
<1> DEFINE T == {m \in Nat : m <= n => Rounds(m, X, b, F) # {}}
<1>1. 0 \in T
  <2>1. [k \in 0..0 |-> b] \in Rounds(0, X, b, F)
    BY DEF Rounds
  <2> QED
    BY <2>1
<1>2. ASSUME NEW m \in Nat, m \in T
      PROVE  m + 1 \in T
  <2> SUFFICES ASSUME m + 1 <= n PROVE Rounds(m + 1, X, b, F) # {}
    OBVIOUS
  <2>1. PICK f \in [0..m -> X] : f[0] = b /\ \A k \in 1..m : f[k] = F[<<k, f[k - 1]>>]
    BY <1>2 DEF Rounds
  <2> DEFINE x == F[<<m + 1, f[m]>>]
             g == [k \in 0..(m + 1) |-> IF k = m + 1 THEN x ELSE f[k]]
  <2>2. f[m] \in X /\ m + 1 \in 1..n
    BY <2>1
  <2>3. x \in X
    BY <2>2
  <2>4. x = F[<<m + 1, f[m]>>]
    OBVIOUS
  <2> HIDE DEF x
  <2>5. g \in [0..(m + 1) -> X]
    BY <2>1, <2>3
  <2>6. g[0] = b
    BY <2>1
  <2>7. ASSUME NEW k \in 1..(m + 1)
        PROVE  g[k] = F[<<k, g[k - 1]>>]
    <3>1. CASE k = m + 1
      <4>1. g[k] = x /\ g[k - 1] = f[m]
        BY <3>1
      <4> QED
        BY <2>4, <3>1, <4>1
    <3>2. CASE k # m + 1
      <4>1. k \in 1..m /\ g[k] = f[k] /\ g[k - 1] = f[k - 1]
        BY <3>2
      <4> QED
        BY <2>1, <4>1
    <3> QED
      BY <3>1, <3>2
  <2> HIDE DEF g
  <2>8. g \in Rounds(m + 1, X, b, F)
    BY <2>5, <2>6, <2>7 DEF Rounds
  <2> QED
    BY <2>8
<1> HIDE DEF T
<1>3. Nat \subseteq T
  BY <1>1, <1>2, Counting
<1> QED
  BY <1>3 DEF T

-----------------------------------------------------------------------------
(* Tables.  No two entries of a table have the same id, so a table is the set *)
(* of its entries and the order does not matter.                              *)

(* No entry is there twice.                                                   *)
Once(t) == \A i, j \in DOMAIN t : t[i] = t[j] => i = j

IdsApart(t) == \A i, j \in DOMAIN t : t[i].id = t[j].id => i = j

(* Whatever the place.                                                        *)
LEMMA DropTyped ==
    ASSUME NEW S, NEW t \in Seq(S), NEW i
    PROVE  Drop(t, i) \in Seq(S)
<1> DEFINE m == Len(t)
           u == [j \in 1..(m - 1) |-> IF j = i THEN t[m] ELSE t[j]]
<1>1. m \in Nat /\ DOMAIN t = 1..m /\ \A j \in 1..m : t[j] \in S
  OBVIOUS
<1>2. \A j \in 1..(m - 1) : (IF j = i THEN t[m] ELSE t[j]) \in S
  BY <1>1
<1>3. CASE m = 0
  <2>1. 1..(m - 1) = 1..0
    BY <1>3
  <2>2. u \in [1..0 -> S]
    BY <1>2, <2>1
  <2>3. u \in Seq(S)
    BY <2>2
  <2> QED
    BY <2>3 DEF Drop
<1>4. CASE m # 0
  <2>1. m - 1 \in Nat
    BY <1>1, <1>4
  <2>2. u \in [1..(m - 1) -> S]
    BY <1>2
  <2>3. u \in Seq(S)
    BY <2>1, <2>2
  <2> QED
    BY <2>3 DEF Drop
<1> QED
  BY <1>3, <1>4

(* The hole is refilled: one entry less, and every other one still there.     *)
LEMMA DropRemoves ==
    ASSUME NEW S, NEW t \in Seq(S), Once(t), NEW i \in DOMAIN t
    PROVE  /\ Drop(t, i) \in Seq(S)
           /\ Len(Drop(t, i)) = Len(t) - 1
           /\ Once(Drop(t, i))
           /\ Range(Drop(t, i)) = Range(t) \ {t[i]}
<1> DEFINE n == Len(t)
           u == [j \in 1..(n - 1) |-> IF j = i THEN t[n] ELSE t[j]]
<1>1. n \in Nat /\ i \in 1..n /\ DOMAIN t = 1..n /\ n - 1 \in Nat /\ n \in 1..n
  OBVIOUS
<1>2. Drop(t, i) = u
  BY DEF Drop
<1>3. u \in Seq(S) /\ Len(u) = n - 1 /\ DOMAIN u = 1..(n - 1)
  <2>1. \A j \in 1..(n - 1) : (IF j = i THEN t[n] ELSE t[j]) \in S
    BY <1>1
  <2>2. u \in [1..(n - 1) -> S]
    BY <2>1
  <2> QED
    BY <1>1, <2>2
<1>4. Once(u)
  BY <1>1 DEF Once
<1>5. Range(u) \subseteq Range(t) \ {t[i]}
  BY <1>1, <1>3 DEF Range, Once
<1>6. ASSUME NEW j \in DOMAIN t, t[j] # t[i]
      PROVE  t[j] \in Range(u)
  <2>1. CASE j = n
    <3>1. i \in 1..(n - 1) /\ u[i] = t[n]
      BY <1>1, <1>6, <2>1
    <3> QED
      BY <1>3, <2>1, <3>1 DEF Range
  <2>2. CASE j # n
    <3>1. j \in 1..(n - 1) /\ u[j] = t[j]
      BY <1>1, <1>6, <2>2
    <3> QED
      BY <1>3, <3>1 DEF Range
  <2> QED
    BY <2>1, <2>2
<1>7. Range(t) \ {t[i]} \subseteq Range(u)
  BY <1>6 DEF Range
<1> HIDE DEF u
<1> QED
  BY <1>2, <1>3, <1>4, <1>5, <1>7

(* One round: an entry that goes is taken out, one that stays is passed.      *)
SweptSoFar(t, gone, s, k) ==
    /\ s.i \in 1..(Len(s.t) + 1) /\ Len(t) - k = Len(s.t) + 1 - s.i
    /\ Once(s.t) /\ Len(s.t) <= Len(t)
    /\ Range(t) \ gone \subseteq Range(s.t) /\ Range(s.t) \subseteq Range(t)
    /\ \A j \in 1..(s.i - 1) : s.t[j] \notin gone

LEMMA RoundSweeps ==
    ASSUME NEW S, NEW t \in Seq(S), NEW gone, NEW k \in 1..Len(t),
           NEW v \in Seq(S), NEW i \in Nat,
           SweptSoFar(t, gone, [t |-> v, i |-> i], k - 1)
    PROVE  SweptSoFar(t, gone, Swept([t |-> v, i |-> i], gone), k)
<1> DEFINE n == Len(v)
<1>1. /\ i \in 1..(n + 1) /\ Len(t) - (k - 1) = n + 1 - i /\ Once(v) /\ n <= Len(t)
      /\ Range(t) \ gone \subseteq Range(v) /\ Range(v) \subseteq Range(t)
      /\ \A j \in 1..(i - 1) : v[j] \notin gone
  BY DEF SweptSoFar
<1>2. n \in Nat /\ i \in 1..n /\ i \in DOMAIN v /\ k \in Nat /\ Len(t) \in Nat
  BY <1>1
<1>3. CASE v[i] \in gone
  <2> DEFINE u == Drop(v, i)
  <2>1. u \in Seq(S) /\ Len(u) = n - 1 /\ Once(u) /\ Range(u) = Range(v) \ {v[i]}
    BY <1>1, <1>2, DropRemoves
  <2>2. \A j \in 1..(i - 1) : u[j] = v[j]
    BY <1>2 DEF Drop
  <2> HIDE DEF u
  <2>3. i \in 1..(Len(u) + 1) /\ Len(t) - k = Len(u) + 1 - i /\ Len(u) <= Len(t)
    <3> DEFINE m == Len(t)
    <3>1. /\ n \in Nat /\ m \in Nat /\ k \in Nat /\ Len(u) = n - 1
          /\ i \in 1..n /\ m - (k - 1) = n + 1 - i /\ n <= m
      BY <1>1, <1>2, <2>1
    <3> HIDE DEF m, n
    <3>2. i \in 1..(Len(u) + 1) /\ m - k = Len(u) + 1 - i /\ Len(u) <= m
      BY <3>1
    <3> QED
      BY <3>2 DEF m
  <2>4. Range(t) \ gone \subseteq Range(u) /\ Range(u) \subseteq Range(t)
    BY <1>1, <1>3, <2>1
  <2>5. \A j \in 1..(i - 1) : u[j] \notin gone
    BY <1>1, <2>2
  <2>6. SweptSoFar(t, gone, [t |-> u, i |-> i], k)
    BY <2>1, <2>3, <2>4, <2>5 DEF SweptSoFar
  <2> QED
    BY <1>3, <2>6 DEF Swept, u
<1>4. CASE v[i] \notin gone
  <2>1. i + 1 \in 1..(n + 1) /\ Len(t) - k = n + 1 - (i + 1)
    BY <1>1, <1>2
  <2>2. \A j \in 1..((i + 1) - 1) : v[j] \notin gone
    BY <1>1, <1>2, <1>4
  <2>3. SweptSoFar(t, gone, [t |-> v, i |-> i + 1], k)
    BY <1>1, <2>1, <2>2 DEF SweptSoFar
  <2> QED
    BY <1>4, <2>3 DEF Swept
<1> QED
  BY <1>3, <1>4

(* The loop is the function the definition names.                             *)
LEMMA SweepRuns ==
    ASSUME NEW S, NEW t \in Seq(S), NEW gone
    PROVE  \E w \in [0..Len(t) -> [t : Seq(S), i : Nat]] :
              /\ w[0] = [t |-> t, i |-> 1]
              /\ \A k \in 1..Len(t) : w[k] = Swept(w[k - 1], gone)
              /\ SweepOut(t, gone) = w[Len(t)].t
<1> DEFINE n == Len(t)
           X == [t : Seq(S), i : Nat]
           b == [t |-> t, i |-> 1]
           F == [p \in (1..n) \X X |-> Swept(p[2], gone)]
<1>1. n \in Nat /\ b \in X
  OBVIOUS
<1>2. \A s \in X : Swept(s, gone) \in X
  <2> SUFFICES ASSUME NEW s \in X PROVE Swept(s, gone) \in X
    OBVIOUS
  <2>1. s.t \in Seq(S) /\ s.i \in Nat
    OBVIOUS
  <2>2. Drop(s.t, s.i) \in Seq(S)
    BY <2>1, DropTyped
  <2> QED
    BY <2>1, <2>2 DEF Swept
<1>3. F \in [(1..n) \X X -> X]
  BY <1>2
<1>4. PICK f \in [0..n -> X] : f[0] = b /\ \A k \in 1..n : f[k] = F[<<k, f[k - 1]>>]
  <2> HIDE DEF F, X, b, n
  <2>1. Rounds(n, X, b, F) # {}
    BY <1>1, <1>3, LoopsRun
  <2> QED
    BY <2>1 DEF Rounds
<1>5. \A k \in 1..n : f[k] = Swept(f[k - 1], gone)
  <2> SUFFICES ASSUME NEW k \in 1..n PROVE f[k] = Swept(f[k - 1], gone)
    OBVIOUS
  <2>1. f[k - 1] \in X
    <3> HIDE DEF X, n, F, b
    <3> QED
      BY <1>1, <1>4
  <2>2. <<k, f[k - 1]>> \in (1..n) \X X
    BY <2>1
  <2>3. F[<<k, f[k - 1]>>] = Swept(f[k - 1], gone)
    BY <2>2
  <2> QED
    BY <1>4, <2>3
<1>6. f = [k \in 0..n |-> IF k = 0 THEN b ELSE Swept(f[k - 1], gone)]
  BY <1>1, <1>4, <1>5
<1>7. \E w : /\ w = [k \in 0..n |-> IF k = 0 THEN b ELSE Swept(w[k - 1], gone)]
             /\ SweepOut(t, gone) = w[n].t
  BY <1>6, Zenon DEF SweepOut
<1>8. PICK w : /\ w = [k \in 0..n |-> IF k = 0 THEN b ELSE Swept(w[k - 1], gone)]
               /\ SweepOut(t, gone) = w[n].t
  BY <1>7
<1>9. w[0] = b /\ \A k \in 1..n : w[k] = Swept(w[k - 1], gone)
  BY <1>1, <1>8
<1>10. \A k \in 0..n : w[k] \in X
  <2> DEFINE T == {k \in Nat : k <= n => w[k] \in X}
  <2>1. 0 \in T
    BY <1>1, <1>9
  <2>2. ASSUME NEW k \in Nat, k \in T PROVE k + 1 \in T
    <3> SUFFICES ASSUME k + 1 <= n PROVE w[k + 1] \in X
      OBVIOUS
    <3>1. w[k] \in X /\ k + 1 \in 1..n
      BY <1>1, <2>2
    <3>2. w[k + 1] = Swept(w[k], gone)
      BY <1>9, <3>1
    <3> QED
      BY <1>2, <3>1, <3>2
  <2> HIDE DEF T
  <2>3. Nat \subseteq T
    BY <2>1, <2>2, Counting
  <2> QED
    BY <1>1, <2>3 DEF T
<1>11. w \in [0..n -> X]
  BY <1>8, <1>10
<1> QED
  BY <1>8, <1>9, <1>11

LEMMA SweepTyped ==
    ASSUME NEW S, NEW t \in Seq(S), NEW gone
    PROVE  SweepOut(t, gone) \in Seq(S)
<1> DEFINE n == Len(t)
<1>1. n \in 0..n
  OBVIOUS
<1>2. PICK w \in [0..n -> [t : Seq(S), i : Nat]] :
         /\ w[0] = [t |-> t, i |-> 1]
         /\ \A k \in 1..n : w[k] = Swept(w[k - 1], gone)
         /\ SweepOut(t, gone) = w[n].t
  BY SweepRuns
<1>3. w[n] \in [t : Seq(S), i : Nat]
  BY <1>1, <1>2
<1> QED
  BY <1>2, <1>3

(* A sweep takes out what goes and nothing else (vaapi_surface.c:100-118).    *)
LEMMA SweepRemoves ==
    ASSUME NEW S, NEW t \in Seq(S), Once(t), NEW gone
    PROVE  /\ SweepOut(t, gone) \in Seq(S)
           /\ Len(SweepOut(t, gone)) <= Len(t)
           /\ Once(SweepOut(t, gone))
           /\ Range(SweepOut(t, gone)) = Range(t) \ gone
<1> DEFINE n == Len(t)
           X == [t : Seq(S), i : Nat]
<1>1. PICK w \in [0..n -> X] :
         /\ w[0] = [t |-> t, i |-> 1]
         /\ \A k \in 1..n : w[k] = Swept(w[k - 1], gone)
         /\ SweepOut(t, gone) = w[n].t
  BY SweepRuns
<1>2. n \in Nat
  OBVIOUS
<1> DEFINE T == {k \in Nat : k <= n => SweptSoFar(t, gone, w[k], k)}
<1>3. 0 \in T
  <2>1. SweptSoFar(t, gone, [t |-> t, i |-> 1], 0)
    BY <1>2 DEF SweptSoFar
  <2> QED
    BY <1>1, <2>1
<1>4. ASSUME NEW k \in Nat, k \in T PROVE k + 1 \in T
  <2> SUFFICES ASSUME k + 1 <= n PROVE SweptSoFar(t, gone, w[k + 1], k + 1)
    OBVIOUS
  <2>1. SweptSoFar(t, gone, w[k], k) /\ w[k] \in X /\ k + 1 \in 1..n
    <3>1. k \in 0..n /\ k + 1 \in 1..n
      BY <1>2
    <3>2. w[k] \in X
      <4> HIDE DEF X, n
      <4> QED
        BY <1>1, <3>1
    <3>3. SweptSoFar(t, gone, w[k], k)
      <4> HIDE DEF n
      <4> QED
        BY <1>4, <3>1
    <3> QED
      BY <3>1, <3>2, <3>3
  <2>2. w[k + 1] = Swept(w[k], gone)
    BY <1>1, <2>1
  <2>3. PICK v \in Seq(S), i \in Nat : w[k] = [t |-> v, i |-> i]
    BY <2>1
  <2>4. SweptSoFar(t, gone, [t |-> v, i |-> i], (k + 1) - 1)
    BY <2>1, <2>3
  <2>5. SweptSoFar(t, gone, Swept([t |-> v, i |-> i], gone), k + 1)
    <3> DEFINE m == k + 1
    <3>1. m \in 1..Len(t) /\ SweptSoFar(t, gone, [t |-> v, i |-> i], m - 1)
      BY <2>1, <2>4
    <3> HIDE DEF m
    <3>2. SweptSoFar(t, gone, Swept([t |-> v, i |-> i], gone), m)
      BY <3>1, RoundSweeps
    <3> QED
      BY <3>2 DEF m
  <2> QED
    BY <2>2, <2>3, <2>5
<1>5. Nat \subseteq T
  <2> HIDE DEF T
  <2> QED
    BY <1>3, <1>4, Counting
<1>6. SweptSoFar(t, gone, w[n], n) /\ w[n] \in X
  BY <1>1, <1>2, <1>5
<1> DEFINE u == w[n].t
<1>7. u \in Seq(S) /\ w[n].i \in Nat
  BY <1>6
<1>8. /\ w[n].i = Len(u) + 1 /\ Once(u)
      /\ Range(t) \ gone \subseteq Range(u) /\ Range(u) \subseteq Range(t)
      /\ \A j \in 1..(w[n].i - 1) : u[j] \notin gone
  BY <1>2, <1>6, <1>7 DEF SweptSoFar
<1>9. \A x \in Range(u) : x \notin gone
  BY <1>7, <1>8 DEF Range
<1>10. Len(u) <= n
  BY <1>6 DEF SweptSoFar
<1> QED
  BY <1>1, <1>7, <1>8, <1>9, <1>10

-----------------------------------------------------------------------------
(* The inductive invariant.                                                   *)

ConfigRecord  == [id : Nat, profile : Profiles]
BufferRecord  == [id : Nat, type : {"picture", "slice"}]
ImageRecord   == [id : Nat]
DerivedRecord == [id : Nat, mem : Nat]
SurfaceRecord == [id : Nat, owner : Nat, st : {"idle", "queued", "decoded"}, fresh : BOOLEAN]
PictureRecord == [stage : {"none", "begun", "named"}, key : BOOLEAN, from : Nat]
EngineRecord  == [id : Nat, dec : Nat, target : Nat, pic : PictureRecord]
DecRecord     == [profile : Profiles \cup {"none"}, size : Sizes \cup {0}, open : BOOLEAN,
                  started : BOOLEAN, eos : BOOLEAN, fatal : BOOLEAN, cur : Nat, last : Nat,
                  frame : BOOLEAN]
Counters      == [config : Nat, context : Nat, surface : Nat, buffer : Nat, fault : Nat]

(* Each table with its bound; its ids are apart and none is to be given yet.  *)
TableOf(t, S, bound, last) ==
    /\ t \in Seq(S) /\ Len(t) <= bound
    /\ IdsApart(t)
    /\ \A x \in Range(t) : x.id \in 1..last

Tables ==
    /\ TableOf(configs, ConfigRecord, MaxConfigs, ids.config)
    /\ TableOf(bufs, BufferRecord, MaxBuffers, ids.buffer)
    /\ TableOf(imgs, ImageRecord, MaxImages, ids.buffer)
    /\ TableOf(derived, DerivedRecord, MaxDerived, ids.buffer)

(* Buffers, images and derived images share their ids (vaMapBuffer asks the   *)
(* three tables in turn), so no id is in two of them.                         *)
ObjectsApart ==
    /\ \A b \in Range(bufs), m \in Range(imgs) : b.id # m.id
    /\ \A b \in Range(bufs), m \in Range(derived) : b.id # m.id
    /\ \A b \in Range(imgs), m \in Range(derived) : b.id # m.id

Surfaces == TableOf(surfs, SurfaceRecord, MaxSurfaces, ids.surface)
Engines  == TableOf(engines, EngineRecord, MaxEngines, ids.context)

(* A mapping is of a surface that is there.                                   *)
Mappings == \A m \in Range(derived) : \E x \in Range(surfs) : x.id = m.mem

(* What a handle names, by the kind of object.                                *)
Names(h) ==
    /\ h.kind \in {"config", "context", "surface", "buffer", "image", "derived"}
    /\ h.kind = "config"  => \E x \in Range(configs) : x.id = h.id /\ x.profile = h.what
    /\ h.kind = "context" => \E x \in Range(engines) :
                                x.id = h.id /\ decs[x.dec].profile = h.what
    /\ h.kind = "surface" => h.what = h.id /\ \E x \in Range(surfs) : x.id = h.id
    /\ h.kind = "buffer"  => \E x \in Range(bufs) : x.id = h.id /\ x.type = h.what
    /\ h.kind = "image"   => h.what = "image" /\ \E x \in Range(imgs) : x.id = h.id
    /\ h.kind = "derived" => \E x \in Range(derived) : x.id = h.id /\ x.mem = h.what

Handles == \A h \in held : Names(h)

(* The counters keep to the client's bounds.                                  *)
Counted ==
    /\ ids \in Counters /\ client \in Clients /\ releaseAu \in BOOLEAN
    /\ ids.config <= client.config /\ ids.context <= client.context
    /\ ids.surface <= client.surface /\ ids.buffer <= client.buffer
    /\ ids.fault <= client.fault

(* A decode context that is there is whole; one that was freed is not used.   *)
DecWhole(x) ==
    /\ x.profile \in Profiles /\ x.size \in Sizes
    /\ x.started => x.open
    /\ x.eos => x.started

DecsSound ==
    /\ decs \in Seq(DecRecord) /\ refs \in Seq(SUBSET Nat) /\ Len(refs) = Len(decs)
    /\ \A d \in DOMAIN decs :
          /\ IF d \in Active \cup Retired THEN DecWhole(decs[d]) ELSE decs[d] = Gone
          /\ decs[d].cur <= ids.surface /\ decs[d].last <= ids.surface

(* A decode context is in one place: no two VA contexts share one, and one    *)
(* that waits serves none; those that wait are VP9's.                         *)
Placed ==
    /\ \A e, f \in Range(engines) : e.dec = f.dec => e = f
    /\ retired \in Seq(Nat) /\ Once(retired) /\ Len(retired) <= MaxEngines
    /\ Active \cap Retired = {} /\ Active \cup Retired \subseteq DOMAIN decs
    /\ \A d \in Retired : IsVp9(d)
    /\ \A e \in Range(engines) : e.target <= ids.surface

Owners == \A x \in Range(surfs) : x.owner \in Active \cup Retired \cup {None}

(* Surface s of the registry r belongs to d.                                  *)
Owns(r, d, s) == \E x \in Range(r) : x.id = s /\ x.owner = d

(* What a session can predict from is in surfaces that it owns, and it runs.  *)
RefsOwned ==
    \A d \in DOMAIN refs : \A s \in refs[d] :
        /\ Owns(surfs, d, s)
        /\ decs[d].started /\ ~decs[d].eos /\ ~decs[d].fatal

(* The picture being drawn is drawn by the session that has its references.   *)
PicturesPlaced == \A e \in Range(engines) : e.pic.from # None => e.dec = e.pic.from

FrontendInv ==
    /\ Tables /\ ObjectsApart /\ Surfaces /\ Engines /\ Mappings /\ Handles
    /\ Counted /\ DecsSound /\ Placed /\ Owners /\ RefsOwned /\ PicturesPlaced

-----------------------------------------------------------------------------
(* Looking up, adding and removing                                            *)

LEMMA RangeOf ==
    ASSUME NEW S, NEW t \in Seq(S)
    PROVE  /\ DOMAIN t = 1..Len(t) /\ Len(t) \in Nat
           /\ \A i \in DOMAIN t : t[i] \in Range(t)
           /\ \A x \in Range(t) : x \in S /\ \E i \in DOMAIN t : t[i] = x
  BY DEF Range

(* A lookup finds the entry with the id.                                      *)
LEMMA LookUp ==
    ASSUME NEW S, NEW t \in Seq(S), IdsApart(t), NEW x \in Range(t)
    PROVE  /\ Has(t, x.id) /\ Entry(t, x.id) = x
           /\ Place(t, x.id) \in DOMAIN t /\ t[Place(t, x.id)] = x
<1>1. PICK i \in DOMAIN t : t[i] = x
  BY RangeOf
<1>2. t[i].id = x.id /\ \A j \in 1..(i - 1) : t[j].id # x.id
  <2> SUFFICES ASSUME NEW j \in 1..(i - 1), t[j].id = x.id PROVE FALSE
    BY <1>1
  <2>1. j \in DOMAIN t /\ j # i
    BY <1>1, RangeOf
  <2> QED
    BY <1>1, <2>1 DEF IdsApart
<1>3. \E k \in DOMAIN t : t[k].id = x.id /\ \A j \in 1..(k - 1) : t[j].id # x.id
  BY <1>1, <1>2
<1>4. Place(t, x.id) \in DOMAIN t /\ t[Place(t, x.id)].id = x.id
  BY <1>3, Zenon DEF Place
<1>5. Place(t, x.id) = i
  BY <1>1, <1>4 DEF IdsApart
<1> QED
  BY <1>1, <1>4, <1>5 DEF Has, Entry

LEMMA HasMeans ==
    ASSUME NEW S, NEW t \in Seq(S), NEW id
    PROVE  Has(t, id) <=> \E x \in Range(t) : x.id = id
  BY DEF Has, Range

(* What a lookup finds, by the id.                                            *)
LEMMA Found ==
    ASSUME NEW S, NEW t \in Seq(S), IdsApart(t), NEW id, Has(t, id)
    PROVE  /\ Entry(t, id) \in Range(t) /\ Entry(t, id).id = id
           /\ Place(t, id) \in DOMAIN t /\ t[Place(t, id)] = Entry(t, id)
           /\ \A x \in Range(t) : x.id = id => x = Entry(t, id)
<1>1. PICK x \in Range(t) : x.id = id
  BY HasMeans
<1>2. Entry(t, id) = x /\ Place(t, id) \in DOMAIN t /\ t[Place(t, id)] = x
  BY <1>1, LookUp
<1>3. \A y \in Range(t) : y.id = id => y = x
  BY <1>1 DEF IdsApart, Range
<1> QED
  BY <1>1, <1>2, <1>3

LEMMA ApartOnce ==
    ASSUME NEW t, IdsApart(t)
    PROVE  Once(t)
  BY DEF IdsApart, Once

(* What is left of a table with its ids apart is one.                         *)
LEMMA ApartStays ==
    ASSUME NEW S, NEW t \in Seq(S), NEW u \in Seq(S), IdsApart(t), Once(u),
           Range(u) \subseteq Range(t)
    PROVE  IdsApart(u)
<1> SUFFICES ASSUME NEW i \in DOMAIN u, NEW j \in DOMAIN u, u[i].id = u[j].id
             PROVE  i = j
  BY DEF IdsApart
<1>1. PICK k \in DOMAIN t, l \in DOMAIN t : t[k] = u[i] /\ t[l] = u[j]
  BY DEF Range
<1>2. k = l
  BY <1>1 DEF IdsApart
<1> QED
  BY <1>1, <1>2 DEF Once

LEMMA DropTable ==
    ASSUME NEW S, NEW t, NEW bound \in Nat, NEW last, TableOf(t, S, bound, last),
           NEW id, Has(t, id)
    PROVE  /\ TableOf(Drop(t, Place(t, id)), S, bound, last)
           /\ Range(Drop(t, Place(t, id))) = {x \in Range(t) : x.id # id}
           /\ Len(Drop(t, Place(t, id))) = Len(t) - 1
<1> DEFINE u == Drop(t, Place(t, id))
<1>1. t \in Seq(S) /\ Len(t) <= bound /\ IdsApart(t) /\ Once(t)
  BY ApartOnce DEF TableOf
<1>2. /\ Entry(t, id) \in Range(t) /\ Entry(t, id).id = id
      /\ Place(t, id) \in DOMAIN t /\ t[Place(t, id)] = Entry(t, id)
      /\ \A x \in Range(t) : x.id = id => x = Entry(t, id)
  BY <1>1, Found
<1>3. u \in Seq(S) /\ Len(u) = Len(t) - 1 /\ Once(u) /\ Range(u) = Range(t) \ {Entry(t, id)}
  BY <1>1, <1>2, DropRemoves
<1> HIDE DEF u
<1>4. Range(u) = {x \in Range(t) : x.id # id}
  BY <1>2, <1>3
<1>5. IdsApart(u)
  BY <1>1, <1>3, <1>4, ApartStays
<1>6. Len(u) <= bound
  BY <1>1, <1>3
<1>7. TableOf(u, S, bound, last)
  BY <1>3, <1>4, <1>5, <1>6 DEF TableOf
<1> QED
  BY <1>3, <1>4, <1>7 DEF u

(* An entry with the next id fits in.                                         *)
MayEnter(t, S, bound, last, x) ==
    /\ TableOf(t, S, bound, last) /\ bound \in Nat /\ last \in Nat
    /\ Len(t) < bound /\ x \in S /\ x.id = last + 1

LEMMA AppendTable ==
    ASSUME NEW S, NEW t, NEW bound, NEW last, NEW x, MayEnter(t, S, bound, last, x)
    PROVE  /\ TableOf(Append(t, x), S, bound, x.id)
           /\ Range(Append(t, x)) = Range(t) \cup {x}
<1> USE DEF MayEnter
<1> DEFINE u == Append(t, x)
           n == Len(t)
<1>1. t \in Seq(S) /\ n \in Nat /\ DOMAIN t = 1..n /\ n < bound /\ IdsApart(t)
  BY RangeOf DEF TableOf
<1>2. /\ u \in Seq(S) /\ Len(u) = n + 1 /\ DOMAIN u = 1..(n + 1)
      /\ u[n + 1] = x /\ \A i \in 1..n : u[i] = t[i]
  BY <1>1
<1> HIDE DEF u, n
<1>3. Range(u) = Range(t) \cup {x}
  <2>1. \A i \in DOMAIN u : u[i] \in Range(t) \cup {x}
    BY <1>1, <1>2 DEF Range
  <2>2. \A i \in DOMAIN t : t[i] \in Range(u)
    <3> SUFFICES ASSUME NEW i \in DOMAIN t PROVE t[i] \in Range(u)
      OBVIOUS
    <3>1. i \in DOMAIN u /\ u[i] = t[i]
      BY <1>1, <1>2
    <3> QED
      BY <3>1 DEF Range
  <2>3. x \in Range(u)
    <3>1. n + 1 \in DOMAIN u /\ u[n + 1] = x
      BY <1>1, <1>2
    <3> QED
      BY <3>1 DEF Range
  <2> QED
    BY <2>1, <2>2, <2>3 DEF Range
<1>4. \A i \in 1..n : t[i].id \in 1..last
  BY <1>1 DEF TableOf, Range
<1>5. IdsApart(u)
  <2> SUFFICES ASSUME NEW i \in 1..(n + 1), NEW j \in 1..(n + 1), u[i].id = u[j].id
               PROVE  i = j
    BY <1>2 DEF IdsApart
  <2>1. CASE i \in 1..n /\ j \in 1..n
    BY <1>1, <1>2, <2>1 DEF IdsApart
  <2>2. CASE i = n + 1 /\ j \in 1..n
    BY <1>2, <1>4, <2>2
  <2>3. CASE j = n + 1 /\ i \in 1..n
    BY <1>2, <1>4, <2>3
  <2> QED
    BY <1>1, <2>1, <2>2, <2>3
<1>6. \A y \in Range(u) : y.id \in 1..x.id
  <2>1. \A y \in Range(t) : y.id \in 1..last
    BY DEF TableOf
  <2> QED
    BY <1>3, <2>1
<1>7. Len(u) <= bound
  BY <1>1, <1>2
<1>8. TableOf(u, S, bound, x.id)
  BY <1>2, <1>5, <1>6, <1>7 DEF TableOf
<1> QED
  BY <1>3, <1>8 DEF u

LEMMA TableGrows ==
    ASSUME NEW S, NEW t, NEW bound, NEW last \in Nat, NEW more \in Nat, last <= more,
           TableOf(t, S, bound, last)
    PROVE  TableOf(t, S, bound, more)
<1>1. \A x \in Range(t) : x.id \in 1..more
  BY DEF TableOf
<1> QED
  BY <1>1 DEF TableOf

LEMMA EmptyTable ==
    ASSUME NEW S, NEW bound \in Nat, NEW last
    PROVE  TableOf(<<>>, S, bound, last) /\ Range(<<>>) = {}
<1>1. <<>> \in Seq(S) /\ Len(<<>>) = 0 /\ DOMAIN <<>> = {}
  BY EmptySeq
<1> QED
  BY <1>1 DEF TableOf, IdsApart, Range

(* The parts of a table.                                                      *)
LEMMA TableParts ==
    ASSUME NEW S, NEW t, NEW bound, NEW last, TableOf(t, S, bound, last)
    PROVE  /\ t \in Seq(S) /\ IdsApart(t) /\ Once(t) /\ Len(t) <= bound
           /\ DOMAIN t = 1..Len(t) /\ Len(t) \in Nat
           /\ \A i \in DOMAIN t : t[i] \in Range(t)
           /\ \A x \in Range(t) : x \in S /\ x.id \in 1..last
           /\ \A x \in Range(t) : \E i \in DOMAIN t : t[i] = x
<1>1. t \in Seq(S)
  BY DEF TableOf
<1> QED
  BY <1>1, RangeOf, ApartOnce DEF TableOf

LEMMA Bounds ==
    /\ MaxConfigs \in Nat /\ MaxEngines \in Nat /\ MaxSurfaces \in Nat
    /\ MaxBuffers \in Nat /\ MaxImages \in Nat /\ MaxDerived \in Nat
  BY FrontendAssumption

-----------------------------------------------------------------------------
(* vaDestroySurfaces' loop over its list                                      *)

FreedStates == [ok : BOOLEAN, surfs : Seq(SurfaceRecord), derived : Seq(DerivedRecord)]

LEMMA FreedTyped ==
    ASSUME NEW st \in FreedStates, NEW s
    PROVE  FreedOne(st, s) \in FreedStates
<1>1. st.surfs \in Seq(SurfaceRecord) /\ st.derived \in Seq(DerivedRecord) /\ st.ok \in BOOLEAN
  BY DEF FreedStates
<1> DEFINE d == SweepOut(st.derived, {m \in Range(st.derived) : m.mem = s})
           v == Drop(st.surfs, Place(st.surfs, s))
<1>2. d \in Seq(DerivedRecord)
  BY <1>1, SweepTyped
<1>3. v \in Seq(SurfaceRecord)
  BY <1>1, DropTyped
<1> HIDE DEF d, v
<1>4. [st EXCEPT !.ok = FALSE] \in FreedStates
  BY DEF FreedStates
<1>5. [st EXCEPT !.derived = d, !.surfs = v] \in FreedStates
  BY <1>2, <1>3 DEF FreedStates
<1> QED
  BY <1>4, <1>5 DEF FreedOne, d, v

LEMMA FreedRuns ==
    ASSUME surfs \in Seq(SurfaceRecord), derived \in Seq(DerivedRecord),
           NEW S, NEW list \in Seq(S)
    PROVE  \E w \in [0..Len(list) -> FreedStates] :
              /\ w[0] = [ok |-> TRUE, surfs |-> surfs, derived |-> derived]
              /\ \A k \in 1..Len(list) : w[k] = FreedOne(w[k - 1], list[k])
              /\ FreedAll(list) = w[Len(list)]
<1> DEFINE n == Len(list)
           X == FreedStates
           b == [ok |-> TRUE, surfs |-> surfs, derived |-> derived]
           F == [p \in (1..n) \X X |-> FreedOne(p[2], list[p[1]])]
<1>1. n \in Nat /\ b \in X
  BY DEF FreedStates
<1>2. F \in [(1..n) \X X -> X]
  BY FreedTyped
<1>3. PICK f \in [0..n -> X] : f[0] = b /\ \A k \in 1..n : f[k] = F[<<k, f[k - 1]>>]
  <2> HIDE DEF F, X, b, n
  <2>1. Rounds(n, X, b, F) # {}
    BY <1>1, <1>2, LoopsRun
  <2> QED
    BY <2>1 DEF Rounds
<1>4. \A k \in 1..n : f[k] = FreedOne(f[k - 1], list[k])
  <2> SUFFICES ASSUME NEW k \in 1..n PROVE f[k] = FreedOne(f[k - 1], list[k])
    OBVIOUS
  <2>1. f[k - 1] \in X
    <3> HIDE DEF X, n, F, b
    <3> QED
      BY <1>1, <1>3
  <2>2. <<k, f[k - 1]>> \in (1..n) \X X
    BY <2>1
  <2>3. F[<<k, f[k - 1]>>] = FreedOne(f[k - 1], list[k])
    BY <2>2
  <2> QED
    BY <1>3, <2>3
<1>5. f = [k \in 0..n |-> IF k = 0 THEN b ELSE FreedOne(f[k - 1], list[k])]
  BY <1>1, <1>3, <1>4
<1>6. \E w : /\ w = [k \in 0..n |-> IF k = 0 THEN b ELSE FreedOne(w[k - 1], list[k])]
             /\ FreedAll(list) = w[n]
  BY <1>5, Zenon DEF FreedAll
<1>7. PICK w : /\ w = [k \in 0..n |-> IF k = 0 THEN b ELSE FreedOne(w[k - 1], list[k])]
               /\ FreedAll(list) = w[n]
  BY <1>6
<1>8. w[0] = b /\ \A k \in 1..n : w[k] = FreedOne(w[k - 1], list[k])
  <2> DEFINE g(k) == FreedOne(w[k - 1], list[k])
  <2>1. w = [k \in 0..n |-> IF k = 0 THEN b ELSE g(k)]
    BY <1>7
  <2> HIDE DEF g, b, n
  <2>2. w[0] = b
    BY <1>1, <2>1
  <2>3. \A k \in 1..n : w[k] = g(k)
    BY <1>1, <2>1
  <2> QED
    BY <2>2, <2>3 DEF g
<1>9. \A k \in 0..n : w[k] \in X
  <2> DEFINE T == {k \in Nat : k <= n => w[k] \in X}
  <2>1. 0 \in T
    BY <1>1, <1>8
  <2>2. ASSUME NEW k \in Nat, k \in T PROVE k + 1 \in T
    <3> SUFFICES ASSUME k + 1 <= n PROVE w[k + 1] \in X
      OBVIOUS
    <3>1. w[k] \in X /\ k + 1 \in 1..n
      BY <1>1, <2>2
    <3>2. w[k + 1] = FreedOne(w[k], list[k + 1])
      BY <1>8, <3>1
    <3> QED
      BY <3>1, <3>2, FreedTyped
  <2> HIDE DEF T
  <2>3. Nat \subseteq T
    BY <2>1, <2>2, Counting
  <2> QED
    BY <1>1, <2>3 DEF T
<1>10. w \in [0..n -> X]
  BY <1>7, <1>9
<1> QED
  BY <1>7, <1>8, <1>10

(* After k surfaces of the list: what is gone was in it, and the images       *)
(* derived from what is left are left.                                        *)
FreedSoFar(st, list, k) ==
    /\ IdsApart(st.surfs) /\ IdsApart(st.derived)
    /\ Range(st.surfs) \subseteq Range(surfs)
    /\ \A x \in Range(surfs) : x \notin Range(st.surfs) => \E j \in 1..k : list[j] = x.id
    /\ Range(st.derived) = {m \in Range(derived) : Has(st.surfs, m.mem)}
    /\ Len(st.derived) <= Len(derived)
    /\ st.ok => Len(st.surfs) = Len(surfs) - k
    /\ ~st.ok => Len(st.surfs) > Len(surfs) - k /\ Len(st.surfs) <= Len(surfs)

LEMMA RoundFrees ==
    ASSUME Surfaces, TableOf(derived, DerivedRecord, MaxDerived, ids.buffer),
           NEW S, NEW list \in Seq(S), NEW k \in 1..Len(list),
           NEW ok \in BOOLEAN, NEW v \in Seq(SurfaceRecord), NEW d \in Seq(DerivedRecord),
           FreedSoFar([ok |-> ok, surfs |-> v, derived |-> d], list, k - 1)
    PROVE  FreedSoFar(FreedOne([ok |-> ok, surfs |-> v, derived |-> d], list[k]), list, k)
<1> DEFINE s == list[k]
           st == [ok |-> ok, surfs |-> v, derived |-> d]
<1>1. /\ IdsApart(v) /\ IdsApart(d) /\ Range(v) \subseteq Range(surfs)
      /\ \A x \in Range(surfs) : x \notin Range(v) => \E j \in 1..(k - 1) : list[j] = x.id
      /\ Range(d) = {m \in Range(derived) : Has(v, m.mem)} /\ Len(d) <= Len(derived)
      /\ ok => Len(v) = Len(surfs) - (k - 1)
      /\ ~ok => Len(v) > Len(surfs) - (k - 1) /\ Len(v) <= Len(surfs)
  BY DEF FreedSoFar
<1>2. /\ Len(v) \in Nat /\ Len(surfs) \in Nat /\ Len(d) \in Nat /\ Len(derived) \in Nat
      /\ Len(list) \in Nat /\ k \in Nat
  BY TableParts DEF Surfaces
<1>3. \A x \in Range(surfs) : x \notin Range(v) => \E j \in 1..k : list[j] = x.id
  BY <1>1, <1>2
<1>4. CASE ~ok \/ ~Has(v, s)
  <2>1. FreedOne(st, s) = [ok |-> FALSE, surfs |-> v, derived |-> d]
    BY <1>4 DEF FreedOne
  <2>2. Len(v) > Len(surfs) - k /\ Len(v) <= Len(surfs)
    BY <1>1, <1>2
  <2>3. FreedSoFar([ok |-> FALSE, surfs |-> v, derived |-> d], list, k)
    BY <1>1, <1>3, <2>2 DEF FreedSoFar
  <2> QED
    BY <2>1, <2>3
<1>5. CASE ok /\ Has(v, s)
  <2> DEFINE gone == {m \in Range(d) : m.mem = s}
             d2 == SweepOut(d, gone)
             v2 == Drop(v, Place(v, s))
  <2>1. FreedOne(st, s) = [ok |-> ok, surfs |-> v2, derived |-> d2]
    BY <1>5 DEF FreedOne
  <2> HIDE DEF gone
  <2>2. d2 \in Seq(DerivedRecord) /\ Len(d2) <= Len(d) /\ Once(d2) /\ Range(d2) = Range(d) \ gone
    BY <1>1, ApartOnce, SweepRemoves
  <2>3. /\ Entry(v, s) \in Range(v) /\ Entry(v, s).id = s
        /\ Place(v, s) \in DOMAIN v /\ v[Place(v, s)] = Entry(v, s)
        /\ \A x \in Range(v) : x.id = s => x = Entry(v, s)
    BY <1>1, <1>5, Found
  <2>4. v2 \in Seq(SurfaceRecord) /\ Len(v2) = Len(v) - 1 /\ Once(v2)
        /\ Range(v2) = Range(v) \ {Entry(v, s)}
    BY <1>1, <2>3, ApartOnce, DropRemoves
  <2> HIDE DEF d2, v2
  <2>5. Range(v2) = {x \in Range(v) : x.id # s}
    BY <2>3, <2>4
  <2>6. IdsApart(v2)
    <3>1. Range(v2) \subseteq Range(v)
      BY <2>4
    <3> QED
      BY <1>1, <2>4, <3>1, ApartStays
  <2>7. IdsApart(d2)
    <3>1. Range(d2) \subseteq Range(d)
      BY <2>2
    <3> QED
      BY <1>1, <2>2, <3>1, ApartStays
  <2>8. ASSUME NEW x \in Range(surfs), x \notin Range(v2)
        PROVE  \E j \in 1..k : list[j] = x.id
    <3>1. CASE x \in Range(v)
      <4>1. x.id = s /\ k \in 1..k
        BY <1>2, <2>5, <2>8, <3>1
      <4> QED
        BY <4>1
    <3>2. CASE x \notin Range(v)
      BY <1>3, <3>2
    <3> QED
      BY <3>1, <3>2
  <2>9. \A id : Has(v2, id) <=> Has(v, id) /\ id # s
    <3>1. \A id : Has(v2, id) <=> \E x \in Range(v2) : x.id = id
      BY <2>4, HasMeans
    <3>2. \A id : Has(v, id) <=> \E x \in Range(v) : x.id = id
      BY HasMeans
    <3> QED
      BY <2>5, <3>1, <3>2
  <2>10. Range(d2) = {m \in Range(derived) : Has(v2, m.mem)}
    BY <1>1, <2>2, <2>9 DEF gone
  <2>11. Len(d2) <= Len(derived) /\ Len(v2) = Len(surfs) - k
    <3>1. Len(d2) \in Nat /\ Len(v2) \in Nat
      BY <2>2, <2>4
    <3> QED
      BY <1>1, <1>2, <1>5, <2>2, <2>4, <3>1
  <2>12. Range(v2) \subseteq Range(surfs)
    BY <1>1, <2>4
  <2>13. FreedSoFar([ok |-> ok, surfs |-> v2, derived |-> d2], list, k)
    BY <1>5, <2>6, <2>7, <2>8, <2>10, <2>11, <2>12 DEF FreedSoFar
  <2> QED
    BY <2>1, <2>13
<1> QED
  BY <1>4, <1>5

LEMMA ListFrees ==
    ASSUME Surfaces, TableOf(derived, DerivedRecord, MaxDerived, ids.buffer), Mappings,
           NEW S, NEW list \in Seq(S)
    PROVE  FreedAll(list) \in FreedStates /\ FreedSoFar(FreedAll(list), list, Len(list))
<1> DEFINE n == Len(list)
           b == [ok |-> TRUE, surfs |-> surfs, derived |-> derived]
<1>1. /\ surfs \in Seq(SurfaceRecord) /\ derived \in Seq(DerivedRecord)
      /\ IdsApart(surfs) /\ IdsApart(derived) /\ n \in Nat
      /\ Len(surfs) \in Nat /\ Len(derived) \in Nat
  BY TableParts DEF Surfaces
<1>2. PICK w \in [0..n -> FreedStates] :
         /\ w[0] = b
         /\ \A k \in 1..n : w[k] = FreedOne(w[k - 1], list[k])
         /\ FreedAll(list) = w[n]
  BY <1>1, FreedRuns
<1> DEFINE T == {k \in Nat : k <= n => FreedSoFar(w[k], list, k)}
<1>3. 0 \in T
  <2>1. \A m \in Range(derived) : Has(surfs, m.mem)
    BY <1>1, HasMeans DEF Mappings
  <2>2. FreedSoFar(b, list, 0)
    BY <1>1, <2>1 DEF FreedSoFar
  <2> QED
    BY <1>2, <2>2
<1>4. ASSUME NEW k \in Nat, k \in T PROVE k + 1 \in T
  <2> SUFFICES ASSUME k + 1 <= n PROVE FreedSoFar(w[k + 1], list, k + 1)
    OBVIOUS
  <2>1. FreedSoFar(w[k], list, k) /\ w[k] \in FreedStates /\ k + 1 \in 1..n
    BY <1>1, <1>2, <1>4
  <2>2. w[k + 1] = FreedOne(w[k], list[k + 1])
    BY <1>2, <2>1
  <2>3. PICK ok \in BOOLEAN, v \in Seq(SurfaceRecord), d \in Seq(DerivedRecord) :
           w[k] = [ok |-> ok, surfs |-> v, derived |-> d]
    BY <2>1 DEF FreedStates
  <2>4. FreedSoFar(FreedOne([ok |-> ok, surfs |-> v, derived |-> d], list[k + 1]), list, k + 1)
    <3> DEFINE m == k + 1
    <3>1. m \in 1..n /\ FreedSoFar([ok |-> ok, surfs |-> v, derived |-> d], list, m - 1)
      BY <2>1, <2>3
    <3> HIDE DEF m
    <3>2. FreedSoFar(FreedOne([ok |-> ok, surfs |-> v, derived |-> d], list[m]), list, m)
      BY <3>1, RoundFrees
    <3> QED
      BY <3>2 DEF m
  <2> QED
    BY <2>2, <2>3, <2>4
<1>5. Nat \subseteq T
  <2> HIDE DEF T
  <2> QED
    BY <1>3, <1>4, Counting
<1> QED
  BY <1>1, <1>2, <1>5

-----------------------------------------------------------------------------
(* Configs, buffers and images                                                *)

LEMMA FrontendInit == Init => FrontendInv
<1> SUFFICES ASSUME Init PROVE FrontendInv
  OBVIOUS
<1>1. /\ ids = NoIds /\ configs = <<>> /\ bufs = <<>> /\ imgs = <<>> /\ derived = <<>>
      /\ engines = <<>> /\ retired = <<>> /\ decs = <<>> /\ surfs = <<>>
      /\ held = {} /\ refs = <<>> /\ releaseAu \in BOOLEAN /\ client \in Clients
  BY DEF Init
<1>2. Tables /\ Surfaces /\ Engines
  BY <1>1, EmptyTable, Bounds DEF Tables, Surfaces, Engines
<1>3. Range(<<>>) = {} /\ DOMAIN <<>> = {} /\ Len(<<>>) = 0
  BY DEF Range
<1>4. ObjectsApart /\ Mappings /\ Handles /\ Owners /\ PicturesPlaced /\ RefsOwned
  BY <1>1, <1>3 DEF ObjectsApart, Mappings, Handles, Owners, PicturesPlaced, RefsOwned
<1>5. ids \in Counters /\ ids.config = 0 /\ ids.context = 0 /\ ids.surface = 0
      /\ ids.buffer = 0 /\ ids.fault = 0
  BY <1>1 DEF NoIds, Counters
<1>6. Counted
  BY <1>1, <1>5, FrontendAssumption DEF Counted
<1>7. DecsSound
  BY <1>1, <1>3 DEF DecsSound
<1>8. Placed
  <2>1. Active = {} /\ Retired = {}
    BY <1>1, <1>3 DEF Active, Retired
  <2>2. retired \in Seq(Nat) /\ Len(retired) <= MaxEngines
    BY <1>1, <1>3, Bounds
  <2> QED
    BY <1>1, <1>3, <2>1, <2>2 DEF Placed, Once
<1> QED
  BY <1>2, <1>4, <1>6, <1>7, <1>8 DEF FrontendInv

(* The counters as numbers.                                                   *)
LEMMA CounterFields ==
    ASSUME Counted
    PROVE  /\ ids.config \in Nat /\ ids.context \in Nat /\ ids.surface \in Nat
           /\ ids.buffer \in Nat /\ ids.fault \in Nat
           /\ client.config \in Nat /\ client.context \in Nat /\ client.surface \in Nat
           /\ client.buffer \in Nat /\ client.fault \in Nat
           /\ client.profiles \subseteq Profiles /\ client.sizes \subseteq Sizes
  BY FrontendAssumption DEF Counted, Counters

LEMMA CounterRises ==
    ASSUME NEW x \in Counters
    PROVE  /\ \A y \in Counters : y = [x EXCEPT !.config = @ + 1] =>
                 /\ y.config = x.config + 1 /\ y.context = x.context
                 /\ y.surface = x.surface /\ y.buffer = x.buffer /\ y.fault = x.fault
           /\ \A y \in Counters : y = [x EXCEPT !.context = @ + 1] =>
                 /\ y.config = x.config /\ y.context = x.context + 1
                 /\ y.surface = x.surface /\ y.buffer = x.buffer /\ y.fault = x.fault
           /\ \A y \in Counters : y = [x EXCEPT !.buffer = @ + 1] =>
                 /\ y.config = x.config /\ y.context = x.context
                 /\ y.surface = x.surface /\ y.buffer = x.buffer + 1 /\ y.fault = x.fault
           /\ \A y \in Counters : y = [x EXCEPT !.fault = @ + 1] =>
                 /\ y.config = x.config /\ y.context = x.context
                 /\ y.surface = x.surface /\ y.buffer = x.buffer /\ y.fault = x.fault + 1
           /\ [x EXCEPT !.config = @ + 1] \in Counters
           /\ [x EXCEPT !.context = @ + 1] \in Counters
           /\ [x EXCEPT !.buffer = @ + 1] \in Counters
           /\ [x EXCEPT !.fault = @ + 1] \in Counters
  BY DEF Counters

(* A call on configs, buffers or images leaves contexts and surfaces alone.   *)
LEMMA TableCall ==
    ASSUME FrontendInv, OnlyTables, ids'.context = ids.context, ids'.surface = ids.surface,
           Tables', ObjectsApart', Mappings', Handles', Counted'
    PROVE  FrontendInv'
<1>1. /\ engines' = engines /\ retired' = retired /\ decs' = decs /\ surfs' = surfs
      /\ refs' = refs /\ releaseAu' = releaseAu /\ client' = client
  BY DEF OnlyTables, Platform
<1>2. Active' = Active /\ Retired' = Retired /\ \A d : IsVp9(d)' = IsVp9(d)
  BY <1>1 DEF Active, Retired, IsVp9
<1>3. Surfaces' /\ Engines'
  BY <1>1 DEF FrontendInv, Surfaces, Engines
<1>4. DecsSound' /\ Placed'
  BY <1>1, <1>2 DEF FrontendInv, DecsSound, Placed
<1>5. Owners' /\ RefsOwned' /\ PicturesPlaced'
  BY <1>1, <1>2 DEF FrontendInv, Owners, RefsOwned, PicturesPlaced
<1> QED
  BY <1>3, <1>4, <1>5 DEF FrontendInv

LEMMA CreateConfigKeeps ==
    ASSUME FrontendInv, NEW p \in client.profiles, CreateConfig(p)
    PROVE  FrontendInv'
<1> DEFINE id == ids.config + 1
           x == [id |-> id, profile |-> p]
<1>1. Counted /\ Tables /\ ObjectsApart /\ Mappings /\ Handles
  BY DEF FrontendInv
<1>2. /\ ids.config \in Nat /\ client.config \in Nat /\ p \in Profiles
      /\ ids.config + 1 <= client.config /\ Len(configs) < MaxConfigs
      /\ configs' = Append(configs, x) /\ held' = held \cup {Handle("config", id, p)}
      /\ bufs' = bufs /\ imgs' = imgs /\ derived' = derived /\ OnlyTables
      /\ ids' = [ids EXCEPT !.config = @ + 1] /\ client' = client /\ releaseAu' = releaseAu
  BY <1>1, CounterFields DEF CreateConfig, MayName, NextId, OnlyTables, Platform
<1>3. /\ ids' \in Counters /\ ids'.config = id /\ ids'.context = ids.context
      /\ ids'.surface = ids.surface /\ ids'.buffer = ids.buffer /\ ids'.fault = ids.fault
  BY <1>1, <1>2, CounterRises DEF Counted
<1>4. Counted'
  BY <1>1, <1>2, <1>3 DEF Counted
<1>5. x \in ConfigRecord /\ x.id = id /\ x.profile = p
  BY <1>2 DEF ConfigRecord
<1> HIDE DEF x, id
<1>6. /\ TableOf(configs', ConfigRecord, MaxConfigs, id)
      /\ Range(configs') = Range(configs) \cup {x}
  <2>1. TableOf(configs, ConfigRecord, MaxConfigs, ids.config) /\ id = ids.config + 1
    BY <1>1 DEF Tables, id
  <2>2. /\ TableOf(Append(configs, x), ConfigRecord, MaxConfigs, x.id)
        /\ Range(Append(configs, x)) = Range(configs) \cup {x}
    <3>1. MayEnter(configs, ConfigRecord, MaxConfigs, ids.config, x)
      BY <1>2, <1>5, <2>1, Bounds DEF MayEnter
    <3> QED
      BY <3>1, AppendTable
  <2> QED
    BY <1>2, <1>5, <2>2
<1>7. Tables'
  BY <1>1, <1>2, <1>3, <1>6 DEF Tables
<1>8. ObjectsApart' /\ Mappings'
  BY <1>1, <1>2 DEF ObjectsApart, Mappings, OnlyTables
<1>9. Handles'
  <2> SUFFICES ASSUME NEW h \in held' PROVE Names(h)'
    BY DEF Handles
  <2>1. engines' = engines /\ decs' = decs /\ surfs' = surfs
    BY <1>2 DEF OnlyTables
  <2>2. CASE h \in held
    <3>1. Names(h)
      BY <1>1, <2>2 DEF Handles
    <3> QED
      BY <1>2, <1>6, <2>1, <3>1 DEF Names
  <2>3. CASE h = Handle("config", id, p)
    <3>1. h.kind = "config" /\ h.id = id /\ h.what = p
      BY <2>3 DEF Handle
    <3>2. x \in Range(configs')
      BY <1>6
    <3> QED
      BY <1>5, <3>1, <3>2 DEF Names
  <2> QED
    BY <1>2, <2>2, <2>3
<1> QED
  BY <1>2, <1>3, <1>4, <1>7, <1>8, <1>9, TableCall

LEMMA DestroyConfigKeeps ==
    ASSUME FrontendInv, NEW c \in Nat, DestroyConfig(c)
    PROVE  FrontendInv'
<1>1. Counted /\ Tables /\ ObjectsApart /\ Mappings /\ Handles
  BY DEF FrontendInv
<1>2. /\ Has(configs, c) /\ configs' = Drop(configs, Place(configs, c))
      /\ held' = Without("config", c)
      /\ ids' = ids /\ bufs' = bufs /\ imgs' = imgs /\ derived' = derived /\ OnlyTables
      /\ client' = client /\ releaseAu' = releaseAu
      /\ engines' = engines /\ decs' = decs /\ surfs' = surfs
  BY DEF DestroyConfig, OnlyTables, Platform
<1>3. /\ TableOf(configs', ConfigRecord, MaxConfigs, ids.config)
      /\ Range(configs') = {x \in Range(configs) : x.id # c}
  <2>1. TableOf(configs, ConfigRecord, MaxConfigs, ids.config) /\ MaxConfigs \in Nat /\ Has(configs, c)
    BY <1>1, <1>2, Bounds DEF Tables
  <2>2. /\ TableOf(Drop(configs, Place(configs, c)), ConfigRecord, MaxConfigs, ids.config)
        /\ Range(Drop(configs, Place(configs, c))) = {x \in Range(configs) : x.id # c}
    BY <2>1, DropTable
  <2> QED
    BY <1>2, <2>2
<1>4. Tables' /\ ObjectsApart' /\ Mappings' /\ Counted'
  BY <1>1, <1>2, <1>3 DEF Tables, ObjectsApart, Mappings, Counted
<1>5. Handles'
  <2> SUFFICES ASSUME NEW h \in held' PROVE Names(h)'
    BY DEF Handles
  <2>1. h \in held /\ (h.kind = "config" => h.id # c)
    BY <1>2 DEF Without
  <2>2. Names(h)
    BY <1>1, <2>1 DEF Handles
  <2> QED
    BY <1>2, <1>3, <2>1, <2>2 DEF Names
<1> QED
  BY <1>2, <1>4, <1>5, TableCall

(* A new buffer, image or derived image: the next id of the one counter.      *)
LEMMA ObjectNamed ==
    ASSUME FrontendInv, NEW kind, NEW what, NEW id, id = ids.buffer + 1, Named(kind, id, what),
           client' = client, releaseAu' = releaseAu
    PROVE  /\ ids.buffer \in Nat /\ id \in Nat /\ held' = held \cup {Handle(kind, id, what)}
           /\ ids'.buffer = id /\ ids'.config = ids.config /\ ids'.context = ids.context
           /\ ids'.surface = ids.surface /\ Counted'
           /\ TableOf(configs, ConfigRecord, MaxConfigs, ids'.config)
           /\ TableOf(bufs, BufferRecord, MaxBuffers, ids'.buffer)
           /\ TableOf(imgs, ImageRecord, MaxImages, ids'.buffer)
           /\ TableOf(derived, DerivedRecord, MaxDerived, ids'.buffer)
           /\ \A x \in Range(bufs) \cup Range(imgs) \cup Range(derived) : x.id # id
<1>1. Counted /\ Tables
  BY DEF FrontendInv
<1>2. /\ ids.buffer \in Nat /\ client.buffer \in Nat /\ ids.buffer + 1 <= client.buffer
      /\ ids' = [ids EXCEPT !.buffer = @ + 1] /\ held' = held \cup {Handle(kind, id, what)}
  BY <1>1, CounterFields DEF Named, MayName
<1>3. /\ ids' \in Counters /\ ids'.config = ids.config /\ ids'.context = ids.context
      /\ ids'.surface = ids.surface /\ ids'.buffer = id /\ ids'.fault = ids.fault
  <2>1. ids \in Counters
    BY <1>1 DEF Counted
  <2>2. ids' \in Counters
    BY <1>2, <2>1, CounterRises
  <2> QED
    BY <1>2, <2>1, <2>2, CounterRises
<1>4. Counted'
  BY <1>1, <1>2, <1>3 DEF Counted
<1>5. /\ TableOf(bufs, BufferRecord, MaxBuffers, ids.buffer)
      /\ TableOf(imgs, ImageRecord, MaxImages, ids.buffer)
      /\ TableOf(derived, DerivedRecord, MaxDerived, ids.buffer)
      /\ TableOf(configs, ConfigRecord, MaxConfigs, ids.config)
  BY <1>1 DEF Tables
<1>6. ids.buffer <= id /\ id \in Nat
  BY <1>2
<1>7. /\ TableOf(bufs, BufferRecord, MaxBuffers, id)
      /\ TableOf(imgs, ImageRecord, MaxImages, id)
      /\ TableOf(derived, DerivedRecord, MaxDerived, id)
  BY <1>2, <1>5, <1>6, TableGrows
<1>8. ASSUME NEW x \in Range(bufs) \cup Range(imgs) \cup Range(derived)
      PROVE  x.id # id
  <2>1. x.id \in 1..ids.buffer
    BY <1>5 DEF TableOf
  <2> QED
    BY <1>2, <2>1
<1> QED
  BY <1>2, <1>3, <1>4, <1>5, <1>6, <1>7, <1>8

LEMMA CreateBufferKeeps ==
    ASSUME FrontendInv, NEW type \in {"picture", "slice"}, CreateBuffer(type)
    PROVE  FrontendInv'
<1> DEFINE id == ids.buffer + 1
           x == [id |-> id, type |-> type]
<1>1. Tables /\ ObjectsApart /\ Mappings /\ Handles
  BY DEF FrontendInv
<1>2. /\ Len(bufs) < MaxBuffers /\ bufs' = Append(bufs, x) /\ Named("buffer", id, type)
      /\ configs' = configs /\ imgs' = imgs /\ derived' = derived /\ OnlyTables
      /\ client' = client /\ releaseAu' = releaseAu
      /\ engines' = engines /\ decs' = decs /\ surfs' = surfs
  BY DEF CreateBuffer, ObjectId, OnlyTables, Platform
<1>4. id = ids.buffer + 1
  OBVIOUS
<1> HIDE DEF id
<1>5. /\ ids.buffer \in Nat /\ id \in Nat /\ held' = held \cup {Handle("buffer", id, type)}
      /\ ids'.buffer = id /\ ids'.config = ids.config /\ ids'.context = ids.context
      /\ ids'.surface = ids.surface /\ Counted'
      /\ TableOf(configs, ConfigRecord, MaxConfigs, ids'.config)
      /\ TableOf(bufs, BufferRecord, MaxBuffers, ids'.buffer)
      /\ TableOf(imgs, ImageRecord, MaxImages, ids'.buffer)
      /\ TableOf(derived, DerivedRecord, MaxDerived, ids'.buffer)
      /\ \A y \in Range(bufs) \cup Range(imgs) \cup Range(derived) : y.id # id
  BY <1>2, <1>4, ObjectNamed
<1>6. x \in BufferRecord /\ x.id = id /\ x.type = type
  BY <1>5 DEF BufferRecord
<1> HIDE DEF x
<1>7. /\ TableOf(bufs', BufferRecord, MaxBuffers, id)
      /\ Range(bufs') = Range(bufs) \cup {x}
  <2>1. TableOf(bufs, BufferRecord, MaxBuffers, ids.buffer)
    BY <1>1 DEF Tables
  <2>2. /\ TableOf(Append(bufs, x), BufferRecord, MaxBuffers, x.id)
        /\ Range(Append(bufs, x)) = Range(bufs) \cup {x}
    <3>1. MayEnter(bufs, BufferRecord, MaxBuffers, ids.buffer, x)
      BY <1>2, <1>4, <1>5, <1>6, <2>1, Bounds DEF MayEnter
    <3> QED
      BY <3>1, AppendTable
  <2> QED
    BY <1>2, <1>6, <2>2
<1>8. Tables' /\ Mappings'
  BY <1>1, <1>2, <1>5, <1>7 DEF Tables, Mappings
<1>9. ObjectsApart'
  BY <1>1, <1>2, <1>5, <1>6, <1>7 DEF ObjectsApart
<1>10. Handles'
  <2> SUFFICES ASSUME NEW h \in held' PROVE Names(h)'
    BY DEF Handles
  <2>1. CASE h \in held
    <3>1. Names(h)
      BY <1>1, <2>1 DEF Handles
    <3> QED
      BY <1>2, <1>7, <3>1 DEF Names
  <2>2. CASE h = Handle("buffer", id, type)
    <3>1. h.kind = "buffer" /\ h.id = id /\ h.what = type /\ x \in Range(bufs')
      BY <1>7, <2>2 DEF Handle
    <3> QED
      BY <1>6, <3>1 DEF Names
  <2> QED
    BY <1>5, <2>1, <2>2
<1> QED
  BY <1>2, <1>5, <1>8, <1>9, <1>10, TableCall

LEMMA CreateImageKeeps ==
    ASSUME FrontendInv, CreateImage
    PROVE  FrontendInv'
<1> DEFINE id == ids.buffer + 1
           x == [id |-> id]
<1>1. Tables /\ ObjectsApart /\ Mappings /\ Handles
  BY DEF FrontendInv
<1>2. /\ Len(imgs) < MaxImages /\ imgs' = Append(imgs, x) /\ Named("image", id, "image")
      /\ configs' = configs /\ bufs' = bufs /\ derived' = derived /\ OnlyTables
      /\ client' = client /\ releaseAu' = releaseAu
      /\ engines' = engines /\ decs' = decs /\ surfs' = surfs
  BY DEF CreateImage, ObjectId, OnlyTables, Platform
<1>4. id = ids.buffer + 1
  OBVIOUS
<1> HIDE DEF id
<1>5. /\ ids.buffer \in Nat /\ id \in Nat /\ held' = held \cup {Handle("image", id, "image")}
      /\ ids'.buffer = id /\ ids'.config = ids.config /\ ids'.context = ids.context
      /\ ids'.surface = ids.surface /\ Counted'
      /\ TableOf(configs, ConfigRecord, MaxConfigs, ids'.config)
      /\ TableOf(bufs, BufferRecord, MaxBuffers, ids'.buffer)
      /\ TableOf(imgs, ImageRecord, MaxImages, ids'.buffer)
      /\ TableOf(derived, DerivedRecord, MaxDerived, ids'.buffer)
      /\ \A y \in Range(bufs) \cup Range(imgs) \cup Range(derived) : y.id # id
  BY <1>2, <1>4, ObjectNamed
<1>6. x \in ImageRecord /\ x.id = id
  BY <1>5 DEF ImageRecord
<1> HIDE DEF x
<1>7. /\ TableOf(imgs', ImageRecord, MaxImages, id)
      /\ Range(imgs') = Range(imgs) \cup {x}
  <2>1. TableOf(imgs, ImageRecord, MaxImages, ids.buffer)
    BY <1>1 DEF Tables
  <2>2. /\ TableOf(Append(imgs, x), ImageRecord, MaxImages, x.id)
        /\ Range(Append(imgs, x)) = Range(imgs) \cup {x}
    <3>1. MayEnter(imgs, ImageRecord, MaxImages, ids.buffer, x)
      BY <1>2, <1>4, <1>5, <1>6, <2>1, Bounds DEF MayEnter
    <3> QED
      BY <3>1, AppendTable
  <2> QED
    BY <1>2, <1>6, <2>2
<1>8. Tables' /\ Mappings'
  BY <1>1, <1>2, <1>5, <1>7 DEF Tables, Mappings
<1>9. ObjectsApart'
  BY <1>1, <1>2, <1>5, <1>6, <1>7 DEF ObjectsApart
<1>10. Handles'
  <2> SUFFICES ASSUME NEW h \in held' PROVE Names(h)'
    BY DEF Handles
  <2>1. CASE h \in held
    <3>1. Names(h)
      BY <1>1, <2>1 DEF Handles
    <3> QED
      BY <1>2, <1>7, <3>1 DEF Names
  <2>2. CASE h = Handle("image", id, "image")
    <3>1. h.kind = "image" /\ h.id = id /\ h.what = "image" /\ x \in Range(imgs')
      BY <1>7, <2>2 DEF Handle
    <3> QED
      BY <1>6, <3>1 DEF Names
  <2> QED
    BY <1>5, <2>1, <2>2
<1> QED
  BY <1>2, <1>5, <1>8, <1>9, <1>10, TableCall

LEMMA DeriveImageKeeps ==
    ASSUME FrontendInv, NEW s \in Nat, DeriveImage(s)
    PROVE  FrontendInv'
<1> DEFINE id == ids.buffer + 1
           x == [id |-> id, mem |-> s]
<1>1. Tables /\ ObjectsApart /\ Mappings /\ Handles /\ Surfaces
  BY DEF FrontendInv
<1>2. /\ Has(surfs, s) /\ Len(derived) < MaxDerived
      /\ derived' = Append(derived, x) /\ Named("derived", id, s)
      /\ configs' = configs /\ bufs' = bufs /\ imgs' = imgs /\ OnlyTables
      /\ client' = client /\ releaseAu' = releaseAu
      /\ engines' = engines /\ decs' = decs /\ surfs' = surfs
  BY DEF DeriveImage, ObjectId, OnlyTables, Platform
<1>4. id = ids.buffer + 1
  OBVIOUS
<1> HIDE DEF id
<1>5. /\ ids.buffer \in Nat /\ id \in Nat /\ held' = held \cup {Handle("derived", id, s)}
      /\ ids'.buffer = id /\ ids'.config = ids.config /\ ids'.context = ids.context
      /\ ids'.surface = ids.surface /\ Counted'
      /\ TableOf(configs, ConfigRecord, MaxConfigs, ids'.config)
      /\ TableOf(bufs, BufferRecord, MaxBuffers, ids'.buffer)
      /\ TableOf(imgs, ImageRecord, MaxImages, ids'.buffer)
      /\ TableOf(derived, DerivedRecord, MaxDerived, ids'.buffer)
      /\ \A y \in Range(bufs) \cup Range(imgs) \cup Range(derived) : y.id # id
  BY <1>2, <1>4, ObjectNamed
<1>6. x \in DerivedRecord /\ x.id = id /\ x.mem = s
  BY <1>5 DEF DerivedRecord
<1> HIDE DEF x
<1>7. /\ TableOf(derived', DerivedRecord, MaxDerived, id)
      /\ Range(derived') = Range(derived) \cup {x}
  <2>1. TableOf(derived, DerivedRecord, MaxDerived, ids.buffer)
    BY <1>1 DEF Tables
  <2>2. /\ TableOf(Append(derived, x), DerivedRecord, MaxDerived, x.id)
        /\ Range(Append(derived, x)) = Range(derived) \cup {x}
    <3>1. MayEnter(derived, DerivedRecord, MaxDerived, ids.buffer, x)
      BY <1>2, <1>4, <1>5, <1>6, <2>1, Bounds DEF MayEnter
    <3> QED
      BY <3>1, AppendTable
  <2> QED
    BY <1>2, <1>6, <2>2
<1>8. Tables'
  BY <1>1, <1>2, <1>5, <1>7 DEF Tables
<1>9. ObjectsApart'
  BY <1>1, <1>2, <1>5, <1>6, <1>7 DEF ObjectsApart
<1>10. Mappings'
  <2>1. \E y \in Range(surfs) : y.id = s
    BY <1>1, <1>2, HasMeans, TableParts DEF Surfaces
  <2> QED
    BY <1>1, <1>2, <1>6, <1>7, <2>1 DEF Mappings
<1>11. Handles'
  <2> SUFFICES ASSUME NEW h \in held' PROVE Names(h)'
    BY DEF Handles
  <2>1. CASE h \in held
    <3>1. Names(h)
      BY <1>1, <2>1 DEF Handles
    <3> QED
      BY <1>2, <1>7, <3>1 DEF Names
  <2>2. CASE h = Handle("derived", id, s)
    <3>1. h.kind = "derived" /\ h.id = id /\ h.what = s /\ x \in Range(derived')
      BY <1>7, <2>2 DEF Handle
    <3> QED
      BY <1>6, <3>1 DEF Names
  <2> QED
    BY <1>5, <2>1, <2>2
<1> QED
  BY <1>2, <1>5, <1>8, <1>9, <1>10, <1>11, TableCall

LEMMA DestroyBufferKeeps ==
    ASSUME FrontendInv, NEW b \in Nat, DestroyBuffer(b)
    PROVE  FrontendInv'
<1>1. Counted /\ Tables /\ ObjectsApart /\ Mappings /\ Handles
  BY DEF FrontendInv
<1>2. /\ Has(bufs, b) /\ bufs' = Drop(bufs, Place(bufs, b)) /\ held' = Without("buffer", b)
      /\ ids' = ids /\ configs' = configs /\ imgs' = imgs /\ derived' = derived /\ OnlyTables
      /\ client' = client /\ releaseAu' = releaseAu
      /\ engines' = engines /\ decs' = decs /\ surfs' = surfs
  BY DEF DestroyBuffer, OnlyTables, Platform
<1>3. /\ TableOf(bufs', BufferRecord, MaxBuffers, ids.buffer)
      /\ Range(bufs') = {x \in Range(bufs) : x.id # b}
  <2>1. TableOf(bufs, BufferRecord, MaxBuffers, ids.buffer) /\ MaxBuffers \in Nat /\ Has(bufs, b)
    BY <1>1, <1>2, Bounds DEF Tables
  <2>2. /\ TableOf(Drop(bufs, Place(bufs, b)), BufferRecord, MaxBuffers, ids.buffer)
        /\ Range(Drop(bufs, Place(bufs, b))) = {x \in Range(bufs) : x.id # b}
    BY <2>1, DropTable
  <2> QED
    BY <1>2, <2>2
<1>4. Tables' /\ ObjectsApart' /\ Mappings' /\ Counted'
  BY <1>1, <1>2, <1>3 DEF Tables, ObjectsApart, Mappings, Counted
<1>5. Handles'
  <2> SUFFICES ASSUME NEW h \in held' PROVE Names(h)'
    BY DEF Handles
  <2>1. h \in held /\ (h.kind = "buffer" => h.id # b)
    BY <1>2 DEF Without
  <2>2. Names(h)
    BY <1>1, <2>1 DEF Handles
  <2> QED
    BY <1>2, <1>3, <2>1, <2>2 DEF Names
<1> QED
  BY <1>2, <1>4, <1>5, TableCall

LEMMA DestroyImageKeeps ==
    ASSUME FrontendInv, NEW m \in Nat, DestroyImage(m)
    PROVE  FrontendInv'
<1>1. Counted /\ Tables /\ ObjectsApart /\ Mappings /\ Handles
  BY DEF FrontendInv
<1>2. /\ held' = {h \in held : ~(h.kind \in {"image", "derived"} /\ h.id = m)}
      /\ ids' = ids /\ configs' = configs /\ bufs' = bufs /\ OnlyTables
      /\ client' = client /\ releaseAu' = releaseAu
      /\ engines' = engines /\ decs' = decs /\ surfs' = surfs
  BY DEF DestroyImage, OnlyTables, Platform
<1>3. /\ TableOf(derived', DerivedRecord, MaxDerived, ids.buffer)
      /\ TableOf(imgs', ImageRecord, MaxImages, ids.buffer)
      /\ Range(derived') \subseteq Range(derived) /\ Range(imgs') \subseteq Range(imgs)
      /\ \A x \in Range(derived) : x.id # m => x \in Range(derived')
      /\ \A x \in Range(imgs) : x.id # m => x \in Range(imgs')
  <2>1. CASE Has(derived, m) /\ derived' = Drop(derived, Place(derived, m)) /\ imgs' = imgs
    <3>1. /\ TableOf(derived', DerivedRecord, MaxDerived, ids.buffer)
          /\ Range(derived') = {x \in Range(derived) : x.id # m}
      <4>1. TableOf(derived, DerivedRecord, MaxDerived, ids.buffer) /\ MaxDerived \in Nat /\ Has(derived, m)
        BY <1>1, <2>1, Bounds DEF Tables
      <4>2. /\ TableOf(Drop(derived, Place(derived, m)), DerivedRecord, MaxDerived, ids.buffer)
            /\ Range(Drop(derived, Place(derived, m))) = {x \in Range(derived) : x.id # m}
        BY <4>1, DropTable
      <4> QED
        BY <2>1, <4>2
    <3> QED
      BY <1>1, <2>1, <3>1 DEF Tables
  <2>2. CASE Has(imgs, m) /\ imgs' = Drop(imgs, Place(imgs, m)) /\ derived' = derived
    <3>1. /\ TableOf(imgs', ImageRecord, MaxImages, ids.buffer)
          /\ Range(imgs') = {x \in Range(imgs) : x.id # m}
      <4>1. TableOf(imgs, ImageRecord, MaxImages, ids.buffer) /\ MaxImages \in Nat /\ Has(imgs, m)
        BY <1>1, <2>2, Bounds DEF Tables
      <4>2. /\ TableOf(Drop(imgs, Place(imgs, m)), ImageRecord, MaxImages, ids.buffer)
            /\ Range(Drop(imgs, Place(imgs, m))) = {x \in Range(imgs) : x.id # m}
        BY <4>1, DropTable
      <4> QED
        BY <2>2, <4>2
    <3> QED
      BY <1>1, <2>2, <3>1 DEF Tables
  <2> QED
    BY <2>1, <2>2 DEF DestroyImage
<1>4. Tables' /\ ObjectsApart' /\ Mappings' /\ Counted'
  BY <1>1, <1>2, <1>3 DEF Tables, ObjectsApart, Mappings, Counted
<1>5. Handles'
  <2> SUFFICES ASSUME NEW h \in held' PROVE Names(h)'
    BY DEF Handles
  <2>1. h \in held /\ (h.kind \in {"image", "derived"} => h.id # m)
    BY <1>2
  <2>2. Names(h)
    BY <1>1, <2>1 DEF Handles
  <2> QED
    BY <1>2, <1>3, <2>1, <2>2 DEF Names
<1> QED
  BY <1>2, <1>4, <1>5, TableCall

-----------------------------------------------------------------------------
(* Rewrites of the registry                                                   *)

(* The same surfaces in the same places.                                      *)
Kin(q, r) ==
    /\ q \in Seq(SurfaceRecord) /\ Len(q) = Len(r)
    /\ \A i \in DOMAIN r : q[i].id = r[i].id

SameOwners(q, r) == Kin(q, r) /\ \A i \in DOMAIN r : q[i].owner = r[i].owner

LEMMA KinTable ==
    ASSUME NEW r, NEW q, NEW bound, NEW last, TableOf(r, SurfaceRecord, bound, last), Kin(q, r)
    PROVE  /\ TableOf(q, SurfaceRecord, bound, last)
           /\ \A s : Has(q, s) <=> Has(r, s)
           /\ \A s : (\E x \in Range(q) : x.id = s) <=> (\E x \in Range(r) : x.id = s)
<1>1. /\ r \in Seq(SurfaceRecord) /\ q \in Seq(SurfaceRecord) /\ Len(q) = Len(r)
      /\ DOMAIN r = 1..Len(r) /\ DOMAIN q = 1..Len(q) /\ Len(r) <= bound /\ IdsApart(r)
      /\ \A i \in DOMAIN r : q[i].id = r[i].id /\ r[i] \in Range(r)
  BY TableParts DEF Kin
<1>2. \A x \in Range(q) : x.id \in 1..last
  BY <1>1 DEF TableOf, Range
<1>3. IdsApart(q)
  BY <1>1 DEF IdsApart
<1>4. \A s : (\E x \in Range(q) : x.id = s) <=> (\E x \in Range(r) : x.id = s)
  BY <1>1 DEF Range
<1>5. \A s : Has(q, s) <=> Has(r, s)
  BY <1>1 DEF Has
<1> QED
  BY <1>1, <1>2, <1>3, <1>4, <1>5 DEF TableOf

LEMMA SameOwnersMeans ==
    ASSUME NEW r, NEW q, r \in Seq(SurfaceRecord), SameOwners(q, r)
    PROVE  /\ Kin(q, r)
           /\ \A d, s : Owns(q, d, s) <=> Owns(r, d, s)
           /\ \A x \in Range(q) : \E y \in Range(r) : y.id = x.id /\ y.owner = x.owner
<1>1. /\ q \in Seq(SurfaceRecord) /\ DOMAIN q = DOMAIN r
      /\ \A i \in DOMAIN r : q[i].id = r[i].id /\ q[i].owner = r[i].owner
  BY DEF SameOwners, Kin
<1> QED
  BY <1>1 DEF SameOwners, Owns, Range

(* A rewrite place by place.                                                  *)
LEMMA KinByPlace ==
    ASSUME NEW r \in Seq(SurfaceRecord), NEW q, q = [i \in DOMAIN r |-> q[i]],
           \A i \in DOMAIN r : q[i] \in SurfaceRecord /\ q[i].id = r[i].id
    PROVE  Kin(q, r) /\ q \in Seq(SurfaceRecord) /\ DOMAIN q = DOMAIN r
<1>1. DOMAIN r = 1..Len(r) /\ Len(r) \in Nat
  OBVIOUS
<1>2. q \in [1..Len(r) -> SurfaceRecord]
  BY <1>1
<1>3. q \in Seq(SurfaceRecord) /\ Len(q) = Len(r)
  BY <1>1, <1>2
<1> QED
  BY <1>1, <1>3 DEF Kin

LEMMA LandedKin ==
    ASSUME NEW r \in Seq(SurfaceRecord), NEW d
    PROVE  SameOwners(AllLanded(r, d), r)
<1> DEFINE q == AllLanded(r, d)
<1>1. \A i \in DOMAIN r : /\ q[i] \in SurfaceRecord /\ q[i].id = r[i].id
                          /\ q[i].owner = r[i].owner
  <2> SUFFICES ASSUME NEW i \in DOMAIN r
               PROVE  q[i] \in SurfaceRecord /\ q[i].id = r[i].id /\ q[i].owner = r[i].owner
    OBVIOUS
  <2> DEFINE x == r[i]
             y == [x EXCEPT !.st = "decoded", !.fresh = TRUE]
  <2>1. x \in SurfaceRecord
    OBVIOUS
  <2>2. q[i] = IF x.owner = d /\ x.st = "queued" THEN y ELSE x
    BY DEF AllLanded
  <2> HIDE DEF q, x
  <2>3. y \in SurfaceRecord /\ y.id = x.id /\ y.owner = x.owner
    BY <2>1 DEF SurfaceRecord
  <2> HIDE DEF y
  <2> QED
    BY <2>1, <2>2, <2>3 DEF x
<1>2. q = [i \in DOMAIN r |-> q[i]]
  BY DEF AllLanded
<1> HIDE DEF q
<1> QED
  BY <1>1, <1>2, KinByPlace DEF SameOwners, q

LEMMA PendingKin ==
    ASSUME NEW r \in Seq(SurfaceRecord), NEW s
    PROVE  SameOwners(Pending(r, s), r)
<1> DEFINE q == Pending(r, s)
<1>1. \A i \in DOMAIN r : /\ q[i] \in SurfaceRecord /\ q[i].id = r[i].id
                          /\ q[i].owner = r[i].owner
  <2> SUFFICES ASSUME NEW i \in DOMAIN r
               PROVE  q[i] \in SurfaceRecord /\ q[i].id = r[i].id /\ q[i].owner = r[i].owner
    OBVIOUS
  <2> DEFINE x == r[i]
             y == [x EXCEPT !.st = "idle"]
  <2>1. x \in SurfaceRecord
    OBVIOUS
  <2>2. q[i] = IF x.id = s THEN y ELSE x
    BY DEF Pending
  <2> HIDE DEF q, x
  <2>3. y \in SurfaceRecord /\ y.id = x.id /\ y.owner = x.owner
    BY <2>1 DEF SurfaceRecord
  <2> HIDE DEF y
  <2> QED
    BY <2>1, <2>2, <2>3 DEF x
<1>2. q = [i \in DOMAIN r |-> q[i]]
  BY DEF Pending
<1> HIDE DEF q
<1> QED
  BY <1>1, <1>2, KinByPlace DEF SameOwners, q

LEMMA RestartedKin ==
    ASSUME NEW r \in Seq(SurfaceRecord), NEW d
    PROVE  SameOwners(Restarted(r, d), r)
<1> DEFINE p == IF decs[d].eos THEN r ELSE AllLanded(r, d)
           q == Restarted(r, d)
<1>1. SameOwners(p, r) /\ p \in Seq(SurfaceRecord) /\ DOMAIN p = DOMAIN r
  <2>1. SameOwners(r, r)
    BY DEF SameOwners, Kin
  <2>2. SameOwners(p, r)
    BY <2>1, LandedKin
  <2> HIDE DEF p
  <2> QED
    BY <2>2 DEF SameOwners, Kin
<1> DEFINE st(i) == IF p[i].owner = d /\ p[i].st = "queued" THEN "idle" ELSE p[i].st
           fresh(i) == p[i].fresh /\ IsVp9(d)
<1>2. q = [i \in DOMAIN p |-> [p[i] EXCEPT !.st = st(i), !.fresh = fresh(i)]]
  BY DEF Restarted
<1>3. \A i \in DOMAIN r : p[i] \in SurfaceRecord /\ p[i].id = r[i].id /\ p[i].owner = r[i].owner
  BY <1>1 DEF SameOwners, Kin
<1> HIDE DEF p
<1>4. \A i \in DOMAIN r : st(i) \in {"idle", "queued", "decoded"}
  BY <1>3 DEF SurfaceRecord
<1>5. \A i : fresh(i) \in BOOLEAN
  BY Zenon
<1> HIDE DEF q, st, fresh
<1>6. \A i \in DOMAIN r : /\ q[i] \in SurfaceRecord /\ q[i].id = r[i].id
                          /\ q[i].owner = r[i].owner
  <2> SUFFICES ASSUME NEW i \in DOMAIN r
               PROVE  q[i] \in SurfaceRecord /\ q[i].id = r[i].id /\ q[i].owner = r[i].owner
    OBVIOUS
  <2> DEFINE x == p[i]
             y == [x EXCEPT !.st = st(i), !.fresh = fresh(i)]
  <2>1. /\ x \in SurfaceRecord /\ x.id = r[i].id /\ x.owner = r[i].owner
        /\ st(i) \in {"idle", "queued", "decoded"} /\ fresh(i) \in BOOLEAN
    BY <1>3, <1>4, <1>5
  <2>2. q[i] = y
    BY <1>1, <1>2
  <2> HIDE DEF x
  <2>3. y \in SurfaceRecord /\ y.id = x.id /\ y.owner = x.owner
    BY <2>1 DEF SurfaceRecord
  <2> HIDE DEF y
  <2> QED
    BY <2>1, <2>2, <2>3
<1>7. q = [i \in DOMAIN r |-> q[i]]
  BY <1>1, <1>2
<1> QED
  BY <1>6, <1>7, KinByPlace DEF SameOwners, q

LEMMA QueuedKin ==
    ASSUME NEW r \in Seq(SurfaceRecord), NEW d \in Nat, NEW s
    PROVE  /\ Kin(Queued(r, d, s), r)
           /\ \A x \in Range(Queued(r, d, s)) :
                 \E y \in Range(r) : y.id = x.id /\ (x.owner = y.owner \/ x.owner = d)
           /\ \A o, z : Owns(r, o, z) /\ z # s => Owns(Queued(r, d, s), o, z)
           /\ \A x \in Range(Queued(r, d, s)) : x.id = s => x.owner = d
           /\ (\E x \in Range(r) : x.id = s) => Owns(Queued(r, d, s), d, s)
<1> DEFINE q == Queued(r, d, s)
<1>1. \A i \in DOMAIN r : /\ q[i] \in SurfaceRecord /\ q[i].id = r[i].id
                          /\ q[i].owner = (IF r[i].id = s THEN d ELSE r[i].owner)
  <2> SUFFICES ASSUME NEW i \in DOMAIN r
               PROVE  q[i] \in SurfaceRecord /\ q[i].id = r[i].id /\ q[i].owner = (IF r[i].id = s THEN d ELSE r[i].owner)
    OBVIOUS
  <2> DEFINE x == r[i]
             y == [x EXCEPT !.st = "queued", !.owner = d]
  <2>1. x \in SurfaceRecord
    OBVIOUS
  <2>2. q[i] = IF x.id = s THEN y ELSE x
    BY DEF Queued
  <2> HIDE DEF q, x
  <2>3. y \in SurfaceRecord /\ y.id = x.id /\ y.owner = d
    BY <2>1 DEF SurfaceRecord
  <2> HIDE DEF y
  <2> QED
    BY <2>1, <2>2, <2>3 DEF x
<1>2. q = [i \in DOMAIN r |-> q[i]]
  BY DEF Queued
<1> HIDE DEF q
<1>3. Kin(q, r) /\ DOMAIN q = DOMAIN r
  BY <1>1, <1>2, KinByPlace
<1>4. /\ \A x \in Range(q) : \E y \in Range(r) : y.id = x.id /\ (x.owner = y.owner \/ x.owner = d)
      /\ \A x \in Range(q) : x.id = s => x.owner = d
  BY <1>1, <1>3 DEF Range
<1>5. ASSUME NEW o, NEW z, Owns(r, o, z), z # s PROVE Owns(q, o, z)
  <2>1. PICK i \in DOMAIN r : r[i].id = z /\ r[i].owner = o
    BY <1>5 DEF Owns, Range
  <2>2. q[i] \in Range(q) /\ q[i].id = z /\ q[i].owner = o
    BY <1>1, <1>3, <1>5, <2>1 DEF Range
  <2> QED
    BY <2>2 DEF Owns
<1>6. ASSUME NEW x \in Range(r), x.id = s PROVE Owns(q, d, s)
  <2>1. PICK i \in DOMAIN r : r[i] = x
    BY DEF Range
  <2>2. q[i] \in Range(q) /\ q[i].id = s /\ q[i].owner = d
    BY <1>1, <1>3, <1>6, <2>1 DEF Range
  <2> QED
    BY <2>2 DEF Owns
<1> QED
  BY <1>3, <1>4, <1>5, <1>6 DEF q

LEMMA DestroyedKin ==
    ASSUME NEW r \in Seq(SurfaceRecord), NEW D
    PROVE  /\ Kin(Destroyed(r, D), r)
           /\ \A x \in Range(Destroyed(r, D)) :
                 \E y \in Range(r) : /\ y.id = x.id
                                     /\ IF y.owner \in D THEN x.owner = None ELSE x.owner = y.owner
           /\ \A o, z : Owns(r, o, z) /\ o \notin D => Owns(Destroyed(r, D), o, z)
<1> DEFINE q == Destroyed(r, D)
<1>1. ASSUME NEW i \in DOMAIN r
      PROVE  /\ q[i] \in SurfaceRecord /\ q[i].id = r[i].id
             /\ q[i].owner = (IF r[i].owner \in D THEN None ELSE r[i].owner)
  <2> DEFINE drained == r[i].owner \in D /\ r[i].st = "queued"
                        /\ decs[r[i].owner].started /\ ~decs[r[i].owner].eos
                        /\ ~decs[r[i].owner].fatal
             st == IF drained THEN "decoded" ELSE r[i].st
             owner == IF r[i].owner \in D THEN None ELSE r[i].owner
             fresh == (r[i].fresh \/ drained) /\ \A d \in D : IsVp9(d)
  <2>1. q[i] = [r[i] EXCEPT !.st = st, !.owner = owner, !.fresh = fresh]
    BY DEF Destroyed
  <2>2. /\ r[i] \in SurfaceRecord /\ st \in {"idle", "queued", "decoded"}
        /\ owner \in Nat /\ fresh \in BOOLEAN
    <3>1. r[i] \in SurfaceRecord
      OBVIOUS
    <3>2. st \in {"idle", "queued", "decoded"} /\ owner \in Nat
      BY <3>1 DEF SurfaceRecord, None
    <3>3. fresh \in BOOLEAN
      BY Zenon
    <3> QED
      BY <3>1, <3>2, <3>3
  <2> HIDE DEF st, owner, fresh
  <2>3. /\ q[i] \in SurfaceRecord /\ q[i].id = r[i].id /\ q[i].owner = owner
    <3> HIDE DEF q
    <3> QED
      BY <2>1, <2>2 DEF SurfaceRecord
  <2> QED
    BY <2>3 DEF owner
<1>2. q = [i \in DOMAIN r |-> q[i]]
  BY DEF Destroyed
<1> HIDE DEF q
<1>3. Kin(q, r) /\ DOMAIN q = DOMAIN r
  BY <1>1, <1>2, KinByPlace
<1>4. \A x \in Range(q) :
         \E y \in Range(r) : /\ y.id = x.id
                             /\ IF y.owner \in D THEN x.owner = None ELSE x.owner = y.owner
  BY <1>1, <1>3 DEF Range
<1>5. ASSUME NEW o, NEW z, Owns(r, o, z), o \notin D PROVE Owns(q, o, z)
  <2>1. PICK i \in DOMAIN r : r[i].id = z /\ r[i].owner = o
    BY <1>5 DEF Owns, Range
  <2>2. q[i] \in Range(q) /\ q[i].id = z /\ q[i].owner = o
    BY <1>1, <1>3, <1>5, <2>1 DEF Range
  <2> QED
    BY <2>2 DEF Owns
<1> QED
  BY <1>3, <1>4, <1>5 DEF q

(* One surface's record changes, and not its owner.                           *)
LEMMA OneKin ==
    ASSUME NEW r \in Seq(SurfaceRecord), NEW i \in DOMAIN r, NEW x \in SurfaceRecord,
           x.id = r[i].id, x.owner = r[i].owner
    PROVE  SameOwners([r EXCEPT ![i] = x], r)
<1> DEFINE q == [r EXCEPT ![i] = x]
<1>1. \A j \in DOMAIN r : /\ q[j] \in SurfaceRecord /\ q[j].id = r[j].id
                          /\ q[j].owner = r[j].owner
  OBVIOUS
<1>2. q = [j \in DOMAIN r |-> q[j]]
  OBVIOUS
<1> HIDE DEF q
<1> QED
  BY <1>1, <1>2, KinByPlace DEF SameOwners, q

-----------------------------------------------------------------------------
(* A call on sessions: VA contexts stay where they are                        *)

SameEngines(q, r) ==
    /\ q \in Seq(EngineRecord) /\ Len(q) = Len(r)
    /\ \A i \in DOMAIN r : /\ q[i].id = r[i].id /\ q[i].dec = r[i].dec
                           /\ q[i].target <= ids.surface

SameDecs(q, r) ==
    /\ q \in Seq(DecRecord) /\ Len(q) = Len(r)
    /\ \A d \in DOMAIN r :
          /\ q[d].profile = r[d].profile /\ q[d].size = r[d].size
          /\ IF d \in Active \cup Retired THEN DecWhole(q[d]) ELSE q[d] = Gone
          /\ q[d].cur <= ids.surface /\ q[d].last <= ids.surface

(* Session d is rewritten, the others stay.                                   *)
Rewrites(q, d, y) ==
    /\ q = [decs EXCEPT ![d] = y] /\ y \in DecRecord /\ DecWhole(y)
    /\ y.profile = decs[d].profile /\ y.size = decs[d].size
    /\ y.cur <= ids.surface /\ y.last <= ids.surface

LEMMA EnginesFacts ==
    ASSUME FrontendInv
    PROVE  /\ engines \in Seq(EngineRecord) /\ IdsApart(engines)
           /\ SameEngines(engines, engines) /\ SameDecs(decs, decs)
           /\ \A i \in DOMAIN engines : /\ engines[i] \in EngineRecord
                                        /\ engines[i] \in Range(engines)
                                        /\ engines[i].dec \in DOMAIN decs
                                        /\ engines[i].dec \in Active
                                        /\ engines[i].dec \in Nat
                                        /\ engines[i].dec # None
                                        /\ DecWhole(decs[engines[i].dec])
<1>1. Engines /\ Placed /\ DecsSound /\ Counted
  BY DEF FrontendInv
<1>2. /\ engines \in Seq(EngineRecord) /\ IdsApart(engines)
      /\ \A i \in DOMAIN engines : engines[i] \in Range(engines)
      /\ \A x \in Range(engines) : x \in EngineRecord
  BY <1>1, TableParts DEF Engines
<1>3. \A i \in DOMAIN engines : engines[i].dec \in Active
  BY DEF Active
<1>4. Active \subseteq DOMAIN decs /\ DOMAIN decs = 1..Len(decs) /\ Len(decs) \in Nat
      /\ \A e \in Range(engines) : e.target <= ids.surface
  BY <1>1 DEF Placed, DecsSound
<1>5. \A d \in Active : DecWhole(decs[d])
  BY <1>1, <1>4 DEF DecsSound
<1>6. SameEngines(engines, engines)
  BY <1>2, <1>4 DEF SameEngines
<1>7. SameDecs(decs, decs)
  BY <1>1 DEF DecsSound, SameDecs
<1>8. \A d \in DOMAIN decs : d \in Nat /\ d # None
  BY <1>4 DEF None
<1> QED
  BY <1>2, <1>3, <1>4, <1>5, <1>6, <1>7, <1>8

(* The VA context a client names.                                             *)
LEMMA EngineNamed ==
    ASSUME FrontendInv, NEW c, Has(engines, c)
    PROVE  /\ Place(engines, c) \in DOMAIN engines
           /\ engines[Place(engines, c)] = Entry(engines, c)
           /\ engines[Place(engines, c)].id = c
<1>1. engines \in Seq(EngineRecord) /\ IdsApart(engines)
  BY EnginesFacts
<1> QED
  BY <1>1, Found

LEMMA OneEngine ==
    ASSUME FrontendInv, NEW i \in DOMAIN engines, NEW e \in EngineRecord,
           e.id = engines[i].id, e.dec = engines[i].dec, e.target <= ids.surface
    PROVE  SameEngines([engines EXCEPT ![i] = e], engines)
<1> DEFINE q == [engines EXCEPT ![i] = e]
<1>1. engines \in Seq(EngineRecord) /\ SameEngines(engines, engines)
  BY EnginesFacts
<1>2. q \in Seq(EngineRecord) /\ Len(q) = Len(engines) /\ DOMAIN q = DOMAIN engines
      /\ \A j \in DOMAIN engines : q[j] = IF j = i THEN e ELSE engines[j]
  BY <1>1
<1> HIDE DEF q
<1>3. SameEngines(q, engines)
  BY <1>1, <1>2 DEF SameEngines
<1> QED
  BY <1>3 DEF q

LEMMA OneDec ==
    ASSUME FrontendInv, NEW q, NEW d \in Active \cup Retired, NEW y, Rewrites(q, d, y)
    PROVE  /\ SameDecs(q, decs) /\ q[d] = y /\ d \in DOMAIN decs /\ DOMAIN q = DOMAIN decs
           /\ \A o \in DOMAIN decs : o # d => q[o] = decs[o]
<1>1. SameDecs(decs, decs) /\ decs \in Seq(DecRecord) /\ d \in DOMAIN decs
  BY EnginesFacts DEF FrontendInv, DecsSound, Placed
<1>2. q \in Seq(DecRecord) /\ Len(q) = Len(decs) /\ DOMAIN q = DOMAIN decs
      /\ \A o \in DOMAIN decs : q[o] = IF o = d THEN y ELSE decs[o]
  BY <1>1 DEF Rewrites
<1>3. /\ y.profile = decs[d].profile /\ y.size = decs[d].size
      /\ DecWhole(y) /\ y.cur <= ids.surface /\ y.last <= ids.surface
  BY DEF Rewrites
<1>4. SameDecs(q, decs)
  BY <1>1, <1>2, <1>3 DEF SameDecs
<1> QED
  BY <1>1, <1>2, <1>4

LEMMA RefsRewritten ==
    ASSUME refs \in Seq(SUBSET Nat), NEW q, q = [o \in DOMAIN refs |-> q[o]],
           \A o \in DOMAIN refs : q[o] \subseteq Nat
    PROVE  q \in Seq(SUBSET Nat) /\ Len(q) = Len(refs) /\ DOMAIN q = DOMAIN refs
<1>1. DOMAIN refs = 1..Len(refs) /\ Len(refs) \in Nat
  OBVIOUS
<1>2. q \in [1..Len(refs) -> SUBSET Nat]
  BY <1>1
<1> QED
  BY <1>1, <1>2

(* Every call on sessions but the one that takes a waiting session over.      *)
SessionCall ==
    /\ OnlySessions /\ (Sound \/ Fails) /\ retired' = retired
    /\ SameEngines(engines', engines) /\ SameDecs(decs', decs)
    /\ Kin(surfs', surfs)
    /\ refs' \in Seq(SUBSET Nat) /\ Len(refs') = Len(refs)

LEMMA Steady ==
    ASSUME FrontendInv, Sound \/ Fails, client' = client, releaseAu' = releaseAu
    PROVE  /\ Counted' /\ ids'.config = ids.config /\ ids'.context = ids.context
           /\ ids'.surface = ids.surface /\ ids'.buffer = ids.buffer
           /\ (Fails => ids'.fault > ids.fault)
<1>1. Counted /\ ids \in Counters
  BY DEF FrontendInv, Counted
<1>2. ids.fault \in Nat /\ client.fault \in Nat
  BY <1>1, CounterFields
<1>3. CASE Sound
  <2>1. ids' = ids
    BY <1>3 DEF Sound
  <2>2. ~Fails
    <3> SUFFICES ASSUME Fails PROVE FALSE
      OBVIOUS
    <3>1. ids' = [ids EXCEPT !.fault = @ + 1]
      BY DEF Fails
    <3>2. ids' \in Counters /\ ids'.fault = ids.fault + 1
      BY <1>1, <3>1, CounterRises
    <3> QED
      BY <1>2, <2>1, <3>2
  <2> QED
    BY <1>1, <2>1, <2>2 DEF Counted
<1>4. CASE Fails
  <2>1. ids' = [ids EXCEPT !.fault = @ + 1] /\ ids.fault + 1 <= client.fault
    BY <1>4 DEF Fails, MayName
  <2>2. /\ ids' \in Counters /\ ids'.config = ids.config /\ ids'.context = ids.context
        /\ ids'.surface = ids.surface /\ ids'.buffer = ids.buffer /\ ids'.fault = ids.fault + 1
    BY <1>1, <2>1, CounterRises
  <2> QED
    BY <1>1, <1>2, <2>1, <2>2 DEF Counted
<1> QED
  BY <1>3, <1>4

LEMMA SessionSets ==
    ASSUME FrontendInv, SessionCall
    PROVE  /\ Active' = Active /\ Retired' = Retired
           /\ DOMAIN engines' = DOMAIN engines /\ DOMAIN decs' = DOMAIN decs
           /\ \A d \in DOMAIN decs : decs'[d].profile = decs[d].profile
           /\ \A d \in DOMAIN decs : IsVp9(d)' = IsVp9(d)
<1>1. SameEngines(engines', engines) /\ SameDecs(decs', decs) /\ retired' = retired
  BY DEF SessionCall
<1>2. engines \in Seq(EngineRecord) /\ decs \in Seq(DecRecord)
  BY EnginesFacts DEF FrontendInv, DecsSound
<1>3. DOMAIN engines' = DOMAIN engines /\ \A i \in DOMAIN engines : engines'[i].dec = engines[i].dec
  BY <1>1, <1>2 DEF SameEngines
<1>4. DOMAIN decs' = DOMAIN decs /\ \A d \in DOMAIN decs : decs'[d].profile = decs[d].profile
  BY <1>1, <1>2 DEF SameDecs
<1>5. Active' = Active /\ Retired' = Retired
  BY <1>1, <1>3 DEF Active, Retired
<1>6. \A d \in DOMAIN decs : IsVp9(d)' = IsVp9(d)
  BY <1>4 DEF IsVp9
<1> QED
  BY <1>3, <1>4, <1>5, <1>6

LEMMA SessionKeeps ==
    ASSUME FrontendInv, SessionCall, Owners', RefsOwned', PicturesPlaced'
    PROVE  FrontendInv'
<1>1. /\ Tables /\ ObjectsApart /\ Surfaces /\ Engines /\ Mappings /\ Handles
      /\ Counted /\ DecsSound /\ Placed
  BY DEF FrontendInv
<1>2. /\ configs' = configs /\ bufs' = bufs /\ imgs' = imgs /\ derived' = derived
      /\ held' = held /\ client' = client /\ releaseAu' = releaseAu /\ retired' = retired
      /\ (Sound \/ Fails)
  BY DEF SessionCall, OnlySessions, tables, Platform
<1>3. /\ Counted' /\ ids'.config = ids.config /\ ids'.context = ids.context
      /\ ids'.surface = ids.surface /\ ids'.buffer = ids.buffer
  BY <1>2, Steady
<1>4. /\ Active' = Active /\ Retired' = Retired
      /\ DOMAIN engines' = DOMAIN engines /\ DOMAIN decs' = DOMAIN decs
      /\ \A d \in DOMAIN decs : decs'[d].profile = decs[d].profile
      /\ \A d \in DOMAIN decs : IsVp9(d)' = IsVp9(d)
  BY SessionSets
<1>5. Tables' /\ ObjectsApart'
  BY <1>1, <1>2, <1>3 DEF Tables, ObjectsApart
<1>6. Surfaces' /\ Mappings'
  <2>1. TableOf(surfs, SurfaceRecord, MaxSurfaces, ids.surface) /\ Kin(surfs', surfs)
    BY <1>1 DEF Surfaces, SessionCall
  <2>2. /\ TableOf(surfs', SurfaceRecord, MaxSurfaces, ids.surface)
        /\ \A s : (\E x \in Range(surfs') : x.id = s) <=> (\E x \in Range(surfs) : x.id = s)
    BY <2>1, KinTable
  <2>3. Surfaces'
    BY <1>3, <2>2 DEF Surfaces
  <2>4. Mappings'
    BY <1>1, <1>2, <2>2 DEF Mappings
  <2> QED
    BY <2>3, <2>4
<1>7. /\ engines' \in Seq(EngineRecord) /\ Len(engines') = Len(engines)
      /\ \A i \in DOMAIN engines : /\ engines'[i].id = engines[i].id
                                   /\ engines'[i].dec = engines[i].dec
                                   /\ engines'[i].target <= ids.surface
  BY DEF SessionCall, SameEngines
<1>8. /\ engines \in Seq(EngineRecord) /\ Len(engines) <= MaxEngines /\ IdsApart(engines)
      /\ \A x \in Range(engines) : x.id \in 1..ids.context
  BY <1>1 DEF Engines, TableOf
<1>9. Engines'
  <2>1. IdsApart(engines')
    BY <1>4, <1>7, <1>8 DEF IdsApart
  <2>2. \A x \in Range(engines') : x.id \in 1..ids.context
    BY <1>4, <1>7, <1>8 DEF Range
  <2> QED
    BY <1>3, <1>7, <1>8, <2>1, <2>2 DEF Engines, TableOf
<1>10. Handles'
  <2> SUFFICES ASSUME NEW h \in held PROVE Names(h)'
    BY <1>2 DEF Handles
  <2>1. Names(h)
    BY <1>1 DEF Handles
  <2>2. \A s : (\E x \in Range(surfs') : x.id = s) <=> (\E x \in Range(surfs) : x.id = s)
    <3>1. TableOf(surfs, SurfaceRecord, MaxSurfaces, ids.surface) /\ Kin(surfs', surfs)
      BY <1>1 DEF Surfaces, SessionCall
    <3> QED
      BY <3>1, KinTable
  <2>3. \A x \in Range(engines) : \E y \in Range(engines') :
           y.id = x.id /\ decs'[y.dec].profile = decs[x.dec].profile
    <3> SUFFICES ASSUME NEW i \in DOMAIN engines
                 PROVE  \E y \in Range(engines') :
                           y.id = engines[i].id /\ decs'[y.dec].profile = decs[engines[i].dec].profile
      BY DEF Range
    <3>1. engines'[i] \in Range(engines')
      BY <1>4 DEF Range
    <3>2. engines[i].dec \in DOMAIN decs
      BY EnginesFacts
    <3> QED
      BY <1>4, <1>7, <3>1, <3>2
  <2>4. h.kind = "context" =>
           \E x \in Range(engines') : x.id = h.id /\ decs'[x.dec].profile = h.what
    BY <2>1, <2>3 DEF Names
  <2> QED
    BY <1>2, <2>1, <2>2, <2>4 DEF Names
<1>11. DecsSound'
  <2>1. /\ decs' \in Seq(DecRecord) /\ Len(decs') = Len(decs)
        /\ refs' \in Seq(SUBSET Nat) /\ Len(refs') = Len(refs)
        /\ \A d \in DOMAIN decs :
             /\ IF d \in Active \cup Retired THEN DecWhole(decs'[d]) ELSE decs'[d] = Gone
             /\ decs'[d].cur <= ids.surface /\ decs'[d].last <= ids.surface
    BY DEF SessionCall, SameDecs
  <2>2. Len(refs) = Len(decs)
    BY <1>1 DEF DecsSound
  <2> QED
    BY <1>3, <1>4, <2>1, <2>2 DEF DecsSound
<1>12. Placed'
  <2>1. \A e, f \in Range(engines') : e.dec = f.dec => e = f
    <3> SUFFICES ASSUME NEW i \in DOMAIN engines, NEW j \in DOMAIN engines,
                        engines'[i].dec = engines'[j].dec
                 PROVE  i = j
      BY <1>4 DEF Range
    <3>1. engines[i] \in Range(engines) /\ engines[j] \in Range(engines)
          /\ engines[i].dec = engines[j].dec
      BY <1>7 DEF Range
    <3>2. engines[i] = engines[j]
      BY <1>1, <3>1 DEF Placed
    <3> QED
      BY <1>8, <3>2 DEF IdsApart
  <2>2. \A e \in Range(engines') : e.target <= ids.surface
    BY <1>4, <1>7 DEF Range
  <2>3. \A d \in Retired : d \in DOMAIN decs
    BY <1>1 DEF Placed
  <2> QED
    BY <1>1, <1>2, <1>3, <1>4, <2>1, <2>2, <2>3 DEF Placed
<1> QED
  BY <1>3, <1>5, <1>6, <1>9, <1>10, <1>11, <1>12 DEF FrontendInv

(* The registry keeps its owners.                                             *)
LEMMA OwnersKept ==
    ASSUME FrontendInv, SessionCall, SameOwners(surfs', surfs)
    PROVE  Owners' /\ \A d, s : Owns(surfs', d, s) <=> Owns(surfs, d, s)
<1>1. surfs \in Seq(SurfaceRecord)
  BY DEF FrontendInv, Surfaces, TableOf
<1>2. /\ \A d, s : Owns(surfs', d, s) <=> Owns(surfs, d, s)
      /\ \A x \in Range(surfs') : \E y \in Range(surfs) : y.id = x.id /\ y.owner = x.owner
  BY <1>1, SameOwnersMeans
<1>3. Owners'
  BY <1>2, SessionSets DEF FrontendInv, Owners
<1> QED
  BY <1>2, <1>3

(* What becomes of the references when a session is at its end or failed, or  *)
(* loses some of them.                                                        *)
LEMMA FewerRefs ==
    ASSUME FrontendInv, \A d, s : Owns(surfs, d, s) => Owns(surfs', d, s),
           DOMAIN refs' = DOMAIN refs,
           \A d \in DOMAIN refs : \A s \in refs'[d] :
              /\ s \in refs[d]
              /\ (decs'[d].started /\ ~decs'[d].eos /\ ~decs'[d].fatal) \/ decs'[d] = decs[d]
    PROVE  RefsOwned'
  BY DEF FrontendInv, RefsOwned

(* The pictures are drawn where they were.                                    *)
LEMMA PicturesStay ==
    ASSUME FrontendInv, DOMAIN engines' = DOMAIN engines,
           \A i \in DOMAIN engines : /\ engines'[i].dec = engines[i].dec
                                     /\ \/ engines'[i].pic = engines[i].pic
                                        \/ engines'[i].pic.from = None
                                        \/ engines'[i].pic.from = engines[i].dec
    PROVE  PicturesPlaced'
<1> SUFFICES ASSUME NEW i \in DOMAIN engines, engines'[i].pic.from # None
             PROVE  engines'[i].dec = engines'[i].pic.from
  BY DEF PicturesPlaced, Range
<1>1. engines[i] \in Range(engines)
  BY DEF Range
<1>2. engines[i].pic.from # None => engines[i].dec = engines[i].pic.from
  BY <1>1 DEF FrontendInv, PicturesPlaced
<1> QED
  BY <1>2

-----------------------------------------------------------------------------
(* Drawing a picture                                                          *)

(* What ReferencesKept says of a step.                                        *)
RefsStay ==
    \A d \in DOMAIN refs \cap DOMAIN refs' : IsVp9(d) =>
       \A s \in refs[d] \ refs'[d] :
          \/ ~Has(surfs', s)
          \/ Entry(surfs', s).owner \notin {d, None}
          \/ KeyFrameEnds(d)
          \/ ids'.fault > ids.fault
          \/ Len(retired) = MaxEngines /\ Len(engines') < Len(engines)
          \/ ~releaseAu

(* The VA context in place i aims at s and starts the picture p.              *)
LEMMA Aimed ==
    ASSUME FrontendInv, NEW i \in DOMAIN engines, NEW s \in 0..ids.surface,
           NEW p \in PictureRecord, NEW q,
           q = [engines EXCEPT ![i].target = s, ![i].pic = p]
    PROVE  /\ SameEngines(q, engines) /\ DOMAIN q = DOMAIN engines
           /\ q[i].pic = p /\ q[i].dec = engines[i].dec
           /\ \A j \in DOMAIN engines : j # i => q[j] = engines[j]
<1> DEFINE x == engines[i]
           e == [x EXCEPT !.target = s, !.pic = p]
<1>1. x \in EngineRecord /\ engines \in Seq(EngineRecord) /\ ids.surface \in Nat
  BY EnginesFacts, CounterFields DEF FrontendInv
<1>2. q = [engines EXCEPT ![i] = e]
  OBVIOUS
<1> HIDE DEF x
<1>3. e \in EngineRecord /\ e.id = x.id /\ e.dec = x.dec /\ e.target = s /\ e.pic = p
  <2>1. x \in EngineRecord /\ s \in Nat /\ p \in PictureRecord
    BY <1>1
  <2> QED
    BY <2>1 DEF EngineRecord
<1> HIDE DEF e
<1>4. SameEngines([engines EXCEPT ![i] = e], engines)
  <2>1. e.id = engines[i].id /\ e.dec = engines[i].dec /\ e.target <= ids.surface
    BY <1>1, <1>3 DEF x
  <2> QED
    BY <1>3, <2>1, OneEngine
<1> QED
  BY <1>1, <1>2, <1>3, <1>4 DEF x

LEMMA PictureTypes ==
    /\ NoPicture \in PictureRecord /\ NoPicture.from = None /\ NoPicture.stage = "none"
    /\ BegunPicture \in PictureRecord /\ BegunPicture.from = None
  BY DEF NoPicture, BegunPicture, PictureRecord, None

LEMMA RefsShape ==
    ASSUME FrontendInv
    PROVE  /\ refs \in Seq(SUBSET Nat) /\ decs \in Seq(DecRecord) /\ Len(refs) = Len(decs)
           /\ DOMAIN refs = DOMAIN decs /\ surfs \in Seq(SurfaceRecord) /\ IdsApart(surfs)
           /\ SameOwners(surfs, surfs) /\ Kin(surfs, surfs)
           /\ \A d \in DOMAIN refs : refs[d] \subseteq Nat
           /\ ids.surface \in Nat
<1>1. /\ refs \in Seq(SUBSET Nat) /\ decs \in Seq(DecRecord) /\ Len(refs) = Len(decs)
      /\ surfs \in Seq(SurfaceRecord) /\ IdsApart(surfs) /\ Counted
  BY DEF FrontendInv, DecsSound, Surfaces, TableOf
<1>2. Kin(surfs, surfs) /\ SameOwners(surfs, surfs)
  BY <1>1 DEF Kin, SameOwners
<1>3. ids.surface \in Nat
  BY <1>1, CounterFields
<1> QED
  BY <1>1, <1>2, <1>3

LEMMA BeginPictureKeeps ==
    ASSUME FrontendInv, NEW c, NEW s \in SurfaceIds, BeginPicture(c, s)
    PROVE  FrontendInv' /\ RefsStay
<1> DEFINE i == Place(engines, c)
           d == engines[i].dec
<1>1. /\ Has(engines, c) /\ retired' = retired /\ refs' = refs /\ Sound /\ OnlySessions
      /\ ids' = ids
  BY DEF BeginPicture, Sound
<1>2. i \in DOMAIN engines
  BY <1>1, EngineNamed
<1>3. /\ d \in Active /\ d \in DOMAIN decs /\ DecWhole(decs[d])
      /\ SameDecs(decs, decs) /\ ids.surface \in Nat
      /\ surfs \in Seq(SurfaceRecord) /\ SameOwners(surfs, surfs) /\ decs \in Seq(DecRecord)
      /\ refs \in Seq(SUBSET Nat) /\ s \in 0..ids.surface
  BY <1>2, EnginesFacts, RefsShape DEF SurfaceIds
<1>4. PICK p \in {BegunPicture, NoPicture} :
         engines' = [engines EXCEPT ![i].target = s, ![i].pic = p]
  BY DEF BeginPicture
<1>5. \/ decs' = [decs EXCEPT ![d] = Begun(@, s)] /\ surfs' = Pending(surfs, s)
      \/ decs' = decs /\ surfs' = surfs
  BY DEF BeginPicture
<1>6. p \in PictureRecord /\ p.from = None
  BY PictureTypes
<1> HIDE DEF i, d
<1>7. /\ SameEngines(engines', engines) /\ DOMAIN engines' = DOMAIN engines
      /\ engines'[i].pic = p /\ engines'[i].dec = engines[i].dec
      /\ \A j \in DOMAIN engines : j # i => engines'[j] = engines[j]
  <2>1. PICK q : q = engines' /\ q = [engines EXCEPT ![i].target = s, ![i].pic = p]
    BY <1>4
  <2>2. i \in DOMAIN engines /\ s \in 0..ids.surface /\ p \in PictureRecord
    BY <1>2, <1>3, <1>6
  <2>3. /\ SameEngines(q, engines) /\ DOMAIN q = DOMAIN engines
        /\ q[i].pic = p /\ q[i].dec = engines[i].dec
        /\ \A j \in DOMAIN engines : j # i => q[j] = engines[j]
    BY <2>1, <2>2, Aimed
  <2> QED
    BY <2>1, <2>3
<1>8. SameOwners(surfs', surfs)
  BY <1>3, <1>5, PendingKin
<1>9. SameDecs(decs', decs) /\ \A o \in DOMAIN decs :
         /\ decs'[o].started = decs[o].started /\ decs'[o].eos = decs[o].eos
         /\ decs'[o].fatal = decs[o].fatal
  <2>1. CASE decs' = decs
    BY <1>3, <2>1
  <2>2. CASE decs' = [decs EXCEPT ![d] = Begun(@, s)]
    <3> DEFINE x == decs[d]
               y == [x EXCEPT !.cur = s, !.frame = FALSE]
    <3>1. decs' = [decs EXCEPT ![d] = y]
      BY <2>2 DEF Begun
    <3>2. x \in DecRecord /\ DecWhole(x) /\ x.last <= ids.surface
      BY <1>3 DEF SameDecs
    <3> HIDE DEF x
    <3>3. /\ y \in DecRecord /\ y.profile = x.profile /\ y.size = x.size /\ y.cur = s
          /\ y.last = x.last /\ y.started = x.started /\ y.eos = x.eos /\ y.fatal = x.fatal
          /\ y.open = x.open
      <4>1. x \in DecRecord /\ s \in Nat
        BY <1>3, <3>2
      <4> QED
        BY <4>1 DEF DecRecord
    <3> HIDE DEF y
    <3>4. DecWhole(y) /\ y.cur <= ids.surface
      BY <1>3, <3>2, <3>3 DEF DecWhole
    <3>5. Rewrites(decs', d, y)
      BY <3>1, <3>2, <3>3, <3>4 DEF Rewrites, x
    <3>6. /\ SameDecs(decs', decs) /\ decs'[d] = y
          /\ \A o \in DOMAIN decs : o # d => decs'[o] = decs[o]
      BY <1>3, <3>5, OneDec
    <3> QED
      BY <3>3, <3>6 DEF x
  <2> QED
    BY <1>5, <2>1, <2>2
<1>10. SessionCall
  BY <1>1, <1>3, <1>7, <1>8, <1>9 DEF SessionCall, SameOwners
<1>11. Owners' /\ \A o, z : Owns(surfs', o, z) <=> Owns(surfs, o, z)
  BY <1>8, <1>10, OwnersKept
<1>12. RefsOwned'
  <2>1. \A o \in DOMAIN refs : \A z \in refs[o] :
           Owns(surfs, o, z) /\ decs[o].started /\ ~decs[o].eos /\ ~decs[o].fatal
    BY DEF FrontendInv, RefsOwned
  <2>2. DOMAIN refs = DOMAIN decs
    BY RefsShape
  <2> QED
    BY <1>1, <1>9, <1>11, <2>1, <2>2 DEF RefsOwned
<1>13. PicturesPlaced'
  BY <1>6, <1>7, PicturesStay
<1>14. RefsStay
  BY <1>1 DEF RefsStay
<1> QED
  BY <1>10, <1>11, <1>12, <1>13, <1>14, SessionKeeps

LEMMA RenderSliceKeeps ==
    ASSUME FrontendInv, NEW c, RenderSlice(c)
    PROVE  FrontendInv' /\ RefsStay
<1> DEFINE d == Entry(engines, c).dec
           x == decs[d]
           y == [x EXCEPT !.frame = TRUE]
<1>1. /\ Has(engines, c) /\ engines' = engines /\ retired' = retired /\ refs' = refs
      /\ surfs' = surfs /\ Sound /\ OnlySessions /\ ids' = ids
      /\ decs' = [decs EXCEPT ![d] = y]
  BY DEF RenderSlice, Sound
<1>2. /\ d \in Active /\ d \in DOMAIN decs /\ DecWhole(x)
  BY <1>1, EngineNamed, EnginesFacts
<1>3. /\ SameDecs(decs, decs) /\ SameEngines(engines, engines) /\ decs \in Seq(DecRecord)
      /\ refs \in Seq(SUBSET Nat) /\ SameOwners(surfs, surfs) /\ DOMAIN refs = DOMAIN decs
  BY EnginesFacts, RefsShape
<1>4. x \in DecRecord /\ x.cur <= ids.surface /\ x.last <= ids.surface
  BY <1>2, <1>3 DEF SameDecs
<1> HIDE DEF x, d
<1>5. /\ y \in DecRecord /\ y.profile = x.profile /\ y.size = x.size /\ y.cur = x.cur
      /\ y.last = x.last /\ y.started = x.started /\ y.eos = x.eos /\ y.fatal = x.fatal
      /\ y.open = x.open
  BY <1>4 DEF DecRecord
<1> HIDE DEF y
<1>6. Rewrites(decs', d, y)
  BY <1>1, <1>2, <1>4, <1>5 DEF Rewrites, DecWhole, x
<1>7. /\ SameDecs(decs', decs) /\ decs'[d] = y
      /\ \A o \in DOMAIN decs : o # d => decs'[o] = decs[o]
  BY <1>2, <1>6, OneDec
<1>8. SessionCall
  BY <1>1, <1>3, <1>7 DEF SessionCall, SameOwners
<1>9. Owners' /\ \A o, z : Owns(surfs', o, z) <=> Owns(surfs, o, z)
  BY <1>1, <1>3, <1>8, OwnersKept
<1>10. RefsOwned'
  <2>1. \A o \in DOMAIN refs : \A z \in refs[o] :
           Owns(surfs, o, z) /\ decs[o].started /\ ~decs[o].eos /\ ~decs[o].fatal
    BY DEF FrontendInv, RefsOwned
  <2> QED
    BY <1>1, <1>3, <1>5, <1>7, <1>9, <2>1 DEF RefsOwned, x
<1>11. PicturesPlaced'
  BY <1>1 DEF FrontendInv, PicturesPlaced
<1>12. RefsStay
  BY <1>1 DEF RefsStay
<1> QED
  BY <1>8, <1>9, <1>10, <1>11, <1>12, SessionKeeps

-----------------------------------------------------------------------------
(* Frames that arrive, and vaSyncSurface                                      *)

LEMMA ForgottenShape ==
    ASSUME FrontendInv, NEW D
    PROVE  /\ Forgotten(D) \in Seq(SUBSET Nat) /\ Len(Forgotten(D)) = Len(refs)
           /\ DOMAIN Forgotten(D) = DOMAIN refs
           /\ \A o \in DOMAIN refs : Forgotten(D)[o] = IF o \in D THEN {} ELSE refs[o]
<1> DEFINE q == Forgotten(D)
<1>1. refs \in Seq(SUBSET Nat) /\ \A o \in DOMAIN refs : refs[o] \subseteq Nat
  BY RefsShape
<1>2. \A o \in DOMAIN refs : q[o] = IF o \in D THEN {} ELSE refs[o]
  BY DEF Forgotten
<1>3. q = [o \in DOMAIN refs |-> q[o]]
  BY DEF Forgotten
<1> HIDE DEF q
<1>4. \A o \in DOMAIN refs : q[o] \subseteq Nat
  BY <1>1, <1>2
<1>5. q \in Seq(SUBSET Nat) /\ Len(q) = Len(refs) /\ DOMAIN q = DOMAIN refs
  BY <1>1, <1>3, <1>4, RefsRewritten
<1> QED
  BY <1>2, <1>5 DEF q

(* The registry is rewritten and no owner changes.                            *)
LEMMA OnlyFrames ==
    ASSUME FrontendInv, OnlySessions, Sound, engines' = engines, retired' = retired,
           decs' = decs, refs' = refs, SameOwners(surfs', surfs)
    PROVE  FrontendInv' /\ RefsStay
<1>1. /\ SameDecs(decs, decs) /\ SameEngines(engines, engines)
      /\ refs \in Seq(SUBSET Nat)
  BY EnginesFacts, RefsShape
<1>2. SessionCall
  BY <1>1 DEF SessionCall, SameOwners
<1>3. Owners' /\ \A o, z : Owns(surfs', o, z) <=> Owns(surfs, o, z)
  BY <1>2, OwnersKept
<1>4. RefsOwned'
  BY <1>3 DEF FrontendInv, RefsOwned
<1>5. PicturesPlaced'
  BY DEF FrontendInv, PicturesPlaced
<1>6. RefsStay
  BY DEF RefsStay
<1> QED
  BY <1>2, <1>3, <1>4, <1>5, <1>6, SessionKeeps

(* A session comes to its end or fails, and what it decoded is forgotten.     *)
LEMMA SessionEnds ==
    ASSUME FrontendInv, OnlySessions, Sound \/ Fails, engines' = engines, retired' = retired,
           SameOwners(surfs', surfs), NEW d \in Active \cup Retired, NEW y,
           Rewrites(decs', d, y), refs' = Forgotten({d})
    PROVE  FrontendInv'
<1>1. /\ SameDecs(decs', decs) /\ SameEngines(engines, engines)
      /\ \A o \in DOMAIN decs : o # d => decs'[o] = decs[o]
  BY EnginesFacts, OneDec
<1>2. /\ refs' \in Seq(SUBSET Nat) /\ Len(refs') = Len(refs) /\ DOMAIN refs' = DOMAIN refs
      /\ \A o \in DOMAIN refs : refs'[o] = IF o = d THEN {} ELSE refs[o]
  <2>1. PICK q : q = Forgotten({d})
    OBVIOUS
  <2>2. /\ q \in Seq(SUBSET Nat) /\ Len(q) = Len(refs) /\ DOMAIN q = DOMAIN refs
        /\ \A o \in DOMAIN refs : q[o] = IF o \in {d} THEN {} ELSE refs[o]
    BY <2>1, ForgottenShape
  <2> QED
    BY <2>1, <2>2
<1>3. SessionCall
  BY <1>1, <1>2 DEF SessionCall, SameOwners
<1>4. Owners' /\ \A o, z : Owns(surfs', o, z) <=> Owns(surfs, o, z)
  BY <1>3, OwnersKept
<1>5. RefsOwned'
  <2>1. DOMAIN refs = DOMAIN decs
    BY RefsShape
  <2> QED
    BY <1>1, <1>2, <1>4, <2>1, FewerRefs
<1>6. PicturesPlaced'
  BY DEF FrontendInv, PicturesPlaced
<1> QED
  BY <1>3, <1>4, <1>5, <1>6, SessionKeeps

(* A frame has arrived in the surface in place i.                             *)
LEMMA FrameArrives ==
    ASSUME FrontendInv, NEW i \in DOMAIN surfs, NEW q,
           \/ q = [surfs EXCEPT ![i].st = "decoded", ![i].fresh = TRUE]
           \/ q = [surfs EXCEPT ![i].fresh = TRUE, ![i].st = "decoded"]
    PROVE  SameOwners(q, surfs)
<1> DEFINE x == surfs[i]
           y == [x EXCEPT !.st = "decoded", !.fresh = TRUE]
           z == [x EXCEPT !.fresh = TRUE, !.st = "decoded"]
<1>1. surfs \in Seq(SurfaceRecord) /\ x \in SurfaceRecord
  BY RefsShape
<1>2. q = [surfs EXCEPT ![i] = y] \/ q = [surfs EXCEPT ![i] = z]
  OBVIOUS
<1> HIDE DEF x
<1>3. /\ y \in SurfaceRecord /\ y.id = x.id /\ y.owner = x.owner
      /\ z \in SurfaceRecord /\ z.id = x.id /\ z.owner = x.owner
  BY <1>1 DEF SurfaceRecord
<1> HIDE DEF y, z
<1>4. SameOwners([surfs EXCEPT ![i] = y], surfs)
  BY <1>1, <1>3, OneKin DEF x
<1>5. SameOwners([surfs EXCEPT ![i] = z], surfs)
  BY <1>1, <1>3, OneKin DEF x
<1> QED
  BY <1>2, <1>4, <1>5

LEMMA LandKeeps ==
    ASSUME FrontendInv, NEW s, Land(s)
    PROVE  FrontendInv' /\ RefsStay
<1> DEFINE i == Place(surfs, s)
<1>1. /\ Has(surfs, s) /\ surfs' = [surfs EXCEPT ![i].st = "decoded", ![i].fresh = TRUE]
      /\ engines' = engines /\ retired' = retired /\ decs' = decs /\ refs' = refs
      /\ Sound /\ OnlySessions
  BY DEF Land
<1>2. i \in DOMAIN surfs
  BY <1>1, RefsShape, Found
<1>3. PICK q : q = surfs'
  OBVIOUS
<1>4. SameOwners(q, surfs)
  BY <1>1, <1>2, <1>3, FrameArrives
<1> QED
  BY <1>1, <1>3, <1>4, OnlyFrames

LEMMA SyncSurfaceKeeps ==
    ASSUME FrontendInv, NEW s, SyncSurface(s)
    PROVE  FrontendInv' /\ RefsStay
<1> DEFINE i == Place(surfs, s)
           d == surfs[i].owner
           x == decs[d]
<1>1. /\ Has(surfs, s) /\ engines' = engines /\ retired' = retired /\ OnlySessions
      /\ client' = client /\ releaseAu' = releaseAu
  BY DEF SyncSurface, OnlySessions, Platform
<1>2. /\ i \in DOMAIN surfs /\ surfs \in Seq(SurfaceRecord) /\ SameOwners(surfs, surfs)
      /\ decs \in Seq(DecRecord) /\ SameDecs(decs, decs)
  BY <1>1, RefsShape, Found, EnginesFacts
<1>3. ASSUME d # None PROVE d \in Active \cup Retired /\ DecWhole(x) /\ x \in DecRecord
                            /\ x.cur <= ids.surface /\ x.last <= ids.surface
  <2>1. surfs[i] \in Range(surfs)
    BY <1>2 DEF Range
  <2>2. d \in Active \cup Retired
    BY <1>3, <2>1 DEF FrontendInv, Owners
  <2>3. d \in DOMAIN decs
    BY <2>2 DEF FrontendInv, Placed
  <2> QED
    BY <1>2, <2>2, <2>3 DEF SameDecs
<1>4. CASE surfs' = [surfs EXCEPT ![i].fresh = TRUE, ![i].st = "decoded"]
           /\ Sound /\ decs' = decs /\ refs' = refs
  <2>1. PICK q : q = surfs'
    OBVIOUS
  <2>2. SameOwners(q, surfs)
    BY <1>2, <1>4, <2>1, FrameArrives
  <2> QED
    BY <1>1, <1>4, <2>1, <2>2, OnlyFrames
<1>5. CASE /\ Sound /\ d # None /\ x.started /\ EndsStream(d, s)
           /\ decs' = [decs EXCEPT ![d].eos = TRUE]
           /\ surfs' = AllLanded(surfs, d) /\ refs' = Forgotten({d})
  <2> DEFINE y == [x EXCEPT !.eos = TRUE]
  <2>1. decs' = [decs EXCEPT ![d] = y]
    BY <1>5
  <2>2. d \in Active \cup Retired /\ DecWhole(x) /\ x \in DecRecord
        /\ x.cur <= ids.surface /\ x.last <= ids.surface /\ x.started
    BY <1>3, <1>5
  <2>3. SameOwners(surfs', surfs)
    BY <1>2, <1>5, LandedKin
  <2> HIDE DEF x, d
  <2>4. /\ y \in DecRecord /\ y.profile = x.profile /\ y.size = x.size /\ y.cur = x.cur
        /\ y.last = x.last /\ y.started = x.started /\ y.open = x.open
    BY <2>2 DEF DecRecord
  <2> HIDE DEF y
  <2>5. Rewrites(decs', d, y)
    BY <2>1, <2>2, <2>4 DEF Rewrites, DecWhole, x
  <2>6. FrontendInv'
    BY <1>1, <1>5, <2>2, <2>3, <2>5, SessionEnds
  <2>7. RefsStay
    BY <1>5 DEF RefsStay, EndsStream
  <2> QED
    BY <2>6, <2>7
<1>6. CASE /\ Fails /\ d # None
           /\ decs' = [decs EXCEPT ![d].fatal = TRUE]
           /\ refs' = Forgotten({d}) /\ surfs' = surfs
  <2> DEFINE y == [x EXCEPT !.fatal = TRUE]
  <2>1. decs' = [decs EXCEPT ![d] = y]
    BY <1>6
  <2>2. d \in Active \cup Retired /\ DecWhole(x) /\ x \in DecRecord
        /\ x.cur <= ids.surface /\ x.last <= ids.surface
    BY <1>3, <1>6
  <2> HIDE DEF x, d
  <2>4. /\ y \in DecRecord /\ y.profile = x.profile /\ y.size = x.size /\ y.cur = x.cur
        /\ y.last = x.last /\ y.started = x.started /\ y.open = x.open /\ y.eos = x.eos
    BY <2>2 DEF DecRecord
  <2> HIDE DEF y
  <2>5. Rewrites(decs', d, y)
    BY <2>1, <2>2, <2>4 DEF Rewrites, DecWhole, x
  <2>6. FrontendInv'
    BY <1>1, <1>2, <1>6, <2>2, <2>5, SessionEnds
  <2>7. RefsStay
    BY <1>1, <1>6, Steady DEF RefsStay
  <2> QED
    BY <2>6, <2>7
<1> QED
  BY <1>4, <1>5, <1>6 DEF SyncSurface

-----------------------------------------------------------------------------
(* vaEndPicture                                                               *)

(* Surface s of the registry is queued for d, which becomes its owner.        *)
LEMMA Claimed ==
    ASSUME FrontendInv, NEW r, SameOwners(r, surfs), NEW d \in Active, NEW s, NEW q,
           q = Queued(r, d, s)
    PROVE  /\ Kin(q, surfs)
           /\ \A x \in Range(q) : x.owner \in Active \cup Retired \cup {None}
           /\ \A o, z : Owns(surfs, o, z) /\ z # s => Owns(q, o, z)
           /\ \A z : Owns(surfs, d, z) => Owns(q, d, z)
           /\ Has(surfs, s) => Owns(q, d, s)
           /\ Has(q, s) => Entry(q, s).owner = d
           /\ \A o, z : Owns(surfs, o, z) => Has(surfs, z)
<1>1. /\ surfs \in Seq(SurfaceRecord) /\ d \in Nat /\ Owners
      /\ TableOf(surfs, SurfaceRecord, MaxSurfaces, ids.surface)
  <2>1. Active \subseteq DOMAIN decs /\ DOMAIN decs = 1..Len(decs) /\ Len(decs) \in Nat
    BY RefsShape DEF FrontendInv, Placed
  <2> QED
    BY <2>1, RefsShape DEF FrontendInv, Surfaces
<1>2. /\ r \in Seq(SurfaceRecord) /\ Kin(r, surfs)
      /\ \A o, z : Owns(r, o, z) <=> Owns(surfs, o, z)
      /\ \A x \in Range(r) : \E y \in Range(surfs) : y.id = x.id /\ y.owner = x.owner
  BY <1>1, SameOwnersMeans DEF Kin
<1>3. /\ Kin(q, r)
      /\ \A x \in Range(q) : \E y \in Range(r) : y.id = x.id /\ (x.owner = y.owner \/ x.owner = d)
      /\ \A o, z : Owns(r, o, z) /\ z # s => Owns(q, o, z)
      /\ \A x \in Range(q) : x.id = s => x.owner = d
      /\ (\E x \in Range(r) : x.id = s) => Owns(q, d, s)
  BY <1>1, <1>2, QueuedKin
<1>4. Kin(q, surfs)
  BY <1>1, <1>2, <1>3 DEF Kin
<1>5. \A x \in Range(q) : x.owner \in Active \cup Retired \cup {None}
  BY <1>1, <1>2, <1>3 DEF Owners
<1>6. /\ TableOf(q, SurfaceRecord, MaxSurfaces, ids.surface)
      /\ \A z : Has(q, z) <=> Has(surfs, z)
      /\ \A z : (\E x \in Range(q) : x.id = z) <=> (\E x \in Range(surfs) : x.id = z)
  BY <1>1, <1>4, KinTable
<1>7. /\ Has(surfs, s) <=> \E x \in Range(surfs) : x.id = s
      /\ \A o, z : Owns(surfs, o, z) => Has(surfs, z)
  BY <1>1, HasMeans DEF Owns
<1>8. Has(surfs, s) => Owns(q, d, s)
  <2>1. \A z : (\E x \in Range(r) : x.id = z) <=> (\E x \in Range(surfs) : x.id = z)
    BY <1>1, <1>2, KinTable
  <2> QED
    BY <1>3, <1>7, <2>1
<1>9. Has(q, s) => Entry(q, s).owner = d
  <2>1. q \in Seq(SurfaceRecord) /\ IdsApart(q)
    BY <1>6, TableParts
  <2> QED
    BY <1>3, <2>1, Found
<1>10. ASSUME NEW z, Owns(surfs, d, z) PROVE Owns(q, d, z)
  BY <1>2, <1>3, <1>7, <1>8, <1>10
<1>11. \A o, z : Owns(surfs, o, z) /\ z # s => Owns(q, o, z)
  BY <1>2, <1>3
<1> QED
  BY <1>4, <1>5, <1>7, <1>8, <1>9, <1>10, <1>11

LEMMA ResetTyped ==
    ASSUME NEW x \in DecRecord
    PROVE  /\ Reset(x) \in DecRecord /\ Reset(x).profile = x.profile /\ Reset(x).size = x.size
           /\ Reset(x).open = FALSE /\ Reset(x).started = FALSE /\ Reset(x).eos = FALSE
           /\ Reset(x).fatal = FALSE /\ Reset(x).last = None /\ Reset(x).cur = x.cur
<1> DEFINE y == [x EXCEPT !.open = FALSE, !.started = FALSE, !.eos = FALSE,
                          !.fatal = FALSE, !.last = None]
<1>1. /\ y \in DecRecord /\ y.profile = x.profile /\ y.size = x.size
      /\ y.open = FALSE /\ y.started = FALSE /\ y.eos = FALSE
      /\ y.fatal = FALSE /\ y.last = None /\ y.cur = x.cur
  BY DEF DecRecord, None
<1> QED
  BY <1>1, Zenon DEF Reset

(* The session fields after the picture was submitted: the stream runs.       *)
Submits(x, boundary, y, z) ==
    /\ x \in DecRecord /\ DecWhole(x) /\ boundary \in BOOLEAN
    /\ x.fatal => x.eos # boundary
    /\ y = IF boundary \/ x.eos THEN Reset(x) ELSE x
    /\ z = [y EXCEPT !.open = TRUE, !.started = TRUE, !.last = x.cur, !.cur = None,
                     !.frame = FALSE]

LEMMA Submitted ==
    ASSUME NEW x, NEW boundary, NEW y, NEW z, Submits(x, boundary, y, z)
    PROVE  /\ z \in DecRecord /\ DecWhole(z) /\ z.profile = x.profile /\ z.size = x.size
           /\ z.cur = None /\ z.last = x.cur /\ z.started /\ ~z.eos /\ ~z.fatal /\ ~z.frame
<1> USE DEF Submits
<1>1. /\ y \in DecRecord /\ y.profile = x.profile /\ y.size = x.size /\ ~y.eos /\ ~y.fatal
  <2>1. CASE boundary \/ x.eos
    <3>1. y = Reset(x)
      BY <2>1
    <3> QED
      BY <3>1, ResetTyped
  <2>2. CASE ~boundary /\ ~x.eos
    <3>1. x.eos \in BOOLEAN /\ x.fatal \in BOOLEAN
      BY DEF DecRecord
    <3>2. y = x
      BY <2>2
    <3>3. ~x.fatal
      BY <2>2, <3>1
    <3> QED
      BY <2>2, <3>2, <3>3
  <2> QED
    BY <2>1, <2>2
<1>2. x.profile \in Profiles /\ x.size \in Sizes /\ x.cur \in Nat
  BY DEF DecWhole, DecRecord
<1>3. /\ z \in DecRecord /\ z.profile = y.profile /\ z.size = y.size /\ z.eos = y.eos
      /\ z.fatal = y.fatal /\ z.started /\ z.open /\ z.last = x.cur /\ z.cur = None /\ ~z.frame
  <2>1. y \in DecRecord /\ x.cur \in Nat /\ None \in Nat
    BY <1>1, <1>2 DEF None
  <2> QED
    BY <2>1 DEF DecRecord
<1>4. DecWhole(z)
  BY <1>1, <1>2, <1>3 DEF DecWhole
<1> QED
  BY <1>1, <1>3, <1>4

LEMMA ReferencedShape ==
    ASSUME FrontendInv, NEW d \in DOMAIN decs, NEW s \in Nat, NEW new, NEW q,
           q = Referenced(d, s, new)
    PROVE  /\ q \in Seq(SUBSET Nat) /\ Len(q) = Len(refs) /\ DOMAIN q = DOMAIN refs
           /\ \A o \in DOMAIN refs : o # d => q[o] = refs[o] \ {s}
           /\ \A z : z \in q[d] <=> z = s \/ (~new /\ z \in refs[d])
<1>1. refs \in Seq(SUBSET Nat) /\ DOMAIN refs = DOMAIN decs /\ \A o \in DOMAIN refs : refs[o] \subseteq Nat
  BY RefsShape
<1>2. /\ q = [o \in DOMAIN refs |-> q[o]]
      /\ \A o \in DOMAIN refs : o # d => q[o] = refs[o] \ {s}
      /\ \A z : z \in q[d] <=> z = s \/ (~new /\ z \in refs[d])
  BY <1>1 DEF Referenced
<1>3. \A o \in DOMAIN refs : q[o] \subseteq Nat
  BY <1>1, <1>2
<1> QED
  BY <1>1, <1>2, <1>3, RefsRewritten

(* What the submission of s by d did to the references.                       *)
Claims(q, d, s, new) ==
    /\ q \in Seq(SUBSET Nat) /\ Len(q) = Len(refs) /\ DOMAIN q = DOMAIN refs
    /\ \A o \in DOMAIN refs : o # d =>
          /\ \A z \in q[o] : z \in refs[o] /\ z # s
          /\ \A z \in refs[o] \ q[o] : z = s
    /\ \A z \in q[d] : z \in refs[d] \/ (z = s /\ Has(surfs, s))
    /\ ~new => refs[d] \subseteq q[d]

LEMMA RefsClaimed ==
    ASSUME FrontendInv, NEW d \in DOMAIN decs, NEW s \in Nat, NEW new \in BOOLEAN, NEW q,
           q = IF Has(surfs, s) THEN Referenced(d, s, new)
               ELSE IF new THEN Forgotten({d}) ELSE refs
    PROVE  Claims(q, d, s, new)
<1>1. refs \in Seq(SUBSET Nat) /\ DOMAIN refs = DOMAIN decs
  BY RefsShape
<1>2. CASE Has(surfs, s)
  <2>1. /\ q \in Seq(SUBSET Nat) /\ Len(q) = Len(refs) /\ DOMAIN q = DOMAIN refs
        /\ \A o \in DOMAIN refs : o # d => q[o] = refs[o] \ {s}
        /\ \A z : z \in q[d] <=> z = s \/ (~new /\ z \in refs[d])
    <3>1. q = Referenced(d, s, new)
      BY <1>2
    <3> QED
      <4>1. FrontendInv /\ d \in DOMAIN decs /\ s \in Nat /\ q = Referenced(d, s, new)
        BY <3>1
      <4> QED
        BY <4>1, ReferencedShape
  <2> QED
    BY <1>2, <2>1 DEF Claims
<1>3. CASE ~Has(surfs, s)
  <2>1. \A o \in DOMAIN refs : s \notin refs[o]
    <3> SUFFICES ASSUME NEW o \in DOMAIN refs, s \in refs[o] PROVE FALSE
      OBVIOUS
    <3>1. Owns(surfs, o, s)
      BY DEF FrontendInv, RefsOwned
    <3>2. surfs \in Seq(SurfaceRecord)
      BY RefsShape
    <3> QED
      BY <1>3, <3>1, <3>2, HasMeans DEF Owns
  <2>2. /\ q \in Seq(SUBSET Nat) /\ Len(q) = Len(refs) /\ DOMAIN q = DOMAIN refs
        /\ \A o \in DOMAIN refs : q[o] = IF o = d /\ new THEN {} ELSE refs[o]
    <3>1. CASE new
      <4>1. q = Forgotten({d})
        BY <1>3, <3>1
      <4>2. /\ Forgotten({d}) \in Seq(SUBSET Nat) /\ Len(Forgotten({d})) = Len(refs)
            /\ DOMAIN Forgotten({d}) = DOMAIN refs
            /\ \A o \in DOMAIN refs : Forgotten({d})[o] = IF o \in {d} THEN {} ELSE refs[o]
        BY ForgottenShape
      <4> QED
        BY <3>1, <4>1, <4>2
    <3>2. CASE ~new
      <4>1. q = refs
        BY <1>3, <3>2
      <4> QED
        BY <1>1, <3>2, <4>1
    <3> QED
      BY <3>1, <3>2
  <2> QED
    BY <1>1, <2>1, <2>2 DEF Claims
<1> QED
  BY <1>2, <1>3

(* After a submission what sessions can predict from is theirs.               *)
LEMMA ClaimsOwned ==
    ASSUME FrontendInv, NEW r, SameOwners(r, surfs), NEW d \in Active, NEW s, NEW new,
           surfs' = Queued(r, d, s), Claims(refs', d, s, new),
           DOMAIN decs' = DOMAIN decs, \A o \in DOMAIN decs : o # d => decs'[o] = decs[o],
           refs'[d] = {} \/ (decs'[d].started /\ ~decs'[d].eos /\ ~decs'[d].fatal)
    PROVE  RefsOwned'
<1>1. PICK q : q = surfs'
  OBVIOUS
<1>2. /\ \A o, z : Owns(surfs, o, z) /\ z # s => Owns(q, o, z)
      /\ \A z : Owns(surfs, d, z) => Owns(q, d, z)
      /\ Has(surfs, s) => Owns(q, d, s)
  BY <1>1, Claimed
<1>3. \A o \in DOMAIN refs : \A z \in refs[o] :
         Owns(surfs, o, z) /\ decs[o].started /\ ~decs[o].eos /\ ~decs[o].fatal
  BY DEF FrontendInv, RefsOwned
<1>4. d \in DOMAIN refs /\ DOMAIN refs = DOMAIN decs /\ DOMAIN refs' = DOMAIN refs
  BY RefsShape DEF FrontendInv, Placed, Claims
<1> SUFFICES ASSUME NEW o \in DOMAIN refs, NEW z \in refs'[o]
             PROVE  /\ Owns(q, o, z)
                    /\ decs'[o].started /\ ~decs'[o].eos /\ ~decs'[o].fatal
  BY <1>1, <1>4 DEF RefsOwned
<1>5. CASE o = d
  <2>1. z \in refs[d] \/ (z = s /\ Has(surfs, s))
    BY <1>5 DEF Claims
  <2>2. Owns(q, d, z)
    BY <1>2, <1>3, <1>4, <2>1
  <2> QED
    BY <1>5, <2>2
<1>6. CASE o # d
  <2>1. z \in refs[o] /\ z # s
    BY <1>6 DEF Claims
  <2> QED
    BY <1>2, <1>3, <1>4, <1>6, <2>1
<1> QED
  BY <1>5, <1>6

(* Who lost a reference lost it to d, and d lost some only with the others.   *)
LEMMA ClaimsStay ==
    ASSUME FrontendInv, NEW r, SameOwners(r, surfs), NEW d \in Active, NEW s, NEW new,
           surfs' = Queued(r, d, s), Claims(refs', d, s, new),
           new => refs[d] = {} \/ KeyFrameEnds(d) \/ ids'.fault > ids.fault
    PROVE  RefsStay
<1>1. PICK q : q = surfs'
  OBVIOUS
<1>2. Has(q, s) => Entry(q, s).owner = d
  BY <1>1, Claimed
<1>3. d # None
  <2>1. Active \subseteq DOMAIN decs /\ DOMAIN decs = 1..Len(decs) /\ Len(decs) \in Nat
    BY RefsShape DEF FrontendInv, Placed
  <2> QED
    BY <2>1 DEF None
<1> SUFFICES ASSUME NEW o \in DOMAIN refs, NEW z \in refs[o] \ refs'[o]
             PROVE  \/ ~Has(surfs', z)
                    \/ Entry(surfs', z).owner \notin {o, None}
                    \/ KeyFrameEnds(o)
                    \/ ids'.fault > ids.fault
  BY Zenon DEF RefsStay
<1>4. CASE o = d
  <2>1. new
    BY <1>4 DEF Claims
  <2> QED
    BY <1>4, <2>1
<1>5. CASE o # d
  <2>1. z = s
    BY <1>5 DEF Claims
  <2> QED
    BY <1>1, <1>2, <1>3, <1>5, <2>1
<1> QED
  BY <1>4, <1>5

LEMMA EndPictureKeeps ==
    ASSUME FrontendInv, NEW c, NEW key \in BOOLEAN, NEW pause \in BOOLEAN,
           EndPicture(c, key, pause)
    PROVE  FrontendInv' /\ RefsStay
<1> DEFINE i == Place(engines, c)
           d == engines[i].dec
           x == decs[d]
           boundary == x.started /\ key /\ (x.eos \/ pause)
           new == boundary \/ ~x.open \/ x.eos
           y == IF boundary \/ x.eos THEN Reset(x) ELSE x
           z == [y EXCEPT !.open = TRUE, !.started = TRUE, !.last = x.cur, !.cur = None,
                          !.frame = FALSE]
           r == IF boundary THEN Restarted(surfs, d) ELSE surfs
           s == x.cur
<1>1. /\ Has(engines, c) /\ retired' = retired /\ Sound /\ OnlySessions
  BY DEF EndPicture
<1>2. /\ x.frame /\ (x.fatal => x.eos # boundary) /\ key = engines[i].pic.key
      /\ decs' = [decs EXCEPT ![d] = z] /\ surfs' = Queued(r, d, s)
  BY DEF EndPicture
<1>3. refs' = IF Has(surfs, s) THEN Referenced(d, s, new)
              ELSE IF new THEN Forgotten({d}) ELSE refs
  BY DEF EndPicture
<1>4. engines' = [engines EXCEPT ![i].pic = NoPicture, ![i].target = None]
  BY DEF EndPicture
<1>5. i \in DOMAIN engines
  BY <1>1, EngineNamed
<1>6. /\ d \in Active /\ d \in DOMAIN decs /\ DecWhole(x) /\ engines[i] \in EngineRecord
      /\ engines \in Seq(EngineRecord)
      /\ surfs \in Seq(SurfaceRecord) /\ SameOwners(surfs, surfs) /\ decs \in Seq(DecRecord)
      /\ SameDecs(decs, decs) /\ ids.surface \in Nat /\ DOMAIN refs = DOMAIN decs
  BY <1>5, EnginesFacts, RefsShape
<1>7. x \in DecRecord /\ s \in Nat /\ s <= ids.surface /\ x.last <= ids.surface
      /\ x.started \in BOOLEAN /\ x.eos \in BOOLEAN /\ x.fatal \in BOOLEAN /\ x.open \in BOOLEAN
  <2>1. x \in DecRecord /\ x.cur <= ids.surface /\ x.last <= ids.surface
    BY <1>6 DEF SameDecs
  <2> HIDE DEF x
  <2> QED
    BY <2>1 DEF DecRecord
<1>8. boundary \in BOOLEAN /\ new \in BOOLEAN
  BY Zenon
<1>9. /\ boundary => x.started /\ key
      /\ new => x.eos \/ ~x.open \/ (x.started /\ key)
  OBVIOUS
<1> HIDE DEF boundary, new
<1>10. SameOwners(r, surfs)
  BY <1>6, RestartedKin
<1> HIDE DEF r
<1>11. /\ z \in DecRecord /\ DecWhole(z) /\ z.profile = x.profile /\ z.size = x.size
       /\ z.cur = None /\ z.last = x.cur /\ z.started /\ ~z.eos /\ ~z.fatal /\ ~z.frame
  <2>1. y = IF boundary \/ x.eos THEN Reset(x) ELSE x
    OBVIOUS
  <2>2. x \in DecRecord /\ DecWhole(x) /\ boundary \in BOOLEAN /\ (x.fatal => x.eos # boundary)
    BY <1>2, <1>6, <1>7, <1>8
  <2> HIDE DEF y, x
  <2>3. z = [y EXCEPT !.open = TRUE, !.started = TRUE, !.last = x.cur, !.cur = None,
                      !.frame = FALSE]
    BY DEF x
  <2> HIDE DEF z
  <2>4. Submits(x, boundary, y, z)
    BY <2>1, <2>2, <2>3 DEF Submits
  <2> QED
    BY <2>4, Submitted
<1> HIDE DEF z, y
<1>12. Rewrites(decs', d, z)
  BY <1>2, <1>6, <1>7, <1>11 DEF Rewrites, None, x
<1>13. /\ SameDecs(decs', decs) /\ decs'[d] = z /\ DOMAIN decs' = DOMAIN decs
       /\ \A o \in DOMAIN decs : o # d => decs'[o] = decs[o]
  <2>1. PICK q : q = decs'
    OBVIOUS
  <2>2. /\ SameDecs(q, decs) /\ q[d] = z /\ DOMAIN q = DOMAIN decs
        /\ \A o \in DOMAIN decs : o # d => q[o] = decs[o]
    BY <1>6, <1>12, <2>1, OneDec
  <2> QED
    BY <2>1, <2>2
<1>14. Claims(refs', d, s, new)
  <2>1. PICK q : q = refs'
    OBVIOUS
  <2>2. Claims(q, d, s, new)
    BY <1>3, <1>6, <1>7, <1>8, <2>1, RefsClaimed
  <2> QED
    BY <2>1, <2>2
<1>15. Kin(surfs', surfs) /\ \A q \in Range(surfs') : q.owner \in Active \cup Retired \cup {None}
  <2>1. PICK q : q = surfs'
    OBVIOUS
  <2>2. Kin(q, surfs) /\ \A f \in Range(q) : f.owner \in Active \cup Retired \cup {None}
    BY <1>2, <1>6, <1>10, <2>1, Claimed
  <2> QED
    BY <2>1, <2>2
<1> HIDE DEF x, d, s
<1>16. /\ SameEngines(engines', engines) /\ DOMAIN engines' = DOMAIN engines
       /\ engines'[i].pic = NoPicture /\ engines'[i].dec = engines[i].dec
       /\ \A j \in DOMAIN engines : j # i => engines'[j] = engines[j]
  <2> HIDE DEF i
  <2>1. engines' = [engines EXCEPT ![i].target = None, ![i].pic = NoPicture]
    <3> DEFINE e == engines[i]
    <3>1. [e EXCEPT !.pic = NoPicture, !.target = None]
           = [e EXCEPT !.target = None, !.pic = NoPicture]
      <4>1. e \in EngineRecord
        BY <1>6
      <4> HIDE DEF e
      <4> QED
        BY <4>1 DEF EngineRecord
    <3>2. engines' = [engines EXCEPT ![i] = [e EXCEPT !.pic = NoPicture, !.target = None]]
      BY <1>4
    <3> QED
      BY <3>1, <3>2
  <2>2. PICK q : q = engines' /\ q = [engines EXCEPT ![i].target = None, ![i].pic = NoPicture]
    BY <2>1
  <2>3. i \in DOMAIN engines /\ None \in 0..ids.surface /\ NoPicture \in PictureRecord
    BY <1>5, <1>6, PictureTypes DEF None
  <2>4. /\ SameEngines(q, engines) /\ DOMAIN q = DOMAIN engines
        /\ q[i].pic = NoPicture /\ q[i].dec = engines[i].dec
        /\ \A j \in DOMAIN engines : j # i => q[j] = engines[j]
    BY <2>2, <2>3, Aimed
  <2> QED
    BY <2>2, <2>4
<1>17. SessionCall
  BY <1>1, <1>13, <1>14, <1>15, <1>16 DEF SessionCall, Claims
<1>18. Owners'
  BY <1>15, <1>17, SessionSets DEF Owners
<1>19. RefsOwned'
  BY <1>2, <1>6, <1>10, <1>11, <1>13, <1>14, ClaimsOwned
<1>20. PicturesPlaced'
  BY <1>16, PictureTypes, PicturesStay
<1>21. new => refs[d] = {} \/ KeyFrameEnds(d) \/ ids'.fault > ids.fault
  <2> SUFFICES ASSUME new, refs[d] # {} PROVE KeyFrameEnds(d)
    OBVIOUS
  <2>1. x.started /\ ~x.eos
    BY <1>6 DEF FrontendInv, RefsOwned, x
  <2>2. key
    BY <1>6, <1>9, <2>1 DEF DecWhole
  <2>3. engines[i].dec = d /\ engines[i].pic.key /\ decs[d].frame /\ ~decs'[d].frame
    BY <1>2, <1>11, <1>13, <2>2 DEF x, d
  <2> QED
    BY <1>5, <2>3 DEF KeyFrameEnds
<1>22. RefsStay
  BY <1>2, <1>6, <1>10, <1>14, <1>21, ClaimsStay
<1> QED
  BY <1>17, <1>18, <1>19, <1>20, <1>22, SessionKeeps

(* A session that fails took nothing away, unless a failure is counted.       *)
LEMMA FailureCounted ==
    ASSUME FrontendInv, OnlySessions, NEW d \in Active, IF decs[d].fatal THEN Sound ELSE Fails
    PROVE  (Sound \/ Fails) /\ (refs[d] = {} \/ ids'.fault > ids.fault)
<1>1. d \in DOMAIN refs
  BY EnginesFacts, RefsShape DEF FrontendInv, Placed
<1>2. refs[d] # {} => ~decs[d].fatal
  BY <1>1 DEF FrontendInv, RefsOwned
<1>3. client' = client /\ releaseAu' = releaseAu
  BY DEF OnlySessions, Platform
<1> QED
  BY <1>2, <1>3, Steady

(* The session ends without a new one: it waits at its end, or is closed.     *)
LEMMA SessionLost ==
    ASSUME FrontendInv, OnlySessions, engines' = engines, retired' = retired,
           NEW d \in Active, IF decs[d].fatal THEN Sound ELSE Fails,
           SameOwners(surfs', surfs), NEW y, Rewrites(decs', d, y), refs' = Forgotten({d})
    PROVE  FrontendInv' /\ RefsStay
<1>1. (Sound \/ Fails) /\ (refs[d] = {} \/ ids'.fault > ids.fault)
  BY FailureCounted
<1>2. FrontendInv'
  BY <1>1, SessionEnds
<1>3. DOMAIN refs' = DOMAIN refs /\ \A o \in DOMAIN refs : o # d => refs'[o] = refs[o]
  <2>1. PICK q : q = Forgotten({d})
    OBVIOUS
  <2>2. /\ DOMAIN q = DOMAIN refs
        /\ \A o \in DOMAIN refs : q[o] = IF o \in {d} THEN {} ELSE refs[o]
    BY <2>1, ForgottenShape
  <2> QED
    BY <2>1, <2>2
<1>4. RefsStay
  BY <1>1, <1>3 DEF RefsStay
<1> QED
  BY <1>2, <1>4

(* Where a picture's session stands when it is submitted: where it was, or    *)
(* closed behind a boundary or an end of stream.                              *)
Submitting(d, y) == y \in {decs[d], Reset(decs[d])} /\ ~y.eos

LEMMA SubmittingTyped ==
    ASSUME FrontendInv, NEW d \in Active, NEW y, Submitting(d, y)
    PROVE  /\ y \in DecRecord /\ DecWhole(y) /\ y.profile = decs[d].profile
           /\ y.size = decs[d].size /\ y.cur = decs[d].cur /\ y.last <= ids.surface
           /\ y.cur <= ids.surface /\ y.cur \in Nat /\ y.started \in BOOLEAN
           /\ y.fatal \in BOOLEAN /\ (y = decs[d] \/ ~y.started)
<1> DEFINE x == decs[d]
<1>1. d \in DOMAIN decs /\ SameDecs(decs, decs) /\ ids.surface \in Nat
  BY EnginesFacts, RefsShape DEF FrontendInv, Placed
<1>2. x \in DecRecord /\ x.cur <= ids.surface /\ x.last <= ids.surface /\ DecWhole(x)
  BY <1>1 DEF SameDecs
<1>3. y = x \/ y = Reset(x)
  BY DEF Submitting
<1> HIDE DEF x
<1>4. CASE y = x
  <2>1. y \in DecRecord /\ y.cur <= ids.surface /\ y.last <= ids.surface /\ DecWhole(y)
    BY <1>2, <1>4
  <2>2. y.cur \in Nat /\ y.started \in BOOLEAN /\ y.fatal \in BOOLEAN
    BY <2>1 DEF DecRecord
  <2> QED
    BY <1>4, <2>1, <2>2 DEF x
<1>5. CASE y = Reset(x)
  <2>1. /\ y \in DecRecord /\ y.profile = x.profile /\ y.size = x.size
        /\ y.open = FALSE /\ y.started = FALSE /\ y.eos = FALSE
        /\ y.fatal = FALSE /\ y.last = None /\ y.cur = x.cur
    BY <1>2, <1>5, ResetTyped
  <2>2. DecWhole(y) /\ y.last <= ids.surface
    BY <1>1, <1>2, <2>1 DEF DecWhole, None
  <2>3. y.cur \in Nat
    BY <2>1 DEF DecRecord
  <2> QED
    BY <1>2, <2>1, <2>2, <2>3 DEF x
<1> QED
  BY <1>3, <1>4, <1>5

LEMMA NoneOpened ==
    ASSUME FrontendInv, OnlySessions, engines' = engines, retired' = retired,
           NEW d \in Active, IF decs[d].fatal THEN Sound ELSE Fails,
           NEW y, Submitting(d, y), NEW r, SameOwners(r, surfs), OpenFails(d, y, r)
    PROVE  FrontendInv' /\ RefsStay
<1> DEFINE z == Reset(y)
<1>1. d \in DOMAIN decs /\ ids.surface \in Nat
  BY RefsShape DEF FrontendInv, Placed
<1>2. y \in DecRecord /\ DecWhole(y) /\ y.profile = decs[d].profile /\ y.size = decs[d].size
      /\ y.cur <= ids.surface
  BY SubmittingTyped
<1>3. /\ z \in DecRecord /\ z.profile = y.profile /\ z.size = y.size
      /\ z.open = FALSE /\ z.started = FALSE /\ z.eos = FALSE
      /\ z.fatal = FALSE /\ z.last = None /\ z.cur = y.cur
  BY <1>2, ResetTyped
<1>4. decs' = [decs EXCEPT ![d] = z] /\ refs' = Forgotten({d}) /\ surfs' = r
  BY DEF OpenFails
<1> HIDE DEF z
<1>5. Rewrites(decs', d, z)
  BY <1>1, <1>2, <1>3, <1>4 DEF Rewrites, DecWhole, None
<1> QED
  BY <1>4, <1>5, SessionLost

LEMMA UndrainedSession ==
    ASSUME FrontendInv, OnlySessions, engines' = engines, retired' = retired,
           NEW d \in Active, IF decs[d].fatal THEN Sound ELSE Fails, DrainFails(d)
    PROVE  FrontendInv' /\ RefsStay
<1>1. /\ d \in DOMAIN decs /\ SameDecs(decs, decs) /\ ids.surface \in Nat
      /\ surfs \in Seq(SurfaceRecord) /\ SameOwners(surfs, surfs)
  BY EnginesFacts, RefsShape DEF FrontendInv, Placed
<1> DEFINE x == decs[d]
<1>2. PICK failed \in BOOLEAN :
         decs' = [decs EXCEPT ![d].eos = TRUE, ![d].fatal = @ \/ failed]
  BY DEF DrainFails
<1> DEFINE fatal == x.fatal \/ failed
           y == [x EXCEPT !.eos = TRUE, !.fatal = fatal]
<1>3. decs' = [decs EXCEPT ![d] = y]
  BY <1>2
<1>4. fatal \in BOOLEAN
  BY Zenon
<1>5. x \in DecRecord /\ x.cur <= ids.surface /\ x.last <= ids.surface /\ DecWhole(x) /\ x.started
  BY <1>1 DEF SameDecs, DrainFails
<1> HIDE DEF x, fatal
<1>6. /\ y \in DecRecord /\ y.profile = x.profile /\ y.size = x.size /\ y.cur = x.cur
      /\ y.last = x.last /\ y.started = x.started /\ y.open = x.open
  BY <1>4, <1>5 DEF DecRecord
<1> HIDE DEF y
<1>7. Rewrites(decs', d, y)
  BY <1>1, <1>3, <1>5, <1>6 DEF Rewrites, DecWhole, x
<1>8. SameOwners(surfs', surfs)
  BY <1>1, LandedKin DEF DrainFails
<1> QED
  BY <1>7, <1>8, SessionLost DEF DrainFails

LEMMA UnitRefused ==
    ASSUME FrontendInv, OnlySessions, engines' = engines, retired' = retired,
           NEW d \in Active, IF decs[d].fatal THEN Sound ELSE Fails,
           NEW y, Submitting(d, y), NEW r, SameOwners(r, surfs), UnitFails(d, y, r)
    PROVE  FrontendInv' /\ RefsStay
<1>1. /\ d \in DOMAIN decs /\ SameOwners(surfs, surfs) /\ DOMAIN refs = DOMAIN decs
      /\ refs \in Seq(SUBSET Nat) /\ SameEngines(engines, engines)
      /\ \A o \in DOMAIN refs : refs[o] \subseteq Nat
  BY EnginesFacts, RefsShape DEF FrontendInv, Placed
<1>2. PICK running \in BOOLEAN, failed \in BOOLEAN :
         /\ y.started \/ failed => running
         /\ decs' = [decs EXCEPT ![d] = [y EXCEPT !.open = TRUE, !.started = running,
                                                  !.last = y.cur, !.fatal = @ \/ failed]]
         /\ refs' = [o \in DOMAIN refs |-> IF o = d /\ (failed \/ ~y.started) THEN {}
                                           ELSE refs[o] \ {y.cur}]
  BY DEF UnitFails
<1> DEFINE s == y.cur
           fatal == y.fatal \/ failed
           lost == failed \/ ~y.started
           z == [y EXCEPT !.open = TRUE, !.started = running, !.last = s, !.fatal = fatal]
<1>3. /\ y \in DecRecord /\ DecWhole(y) /\ y.profile = decs[d].profile
      /\ y.size = decs[d].size /\ y.cur = decs[d].cur /\ s <= ids.surface /\ s \in Nat
      /\ y.fatal \in BOOLEAN /\ ~y.eos /\ (y = decs[d] \/ ~y.started)
  BY SubmittingTyped DEF Submitting
<1>4. decs' = [decs EXCEPT ![d] = z] /\ surfs' = Queued(r, d, s)
  BY <1>2 DEF UnitFails
<1>5. fatal \in BOOLEAN /\ lost \in BOOLEAN
  BY Zenon
<1>6. (fatal <=> y.fatal \/ failed) /\ (lost <=> failed \/ ~y.started)
  OBVIOUS
<1>7. refs' = [o \in DOMAIN refs |-> IF o = d /\ lost THEN {} ELSE refs[o] \ {s}]
  BY <1>2
<1> HIDE DEF fatal, lost, s
<1>8. /\ z \in DecRecord /\ z.profile = y.profile /\ z.size = y.size /\ z.cur = y.cur
      /\ z.last = s /\ z.started = running /\ z.eos = y.eos /\ z.fatal = fatal
      /\ z.open = TRUE
  BY <1>3, <1>5 DEF DecRecord
<1> HIDE DEF z
<1>9. Rewrites(decs', d, z)
  BY <1>1, <1>3, <1>4, <1>8 DEF Rewrites, DecWhole, s
<1>10. /\ SameDecs(decs', decs) /\ decs'[d] = z /\ DOMAIN decs' = DOMAIN decs
       /\ \A o \in DOMAIN decs : o # d => decs'[o] = decs[o]
  <2>1. PICK q : q = decs'
    OBVIOUS
  <2>2. /\ SameDecs(q, decs) /\ q[d] = z /\ DOMAIN q = DOMAIN decs
        /\ \A o \in DOMAIN decs : o # d => q[o] = decs[o]
    BY <1>9, <2>1, OneDec
  <2> QED
    BY <2>1, <2>2
<1>11. Claims(refs', d, s, TRUE) /\ \A w \in refs'[d] : w \in refs[d] /\ ~lost
  <2>1. PICK q : q = refs'
    OBVIOUS
  <2>2. /\ q = [o \in DOMAIN refs |-> q[o]]
        /\ \A o \in DOMAIN refs : q[o] = IF o = d /\ lost THEN {} ELSE refs[o] \ {s}
    BY <1>7, <2>1
  <2>3. \A o \in DOMAIN refs : q[o] \subseteq Nat
    BY <1>1, <2>2
  <2>4. q \in Seq(SUBSET Nat) /\ Len(q) = Len(refs) /\ DOMAIN q = DOMAIN refs
    BY <1>1, <2>2, <2>3, RefsRewritten
  <2>5. Claims(q, d, s, TRUE)
    BY <1>1, <2>2, <2>4 DEF Claims
  <2>6. \A w \in q[d] : w \in refs[d] /\ ~lost
    BY <1>1, <2>2
  <2> QED
    BY <2>1, <2>5, <2>6
<1>12. Kin(surfs', surfs) /\ \A f \in Range(surfs') : f.owner \in Active \cup Retired \cup {None}
  <2>1. PICK q : q = surfs'
    OBVIOUS
  <2>2. Kin(q, surfs) /\ \A f \in Range(q) : f.owner \in Active \cup Retired \cup {None}
    BY <1>4, <2>1, Claimed
  <2> QED
    BY <2>1, <2>2
<1>13. SessionCall
  BY <1>1, <1>10, <1>11, <1>12, FailureCounted DEF SessionCall, Claims
<1>14. Owners'
  BY <1>12, <1>13, SessionSets DEF Owners
<1>15. refs'[d] = {} \/ (decs'[d].started /\ ~decs'[d].eos /\ ~decs'[d].fatal)
  <2> SUFFICES ASSUME NEW w \in refs'[d]
               PROVE  decs'[d].started /\ ~decs'[d].eos /\ ~decs'[d].fatal
    OBVIOUS
  <2>1. w \in refs[d] /\ ~failed /\ y.started
    BY <1>6, <1>11
  <2>2. ~decs[d].fatal
    BY <1>1, <2>1 DEF FrontendInv, RefsOwned
  <2> QED
    BY <1>2, <1>3, <1>6, <1>8, <1>10, <2>1, <2>2
<1>16. RefsOwned'
  BY <1>1, <1>4, <1>10, <1>11, <1>15, ClaimsOwned
<1>17. PicturesPlaced'
  BY DEF FrontendInv, PicturesPlaced
<1>18. RefsStay
  BY <1>1, <1>4, <1>11, FailureCounted, ClaimsStay
<1> QED
  BY <1>13, <1>14, <1>16, <1>17, <1>18, SessionKeeps

LEMMA EndPictureFailsKeeps ==
    ASSUME FrontendInv, NEW c, EndPictureFails(c)
    PROVE  FrontendInv' /\ RefsStay
<1> DEFINE i == Place(engines, c)
           d == engines[i].dec
           x == decs[d]
           y(boundary) == IF boundary \/ x.eos THEN Reset(x) ELSE x
           r(boundary) == IF boundary THEN Restarted(surfs, d) ELSE surfs
<1>1. /\ Has(engines, c) /\ engines' = engines /\ retired' = retired /\ OnlySessions
      /\ (IF x.fatal THEN Sound ELSE Fails)
  BY DEF EndPictureFails
<1>2. \/ DrainFails(d)
      \/ \E boundary \in BOOLEAN :
            OpenFails(d, y(boundary), r(boundary)) \/ UnitFails(d, y(boundary), r(boundary))
  BY DEF EndPictureFails
<1>3. /\ d \in Active /\ d \in DOMAIN decs /\ decs \in Seq(DecRecord)
      /\ surfs \in Seq(SurfaceRecord) /\ SameOwners(surfs, surfs)
  BY <1>1, EngineNamed, EnginesFacts, RefsShape
<1>4. x \in DecRecord
  BY <1>3
<1> HIDE DEF d, i
<1>5. ASSUME NEW boundary \in BOOLEAN
      PROVE  Submitting(d, y(boundary)) /\ SameOwners(r(boundary), surfs)
  <2>1. SameOwners(r(boundary), surfs)
    BY <1>3, RestartedKin
  <2>2. x.eos \in BOOLEAN
    <3> HIDE DEF x
    <3> QED
      BY <1>4 DEF DecRecord
  <2>3. ~Reset(x).eos
    BY <1>4, ResetTyped
  <2> QED
    BY <2>1, <2>2, <2>3 DEF Submitting
<1> HIDE DEF y, r
<1> QED
  BY <1>1, <1>2, <1>3, <1>5, NoneOpened, UndrainedSession, UnitRefused DEF x

-----------------------------------------------------------------------------
(* Taking a waiting session over                                              *)

RewritesEntry(q, t, S, i, y) ==
    q = [t EXCEPT ![i] = y] /\ i \in DOMAIN t /\ y \in S /\ y.id = t[i].id

LEMMA EntryRewritten ==
    ASSUME NEW S, NEW t, NEW bound, NEW last, TableOf(t, S, bound, last),
           NEW i, NEW y, NEW q, RewritesEntry(q, t, S, i, y)
    PROVE  /\ TableOf(q, S, bound, last) /\ Len(q) = Len(t) /\ DOMAIN q = DOMAIN t
           /\ q[i] = y /\ \A j \in DOMAIN t : j # i => q[j] = t[j]
<1> USE DEF RewritesEntry
<1>1. /\ t \in Seq(S) /\ IdsApart(t) /\ Len(t) <= bound
      /\ \A j \in DOMAIN t : t[j] \in Range(t)
      /\ \A x \in Range(t) : x.id \in 1..last
  BY TableParts
<1>2. /\ q \in Seq(S) /\ Len(q) = Len(t) /\ DOMAIN q = DOMAIN t
      /\ q[i] = y /\ \A j \in DOMAIN t : j # i => q[j] = t[j]
  BY <1>1
<1>3. \A j \in DOMAIN t : q[j].id = t[j].id
  BY <1>2
<1>4. IdsApart(q)
  BY <1>1, <1>2, <1>3 DEF IdsApart
<1>5. \A x \in Range(q) : x.id \in 1..last
  BY <1>1, <1>2, <1>3 DEF Range
<1> QED
  BY <1>1, <1>2, <1>4, <1>5 DEF TableOf

LEMMA FreedDecs ==
    ASSUME FrontendInv, NEW D
    PROVE  /\ Freed(D) \in Seq(DecRecord) /\ Len(Freed(D)) = Len(decs)
           /\ DOMAIN Freed(D) = DOMAIN decs
           /\ \A o \in DOMAIN decs : Freed(D)[o] = IF o \in D THEN Gone ELSE decs[o]
           /\ Gone \in DecRecord /\ Gone.cur = 0 /\ Gone.last = 0
<1> DEFINE q == Freed(D)
<1>1. Gone \in DecRecord /\ Gone.cur = 0 /\ Gone.last = 0
  BY DEF Gone, FreshDec, DecRecord, None
<1>2. decs \in Seq(DecRecord)
  BY RefsShape
<1>3. /\ q = [o \in DOMAIN decs |-> q[o]]
      /\ \A o \in DOMAIN decs : q[o] = IF o \in D THEN Gone ELSE decs[o]
  BY DEF Freed
<1> HIDE DEF q
<1>4. DOMAIN decs = 1..Len(decs) /\ Len(decs) \in Nat /\ \A o \in DOMAIN decs : q[o] \in DecRecord
  BY <1>1, <1>2, <1>3
<1>5. q \in [1..Len(decs) -> DecRecord]
  BY <1>3, <1>4
<1>6. q \in Seq(DecRecord) /\ Len(q) = Len(decs) /\ DOMAIN q = DOMAIN decs
  BY <1>4, <1>5
<1> QED
  BY <1>1, <1>3, <1>6 DEF q

(* Who owns a surface, by the lookup.                                         *)
LEMMA OwnerIs ==
    ASSUME FrontendInv, NEW o, NEW s, Owns(surfs, o, s)
    PROVE  Owner(surfs, s) = o /\ Has(surfs, s)
<1>1. PICK x \in Range(surfs) : x.id = s /\ x.owner = o
  BY DEF Owns
<1>2. Has(surfs, x.id) /\ Entry(surfs, x.id) = x
  BY RefsShape, LookUp
<1> QED
  BY <1>1, <1>2 DEF Owner

(* The session that holds all references R is the one that owns them.         *)
LEMMA HoldersOwn ==
    ASSUME FrontendInv, NEW h \in DOMAIN decs, NEW R, R # {}, R \subseteq refs[h]
    PROVE  /\ {Owner(surfs, s) : s \in R} = {h}
           /\ decs[h].started /\ ~decs[h].eos /\ ~decs[h].fatal
           /\ \E i \in DOMAIN surfs : surfs[i].owner = h
           /\ h \in Active \cup Retired
<1>1. DOMAIN refs = DOMAIN decs /\ DOMAIN decs = 1..Len(decs) /\ Len(decs) \in Nat
  BY RefsShape
<1>2. \A s \in R : /\ Owns(surfs, h, s)
                   /\ decs[h].started /\ ~decs[h].eos /\ ~decs[h].fatal
  BY <1>1 DEF FrontendInv, RefsOwned
<1>3. \A s \in R : Owner(surfs, s) = h
  BY <1>2, OwnerIs
<1>4. {Owner(surfs, s) : s \in R} = {h}
  BY <1>3
<1>5. PICK s \in R : Owns(surfs, h, s)
  BY <1>2
<1>6. PICK x \in Range(surfs) : x.id = s /\ x.owner = h
  BY <1>5 DEF Owns
<1>7. \E i \in DOMAIN surfs : surfs[i].owner = h
  BY <1>6 DEF Range
<1>8. h \in Active \cup Retired
  BY <1>1, <1>6 DEF FrontendInv, Owners, None
<1> QED
  BY <1>2, <1>4, <1>7, <1>8

(* The one context that owns all references, if it can be reused.             *)
LEMMA PredecessorMeans ==
    ASSUME FrontendInv, NEW d \in DOMAIN decs, NEW R
    PROVE  /\ Predecessor(d, R) # None =>
                 /\ IsVp9(d) /\ ~decs[d].open /\ Fits(d, Predecessor(d, R))
                 /\ {Owner(surfs, s) : s \in R} = {Predecessor(d, R)}
           /\ \A h : IsVp9(d) /\ ~decs[d].open /\ {Owner(surfs, s) : s \in R} = {h} /\ h # None
                     /\ Retain(surfs, h) /\ Fits(d, h) => Predecessor(d, R) = h
<1> DEFINE owners == {Owner(surfs, s) : s \in R}
           P == Predecessor(d, R)
           C == /\ IsVp9(d) /\ ~decs[d].open
                /\ Cardinality(owners) = 1 /\ None \notin owners
                /\ \A o \in owners : Retain(surfs, o) /\ Fits(d, o)
<1>1. P = IF C THEN CHOOSE o \in owners : TRUE ELSE None
  BY DEF Predecessor
<1>2. ASSUME Cardinality(owners) = 1 PROVE \E h : owners = {h}
  <2>1. /\ Active \cup Retired \cup {None} \subseteq 0..Len(decs) /\ Len(decs) \in Nat
        /\ surfs \in Seq(SurfaceRecord) /\ IdsApart(surfs) /\ Owners
    <3>1. Active \cup Retired \subseteq DOMAIN decs /\ decs \in Seq(DecRecord)
      BY RefsShape DEF FrontendInv, Placed
    <3> QED
      BY <3>1, RefsShape DEF FrontendInv, None
  <2>2. ASSUME NEW s PROVE Owner(surfs, s) \in 0..Len(decs)
    <3>1. CASE Has(surfs, s)
      <4>1. Entry(surfs, s) \in Range(surfs)
        BY <2>1, <3>1, Found
      <4> QED
        BY <2>1, <3>1, <4>1 DEF Owner, Owners
    <3>2. CASE ~Has(surfs, s)
      BY <2>1, <3>2 DEF Owner
    <3> QED
      BY <3>1, <3>2
  <2>3. owners \subseteq 0..Len(decs)
    BY <2>2
  <2> HIDE DEF owners
  <2>4. IsFiniteSet(owners)
    <3>1. owners \in SUBSET Nat /\ \A o \in owners : o <= Len(decs)
      BY <2>1, <2>3
    <3> QED
      BY <2>1, <3>1, FS_BoundedSetOfNaturals
  <2> QED
    BY <1>2, <2>4, FS_Singleton
<1> HIDE DEF owners, P
<1>3. ASSUME NEW h, owners = {h} PROVE Cardinality(owners) = 1 /\ (CHOOSE o \in owners : TRUE) = h
  BY <1>3, FS_Singleton
<1>4. ASSUME P # None
      PROVE  IsVp9(d) /\ ~decs[d].open /\ Fits(d, P) /\ owners = {P}
  <2>1. C /\ P = CHOOSE o \in owners : TRUE
    BY <1>1, <1>4
  <2>2. PICK h : owners = {h}
    BY <1>2, <2>1
  <2>3. P = h
    BY <1>3, <2>1, <2>2
  <2> QED
    BY <2>1, <2>2, <2>3
<1>5. ASSUME NEW h, IsVp9(d), ~decs[d].open, owners = {h}, h # None,
             Retain(surfs, h), Fits(d, h)
      PROVE  P = h
  <2>1. Cardinality(owners) = 1 /\ (CHOOSE o \in owners : TRUE) = h
    BY <1>3, <1>5
  <2>2. C
    BY <1>5, <2>1
  <2> QED
    BY <1>1, <2>1, <2>2
<1> QED
  BY <1>4, <1>5 DEF owners, P

(* The context that would replace d's.                                        *)
Successor(d, R) == IF R = {} THEN None ELSE Predecessor(d, R)

(* A picture whose references a waiting or its own session holds is drawn by  *)
(* that session, whether or not the code takes the waiting one over.          *)
LEMMA HolderDraws ==
    ASSUME FrontendInv, NEW d \in Active, NEW R, NEW h, h = HolderOf(d, R),
           NEW o, o = Successor(d, R)
    PROVE  /\ h \in Nat
           /\ h # None /\ o \in Retired => h = o
           /\ h # None /\ o \notin Retired => h = d
           /\ o \in Retired => /\ ~decs[d].open /\ Fits(d, o) /\ o # None /\ o \in DOMAIN decs
                               /\ o # d
<1> DEFINE H == {p \in DOMAIN decs \ (Active \ {d}) :
                   R # {} /\ R \subseteq refs[p] /\ (p = d \/ (~decs[d].open /\ Fits(d, p)))}
<1>1. h = IF H = {} THEN None ELSE CHOOSE p \in H : TRUE
  BY DEF HolderOf
<1>2. /\ d \in DOMAIN decs /\ Retired \subseteq DOMAIN decs /\ Active \cap Retired = {}
      /\ \A p \in Retired : IsVp9(p)
  BY DEF FrontendInv, Placed
<1>3. \A p \in DOMAIN decs : p \in Nat /\ p # None
  BY RefsShape DEF None
<1>4. h # None => h \in H
  <2> HIDE DEF H
  <2> QED
    BY <1>1
<1>5. h \in Nat
  BY <1>3, <1>4 DEF None
<1>6. ASSUME o \in Retired
      PROVE  /\ ~decs[d].open /\ Fits(d, o) /\ o # None /\ o \in DOMAIN decs /\ o # d
             /\ R # {} /\ {Owner(surfs, s) : s \in R} = {o}
  <2>1. o # None /\ o \in DOMAIN decs /\ o # d
    BY <1>2, <1>3, <1>6
  <2>2. R # {} /\ o = Predecessor(d, R)
    BY <2>1 DEF Successor
  <2>3. /\ Predecessor(d, R) # None =>
             /\ ~decs[d].open /\ Fits(d, Predecessor(d, R))
             /\ {Owner(surfs, s) : s \in R} = {Predecessor(d, R)}
    BY <1>2, PredecessorMeans
  <2> QED
    BY <2>1, <2>2, <2>3
<1>7. ASSUME h # None
      PROVE  /\ h \in DOMAIN decs /\ h \notin Active \ {d} /\ R # {}
             /\ h = d \/ (~decs[d].open /\ Fits(d, h))
             /\ {Owner(surfs, s) : s \in R} = {h}
             /\ decs[h].started /\ ~decs[h].eos /\ ~decs[h].fatal
             /\ \E i \in DOMAIN surfs : surfs[i].owner = h
             /\ h \in Active \cup Retired
  <2>1. h \in H
    BY <1>4, <1>7
  <2>2. h \in DOMAIN decs /\ R # {} /\ R \subseteq refs[h]
    BY <2>1
  <2>3. /\ {Owner(surfs, s) : s \in R} = {h}
        /\ decs[h].started /\ ~decs[h].eos /\ ~decs[h].fatal
        /\ \E i \in DOMAIN surfs : surfs[i].owner = h
        /\ h \in Active \cup Retired
    BY <2>2, HoldersOwn
  <2> QED
    BY <2>1, <2>3
<1> HIDE DEF H
<1>8. ASSUME h # None, o \in Retired PROVE h = o
  BY <1>6, <1>7, <1>8
<1>9. ASSUME h # None, o \notin Retired, h # d PROVE FALSE
  <2>1. h \in Retired /\ ~decs[d].open /\ Fits(d, h) /\ R # {}
    BY <1>7, <1>9
  <2>2. IsVp9(h) /\ IsVp9(d)
    BY <1>2, <2>1 DEF Fits, IsVp9
  <2>3. Retain(surfs, h)
    BY <1>7, <1>9, <2>2 DEF Retain
  <2>4. /\ IsVp9(d) /\ ~decs[d].open /\ {Owner(surfs, s) : s \in R} = {h} /\ h # None
        /\ Retain(surfs, h) /\ Fits(d, h)
    BY <1>7, <1>9, <2>1, <2>2, <2>3
  <2>5. Predecessor(d, R) = h
    BY <1>2, <2>4, PredecessorMeans
  <2> QED
    BY <1>9, <2>1, <2>5 DEF Successor
<1> QED
  BY <1>5, <1>6, <1>8, <1>9

(* The picture is drawn in the context it was begun in.                       *)
LEMMA ParametersStay ==
    ASSUME FrontendInv, Sound, OnlySessions, retired' = retired, decs' = decs,
           surfs' = surfs, refs' = refs, NEW i \in DOMAIN engines, NEW pic \in PictureRecord,
           pic.from = None \/ pic.from = engines[i].dec,
           engines' = [engines EXCEPT ![i].pic = pic]
    PROVE  FrontendInv' /\ RefsStay
<1> DEFINE x == engines[i]
           e == [x EXCEPT !.pic = pic]
<1>1. /\ engines \in Seq(EngineRecord) /\ SameEngines(engines, engines) /\ x \in EngineRecord
      /\ SameDecs(decs, decs) /\ SameOwners(surfs, surfs) /\ Kin(surfs, surfs)
      /\ refs \in Seq(SUBSET Nat)
  BY EnginesFacts, RefsShape
<1>2. x.target <= ids.surface
  BY <1>1 DEF SameEngines
<1>3. engines' = [engines EXCEPT ![i] = e]
  OBVIOUS
<1> HIDE DEF x
<1>4. e \in EngineRecord /\ e.id = x.id /\ e.dec = x.dec /\ e.target = x.target /\ e.pic = pic
  BY <1>1 DEF EngineRecord
<1> HIDE DEF e
<1>5. SameEngines(engines', engines)
  <2>1. e \in EngineRecord /\ e.id = engines[i].id /\ e.dec = engines[i].dec /\ e.target <= ids.surface
    BY <1>2, <1>4 DEF x
  <2>2. SameEngines([engines EXCEPT ![i] = e], engines)
    BY <2>1, OneEngine
  <2> QED
    BY <1>3, <2>2
<1>6. SessionCall
  BY <1>1, <1>5 DEF SessionCall
<1>7. Owners'
  BY <1>1, <1>6, OwnersKept
<1>8. RefsOwned'
  BY DEF FrontendInv, RefsOwned
<1>9. PicturesPlaced'
  <2>1. DOMAIN engines' = DOMAIN engines
    BY <1>6, SessionSets
  <2>2. \A j \in DOMAIN engines : /\ engines'[j].dec = engines[j].dec
                                  /\ \/ engines'[j].pic = engines[j].pic
                                     \/ engines'[j].pic.from = None
                                     \/ engines'[j].pic.from = engines[j].dec
    BY <1>1, <1>3, <1>4 DEF x
  <2> QED
    BY <2>1, <2>2, PicturesStay
<1>10. RefsStay
  BY DEF RefsStay
<1> QED
  BY <1>6, <1>7, <1>8, <1>9, <1>10, SessionKeeps

LEMMA RetiredRange ==
    ASSUME FrontendInv
    PROVE  /\ retired \in Seq(Nat) /\ Once(retired) /\ Range(retired) = Retired
           /\ Len(retired) \in Nat /\ DOMAIN retired = 1..Len(retired)
<1>1. retired \in Seq(Nat) /\ Once(retired)
  BY DEF FrontendInv, Placed
<1> QED
  BY <1>1 DEF Range, Retired

LEMMA UnretiredIs ==
    ASSUME FrontendInv, NEW o \in Retired
    PROVE  /\ Unretired(o) \in Seq(Nat) /\ Once(Unretired(o))
           /\ Len(Unretired(o)) = Len(retired) - 1
           /\ Range(Unretired(o)) = Retired \ {o}
<1> DEFINE j == CHOOSE k \in DOMAIN retired : retired[k] = o
<1>1. \E k \in DOMAIN retired : retired[k] = o
  BY DEF Retired
<1>2. j \in DOMAIN retired /\ retired[j] = o
  BY <1>1
<1>3. Unretired(o) = Drop(retired, j)
  BY DEF Unretired
<1> HIDE DEF j
<1>4. /\ Drop(retired, j) \in Seq(Nat) /\ Len(Drop(retired, j)) = Len(retired) - 1
      /\ Once(Drop(retired, j)) /\ Range(Drop(retired, j)) = Range(retired) \ {retired[j]}
  BY <1>2, RetiredRange, DropRemoves
<1> QED
  BY <1>2, <1>3, <1>4, RetiredRange

LEMMA BegunTyped ==
    ASSUME NEW x \in DecRecord, NEW s \in Nat
    PROVE  /\ Begun(x, s) \in DecRecord /\ Begun(x, s).profile = x.profile
           /\ Begun(x, s).size = x.size /\ Begun(x, s).open = x.open
           /\ Begun(x, s).started = x.started /\ Begun(x, s).eos = x.eos
           /\ Begun(x, s).fatal = x.fatal /\ Begun(x, s).cur = s /\ Begun(x, s).last = x.last
<1> DEFINE y == [x EXCEPT !.cur = s, !.frame = FALSE]
<1>1. /\ y \in DecRecord /\ y.profile = x.profile /\ y.size = x.size /\ y.open = x.open
      /\ y.started = x.started /\ y.eos = x.eos /\ y.fatal = x.fatal /\ y.cur = s /\ y.last = x.last
  BY DEF DecRecord
<1> QED
  BY <1>1, Zenon DEF Begun

(* Nothing but the next target of a session changed.                          *)
Alike(x, y) ==
    /\ x.profile = y.profile /\ x.size = y.size /\ x.open = y.open /\ x.started = y.started
    /\ x.eos = y.eos /\ x.fatal = y.fatal

(* Session d is freed, session o may aim at another surface.                  *)
Clears(q, d, o, s) ==
    /\ d \in DOMAIN decs /\ o \in DOMAIN decs /\ o # d /\ s \in Nat /\ s <= ids.surface
    /\ q = Freed({d}) \/ q = [Freed({d}) EXCEPT ![o] = Begun(@, s)]

LEMMA TakenDecs ==
    ASSUME FrontendInv, NEW d, NEW o, NEW s, NEW q, Clears(q, d, o, s)
    PROVE  /\ q \in Seq(DecRecord) /\ Len(q) = Len(decs) /\ DOMAIN q = DOMAIN decs
           /\ q[d] = Gone
           /\ \A p \in DOMAIN decs : p # d => Alike(q[p], decs[p])
           /\ \A p \in DOMAIN decs : q[p].cur <= ids.surface /\ q[p].last <= ids.surface
           /\ \A p \in DOMAIN decs : p # d /\ p # o => q[p] = decs[p]
<1> USE DEF Clears
<1> DEFINE f == Freed({d})
           y == Begun(decs[o], s)
<1>1. /\ f \in Seq(DecRecord) /\ Len(f) = Len(decs) /\ DOMAIN f = DOMAIN decs
      /\ \A p \in DOMAIN decs : f[p] = IF p \in {d} THEN Gone ELSE decs[p]
      /\ Gone \in DecRecord /\ Gone.cur = 0 /\ Gone.last = 0
  BY FreedDecs
<1> HIDE DEF f
<1>2. /\ ids.surface \in Nat /\ decs \in Seq(DecRecord)
      /\ \A p \in DOMAIN decs : decs[p].cur <= ids.surface /\ decs[p].last <= ids.surface
  BY RefsShape DEF FrontendInv, DecsSound
<1>3. /\ y \in DecRecord /\ Alike(y, decs[o]) /\ y.cur = s /\ y.last = decs[o].last
  <2>1. decs[o] \in DecRecord
    BY <1>2
  <2> QED
    BY <2>1, BegunTyped DEF Alike
<1>4. \A p \in DOMAIN decs : Alike(decs[p], decs[p])
  BY DEF Alike
<1>5. CASE q = f
  BY <1>1, <1>2, <1>4, <1>5
<1>6. CASE q = [f EXCEPT ![o] = Begun(@, s)]
  <2>1. q = [f EXCEPT ![o] = y]
    BY <1>1, <1>6
  <2> HIDE DEF y
  <2>2. /\ q \in Seq(DecRecord) /\ Len(q) = Len(decs) /\ DOMAIN q = DOMAIN decs
        /\ q[o] = y /\ \A p \in DOMAIN decs : p # o => q[p] = f[p]
    BY <1>1, <1>3, <2>1
  <2>3. q[d] = Gone
    BY <1>1, <2>2
  <2>4. \A p \in DOMAIN decs : p # d /\ p # o => q[p] = decs[p]
    BY <1>1, <2>2
  <2>5. \A p \in DOMAIN decs : p # d => Alike(q[p], decs[p])
    BY <1>3, <1>4, <2>2, <2>4
  <2>6. \A p \in DOMAIN decs : q[p].cur <= ids.surface /\ q[p].last <= ids.surface
    BY <1>1, <1>2, <1>3, <2>2, <2>3, <2>4
  <2> QED
    BY <2>2, <2>3, <2>4, <2>5, <2>6
<1> QED
  BY <1>5, <1>6 DEF f

(* d's surfaces lose their owner, then s may be claimed for a new picture.    *)
LEMMA TakenSurfs ==
    ASSUME FrontendInv, NEW D, NEW s, NEW q,
           q = Destroyed(surfs, D) \/ q = Pending(Destroyed(surfs, D), s)
    PROVE  /\ Kin(q, surfs)
           /\ \A x \in Range(q) : x.owner \in ((Active \cup Retired) \ D) \cup {None}
           /\ \A p, z : Owns(surfs, p, z) /\ p \notin D => Owns(q, p, z)
<1> DEFINE r == Destroyed(surfs, D)
<1>1. surfs \in Seq(SurfaceRecord) /\ Owners
  BY RefsShape DEF FrontendInv
<1>2. /\ Kin(r, surfs)
      /\ \A x \in Range(r) :
            \E y \in Range(surfs) : /\ y.id = x.id
                                    /\ IF y.owner \in D THEN x.owner = None ELSE x.owner = y.owner
      /\ \A p, z : Owns(surfs, p, z) /\ p \notin D => Owns(r, p, z)
  BY <1>1, DestroyedKin
<1> HIDE DEF r
<1>3. r \in Seq(SurfaceRecord)
  BY <1>2 DEF Kin
<1>4. SameOwners(q, r)
  <2>1. SameOwners(r, r)
    BY <1>3 DEF SameOwners, Kin
  <2>2. SameOwners(Pending(r, s), r)
    BY <1>3, PendingKin
  <2> QED
    BY <2>1, <2>2 DEF r
<1>5. /\ Kin(q, r)
      /\ \A p, z : Owns(q, p, z) <=> Owns(r, p, z)
      /\ \A x \in Range(q) : \E y \in Range(r) : y.id = x.id /\ y.owner = x.owner
  BY <1>3, <1>4, SameOwnersMeans
<1>6. Kin(q, surfs)
  BY <1>1, <1>2, <1>3, <1>5 DEF Kin
<1>7. \A x \in Range(r) : x.owner \in ((Active \cup Retired) \ D) \cup {None}
  BY <1>1, <1>2 DEF Owners
<1> QED
  BY <1>2, <1>5, <1>6, <1>7

(* A call that only moves or rewrites contexts leaves the tables of objects,  *)
(* the surfaces' ids and what the other handles name alone.                   *)
LEMMA Aside ==
    ASSUME FrontendInv, UNCHANGED tables, ids'.config = ids.config,
           ids'.surface = ids.surface, ids'.buffer = ids.buffer, Kin(surfs', surfs)
    PROVE  /\ Tables' /\ ObjectsApart' /\ Surfaces' /\ Mappings'
           /\ \A h \in held : h.kind # "context" => Names(h)'
<1>1. Tables /\ ObjectsApart /\ Surfaces /\ Mappings /\ Handles
  BY DEF FrontendInv
<1>2. configs' = configs /\ bufs' = bufs /\ imgs' = imgs /\ derived' = derived
  BY DEF tables
<1>3. Tables' /\ ObjectsApart'
  BY <1>1, <1>2 DEF Tables, ObjectsApart
<1>4. /\ TableOf(surfs', SurfaceRecord, MaxSurfaces, ids.surface)
      /\ \A s : (\E x \in Range(surfs') : x.id = s) <=> (\E x \in Range(surfs) : x.id = s)
  <2>1. TableOf(surfs, SurfaceRecord, MaxSurfaces, ids.surface)
    BY <1>1 DEF Surfaces
  <2> QED
    BY <2>1, KinTable
<1>5. Surfaces'
  BY <1>4 DEF Surfaces
<1>6. Mappings'
  BY <1>1, <1>2, <1>4 DEF Mappings
<1>7. ASSUME NEW h \in held, h.kind # "context" PROVE Names(h)'
  <2>1. Names(h)
    BY <1>1 DEF Handles
  <2> QED
    BY <1>2, <1>4, <1>7, <2>1 DEF Names
<1> QED
  BY <1>3, <1>5, <1>6, <1>7

(* The VA context in place i is given o's session instead of its own.         *)
Redirects(q, i, o, pic) ==
    /\ i \in DOMAIN engines /\ o \in Retired /\ pic \in PictureRecord
    /\ q = [engines EXCEPT ![i].dec = o, ![i].pic = pic]

LEMMA TakenEngines ==
    ASSUME FrontendInv, NEW i, NEW o, NEW pic, NEW q, Redirects(q, i, o, pic)
    PROVE  /\ TableOf(q, EngineRecord, MaxEngines, ids.context)
           /\ DOMAIN q = DOMAIN engines
           /\ \A j \in DOMAIN engines : q[j].id = engines[j].id
           /\ q[i].dec = o /\ q[i].pic = pic /\ q[i].target = engines[i].target
           /\ \A j \in DOMAIN engines : j # i => q[j] = engines[j]
<1> USE DEF Redirects
<1> DEFINE x == engines[i]
           e == [x EXCEPT !.dec = o, !.pic = pic]
<1>1. x \in EngineRecord /\ o \in Nat
  BY EnginesFacts, RetiredRange DEF Retired
<1>2. q = [engines EXCEPT ![i] = e]
  OBVIOUS
<1>3. TableOf(engines, EngineRecord, MaxEngines, ids.context)
  BY DEF FrontendInv, Engines
<1> HIDE DEF x
<1>4. e \in EngineRecord /\ e.id = x.id /\ e.dec = o /\ e.target = x.target /\ e.pic = pic
  BY <1>1 DEF EngineRecord
<1> HIDE DEF e
<1>5. e.id = engines[i].id
  BY <1>4 DEF x
<1>6. /\ TableOf(q, EngineRecord, MaxEngines, ids.context) /\ DOMAIN q = DOMAIN engines
      /\ q[i] = e /\ \A j \in DOMAIN engines : j # i => q[j] = engines[j]
  <2>1. /\ TableOf(engines, EngineRecord, MaxEngines, ids.context)
        /\ RewritesEntry(q, engines, EngineRecord, i, e)
    BY <1>2, <1>3, <1>4, <1>5 DEF RewritesEntry
  <2> QED
    BY <2>1, EntryRewritten
<1> QED
  BY <1>4, <1>6 DEF x

LEMMA TakenOver ==
    ASSUME FrontendInv, Sound, OnlySessions, NEW i \in DOMAIN engines, NEW o \in Retired,
           NEW pic \in PictureRecord, NEW d, d = engines[i].dec, NEW s, s = engines[i].target,
           ~decs[d].open, Fits(d, o), pic.from = None \/ pic.from = o,
           engines' = [engines EXCEPT ![i].dec = o, ![i].pic = pic],
           retired' = Unretired(o), refs' = Forgotten({d}),
           decs' = Freed({d}) \/ decs' = [Freed({d}) EXCEPT ![o] = Begun(@, s)],
           surfs' = Destroyed(surfs, {d}) \/ surfs' = Pending(Destroyed(surfs, {d}), s)
    PROVE  FrontendInv' /\ RefsStay
<1>1. /\ client' = client /\ releaseAu' = releaseAu /\ held' = held /\ UNCHANGED tables
      /\ ids' = ids
  BY DEF OnlySessions, Platform, Sound
<1>2. /\ Placed /\ DecsSound /\ Counted /\ Engines /\ Handles
      /\ Active \cap Retired = {} /\ Active \cup Retired \subseteq DOMAIN decs
  BY DEF FrontendInv, Placed
<1>3. /\ d \in Active /\ d \in DOMAIN decs /\ d \notin Retired /\ o \in DOMAIN decs /\ o \notin Active
      /\ o # d /\ engines[i] \in Range(engines) /\ engines[i] \in EngineRecord
      /\ s \in Nat /\ s <= ids.surface
  <2>1. d \in Active /\ engines[i] \in Range(engines) /\ engines[i] \in EngineRecord
    BY EnginesFacts
  <2>2. s \in Nat /\ s <= ids.surface
    BY <1>2, <2>1 DEF Placed, EngineRecord
  <2> QED
    BY <1>2, <2>1, <2>2
<1>4. /\ TableOf(engines', EngineRecord, MaxEngines, ids.context)
      /\ DOMAIN engines' = DOMAIN engines
      /\ \A j \in DOMAIN engines : engines'[j].id = engines[j].id
      /\ engines'[i].dec = o /\ engines'[i].pic = pic /\ engines'[i].target = engines[i].target
      /\ \A j \in DOMAIN engines : j # i => engines'[j] = engines[j]
  <2>1. PICK q : q = engines' /\ q = [engines EXCEPT ![i].dec = o, ![i].pic = pic]
    OBVIOUS
  <2>2. /\ TableOf(q, EngineRecord, MaxEngines, ids.context)
        /\ DOMAIN q = DOMAIN engines
        /\ \A j \in DOMAIN engines : q[j].id = engines[j].id
        /\ q[i].dec = o /\ q[i].pic = pic /\ q[i].target = engines[i].target
        /\ \A j \in DOMAIN engines : j # i => q[j] = engines[j]
    <3>1. Redirects(q, i, o, pic)
      BY <2>1 DEF Redirects
    <3> QED
      BY <3>1, TakenEngines
  <2> QED
    BY <2>1, <2>2
<1>5. /\ decs' \in Seq(DecRecord) /\ Len(decs') = Len(decs) /\ DOMAIN decs' = DOMAIN decs
      /\ decs'[d] = Gone
      /\ \A p \in DOMAIN decs : p # d => Alike(decs'[p], decs[p])
      /\ \A p \in DOMAIN decs : decs'[p].cur <= ids.surface /\ decs'[p].last <= ids.surface
      /\ \A p \in DOMAIN decs : p # d /\ p # o => decs'[p] = decs[p]
  <2>1. PICK q : q = decs' /\ (q = Freed({d}) \/ q = [Freed({d}) EXCEPT ![o] = Begun(@, s)])
    OBVIOUS
  <2>2. /\ q \in Seq(DecRecord) /\ Len(q) = Len(decs) /\ DOMAIN q = DOMAIN decs
        /\ q[d] = Gone
        /\ \A p \in DOMAIN decs : p # d => Alike(q[p], decs[p])
        /\ \A p \in DOMAIN decs : q[p].cur <= ids.surface /\ q[p].last <= ids.surface
        /\ \A p \in DOMAIN decs : p # d /\ p # o => q[p] = decs[p]
    <3>1. Clears(q, d, o, s)
      BY <1>3, <2>1 DEF Clears
    <3> QED
      BY <3>1, TakenDecs
  <2> QED
    BY <2>1, <2>2
<1>6. /\ Kin(surfs', surfs)
      /\ \A x \in Range(surfs') : x.owner \in ((Active \cup Retired) \ {d}) \cup {None}
      /\ \A p, z : Owns(surfs, p, z) /\ p # d => Owns(surfs', p, z)
  <2>1. PICK q : q = surfs' /\ (q = Destroyed(surfs, {d}) \/ q = Pending(Destroyed(surfs, {d}), s))
    OBVIOUS
  <2>2. /\ Kin(q, surfs)
        /\ \A x \in Range(q) : x.owner \in ((Active \cup Retired) \ {d}) \cup {None}
        /\ \A p, z : Owns(surfs, p, z) /\ p \notin {d} => Owns(q, p, z)
    BY <2>1, TakenSurfs
  <2> QED
    BY <2>1, <2>2
<1>7. /\ refs' \in Seq(SUBSET Nat) /\ Len(refs') = Len(refs) /\ DOMAIN refs' = DOMAIN refs
      /\ \A p \in DOMAIN refs : refs'[p] = IF p = d THEN {} ELSE refs[p]
  <2>1. PICK q : q = Forgotten({d})
    OBVIOUS
  <2>2. /\ q \in Seq(SUBSET Nat) /\ Len(q) = Len(refs) /\ DOMAIN q = DOMAIN refs
        /\ \A p \in DOMAIN refs : q[p] = IF p \in {d} THEN {} ELSE refs[p]
    BY <2>1, ForgottenShape
  <2> QED
    BY <2>1, <2>2
<1>8. /\ retired' \in Seq(Nat) /\ Once(retired') /\ Retired' = Retired \ {o}
      /\ Len(retired') <= MaxEngines
  <2>1. PICK q : q = retired' /\ q = Unretired(o)
    OBVIOUS
  <2>2. q \in Seq(Nat) /\ Once(q) /\ Len(q) = Len(retired) - 1 /\ Range(q) = Retired \ {o}
    BY <2>1, UnretiredIs
  <2>3. Len(retired) <= MaxEngines /\ Len(retired) \in Nat /\ MaxEngines \in Nat
    BY <1>2, RetiredRange, Bounds DEF Placed
  <2>4. Range(q) = {q[k] : k \in DOMAIN q}
    BY DEF Range
  <2>5. Retired' = {retired'[k] : k \in DOMAIN retired'}
    BY DEF Retired
  <2> QED
    BY <2>1, <2>2, <2>3, <2>4, <2>5
<1>9. Active' = (Active \ {d}) \cup {o}
  <2>1. \A j \in DOMAIN engines : engines[j].dec = d => j = i
    <3> SUFFICES ASSUME NEW j \in DOMAIN engines, engines[j].dec = d PROVE j = i
      OBVIOUS
    <3>1. engines[j] \in Range(engines) /\ engines[i] \in Range(engines)
      BY EnginesFacts
    <3>2. engines[j] = engines[i]
      BY <1>2, <3>1 DEF Placed
    <3> QED
      BY <3>2, EnginesFacts DEF IdsApart
  <2>2. \A j \in DOMAIN engines : engines'[j].dec = IF j = i THEN o ELSE engines[j].dec
    BY <1>4
  <2> QED
    BY <1>3, <1>4, <2>1, <2>2 DEF Active
<1>10. Active' \cup Retired' = (Active \cup Retired) \ {d}
  BY <1>3, <1>8, <1>9
<1>11. /\ Tables' /\ ObjectsApart' /\ Surfaces' /\ Mappings'
       /\ \A h \in held : h.kind # "context" => Names(h)'
  BY <1>1, <1>6, Aside
<1>12. Engines' /\ Counted'
  BY <1>1, <1>2, <1>4 DEF Engines, Counted
<1>13. Handles'
  <2> SUFFICES ASSUME NEW h \in held, h.kind = "context" PROVE Names(h)'
    BY <1>1, <1>11 DEF Handles
  <2>1. PICK x \in Range(engines) : x.id = h.id /\ decs[x.dec].profile = h.what
    BY <1>2 DEF Handles, Names
  <2>2. PICK j \in DOMAIN engines : engines[j] = x
    BY <2>1 DEF Range
  <2>3. engines'[j] \in Range(engines') /\ engines'[j].id = h.id
    BY <1>4, <2>1, <2>2 DEF Range
  <2>4. decs'[engines'[j].dec].profile = h.what
    <3>1. CASE j = i
      BY <1>3, <1>4, <1>5, <2>1, <2>2, <3>1 DEF Alike, Fits
    <3>2. CASE j # i
      <4>1. engines'[j] = engines[j] /\ engines[j].dec \in DOMAIN decs
        BY <1>4, <3>2, EnginesFacts
      <4>2. engines[j].dec # d
        <5>1. engines[j] \in Range(engines)
          BY EnginesFacts
        <5>2. engines[j] = engines[i] => j = i
          BY EnginesFacts DEF IdsApart
        <5> QED
          BY <1>2, <1>3, <3>2, <5>1, <5>2 DEF Placed
      <4> QED
        BY <1>5, <2>1, <2>2, <4>1, <4>2 DEF Alike
    <3> QED
      BY <3>1, <3>2
  <2> QED
    BY <2>3, <2>4 DEF Names
<1>14. DecsSound'
  <2>1. \A p \in DOMAIN decs :
           IF p \in Active' \cup Retired' THEN DecWhole(decs'[p]) ELSE decs'[p] = Gone
    <3> SUFFICES ASSUME NEW p \in DOMAIN decs
                 PROVE  IF p \in Active' \cup Retired' THEN DecWhole(decs'[p]) ELSE decs'[p] = Gone
      OBVIOUS
    <3>1. CASE p = d
      BY <1>5, <1>10, <3>1
    <3>2. CASE p # d
      <4>1. IF p \in Active \cup Retired THEN DecWhole(decs[p]) ELSE decs[p] = Gone
        BY <1>2 DEF DecsSound
      <4>2. DecWhole(decs[p]) => DecWhole(decs'[p])
        BY <1>5, <3>2 DEF Alike, DecWhole
      <4>3. p \notin Active \cup Retired => p # o
        OBVIOUS
      <4> QED
        BY <1>5, <1>10, <3>2, <4>1, <4>2, <4>3
    <3> QED
      BY <3>1, <3>2
  <2>2. Len(refs') = Len(decs')
    BY <1>2, <1>5, <1>7 DEF DecsSound
  <2> QED
    BY <1>1, <1>5, <1>7, <2>1, <2>2 DEF DecsSound
<1>15. Placed'
  <2>1. \A e, f \in Range(engines') : e.dec = f.dec => e = f
    <3> SUFFICES ASSUME NEW j \in DOMAIN engines, NEW k \in DOMAIN engines,
                        engines'[j].dec = engines'[k].dec
                 PROVE  j = k
      BY <1>4 DEF Range
    <3>1. ASSUME NEW m \in DOMAIN engines, m # i PROVE engines'[m].dec # o /\ engines'[m] = engines[m]
      BY <1>3, <1>4, <3>1 DEF Active
    <3>2. CASE j # i /\ k # i
      <4>1. engines[j] \in Range(engines) /\ engines[k] \in Range(engines)
            /\ engines[j].dec = engines[k].dec
        BY <3>1, <3>2, EnginesFacts
      <4>2. engines[j] = engines[k]
        BY <1>2, <4>1 DEF Placed
      <4> QED
        BY <4>2, EnginesFacts DEF IdsApart
    <3> QED
      BY <1>4, <3>1, <3>2
  <2>2. \A e \in Range(engines') : e.target <= ids.surface
    <3>1. \A j \in DOMAIN engines : engines[j].target <= ids.surface
      BY <1>2, EnginesFacts DEF Placed
    <3>2. \A j \in DOMAIN engines : engines'[j].target = engines[j].target
      BY <1>4
    <3> QED
      BY <1>4, <3>1, <3>2 DEF Range
  <2>3. \A p \in Retired' : IsVp9(p)'
    <3> SUFFICES ASSUME NEW p \in Retired, p # o PROVE IsVp9(p)'
      BY <1>8
    <3>1. IsVp9(p) /\ p \in DOMAIN decs /\ p # d
      BY <1>2, <1>3 DEF Placed
    <3> QED
      BY <1>5, <3>1 DEF Alike, IsVp9
  <2>4. Active' \cap Retired' = {} /\ Active' \cup Retired' \subseteq DOMAIN decs'
    BY <1>2, <1>5, <1>8, <1>9, <1>10
  <2> QED
    BY <1>1, <1>8, <2>1, <2>2, <2>3, <2>4 DEF Placed
<1>16. Owners'
  BY <1>6, <1>10 DEF Owners
<1>17. RefsOwned'
  <2> SUFFICES ASSUME NEW p \in DOMAIN refs, NEW z \in refs'[p]
               PROVE  /\ Owns(surfs', p, z)
                      /\ decs'[p].started /\ ~decs'[p].eos /\ ~decs'[p].fatal
    BY <1>7 DEF RefsOwned
  <2>1. p # d /\ z \in refs[p] /\ p \in DOMAIN decs
    BY <1>7, RefsShape
  <2>2. Owns(surfs, p, z) /\ decs[p].started /\ ~decs[p].eos /\ ~decs[p].fatal
    BY <2>1 DEF FrontendInv, RefsOwned
  <2> QED
    BY <1>5, <1>6, <2>1, <2>2 DEF Alike
<1>18. PicturesPlaced'
  <2>1. \A j \in DOMAIN engines : engines[j].pic.from # None => engines[j].dec = engines[j].pic.from
    BY EnginesFacts DEF FrontendInv, PicturesPlaced
  <2>2. \A j \in DOMAIN engines : engines'[j].pic.from # None => engines'[j].dec = engines'[j].pic.from
    BY <1>4, <2>1
  <2> QED
    BY <1>4, <2>2 DEF PicturesPlaced, Range
<1>19. RefsStay
  <2>1. refs[d] = {}
    <3> SUFFICES ASSUME refs[d] # {} PROVE FALSE
      OBVIOUS
    <3>1. decs[d].started
      BY <1>3, RefsShape DEF FrontendInv, RefsOwned
    <3>2. DecWhole(decs[d])
      BY <1>2, <1>3 DEF DecsSound
    <3> QED
      BY <3>1, <3>2 DEF DecWhole
  <2>2. \A p \in DOMAIN refs : refs'[p] = refs[p]
    BY <1>7, <2>1
  <2> QED
    BY <2>2 DEF RefsStay
<1> QED
  BY <1>11, <1>12, <1>13, <1>14, <1>15, <1>16, <1>17, <1>18, <1>19 DEF FrontendInv

LEMMA RenderParametersKeeps ==
    ASSUME FrontendInv, NEW c, NEW R, RenderParameters(c, R)
    PROVE  FrontendInv' /\ RefsStay
<1> DEFINE i == Place(engines, c)
           d == engines[i].dec
           o == IF R = {} THEN None ELSE Predecessor(d, R)
           h == HolderOf(d, R)
           pic == [stage |-> "named", key |-> R = {}, from |-> h]
           s == engines[i].target
           r == Destroyed(surfs, {d})
<1>1. Has(engines, c) /\ Sound /\ OnlySessions
  BY DEF RenderParameters
<1>2. i \in DOMAIN engines
  BY <1>1, EngineNamed
<1>3. d \in Active
  BY <1>2, EnginesFacts
<1>4. /\ h \in Nat
      /\ h # None /\ o \in Retired => h = o
      /\ h # None /\ o \notin Retired => h = d
      /\ o \in Retired => ~decs[d].open /\ Fits(d, o)
  <2>1. o = Successor(d, R)
    BY DEF Successor
  <2> HIDE DEF d, o, h
  <2>2. h = HolderOf(d, R)
    BY DEF h
  <2> QED
    BY <1>3, <2>1, <2>2, HolderDraws
<1>5. \/ /\ o \in Retired
         /\ engines' = [engines EXCEPT ![i].dec = o, ![i].pic = pic]
         /\ retired' = Unretired(o) /\ refs' = Forgotten({d})
         /\ \/ decs' = [Freed({d}) EXCEPT ![o] = Begun(@, s)] /\ surfs' = Pending(r, s)
            \/ surfs' = r /\ decs' = Freed({d})
      \/ /\ o \notin Retired
         /\ engines' = [engines EXCEPT ![i].pic = pic]
         /\ retired' = retired /\ decs' = decs /\ surfs' = surfs /\ refs' = refs
  BY DEF RenderParameters
<1> HIDE DEF i, d, o, h
<1>6. pic \in PictureRecord /\ pic.from = h
  <2>1. (R = {}) \in BOOLEAN
    OBVIOUS
  <2> QED
    BY <1>4, <2>1 DEF PictureRecord
<1>7. d = engines[i].dec
  BY DEF d
<1> HIDE DEF pic
<1>8. CASE /\ o \in Retired
           /\ engines' = [engines EXCEPT ![i].dec = o, ![i].pic = pic]
           /\ retired' = Unretired(o) /\ refs' = Forgotten({d})
           /\ \/ decs' = [Freed({d}) EXCEPT ![o] = Begun(@, s)] /\ surfs' = Pending(r, s)
              \/ surfs' = r /\ decs' = Freed({d})
  <2>1. pic.from = None \/ pic.from = o
    BY <1>4, <1>6, <1>8
  <2>2. /\ decs' = Freed({d}) \/ decs' = [Freed({d}) EXCEPT ![o] = Begun(@, s)]
        /\ surfs' = Destroyed(surfs, {d}) \/ surfs' = Pending(Destroyed(surfs, {d}), s)
    BY <1>8
  <2> QED
    BY <1>1, <1>2, <1>4, <1>6, <1>7, <1>8, <2>1, <2>2, TakenOver
<1>9. CASE /\ o \notin Retired
           /\ engines' = [engines EXCEPT ![i].pic = pic]
           /\ retired' = retired /\ decs' = decs /\ surfs' = surfs /\ refs' = refs
  <2>1. pic.from = None \/ pic.from = engines[i].dec
    BY <1>4, <1>6, <1>7, <1>9
  <2> QED
    BY <1>1, <1>2, <1>6, <1>9, <2>1, ParametersStay
<1> QED
  BY <1>5, <1>8, <1>9

-----------------------------------------------------------------------------
(* VA contexts come and go                                                    *)

LEMMA ActiveIs == Active = {e.dec : e \in Range(engines)}
  BY DEF Active, Range

LEMMA RetiredIs == Retired = Range(retired)
  BY DEF Retired, Range

LEMMA CreateContextKeeps ==
    ASSUME FrontendInv, NEW c \in Nat, NEW w \in client.sizes, CreateContext(c, w)
    PROVE  FrontendInv' /\ RefsStay
<1> DEFINE p == Entry(configs, c).profile
           d == Len(decs) + 1
           id == ids.context + 1
           x == [id |-> id, dec |-> d, target |-> None, pic |-> NoPicture]
           y == FreshDec(p, w)
<1>1. /\ Counted /\ Tables /\ Engines /\ Handles /\ DecsSound /\ Placed /\ Owners
      /\ RefsOwned /\ PicturesPlaced
  BY DEF FrontendInv
<1>2. /\ Has(configs, c) /\ Len(engines) < MaxEngines /\ ids.context + 1 <= client.context
      /\ decs' = Append(decs, y) /\ refs' = Append(refs, {})
      /\ ids' = [ids EXCEPT !.context = @ + 1]
      /\ engines' = Append(engines, x)
      /\ held' = held \cup {Handle("context", id, p)}
      /\ UNCHANGED tables /\ retired' = retired /\ surfs' = surfs
      /\ client' = client /\ releaseAu' = releaseAu
  BY DEF CreateContext, MayName, NextId, Platform
<1>3. /\ ids' \in Counters /\ ids'.context = id /\ ids'.config = ids.config
      /\ ids'.surface = ids.surface /\ ids'.buffer = ids.buffer /\ ids'.fault = ids.fault
  BY <1>1, <1>2, CounterRises DEF Counted
<1>4. Counted' /\ ids.context \in Nat
  BY <1>1, <1>2, <1>3, CounterFields DEF Counted
<1>5. p \in Profiles
  <2>1. configs \in Seq(ConfigRecord) /\ IdsApart(configs)
    BY <1>1 DEF Tables, TableOf
  <2>2. Entry(configs, c) \in Range(configs)
    BY <1>2, <2>1, Found
  <2>3. Entry(configs, c) \in ConfigRecord
    BY <2>1, <2>2, RangeOf
  <2> QED
    BY <2>3 DEF ConfigRecord
<1>6. w \in Sizes /\ ids.surface \in Nat
  BY <1>1, CounterFields
<1>7. /\ decs \in Seq(DecRecord) /\ refs \in Seq(SUBSET Nat) /\ Len(refs) = Len(decs)
      /\ Len(decs) \in Nat /\ DOMAIN decs = 1..Len(decs) /\ DOMAIN refs = DOMAIN decs
  BY RefsShape
<1> HIDE DEF p
<1>8. /\ y \in DecRecord /\ DecWhole(y) /\ y.cur = 0 /\ y.last = 0 /\ y.profile = p
  BY <1>5, <1>6 DEF FreshDec, DecRecord, DecWhole, None
<1>9. x \in EngineRecord /\ x.id = id /\ x.dec = d /\ x.target = 0 /\ x.pic.from = None
  <2>1. id \in Nat /\ d \in Nat
    BY <1>4, <1>7
  <2> QED
    BY <2>1, PictureTypes DEF EngineRecord, None
<1> HIDE DEF y, x
<1>10. /\ decs' \in Seq(DecRecord) /\ Len(decs') = d /\ DOMAIN decs' = 1..d /\ decs'[d] = y
       /\ \A o \in DOMAIN decs : decs'[o] = decs[o] /\ o # d
       /\ DOMAIN decs' = DOMAIN decs \cup {d}
  BY <1>2, <1>7, <1>8
<1>11. /\ refs' \in Seq(SUBSET Nat) /\ Len(refs') = d /\ DOMAIN refs' = DOMAIN refs \cup {d}
       /\ refs'[d] = {} /\ \A o \in DOMAIN refs : refs'[o] = refs[o]
  BY <1>2, <1>7
<1>12. d \notin DOMAIN decs
  BY <1>7
<1> HIDE DEF d, id
<1>13. /\ TableOf(engines', EngineRecord, MaxEngines, id)
       /\ Range(engines') = Range(engines) \cup {x}
  <2>1. MayEnter(engines, EngineRecord, MaxEngines, ids.context, x)
    BY <1>1, <1>2, <1>4, <1>9, Bounds DEF Engines, MayEnter, id
  <2>2. /\ TableOf(Append(engines, x), EngineRecord, MaxEngines, x.id)
        /\ Range(Append(engines, x)) = Range(engines) \cup {x}
    BY <2>1, AppendTable
  <2> QED
    BY <1>2, <1>9, <2>2
<1>14. Engines'
  BY <1>3, <1>13 DEF Engines
<1>15. Active' = Active \cup {d} /\ Retired' = Retired
  <2>1. (Active = {e.dec : e \in Range(engines)})'
    BY ActiveIs, PTL
  <2>2. Active' = Active \cup {d}
    BY <1>9, <1>13, <2>1, ActiveIs
  <2> QED
    BY <1>2, <2>2 DEF Retired
<1>16. /\ Tables' /\ ObjectsApart' /\ Surfaces' /\ Mappings'
       /\ \A h \in held : h.kind # "context" => Names(h)'
  <2>1. Kin(surfs', surfs)
    BY <1>2, RefsShape
  <2> QED
    BY <1>2, <1>3, <2>1, Aside
<1>17. \A e \in Range(engines) : e.dec \in DOMAIN decs /\ e.dec # d /\ e.target <= ids.surface
  <2>1. \A e \in Range(engines) : e.dec \in Active
    BY ActiveIs
  <2> QED
    BY <1>1, <1>12, <2>1 DEF Placed
<1>18. Handles'
  <2> SUFFICES ASSUME NEW h \in held', h.kind = "context" => h \in held \/ h = Handle("context", id, p),
                      h.kind = "context"
               PROVE  Names(h)'
    BY <1>2, <1>16 DEF Handles, Handle
  <2>1. CASE h \in held
    <3>1. PICK e \in Range(engines) : e.id = h.id /\ decs[e.dec].profile = h.what
      BY <1>1, <2>1 DEF Handles, Names
    <3> QED
      BY <1>10, <1>13, <1>17, <3>1 DEF Names
  <2>2. CASE h = Handle("context", id, p)
    <3>1. h.kind = "context" /\ h.id = id /\ h.what = p
      BY <2>2 DEF Handle
    <3> QED
      BY <1>8, <1>9, <1>10, <1>13, <3>1 DEF Names
  <2> QED
    BY <2>1, <2>2
<1>19. DecsSound'
  <2>1. \A o \in DOMAIN decs' :
          /\ IF o \in Active' \cup Retired' THEN DecWhole(decs'[o]) ELSE decs'[o] = Gone
          /\ decs'[o].cur <= ids.surface /\ decs'[o].last <= ids.surface
    <3> SUFFICES ASSUME NEW o \in DOMAIN decs'
                 PROVE  /\ IF o \in Active' \cup Retired' THEN DecWhole(decs'[o]) ELSE decs'[o] = Gone
                        /\ decs'[o].cur <= ids.surface /\ decs'[o].last <= ids.surface
      OBVIOUS
    <3>1. CASE o = d
      BY <1>6, <1>8, <1>10, <1>15, <3>1
    <3>2. CASE o \in DOMAIN decs /\ o # d
      BY <1>1, <1>10, <1>15, <3>2 DEF DecsSound
    <3> QED
      BY <1>10, <3>1, <3>2
  <2> QED
    BY <1>3, <1>10, <1>11, <2>1 DEF DecsSound
<1>20. Placed'
  <2>1. \A e, f \in Range(engines') : e.dec = f.dec => e = f
    BY <1>1, <1>9, <1>13, <1>17 DEF Placed
  <2>2. \A e \in Range(engines') : e.target <= ids.surface
    BY <1>6, <1>9, <1>13, <1>17
  <2>3. Active' \cap Retired' = {} /\ Active' \cup Retired' \subseteq DOMAIN decs'
    BY <1>1, <1>10, <1>12, <1>15 DEF Placed
  <2>4. \A o \in Retired' : IsVp9(o)'
    BY <1>1, <1>10, <1>15 DEF Placed, IsVp9
  <2> QED
    BY <1>1, <1>2, <1>3, <2>1, <2>2, <2>3, <2>4 DEF Placed
<1>21. Owners'
  BY <1>1, <1>2, <1>15 DEF Owners
<1>22. RefsOwned'
  <2> SUFFICES ASSUME NEW o \in DOMAIN refs', NEW z \in refs'[o]
               PROVE  /\ Owns(surfs', o, z)
                      /\ decs'[o].started /\ ~decs'[o].eos /\ ~decs'[o].fatal
    BY DEF RefsOwned
  <2>1. o \in DOMAIN refs /\ z \in refs[o]
    BY <1>11
  <2> QED
    BY <1>1, <1>2, <1>7, <1>10, <2>1 DEF RefsOwned
<1>23. PicturesPlaced'
  BY <1>1, <1>9, <1>13 DEF PicturesPlaced
<1>24. RefsStay
  BY <1>11 DEF RefsStay
<1> QED
  BY <1>4, <1>14, <1>16, <1>18, <1>19, <1>20, <1>21, <1>22, <1>23, <1>24 DEF FrontendInv

(* The VA context c is gone, its session is not one of the others'.           *)
LEMMA ContextDropped ==
    ASSUME FrontendInv, NEW c, Has(engines, c), NEW i, i = Place(engines, c),
           NEW d, d = engines[i].dec, NEW q, q = Drop(engines, i)
    PROVE  /\ TableOf(q, EngineRecord, MaxEngines, ids.context)
           /\ Range(q) = {x \in Range(engines) : x.id # c}
           /\ Len(q) < Len(engines)
           /\ {x.dec : x \in Range(q)} = Active \ {d}
           /\ d \in Active /\ d \in DOMAIN decs /\ d \notin Retired /\ d \in Nat
<1>1. /\ TableOf(engines, EngineRecord, MaxEngines, ids.context) /\ Has(engines, c)
      /\ MaxEngines \in Nat /\ Placed
  BY Bounds DEF FrontendInv, Engines
<1>2. /\ TableOf(q, EngineRecord, MaxEngines, ids.context)
      /\ Range(q) = {x \in Range(engines) : x.id # c}
      /\ Len(q) = Len(engines) - 1
  <2>1. /\ TableOf(Drop(engines, Place(engines, c)), EngineRecord, MaxEngines, ids.context)
        /\ Range(Drop(engines, Place(engines, c))) = {x \in Range(engines) : x.id # c}
        /\ Len(Drop(engines, Place(engines, c))) = Len(engines) - 1
    BY <1>1, DropTable
  <2> QED
    BY <2>1
<1>3. /\ i \in DOMAIN engines /\ engines[i].id = c /\ engines[i] \in Range(engines)
      /\ d \in Active /\ d \in DOMAIN decs /\ d \in Nat
  BY <1>1, EngineNamed, EnginesFacts
<1>4. \A x \in Range(engines) : x.dec = d <=> x.id = c
  <2>1. \A x \in Range(engines) : x.id = c => x = engines[i]
    <3>1. \A j \in DOMAIN engines : engines[j].id = c => j = i
      BY <1>3, EnginesFacts DEF IdsApart
    <3> QED
      BY <3>1 DEF Range
  <2> QED
    BY <1>1, <1>3, <2>1 DEF Placed
<1>5. {x.dec : x \in Range(q)} = Active \ {d}
  BY <1>2, <1>4, ActiveIs
<1>6. Len(q) < Len(engines)
  BY <1>1, <1>2, TableParts
<1> QED
  BY <1>1, <1>2, <1>3, <1>5, <1>6 DEF Placed

LEMMA DestroyContextKeeps ==
    ASSUME FrontendInv, NEW c, DestroyContext(c)
    PROVE  FrontendInv' /\ RefsStay
<1> DEFINE i == Place(engines, c)
           d == engines[i].dec
<1>1. /\ Counted /\ Tables /\ Engines /\ Handles /\ DecsSound /\ Placed /\ Owners
      /\ RefsOwned /\ PicturesPlaced
  BY DEF FrontendInv
<1>2. /\ Has(engines, c) /\ engines' = Drop(engines, i) /\ held' = Without("context", c)
      /\ ids' = ids /\ UNCHANGED tables /\ client' = client /\ releaseAu' = releaseAu
  BY DEF DestroyContext, Platform
<1>3. \/ Kept(d) /\ retired' = Append(retired, d) /\ decs' = decs /\ surfs' = surfs /\ refs' = refs
      \/ /\ ~Kept(d) /\ surfs' = Destroyed(surfs, {d}) /\ decs' = Freed({d})
         /\ refs' = Forgotten({d}) /\ retired' = retired
  BY DEF DestroyContext
<1>4. /\ TableOf(engines', EngineRecord, MaxEngines, ids.context)
      /\ Range(engines') = {x \in Range(engines) : x.id # c}
      /\ Len(engines') < Len(engines)
      /\ {x.dec : x \in Range(engines')} = Active \ {d}
      /\ d \in Active /\ d \in DOMAIN decs /\ d \notin Retired /\ d \in Nat
  <2>1. PICK q : q = engines'
    OBVIOUS
  <2> HIDE DEF d
  <2>2. d = engines[i].dec
    BY DEF d
  <2> HIDE DEF i
  <2>3. i = Place(engines, c) /\ q = Drop(engines, i)
    BY <1>2, <2>1 DEF i
  <2>4. /\ TableOf(q, EngineRecord, MaxEngines, ids.context)
        /\ Range(q) = {x \in Range(engines) : x.id # c}
        /\ Len(q) < Len(engines)
        /\ {x.dec : x \in Range(q)} = Active \ {d}
        /\ d \in Active /\ d \in DOMAIN decs /\ d \notin Retired /\ d \in Nat
    BY <1>2, <2>2, <2>3, ContextDropped
  <2> QED
    BY <2>1, <2>4
<1> HIDE DEF d, i
<1>5. Active' = Active \ {d}
  <2>1. (Active = {e.dec : e \in Range(engines)})'
    BY ActiveIs, PTL
  <2> QED
    BY <1>4, <2>1
<1>6. \A e \in Range(engines') : e \in Range(engines) /\ e.id # c /\ e.dec # d /\ e.dec \in DOMAIN decs
  <2>1. \A e \in Range(engines') : e.dec \in Active \ {d}
    BY <1>4
  <2> QED
    BY <1>1, <1>4, <2>1 DEF Placed
<1>7. /\ decs' \in Seq(DecRecord) /\ refs' \in Seq(SUBSET Nat) /\ Len(refs') = Len(decs')
      /\ DOMAIN decs' = DOMAIN decs /\ DOMAIN refs' = DOMAIN refs
      /\ \A o \in DOMAIN decs : o # d => decs'[o] = decs[o]
      /\ \A o \in DOMAIN refs : o # d => refs'[o] = refs[o]
      /\ Kept(d) => decs' = decs /\ refs' = refs
      /\ ~Kept(d) => decs'[d] = Gone /\ refs'[d] = {}
  <2>1. CASE Kept(d)
    BY <1>3, <2>1, RefsShape
  <2>2. CASE ~Kept(d)
    <3>1. PICK f, g : f = Freed({d}) /\ g = Forgotten({d})
      OBVIOUS
    <3>2. /\ f \in Seq(DecRecord) /\ Len(f) = Len(decs) /\ DOMAIN f = DOMAIN decs
          /\ \A o \in DOMAIN decs : f[o] = IF o \in {d} THEN Gone ELSE decs[o]
      BY <3>1, FreedDecs
    <3>3. /\ g \in Seq(SUBSET Nat) /\ Len(g) = Len(refs) /\ DOMAIN g = DOMAIN refs
          /\ \A o \in DOMAIN refs : g[o] = IF o \in {d} THEN {} ELSE refs[o]
      BY <3>1, ForgottenShape
    <3>4. decs' = f /\ refs' = g /\ Len(refs) = Len(decs) /\ d \in DOMAIN refs
      BY <1>3, <1>4, <2>2, <3>1, RefsShape
    <3> QED
      BY <1>4, <2>2, <3>2, <3>3, <3>4
  <2> QED
    BY <2>1, <2>2
<1>8. /\ Kin(surfs', surfs)
      /\ \A o, z : Owns(surfs, o, z) /\ o # d => Owns(surfs', o, z)
      /\ Kept(d) => surfs' = surfs
      /\ ~Kept(d) => \A x \in Range(surfs') : x.owner \in ((Active \cup Retired) \ {d}) \cup {None}
  <2>1. CASE Kept(d)
    BY <1>3, <2>1, RefsShape
  <2>2. CASE ~Kept(d)
    <3>1. PICK q : q = surfs' /\ q = Destroyed(surfs, {d})
      BY <1>3, <2>2
    <3>2. /\ Kin(q, surfs)
          /\ \A x \in Range(q) : x.owner \in ((Active \cup Retired) \ {d}) \cup {None}
          /\ \A p, z : Owns(surfs, p, z) /\ p \notin {d} => Owns(q, p, z)
      BY <3>1, TakenSurfs
    <3> QED
      BY <2>2, <3>1, <3>2
  <2> QED
    BY <2>1, <2>2
<1>9. /\ retired' \in Seq(Nat) /\ Once(retired') /\ Len(retired') <= MaxEngines
      /\ Retired' = IF Kept(d) THEN Retired \cup {d} ELSE Retired
  <2>1. CASE Kept(d)
    <3>1. Len(retired) < MaxEngines
      BY <2>1 DEF Kept
    <3>2. /\ retired \in Seq(Nat) /\ Once(retired) /\ Range(retired) = Retired
          /\ Len(retired) \in Nat /\ DOMAIN retired = 1..Len(retired) /\ MaxEngines \in Nat
      BY RetiredRange, Bounds
    <3> DEFINE n == Len(retired)
    <3>3. /\ retired' \in Seq(Nat) /\ Len(retired') = n + 1 /\ DOMAIN retired' = 1..(n + 1)
          /\ retired'[n + 1] = d /\ \A k \in 1..n : retired'[k] = retired[k]
      <4>1. PICK q : q = retired' /\ q = Append(retired, d)
        BY <1>3, <2>1
      <4>2. d \in Nat /\ retired \in Seq(Nat)
        BY <1>4, <3>2
      <4>3. /\ q \in Seq(Nat) /\ Len(q) = Len(retired) + 1 /\ DOMAIN q = 1..(Len(retired) + 1)
            /\ q[Len(retired) + 1] = d /\ \A k \in 1..Len(retired) : q[k] = retired[k]
        BY <4>1, <4>2
      <4> QED
        BY <4>1, <4>3
    <3>4. \A k \in 1..n : retired[k] # d
      BY <1>4, <3>2 DEF Retired
    <3>5. Once(retired')
      <4>1. PICK q : q = retired'
        OBVIOUS
      <4>2. /\ n \in Nat /\ DOMAIN q = 1..(n + 1) /\ q[n + 1] = d
            /\ \A k \in 1..n : q[k] = retired[k] /\ q[k] # d
            /\ \A j, k \in 1..n : retired[j] = retired[k] => j = k
        BY <3>2, <3>3, <3>4, <4>1 DEF Once
      <4> HIDE DEF n
      <4>3. ASSUME NEW j \in 1..(n + 1), NEW k \in 1..(n + 1), q[j] = q[k]
            PROVE  j = k
        <5>1. (j = n + 1 \/ j \in 1..n) /\ (k = n + 1 \/ k \in 1..n)
          BY <4>2
        <5> QED
          BY <4>2, <4>3, <5>1
      <4> QED
        BY <4>1, <4>2, <4>3 DEF Once
    <3>6. Retired' = Retired \cup {d}
      <4>1. \A k \in DOMAIN retired' : retired'[k] \in Retired \cup {d}
        BY <3>2, <3>3 DEF Retired
      <4>2. \A o \in Retired \cup {d} : \E k \in DOMAIN retired' : retired'[k] = o
        BY <3>2, <3>3 DEF Retired
      <4>3. Retired' = {retired'[k] : k \in DOMAIN retired'}
        BY DEF Retired
      <4> QED
        BY <4>1, <4>2, <4>3
    <3> QED
      BY <2>1, <3>1, <3>2, <3>3, <3>5, <3>6
  <2>2. CASE ~Kept(d)
    BY <1>1, <1>3, <2>2 DEF Placed, Retired
  <2> QED
    BY <2>1, <2>2
<1>10. Active' \cup Retired' = IF Kept(d) THEN Active \cup Retired ELSE (Active \cup Retired) \ {d}
  BY <1>4, <1>5, <1>9
<1>11. /\ Tables' /\ ObjectsApart' /\ Surfaces' /\ Mappings'
       /\ \A h \in held : h.kind # "context" => Names(h)'
  BY <1>2, <1>8, Aside
<1>12. Engines' /\ Counted'
  BY <1>1, <1>2, <1>4 DEF Engines, Counted
<1>13. Handles'
  <2> SUFFICES ASSUME NEW h \in held, h.kind = "context", h.id # c PROVE Names(h)'
    BY <1>2, <1>11 DEF Handles, Without
  <2>1. PICK x \in Range(engines) : x.id = h.id /\ decs[x.dec].profile = h.what
    BY <1>1 DEF Handles, Names
  <2>2. x \in Range(engines')
    BY <1>4, <2>1
  <2>3. decs'[x.dec].profile = h.what
    BY <1>6, <1>7, <2>1, <2>2
  <2> QED
    BY <2>1, <2>2, <2>3 DEF Names
<1>14. DecsSound'
  <2>1. \A o \in DOMAIN decs :
          /\ IF o \in Active' \cup Retired' THEN DecWhole(decs'[o]) ELSE decs'[o] = Gone
          /\ decs'[o].cur <= ids.surface /\ decs'[o].last <= ids.surface
    <3> SUFFICES ASSUME NEW o \in DOMAIN decs
                 PROVE  /\ IF o \in Active' \cup Retired' THEN DecWhole(decs'[o]) ELSE decs'[o] = Gone
                        /\ decs'[o].cur <= ids.surface /\ decs'[o].last <= ids.surface
      OBVIOUS
    <3>1. /\ IF o \in Active \cup Retired THEN DecWhole(decs[o]) ELSE decs[o] = Gone
          /\ decs[o].cur <= ids.surface /\ decs[o].last <= ids.surface
      BY <1>1 DEF DecsSound
    <3>2. CASE Kept(d) \/ o # d
      BY <1>7, <1>10, <3>1, <3>2
    <3>3. CASE ~Kept(d) /\ o = d
      <4>1. Gone.cur <= ids.surface /\ Gone.last <= ids.surface
        BY FreedDecs, RefsShape
      <4> QED
        BY <1>7, <1>10, <3>3, <4>1
    <3> QED
      BY <3>2, <3>3
  <2> QED
    BY <1>2, <1>7, <2>1 DEF DecsSound
<1>15. Placed'
  <2>1. Active' \cap Retired' = {} /\ Active' \cup Retired' \subseteq DOMAIN decs'
    BY <1>1, <1>4, <1>5, <1>7, <1>9 DEF Placed
  <2>2. \A o \in Retired' : IsVp9(o)'
    <3>1. \A o \in Retired : IsVp9(o) /\ o # d /\ o \in DOMAIN decs
      BY <1>1, <1>4 DEF Placed
    <3>2. Kept(d) => IsVp9(d) /\ decs' = decs
      BY <1>7 DEF Kept, Retain
    <3> QED
      BY <1>7, <1>9, <3>1, <3>2 DEF IsVp9
  <2> QED
    BY <1>1, <1>2, <1>6, <1>9, <2>1, <2>2 DEF Placed
<1>16. Owners'
  BY <1>1, <1>8, <1>10 DEF Owners
<1>17. RefsOwned'
  <2> SUFFICES ASSUME NEW o \in DOMAIN refs, NEW z \in refs'[o]
               PROVE  /\ Owns(surfs', o, z)
                      /\ decs'[o].started /\ ~decs'[o].eos /\ ~decs'[o].fatal
    BY <1>7 DEF RefsOwned
  <2>1. z \in refs[o] /\ (Kept(d) \/ o # d) /\ o \in DOMAIN decs
    BY <1>4, <1>7, RefsShape
  <2>2. Owns(surfs, o, z) /\ decs[o].started /\ ~decs[o].eos /\ ~decs[o].fatal
    BY <1>1, <2>1 DEF RefsOwned
  <2> QED
    BY <1>7, <1>8, <2>1, <2>2
<1>18. PicturesPlaced'
  BY <1>1, <1>6 DEF PicturesPlaced
<1>19. RefsStay
  <2> SUFFICES ASSUME NEW o \in DOMAIN refs, IsVp9(o), NEW z \in refs[o] \ refs'[o]
               PROVE  Len(retired) = MaxEngines /\ Len(engines') < Len(engines)
    BY Zenon DEF RefsStay
  <2>1. o = d /\ ~Kept(d)
    BY <1>7
  <2>2. Owns(surfs, d, z) /\ decs[d].started /\ ~decs[d].eos /\ ~decs[d].fatal
    BY <1>1, <2>1 DEF RefsOwned
  <2>3. Retain(surfs, d)
    BY <2>1, <2>2 DEF Retain, Owns, Range
  <2>4. ~(Len(retired) < MaxEngines)
    BY <2>1, <2>3 DEF Kept
  <2>5. Len(retired) <= MaxEngines
    BY <1>1 DEF Placed
  <2>6. Len(retired) \in Nat /\ MaxEngines \in Nat
    BY RetiredRange, Bounds
  <2>7. Len(retired) = MaxEngines
    BY <2>4, <2>5, <2>6
  <2> QED
    BY <1>4, <2>7
<1> QED
  BY <1>11, <1>12, <1>13, <1>14, <1>15, <1>16, <1>17, <1>18, <1>19 DEF FrontendInv

-----------------------------------------------------------------------------
(* Surfaces come                                                              *)

(* The entries with the next ids, in their order.                             *)
Follows(u, S, last, k) ==
    /\ u \in Seq(S) /\ Len(u) = k /\ \A j \in 1..k : u[j].id = last + j

LEMMA JoinedTable ==
    ASSUME NEW S, NEW t, NEW bound \in Nat, NEW last \in Nat, TableOf(t, S, bound, last),
           NEW k \in Nat, NEW u, Follows(u, S, last, k), Len(t) + k <= bound,
           NEW more \in Nat, last + k <= more
    PROVE  /\ TableOf(t \o u, S, bound, more)
           /\ Range(t) \subseteq Range(t \o u)
           /\ \A x \in Range(t \o u) : x \in Range(t) \/ \E j \in 1..k : x = u[j]
           /\ \A j \in 1..k : u[j] \in Range(t \o u)
<1> DEFINE q == t \o u
           n == Len(t)
<1>1. /\ t \in Seq(S) /\ n \in Nat /\ IdsApart(t) /\ DOMAIN t = 1..n
      /\ \A i \in 1..n : t[i].id \in 1..last
      /\ u \in Seq(S) /\ Len(u) = k /\ \A j \in 1..k : u[j].id = last + j
  BY TableParts DEF Follows
<1>2. /\ q \in Seq(S) /\ Len(q) = n + k /\ DOMAIN q = 1..(n + k)
      /\ \A i \in 1..(n + k) : q[i] = IF i <= n THEN t[i] ELSE u[i - n]
  <2>1. /\ q \in Seq(S) /\ Len(q) = Len(t) + Len(u)
        /\ \A i \in 1..Len(t) + Len(u) : q[i] = IF i <= Len(t) THEN t[i] ELSE u[i - Len(t)]
    BY <1>1, ConcatProperties
  <2>2. DOMAIN q = 1..Len(q)
    BY <2>1
  <2> HIDE DEF q
  <2> QED
    BY <1>1, <2>1, <2>2
<1> HIDE DEF q, n
<1>3. \A i \in 1..(n + k) : i <= n \/ i - n \in 1..k
  BY <1>1
<1>4. \A j \in 1..k : q[n + j] = u[j] /\ n + j \in DOMAIN q
  <2> SUFFICES ASSUME NEW j \in 1..k PROVE q[n + j] = u[j] /\ n + j \in DOMAIN q
    OBVIOUS
  <2>1. n + j \in 1..(n + k) /\ ~(n + j <= n) /\ (n + j) - n = j
    BY <1>1
  <2> QED
    BY <1>2, <2>1
<1>5. \A i \in 1..n : q[i] = t[i] /\ i \in DOMAIN q
  BY <1>1, <1>2
<1>6. ASSUME NEW i \in 1..(n + k), NEW j \in 1..(n + k), q[i].id = q[j].id PROVE i = j
  <2>1. CASE i <= n /\ j <= n
    <3>1. i \in DOMAIN t /\ j \in DOMAIN t /\ q[i] = t[i] /\ q[j] = t[j]
      BY <1>1, <1>2, <2>1
    <3> QED
      BY <1>1, <1>6, <3>1 DEF IdsApart
  <2>2. CASE i <= n /\ ~(j <= n)
    BY <1>1, <1>2, <1>3, <1>6, <2>2
  <2>3. CASE ~(i <= n) /\ j <= n
    BY <1>1, <1>2, <1>3, <1>6, <2>3
  <2>4. CASE ~(i <= n) /\ ~(j <= n)
    <3>1. i - n \in 1..k /\ j - n \in 1..k /\ q[i] = u[i - n] /\ q[j] = u[j - n]
      BY <1>2, <1>3, <2>4
    <3>2. last + (i - n) = last + (j - n)
      BY <1>1, <1>6, <3>1
    <3> QED
      BY <1>1, <3>2
  <2> QED
    BY <2>1, <2>2, <2>3, <2>4
<1>7. \A i \in 1..(n + k) : q[i].id \in 1..more
  <2> SUFFICES ASSUME NEW i \in 1..(n + k) PROVE q[i].id \in 1..more
    OBVIOUS
  <2>1. CASE i <= n
    <3>1. t[i].id \in 1..last /\ q[i] = t[i]
      BY <1>1, <1>2, <2>1
    <3> QED
      BY <3>1
  <2>2. CASE ~(i <= n)
    <3>1. i - n \in 1..k /\ q[i] = u[i - n]
      BY <1>2, <1>3, <2>2
    <3>2. q[i].id = last + (i - n)
      BY <1>1, <3>1
    <3> QED
      BY <1>1, <3>1, <3>2
  <2> QED
    BY <2>1, <2>2
<1>8. TableOf(q, S, bound, more)
  <2>1. Len(q) <= bound
    BY <1>2 DEF n
  <2>2. IdsApart(q)
    BY <1>2, <1>6 DEF IdsApart
  <2>3. \A x \in Range(q) : x.id \in 1..more
    BY <1>2, <1>7 DEF Range
  <2> QED
    BY <1>2, <2>1, <2>2, <2>3 DEF TableOf
<1>9. Range(t) \subseteq Range(q)
  BY <1>1, <1>5 DEF Range
<1>10. \A j \in 1..k : u[j] \in Range(q)
  BY <1>4 DEF Range
<1>11. \A x \in Range(q) : x \in Range(t) \/ \E j \in 1..k : x = u[j]
  BY <1>1, <1>2, <1>3 DEF Range
<1> QED
  BY <1>8, <1>9, <1>10, <1>11 DEF q

LEMMA CreateSurfacesKeeps ==
    ASSUME FrontendInv, NEW n \in Nat, NEW k \in 0..n, CreateSurfaces(n, k)
    PROVE  FrontendInv' /\ RefsStay
<1> DEFINE last == ids.surface
           more == IF k = n THEN last + n ELSE last + k + 1
           fault == IF k = n \/ Len(surfs) + k = MaxSurfaces THEN ids.fault ELSE ids.fault + 1
           u == [j \in 1..k |-> [id |-> last + j, owner |-> None, st |-> "idle", fresh |-> TRUE]]
<1>1. /\ Counted /\ Tables /\ Surfaces /\ Engines /\ Mappings /\ Handles /\ DecsSound /\ Placed
      /\ Owners /\ RefsOwned /\ PicturesPlaced /\ ObjectsApart
  BY DEF FrontendInv
<1>2. /\ last + n <= client.surface /\ Len(surfs) + k <= MaxSurfaces
      /\ k < n => Len(surfs) + k = MaxSurfaces \/ ids.fault + 1 <= client.fault
      /\ ids' = [ids EXCEPT !.surface = more, !.fault = fault]
      /\ UNCHANGED tables /\ engines' = engines /\ retired' = retired /\ decs' = decs
      /\ refs' = refs /\ client' = client /\ releaseAu' = releaseAu
  BY DEF CreateSurfaces, MayName, Platform
<1>3. surfs' = surfs \o u
  <2>1. u = [j \in 1..k |-> [id |-> ([i \in 1..k |-> ids.surface + i])[j], owner |-> None,
                             st |-> "idle", fresh |-> TRUE]]
    OBVIOUS
  <2> HIDE DEF u
  <2> QED
    BY <2>1 DEF CreateSurfaces
<1>4. held' \subseteq held \cup {Handle("surface", last + j, last + j) : j \in 1..k}
  <2>1. \/ held' = held
        \/ held' = held \cup {Handle("surface", ([i \in 1..k |-> ids.surface + i])[j],
                                                ([i \in 1..k |-> ids.surface + i])[j]) : j \in 1..k}
    BY DEF CreateSurfaces
  <2>2. \A j \in 1..k : ([i \in 1..k |-> ids.surface + i])[j] = last + j
    OBVIOUS
  <2> QED
    BY <2>1, <2>2
<1>5. /\ last \in Nat /\ ids.fault \in Nat /\ k \in Nat /\ client.surface \in Nat
      /\ client.fault \in Nat /\ MaxSurfaces \in Nat /\ Len(surfs) \in Nat
  BY <1>1, CounterFields, RefsShape, Bounds
<1>6. more \in Nat /\ last + k <= more /\ more <= client.surface /\ last <= more
      /\ fault \in Nat /\ fault <= client.fault
  <2>1. ids.fault <= client.fault
    BY <1>1 DEF Counted
  <2>2. more \in Nat /\ last + k <= more /\ more <= last + n /\ last <= more
    <3>1. CASE k = n
      BY <1>5, <3>1
    <3>2. CASE k # n
      <4>1. k + 1 <= n /\ more = last + k + 1
        BY <1>5, <3>2
      <4> QED
        BY <1>5, <4>1
    <3> QED
      BY <3>1, <3>2
  <2>3. fault \in Nat /\ fault <= client.fault
    <3>1. CASE k = n \/ Len(surfs) + k = MaxSurfaces
      BY <1>5, <2>1, <3>1
    <3>2. CASE ~(k = n \/ Len(surfs) + k = MaxSurfaces)
      <4>1. k < n /\ fault = ids.fault + 1
        BY <1>5, <3>2
      <4> QED
        BY <1>2, <1>5, <3>2, <4>1
    <3> QED
      BY <3>1, <3>2
  <2> HIDE DEF more, fault
  <2>4. more <= client.surface
    BY <1>2, <1>5, <2>2
  <2> QED
    BY <2>2, <2>3, <2>4
<1> HIDE DEF more, fault
<1>7. /\ ids' \in Counters /\ ids'.surface = more /\ ids'.fault = fault
      /\ ids'.config = ids.config /\ ids'.context = ids.context /\ ids'.buffer = ids.buffer
  <2>1. PICK a, b : a \in Counters /\ a = ids /\ b = ids'
                    /\ b = [a EXCEPT !.surface = more, !.fault = fault]
    BY <1>1, <1>2 DEF Counted
  <2>2. /\ b \in Counters /\ b.surface = more /\ b.fault = fault
        /\ b.config = a.config /\ b.context = a.context /\ b.buffer = a.buffer
    BY <1>6, <2>1 DEF Counters
  <2> QED
    BY <2>1, <2>2
<1>8. Counted'
  BY <1>1, <1>2, <1>6, <1>7 DEF Counted
<1>9. \A j \in 1..k : /\ u[j] \in SurfaceRecord /\ u[j].id = last + j /\ u[j].owner = None
  BY <1>5 DEF SurfaceRecord, None
<1>10. Follows(u, SurfaceRecord, last, k)
  <2>1. u \in [1..k -> SurfaceRecord]
    BY <1>9
  <2>2. u \in Seq(SurfaceRecord) /\ Len(u) = k
    BY <1>5, <2>1
  <2> HIDE DEF u
  <2> QED
    BY <1>9, <2>2 DEF Follows
<1> HIDE DEF u
<1>11. /\ TableOf(surfs', SurfaceRecord, MaxSurfaces, more)
       /\ Range(surfs) \subseteq Range(surfs')
       /\ \A x \in Range(surfs') : x \in Range(surfs) \/ \E j \in 1..k : x = u[j]
       /\ \A j \in 1..k : u[j] \in Range(surfs')
  <2>1. TableOf(surfs, SurfaceRecord, MaxSurfaces, last)
    BY <1>1 DEF Surfaces
  <2>2. /\ TableOf(surfs \o u, SurfaceRecord, MaxSurfaces, more)
        /\ Range(surfs) \subseteq Range(surfs \o u)
        /\ \A x \in Range(surfs \o u) : x \in Range(surfs) \/ \E j \in 1..k : x = u[j]
        /\ \A j \in 1..k : u[j] \in Range(surfs \o u)
    BY <1>2, <1>5, <1>6, <1>10, <2>1, JoinedTable
  <2> QED
    BY <1>3, <2>2
<1>12. Active' = Active /\ Retired' = Retired /\ \A d : IsVp9(d)' = IsVp9(d)
  BY <1>2 DEF Active, Retired, IsVp9
<1>13. configs' = configs /\ bufs' = bufs /\ imgs' = imgs /\ derived' = derived
  BY <1>2 DEF tables
<1>14. Tables' /\ ObjectsApart' /\ Engines' /\ Surfaces'
  BY <1>1, <1>2, <1>7, <1>11, <1>13 DEF Tables, ObjectsApart, Engines, Surfaces
<1>15. Mappings'
  BY <1>1, <1>11, <1>13 DEF Mappings
<1>16. Handles'
  <2> SUFFICES ASSUME NEW h \in held' PROVE Names(h)'
    BY DEF Handles
  <2>1. CASE h \in held
    <3>1. Names(h)
      BY <1>1, <2>1 DEF Handles
    <3> QED
      BY <1>2, <1>11, <1>13, <3>1 DEF Names
  <2>2. ASSUME NEW j \in 1..k, h = Handle("surface", last + j, last + j) PROVE Names(h)'
    <3>1. h.kind = "surface" /\ h.id = last + j /\ h.what = last + j
      BY <2>2 DEF Handle
    <3> QED
      BY <1>9, <1>11, <3>1 DEF Names
  <2> QED
    BY <1>4, <2>1, <2>2
<1>17. DecsSound'
  <2>1. \A d \in DOMAIN decs : decs[d].cur <= more /\ decs[d].last <= more
    <3> SUFFICES ASSUME NEW d \in DOMAIN decs PROVE decs[d].cur <= more /\ decs[d].last <= more
      OBVIOUS
    <3>1. decs[d].cur <= last /\ decs[d].last <= last /\ decs[d] \in DecRecord
      BY <1>1 DEF DecsSound
    <3>2. decs[d].cur \in Nat /\ decs[d].last \in Nat
      BY <3>1 DEF DecRecord
    <3> QED
      BY <1>5, <1>6, <3>1, <3>2
  <2> QED
    BY <1>1, <1>2, <1>7, <1>12, <2>1 DEF DecsSound
<1>18. Placed'
  <2>1. \A e \in Range(engines) : e.target <= more
    <3> SUFFICES ASSUME NEW e \in Range(engines) PROVE e.target <= more
      OBVIOUS
    <3>1. e \in EngineRecord /\ e.target <= last
      BY <1>1, EnginesFacts, RangeOf DEF Placed
    <3>2. e.target \in Nat
      BY <3>1 DEF EngineRecord
    <3> QED
      BY <1>5, <1>6, <3>1, <3>2
  <2> QED
    BY <1>1, <1>2, <1>7, <1>12, <2>1 DEF Placed
<1>19. Owners'
  BY <1>1, <1>9, <1>11, <1>12 DEF Owners
<1>20. RefsOwned'
  <2>1. \A d, s : Owns(surfs, d, s) => Owns(surfs', d, s)
    BY <1>11 DEF Owns
  <2> QED
    BY <1>1, <1>2, <2>1 DEF RefsOwned
<1>21. PicturesPlaced'
  BY <1>1, <1>2 DEF PicturesPlaced
<1>22. RefsStay
  BY <1>2 DEF RefsStay
<1> QED
  BY <1>8, <1>14, <1>15, <1>16, <1>17, <1>18, <1>19, <1>20, <1>21, <1>22 DEF FrontendInv

-----------------------------------------------------------------------------
(* vaDestroySurfaces                                                          *)

(* The surfaces of the list that are gone from v.                             *)
GoneOf(list, v) == {s \in {list[j] : j \in DOMAIN list} : ~Has(v, s)}

(* What the loop over the list left.                                          *)
LEMMA ListFreed ==
    ASSUME FrontendInv, NEW S, NEW list \in Seq(S), NEW v, v = FreedAll(list).surfs,
           NEW e, e = FreedAll(list).derived
    PROVE  /\ TableOf(v, SurfaceRecord, MaxSurfaces, ids.surface)
           /\ TableOf(e, DerivedRecord, MaxDerived, ids.buffer)
           /\ Range(v) \subseteq Range(surfs)
           /\ Range(e) = {m \in Range(derived) : Has(v, m.mem)}
           /\ \A x \in Range(surfs) : x \in Range(v) \/ x.id \in GoneOf(list, v)
           /\ \A s \in GoneOf(list, v) : ~Has(v, s)
           /\ \A d, s : Owns(surfs, d, s) /\ s \notin GoneOf(list, v) => Owns(v, d, s)
           /\ \A d, s : Owns(v, d, s) => Owns(surfs, d, s)
<1> DEFINE st == FreedAll(list)
           n == Len(list)
<1>1. /\ Surfaces /\ TableOf(derived, DerivedRecord, MaxDerived, ids.buffer) /\ Mappings
  BY DEF FrontendInv, Tables
<1>2. st \in FreedStates /\ FreedSoFar(st, list, n)
  BY <1>1, ListFrees
<1>3. v = st.surfs /\ e = st.derived
  OBVIOUS
<1> HIDE DEF st
<1>4. /\ v \in Seq(SurfaceRecord) /\ e \in Seq(DerivedRecord) /\ st.ok \in BOOLEAN
  BY <1>2, <1>3 DEF FreedStates
<1>5. /\ surfs \in Seq(SurfaceRecord) /\ IdsApart(surfs) /\ Len(surfs) <= MaxSurfaces
      /\ \A x \in Range(surfs) : x.id \in 1..ids.surface
      /\ Len(derived) <= MaxDerived /\ \A m \in Range(derived) : m.id \in 1..ids.buffer
  BY <1>1 DEF Surfaces, TableOf
<1>6. /\ IdsApart(v) /\ IdsApart(e) /\ Range(v) \subseteq Range(surfs)
      /\ \A x \in Range(surfs) : x \notin Range(v) => \E j \in 1..n : list[j] = x.id
      /\ Range(e) = {m \in Range(derived) : Has(v, m.mem)}
      /\ Len(e) <= Len(derived)
      /\ st.ok => Len(v) = Len(surfs) - n
      /\ ~st.ok => Len(v) <= Len(surfs)
  BY <1>2, <1>3 DEF FreedSoFar
<1>7. Len(v) <= MaxSurfaces /\ Len(e) <= MaxDerived
  <2>1. n \in Nat /\ Len(surfs) \in Nat /\ Len(v) \in Nat /\ Len(e) \in Nat /\ Len(derived) \in Nat
        /\ MaxSurfaces \in Nat /\ MaxDerived \in Nat
    <3>1. derived \in Seq(DerivedRecord)
      BY <1>1, TableParts
    <3> QED
      BY <1>4, <1>5, <3>1, Bounds
  <2> QED
    BY <1>5, <1>6, <2>1
<1>8. /\ TableOf(v, SurfaceRecord, MaxSurfaces, ids.surface)
      /\ TableOf(e, DerivedRecord, MaxDerived, ids.buffer)
  BY <1>4, <1>5, <1>6, <1>7 DEF TableOf
<1>9. ASSUME NEW x \in Range(surfs), x \notin Range(v) PROVE x.id \in GoneOf(list, v)
  <2>1. PICK j \in 1..n : list[j] = x.id
    BY <1>6, <1>9
  <2>2. j \in DOMAIN list
    BY <2>1
  <2>3. ~Has(v, x.id)
    <3> SUFFICES ASSUME Has(v, x.id) PROVE FALSE
      OBVIOUS
    <3>1. PICK y \in Range(v) : y.id = x.id
      BY <1>4, HasMeans
    <3>2. y \in Range(surfs)
      BY <1>6, <3>1
    <3>3. y = x
      BY <1>5, <3>1, <3>2 DEF IdsApart, Range
    <3> QED
      BY <1>9, <3>1, <3>3
  <2> QED
    BY <2>1, <2>2, <2>3 DEF GoneOf
<1>10. \A d, s : Owns(surfs, d, s) /\ s \notin GoneOf(list, v) => Owns(v, d, s)
  BY <1>9 DEF Owns
<1>11. \A d, s : Owns(v, d, s) => Owns(surfs, d, s)
  BY <1>6 DEF Owns
<1>12. \A s \in GoneOf(list, v) : ~Has(v, s)
  BY DEF GoneOf
<1> QED
  BY <1>6, <1>8, <1>9, <1>10, <1>11, <1>12

(* The waiting contexts kept when the records v are left, and the others.     *)
Sifts(ok, v, kept, gone) ==
    /\ kept = IF ok THEN SweepOut(retired, {d \in Retired : ~Retain(v, d)}) ELSE retired
    /\ gone = Retired \ {kept[i] : i \in DOMAIN kept}

(* The waiting contexts that no surface of v needs any more.                  *)
LEMMA RetiredSwept ==
    ASSUME FrontendInv, NEW ok, NEW v, NEW kept, NEW gone, Sifts(ok, v, kept, gone)
    PROVE  /\ kept \in Seq(Nat) /\ Once(kept) /\ Len(kept) <= MaxEngines
           /\ Range(kept) = Retired \ gone /\ gone \subseteq Retired
           /\ \A d \in gone : ~Retain(v, d)
           /\ ok => \A d \in Range(kept) : Retain(v, d)
<1> USE DEF Sifts
<1> DEFINE D == {d \in Retired : ~Retain(v, d)}
           u == SweepOut(retired, D)
<1>1. /\ retired \in Seq(Nat) /\ Once(retired) /\ Range(retired) = Retired
      /\ Len(retired) \in Nat /\ Len(retired) <= MaxEngines /\ MaxEngines \in Nat
  BY RetiredRange, Bounds DEF FrontendInv, Placed
<1>2. /\ u \in Seq(Nat) /\ Len(u) <= Len(retired) /\ Once(u) /\ Range(u) = Retired \ D
  BY <1>1, SweepRemoves
<1>3. /\ ok => kept = u
      /\ ~ok => kept = retired
  OBVIOUS
<1> HIDE DEF u
<1>4. Len(u) <= MaxEngines
  <2>1. Len(u) \in Nat
    BY <1>2
  <2> QED
    BY <1>1, <1>2, <2>1
<1>5. Range(kept) = {kept[i] : i \in DOMAIN kept}
  BY DEF Range
<1>6. CASE ok
  <2>1. kept = u
    BY <1>3, <1>6
  <2>2. gone = D
    BY <1>2, <1>5, <2>1
  <2> QED
    BY <1>2, <1>4, <2>1, <2>2
<1>7. CASE ~ok
  <2>1. kept = retired
    BY <1>3, <1>7
  <2>2. gone = {}
    BY <1>1, <1>5, <2>1
  <2> QED
    BY <1>1, <1>7, <2>1, <2>2
<1> QED
  BY <1>6, <1>7

LEMMA DestroySurfacesKeeps ==
    ASSUME FrontendInv, NEW S, NEW list \in Seq(S), DestroySurfaces(list)
    PROVE  FrontendInv' /\ RefsStay
<1> DEFINE st == FreedAll(list)
           v == st.surfs
           kept == IF st.ok THEN SweepOut(retired, {d \in Retired : ~Retain(v, d)}) ELSE retired
           gone == Retired \ {kept[i] : i \in DOMAIN kept}
           freed == GoneOf(list, v)
<1>1. /\ Counted /\ Tables /\ Surfaces /\ Engines /\ Mappings /\ Handles /\ DecsSound /\ Placed
      /\ Owners /\ RefsOwned /\ PicturesPlaced /\ ObjectsApart
  BY DEF FrontendInv
<1>2. /\ surfs' = Destroyed(v, gone) /\ retired' = kept /\ decs' = Freed(gone)
      /\ derived' = st.derived /\ ids' = ids /\ configs' = configs /\ bufs' = bufs
      /\ imgs' = imgs /\ engines' = engines /\ client' = client /\ releaseAu' = releaseAu
      /\ refs' = [d \in DOMAIN refs |-> IF d \in gone THEN {} ELSE refs[d] \ freed]
      /\ held' = {h \in held : ~(h.kind \in {"surface", "derived"} /\ h.what \in freed)}
  BY DEF DestroySurfaces, Platform, GoneOf
<1>3. /\ TableOf(v, SurfaceRecord, MaxSurfaces, ids.surface)
      /\ TableOf(derived', DerivedRecord, MaxDerived, ids.buffer)
      /\ Range(v) \subseteq Range(surfs)
      /\ Range(derived') = {m \in Range(derived) : Has(v, m.mem)}
      /\ \A x \in Range(surfs) : x \in Range(v) \/ x.id \in freed
      /\ \A s \in freed : ~Has(v, s)
      /\ \A d, s : Owns(surfs, d, s) /\ s \notin freed => Owns(v, d, s)
      /\ \A d, s : Owns(v, d, s) => Owns(surfs, d, s)
  <2>1. PICK e : e = st.derived
    OBVIOUS
  <2>2. v = FreedAll(list).surfs /\ e = FreedAll(list).derived
    BY <2>1
  <2> HIDE DEF v
  <2>3. /\ TableOf(v, SurfaceRecord, MaxSurfaces, ids.surface)
        /\ TableOf(e, DerivedRecord, MaxDerived, ids.buffer)
        /\ Range(v) \subseteq Range(surfs)
        /\ Range(e) = {m \in Range(derived) : Has(v, m.mem)}
        /\ \A x \in Range(surfs) : x \in Range(v) \/ x.id \in GoneOf(list, v)
        /\ \A s \in GoneOf(list, v) : ~Has(v, s)
        /\ \A d, s : Owns(surfs, d, s) /\ s \notin GoneOf(list, v) => Owns(v, d, s)
        /\ \A d, s : Owns(v, d, s) => Owns(surfs, d, s)
    BY <2>2, ListFreed
  <2> QED
    BY <1>2, <2>1, <2>3
<1> HIDE DEF v
<1>4. /\ kept \in Seq(Nat) /\ Once(kept) /\ Len(kept) <= MaxEngines
      /\ Range(kept) = Retired \ gone /\ gone \subseteq Retired
      /\ \A d \in gone : ~Retain(v, d)
  <2>1. PICK ok : ok = st.ok
    OBVIOUS
  <2>2. Sifts(ok, v, kept, gone)
    BY <2>1 DEF Sifts
  <2> HIDE DEF kept, gone
  <2> QED
    BY <2>2, RetiredSwept
<1> HIDE DEF kept, gone, freed, st
<1>5. /\ TableOf(surfs', SurfaceRecord, MaxSurfaces, ids.surface)
      /\ \A s : Has(surfs', s) <=> Has(v, s)
      /\ \A s : (\E x \in Range(surfs') : x.id = s) <=> (\E x \in Range(v) : x.id = s)
      /\ \A x \in Range(surfs') :
            \E y \in Range(v) : IF y.owner \in gone THEN x.owner = None ELSE x.owner = y.owner
      /\ \A d, s : Owns(v, d, s) /\ d \notin gone => Owns(surfs', d, s)
  <2>1. PICK q : q = surfs' /\ q = Destroyed(v, gone)
    BY <1>2
  <2>2. v \in Seq(SurfaceRecord)
    BY <1>3, TableParts
  <2>3. /\ Kin(q, v)
        /\ \A x \in Range(q) :
              \E y \in Range(v) : /\ y.id = x.id
                                  /\ IF y.owner \in gone THEN x.owner = None ELSE x.owner = y.owner
        /\ \A o, z : Owns(v, o, z) /\ o \notin gone => Owns(q, o, z)
    BY <2>1, <2>2, DestroyedKin
  <2>4. /\ TableOf(q, SurfaceRecord, MaxSurfaces, ids.surface)
        /\ \A s : Has(q, s) <=> Has(v, s)
        /\ \A s : (\E x \in Range(q) : x.id = s) <=> (\E x \in Range(v) : x.id = s)
    BY <1>3, <2>3, KinTable
  <2> QED
    BY <2>1, <2>3, <2>4
<1>6. Active' = Active /\ Retired' = Retired \ gone
  <2>1. Retired' = {retired'[k] : k \in DOMAIN retired'}
    BY DEF Retired
  <2>2. Range(kept) = {kept[k] : k \in DOMAIN kept}
    BY DEF Range
  <2> QED
    BY <1>2, <1>4, <2>1, <2>2 DEF Active
<1>7. Active \cap gone = {} /\ Active' \cup Retired' = (Active \cup Retired) \ gone
      /\ Active \cup Retired \subseteq DOMAIN decs
  BY <1>1, <1>4, <1>6 DEF Placed
<1>8. /\ decs' \in Seq(DecRecord) /\ Len(decs') = Len(decs) /\ DOMAIN decs' = DOMAIN decs
      /\ \A o \in DOMAIN decs : decs'[o] = IF o \in gone THEN Gone ELSE decs[o]
      /\ Gone.cur <= ids.surface /\ Gone.last <= ids.surface
  <2>1. PICK q : q = decs' /\ q = Freed(gone)
    BY <1>2
  <2>2. /\ q \in Seq(DecRecord) /\ Len(q) = Len(decs) /\ DOMAIN q = DOMAIN decs
        /\ \A o \in DOMAIN decs : q[o] = IF o \in gone THEN Gone ELSE decs[o]
        /\ Gone.cur = 0 /\ Gone.last = 0
    BY <2>1, FreedDecs
  <2> QED
    BY <2>1, <2>2, RefsShape
<1>9. /\ refs' \in Seq(SUBSET Nat) /\ Len(refs') = Len(refs) /\ DOMAIN refs' = DOMAIN refs
      /\ \A o \in DOMAIN refs : refs'[o] = IF o \in gone THEN {} ELSE refs[o] \ freed
  <2>1. PICK q : q = refs' /\ q = [d \in DOMAIN refs |-> IF d \in gone THEN {} ELSE refs[d] \ freed]
    BY <1>2
  <2>2. /\ q = [o \in DOMAIN refs |-> q[o]]
        /\ \A o \in DOMAIN refs : q[o] = IF o \in gone THEN {} ELSE refs[o] \ freed
    BY <2>1
  <2>3. refs \in Seq(SUBSET Nat) /\ \A o \in DOMAIN refs : refs[o] \subseteq Nat
    BY RefsShape
  <2>4. \A o \in DOMAIN refs : q[o] \subseteq Nat
    BY <2>2, <2>3
  <2>5. q \in Seq(SUBSET Nat) /\ Len(q) = Len(refs) /\ DOMAIN q = DOMAIN refs
    BY <2>2, <2>3, <2>4, RefsRewritten
  <2> QED
    BY <2>1, <2>2, <2>5
<1>10. Tables' /\ Surfaces' /\ Engines' /\ Counted'
  BY <1>1, <1>2, <1>3, <1>5 DEF Tables, Surfaces, Engines, Counted
<1>11. ObjectsApart'
  BY <1>1, <1>2, <1>3 DEF ObjectsApart
<1>12. \A s : Has(v, s) <=> \E x \in Range(v) : x.id = s
  <2>1. v \in Seq(SurfaceRecord)
    BY <1>3, TableParts
  <2> QED
    BY <2>1, HasMeans
<1>13. Mappings'
  BY <1>3, <1>5, <1>12 DEF Mappings
<1>14. Handles'
  <2> SUFFICES ASSUME NEW h \in held, h.kind \in {"surface", "derived"} => h.what \notin freed
               PROVE  Names(h)'
    BY <1>2 DEF Handles
  <2>1. Names(h)
    BY <1>1 DEF Handles
  <2>2. h.kind = "surface" => \E x \in Range(surfs') : x.id = h.id
    <3> SUFFICES ASSUME h.kind = "surface" PROVE \E x \in Range(v) : x.id = h.id
      BY <1>5
    <3>1. PICK x \in Range(surfs) : x.id = h.id /\ h.what = h.id
      BY <2>1 DEF Names
    <3> QED
      BY <1>3, <3>1
  <2>3. h.kind = "derived" => \E x \in Range(derived') : x.id = h.id /\ x.mem = h.what
    <3> SUFFICES ASSUME h.kind = "derived"
                 PROVE  \E x \in Range(derived') : x.id = h.id /\ x.mem = h.what
      OBVIOUS
    <3>1. PICK x \in Range(derived) : x.id = h.id /\ x.mem = h.what
      BY <2>1 DEF Names
    <3>2. PICK y \in Range(surfs) : y.id = x.mem
      BY <1>1 DEF Mappings
    <3>3. Has(v, x.mem)
      BY <1>3, <1>12, <3>1, <3>2
    <3> QED
      BY <1>3, <3>1, <3>3
  <2>4. h.kind = "context" =>
           \E x \in Range(engines') : x.id = h.id /\ decs'[x.dec].profile = h.what
    <3> SUFFICES ASSUME h.kind = "context"
                 PROVE  \E x \in Range(engines) : x.id = h.id /\ decs'[x.dec].profile = h.what
      BY <1>2
    <3>1. PICK x \in Range(engines) : x.id = h.id /\ decs[x.dec].profile = h.what
      BY <2>1 DEF Names
    <3>2. x.dec \in Active
      BY ActiveIs
    <3> QED
      BY <1>7, <1>8, <3>1, <3>2
  <2>5. /\ h.kind = "surface" => h.what = h.id
        /\ h.kind \in {"config", "context", "surface", "buffer", "image", "derived"}
        /\ h.kind = "config"  => \E x \in Range(configs) : x.id = h.id /\ x.profile = h.what
        /\ h.kind = "buffer"  => \E x \in Range(bufs) : x.id = h.id /\ x.type = h.what
        /\ h.kind = "image"   => h.what = "image" /\ \E x \in Range(imgs) : x.id = h.id
    BY <2>1 DEF Names
  <2> QED
    BY <1>2, <2>2, <2>3, <2>4, <2>5 DEF Names
<1>15. DecsSound'
  <2>1. \A o \in DOMAIN decs :
          /\ IF o \in Active' \cup Retired' THEN DecWhole(decs'[o]) ELSE decs'[o] = Gone
          /\ decs'[o].cur <= ids.surface /\ decs'[o].last <= ids.surface
    <3> SUFFICES ASSUME NEW o \in DOMAIN decs
                 PROVE  /\ IF o \in Active' \cup Retired' THEN DecWhole(decs'[o]) ELSE decs'[o] = Gone
                        /\ decs'[o].cur <= ids.surface /\ decs'[o].last <= ids.surface
      OBVIOUS
    <3>1. /\ IF o \in Active \cup Retired THEN DecWhole(decs[o]) ELSE decs[o] = Gone
          /\ decs[o].cur <= ids.surface /\ decs[o].last <= ids.surface
      BY <1>1 DEF DecsSound
    <3>2. CASE o \in gone
      BY <1>7, <1>8, <3>2
    <3>3. CASE o \notin gone
      BY <1>7, <1>8, <3>1, <3>3
    <3> QED
      BY <3>2, <3>3
  <2>2. Len(refs') = Len(decs')
    BY <1>1, <1>8, <1>9 DEF DecsSound
  <2> QED
    BY <1>2, <1>8, <1>9, <2>1, <2>2 DEF DecsSound
<1>16. Placed'
  <2>1. \A o \in Retired' : IsVp9(o)'
    <3> SUFFICES ASSUME NEW o \in Retired, o \notin gone PROVE IsVp9(o)'
      BY <1>6
    <3>1. IsVp9(o)
      BY <1>1 DEF Placed
    <3>2. o \in DOMAIN decs
      BY <1>7
    <3>3. decs'[o] = decs[o]
      BY <1>8, <3>2
    <3> QED
      BY <3>1, <3>3 DEF IsVp9
  <2>2. Active' \cap Retired' = {} /\ Active' \cup Retired' \subseteq DOMAIN decs'
    BY <1>1, <1>6, <1>7, <1>8 DEF Placed
  <2> QED
    BY <1>1, <1>2, <1>4, <2>1, <2>2 DEF Placed
<1>17. Owners'
  <2> SUFFICES ASSUME NEW x \in Range(surfs')
               PROVE  x.owner \in ((Active \cup Retired) \ gone) \cup {None}
    BY <1>7 DEF Owners
  <2>1. PICK y \in Range(v) : IF y.owner \in gone THEN x.owner = None ELSE x.owner = y.owner
    BY <1>5
  <2>2. y.owner \in Active \cup Retired \cup {None}
    BY <1>1, <1>3 DEF Owners
  <2> QED
    BY <2>1, <2>2
<1>18. RefsOwned'
  <2> SUFFICES ASSUME NEW o \in DOMAIN refs, NEW z \in refs'[o]
               PROVE  /\ Owns(surfs', o, z)
                      /\ decs'[o].started /\ ~decs'[o].eos /\ ~decs'[o].fatal
    BY <1>9 DEF RefsOwned
  <2>1. z \in refs[o] /\ z \notin freed /\ o \notin gone /\ o \in DOMAIN decs
    BY <1>9, RefsShape
  <2>2. Owns(surfs, o, z) /\ decs[o].started /\ ~decs[o].eos /\ ~decs[o].fatal
    BY <1>1, <2>1 DEF RefsOwned
  <2> QED
    BY <1>3, <1>5, <1>8, <2>1, <2>2
<1>19. PicturesPlaced'
  BY <1>1, <1>2 DEF PicturesPlaced
<1>20. RefsStay
  <2> SUFFICES ASSUME NEW o \in DOMAIN refs, IsVp9(o), NEW z \in refs[o] \ refs'[o]
               PROVE  ~Has(surfs', z)
    BY Zenon DEF RefsStay
  <2>1. CASE o \notin gone
    BY <1>3, <1>5, <1>9, <2>1
  <2>2. CASE o \in gone
    <3> SUFFICES ASSUME Has(v, z) PROVE FALSE
      BY <1>5
    <3>1. Owns(surfs, o, z) /\ decs[o].started /\ ~decs[o].eos /\ ~decs[o].fatal
      BY <1>1 DEF RefsOwned
    <3>2. Owns(v, o, z)
      BY <1>3, <3>1
    <3>3. Retain(v, o)
      BY <3>1, <3>2 DEF Retain, Owns, Range
    <3> QED
      BY <1>4, <2>2, <3>3
  <2> QED
    BY <2>1, <2>2
<1> QED
  BY <1>10, <1>11, <1>13, <1>14, <1>15, <1>16, <1>17, <1>18, <1>19, <1>20 DEF FrontendInv

(* vaTerminate: as at the beginning.                                          *)
LEMMA TerminateKeeps ==
    ASSUME FrontendInv, Terminate
    PROVE  FrontendInv' /\ RefsStay
<1>1. releaseAu' \in BOOLEAN /\ client' \in Clients
  BY DEF Terminate, Platform, FrontendInv, Counted
<1>2. Init'
  BY <1>1 DEF Terminate, Init
<1>3. FrontendInv'
  BY <1>2, FrontendInit, PTL
<1>4. RefsStay
  BY DEF Terminate, RefsStay
<1> QED
  BY <1>3, <1>4

-----------------------------------------------------------------------------
(* The behaviours of the frontend                                             *)

LEMMA ListsTyped ==
    ASSUME NEW list \in Lists
    PROVE  list \in Seq(SurfaceIds)
<1> DEFINE S == SurfaceIds
<1>1. CASE list \in {<<s>> : s \in S}
  <2>1. PICK s \in S : list = <<s>>
    BY <1>1
  <2> HIDE DEF S
  <2>2. <<s>> \in Seq(S)
    OBVIOUS
  <2> QED
    BY <2>1, <2>2 DEF S
<1>2. CASE list \in {<<s, t>> : s, t \in S}
  <2>1. PICK s \in S, t \in S : list = <<s, t>>
    BY <1>2
  <2> HIDE DEF S
  <2>2. <<s, t>> \in Seq(S)
    OBVIOUS
  <2> QED
    BY <2>1, <2>2 DEF S
<1> QED
  BY <1>1, <1>2 DEF Lists

(* A call that leaves the sessions alone takes no reference from them.        *)
LEMMA TablesOnlyStay ==
    ASSUME OnlyTables
    PROVE  RefsStay
  BY DEF OnlyTables, RefsStay

LEMMA NextKeeps ==
    ASSUME FrontendInv, Next
    PROVE  FrontendInv' /\ RefsStay
<1>1. /\ 1..ids.config \subseteq Nat /\ 1..ids.buffer \subseteq Nat /\ SurfaceIds \subseteq Nat
      /\ ids.surface \in Nat
  BY CounterFields DEF FrontendInv, Counted, SurfaceIds
<1>2. CASE \E p \in client.profiles : CreateConfig(p)
  BY <1>2, CreateConfigKeeps, TablesOnlyStay DEF CreateConfig
<1>3. CASE \E c \in 1..ids.config : DestroyConfig(c)
  BY <1>1, <1>3, DestroyConfigKeeps, TablesOnlyStay DEF DestroyConfig
<1>4. CASE \E c \in 1..ids.config, w \in client.sizes : CreateContext(c, w)
  BY <1>1, <1>4, CreateContextKeeps
<1>5. CASE \E c \in 1..ids.context : DestroyContext(c)
  BY <1>5, DestroyContextKeeps
<1>6. CASE \E c \in 1..ids.context, s \in SurfaceIds : BeginPicture(c, s)
  BY <1>6, BeginPictureKeeps
<1>7. CASE \E c \in 1..ids.context, R \in SUBSET SurfaceIds :
              Cardinality(R) <= 3 /\ RenderParameters(c, R)
  BY <1>7, RenderParametersKeeps
<1>8. CASE \E c \in 1..ids.context : RenderSlice(c)
  BY <1>8, RenderSliceKeeps
<1>9. CASE \E c \in 1..ids.context, key, pause \in BOOLEAN : EndPicture(c, key, pause)
  BY <1>9, EndPictureKeeps
<1>10. CASE \E c \in 1..ids.context : EndPictureFails(c)
  BY <1>10, EndPictureFailsKeeps
<1>11. CASE \E s \in SurfaceIds : Land(s)
  BY <1>11, LandKeeps
<1>12. CASE \E s \in SurfaceIds : SyncSurface(s)
  BY <1>12, SyncSurfaceKeeps
<1>13. CASE \E n \in 1..2 : \E k \in 0..n : CreateSurfaces(n, k)
  <2>1. 1..2 \subseteq Nat
    OBVIOUS
  <2> QED
    BY <1>13, <2>1, CreateSurfacesKeeps
<1>14. CASE \E list \in Lists : DestroySurfaces(list)
  <2>1. PICK list \in Lists : DestroySurfaces(list)
    BY <1>14
  <2>2. list \in Seq(SurfaceIds)
    BY <2>1, ListsTyped
  <2> QED
    BY <2>1, <2>2, DestroySurfacesKeeps
<1>15. CASE \E type \in {"picture", "slice"} : CreateBuffer(type)
  BY <1>15, CreateBufferKeeps, TablesOnlyStay DEF CreateBuffer
<1>16. CASE \E b \in 1..ids.buffer : DestroyBuffer(b)
  BY <1>1, <1>16, DestroyBufferKeeps, TablesOnlyStay DEF DestroyBuffer
<1>17. CASE CreateImage
  BY <1>17, CreateImageKeeps, TablesOnlyStay DEF CreateImage
<1>18. CASE \E s \in SurfaceIds : DeriveImage(s)
  BY <1>1, <1>18, DeriveImageKeeps, TablesOnlyStay DEF DeriveImage
<1>19. CASE \E m \in 1..ids.buffer : DestroyImage(m)
  BY <1>1, <1>19, DestroyImageKeeps, TablesOnlyStay DEF DestroyImage
<1>20. CASE Terminate
  BY <1>20, TerminateKeeps
<1> QED
  BY <1>2, <1>3, <1>4, <1>5, <1>6, <1>7, <1>8, <1>9, <1>10, <1>11, <1>12, <1>13, <1>14,
     <1>15, <1>16, <1>17, <1>18, <1>19, <1>20 DEF Next

LEMMA StutterKeeps ==
    ASSUME FrontendInv, UNCHANGED vars
    PROVE  FrontendInv' /\ RefsStay
<1>1. /\ ids' = ids /\ configs' = configs /\ bufs' = bufs /\ imgs' = imgs
      /\ derived' = derived /\ engines' = engines /\ retired' = retired /\ decs' = decs
      /\ surfs' = surfs /\ releaseAu' = releaseAu /\ client' = client /\ held' = held
      /\ refs' = refs
  BY DEF vars, tables
<1>2. RefsStay
  BY <1>1 DEF RefsStay
<1>3. Active' = Active /\ Retired' = Retired
  BY <1>1 DEF Active, Retired
<1>4. /\ Tables' /\ ObjectsApart' /\ Surfaces' /\ Engines' /\ Mappings' /\ Handles'
  BY <1>1 DEF FrontendInv, Tables, TableOf, ObjectsApart, Surfaces, Engines, Mappings,
              Handles, Names
<1>5. /\ Counted' /\ DecsSound' /\ Placed' /\ Owners' /\ RefsOwned' /\ PicturesPlaced'
  BY <1>1, <1>3 DEF FrontendInv, Counted, DecsSound, Placed, Owners, RefsOwned,
                    PicturesPlaced, IsVp9
<1> QED
  BY <1>2, <1>4, <1>5 DEF FrontendInv

LEMMA StepKeeps ==
    ASSUME FrontendInv, [Next]_vars
    PROVE  FrontendInv' /\ RefsStay
  BY NextKeeps, StutterKeeps

(* In every call's aftermath: the tables hold what the handles name, contexts *)
(* are in one place, and a session that can be predicted from owns the        *)
(* surfaces of its references and runs.                                       *)
THEOREM FrontendHolds == Spec => []FrontendInv
<1>1. FrontendInv /\ [Next]_vars => FrontendInv'
  BY StepKeeps
<1> QED
  BY <1>1, FrontendInit, PTL DEF Spec

-----------------------------------------------------------------------------
(* What a run checks, for every bound                                         *)

LEMMA TypesFollow ==
    ASSUME FrontendInv
    PROVE  TypeOK
<1>1. Counted /\ Tables /\ Surfaces /\ Engines /\ DecsSound /\ Placed
  BY DEF FrontendInv
<1>2. \A kind \in DOMAIN ids : ids[kind] \in 0..client[kind] + 1
  <2>1. ids \in Counters /\ client \in Clients
    BY <1>1 DEF Counted
  <2>2. DOMAIN ids = {"config", "context", "surface", "buffer", "fault"}
    BY <2>1 DEF Counters
  <2>3. /\ ids.config \in Nat /\ ids.context \in Nat /\ ids.surface \in Nat
        /\ ids.buffer \in Nat /\ ids.fault \in Nat
    BY <2>1 DEF Counters
  <2>4. /\ client.config \in Nat /\ client.context \in Nat /\ client.surface \in Nat
        /\ client.buffer \in Nat /\ client.fault \in Nat
    BY <2>1, FrontendAssumption
  <2>5. /\ ids.config <= client.config /\ ids.context <= client.context
        /\ ids.surface <= client.surface /\ ids.buffer <= client.buffer
        /\ ids.fault <= client.fault
    BY <1>1 DEF Counted
  <2> QED
    BY <2>2, <2>3, <2>4, <2>5
<1>3. /\ Len(configs) <= MaxConfigs /\ Len(engines) <= MaxEngines
      /\ Len(retired) <= MaxEngines /\ Len(surfs) <= MaxSurfaces
      /\ Len(bufs) <= MaxBuffers /\ Len(imgs) <= MaxImages /\ Len(derived) <= MaxDerived
  BY <1>1 DEF Tables, TableOf, Surfaces, Engines, Placed
<1>4. ASSUME NEW d \in DOMAIN decs
      PROVE  /\ decs[d] # Gone => decs[d].profile \in Profiles /\ decs[d].size \in Sizes
             /\ decs[d].started => decs[d].open
             /\ decs[d].eos => decs[d].started
             /\ {decs[d].cur, decs[d].last} \subseteq 0..ids.surface
  <2>1. DecWhole(decs[d]) \/ decs[d] = Gone
    BY <1>1 DEF DecsSound
  <2>2. decs[d].cur \in 0..ids.surface /\ decs[d].last \in 0..ids.surface
    <3>1. decs[d] \in DecRecord /\ decs[d].cur <= ids.surface /\ decs[d].last <= ids.surface
      BY <1>1 DEF DecsSound
    <3>2. decs[d].cur \in Nat /\ decs[d].last \in Nat /\ ids.surface \in Nat
      BY <1>1, <3>1, CounterFields DEF DecRecord
    <3> QED
      BY <3>1, <3>2
  <2>3. ~Gone.started /\ ~Gone.eos
    BY DEF Gone, FreshDec
  <2> QED
    BY <2>1, <2>2, <2>3 DEF DecWhole
<1>5. Len(refs) = Len(decs)
  BY <1>1 DEF DecsSound
<1> QED
  BY <1>2, <1>3, <1>4, <1>5 DEF TypeOK

(* Every table keeps to its bound and every id to what its counter gave, and  *)
(* a session is at its end only when it was started, started only when it is  *)
(* open.                                                                      *)
THEOREM FrontendTyped == Spec => []TypeOK
<1>1. FrontendInv => TypeOK
  BY TypesFollow
<1> QED
  BY <1>1, FrontendHolds, PTL

LEMMA HandlesFollow ==
    ASSUME FrontendInv
    PROVE  HandlesResolve
<1>1. Tables /\ Surfaces /\ Engines /\ ObjectsApart /\ Handles
  BY DEF FrontendInv
<1>2. /\ configs \in Seq(ConfigRecord) /\ IdsApart(configs)
      /\ bufs \in Seq(BufferRecord) /\ IdsApart(bufs)
      /\ imgs \in Seq(ImageRecord) /\ IdsApart(imgs)
      /\ derived \in Seq(DerivedRecord) /\ IdsApart(derived)
      /\ surfs \in Seq(SurfaceRecord) /\ IdsApart(surfs)
      /\ engines \in Seq(EngineRecord) /\ IdsApart(engines)
  BY <1>1, TableParts DEF Tables, Surfaces, Engines
<1> SUFFICES ASSUME NEW h \in held PROVE Resolves(h)
  BY DEF HandlesResolve
<1>3. Names(h)
  BY <1>1 DEF Handles
<1>4. CASE h.kind = "config"
  <2>1. PICK x \in Range(configs) : x.id = h.id /\ x.profile = h.what
    BY <1>3, <1>4 DEF Names
  <2>2. Has(configs, h.id) /\ Entry(configs, h.id) = x
    BY <1>2, <2>1, LookUp
  <2> QED
    BY <1>4, <2>1, <2>2 DEF Resolves
<1>5. CASE h.kind = "context"
  <2>1. PICK x \in Range(engines) : x.id = h.id /\ decs[x.dec].profile = h.what
    BY <1>3, <1>5 DEF Names
  <2>2. Has(engines, h.id) /\ Entry(engines, h.id) = x
    BY <1>2, <2>1, LookUp
  <2> QED
    BY <1>5, <2>1, <2>2 DEF Resolves
<1>6. CASE h.kind = "surface"
  <2>1. Has(surfs, h.id)
    BY <1>2, <1>3, <1>6, HasMeans DEF Names
  <2> QED
    BY <1>6, <2>1 DEF Resolves
<1>7. CASE h.kind = "derived"
  <2>1. PICK x \in Range(derived) : x.id = h.id /\ x.mem = h.what
    BY <1>3, <1>7 DEF Names
  <2>2. Has(derived, h.id) /\ Entry(derived, h.id) = x
    BY <1>2, <2>1, LookUp
  <2>3. Mapped(h.id) = <<"derived", h.what>>
    BY <2>1, <2>2 DEF Mapped
  <2> QED
    BY <1>7, <2>3 DEF Resolves
<1>8. CASE h.kind = "image"
  <2>1. PICK x \in Range(imgs) : x.id = h.id
    BY <1>3, <1>8 DEF Names
  <2>2. Has(imgs, h.id)
    BY <1>2, <2>1, LookUp
  <2>3. ~Has(derived, h.id)
    BY <1>1, <1>2, <2>1, HasMeans DEF ObjectsApart
  <2>4. Mapped(h.id) = <<"image", "image">>
    BY <2>2, <2>3 DEF Mapped
  <2>5. h.what = "image"
    BY <1>3, <1>8 DEF Names
  <2> QED
    BY <1>8, <2>4, <2>5 DEF Resolves
<1>9. CASE h.kind = "buffer"
  <2>1. PICK x \in Range(bufs) : x.id = h.id /\ x.type = h.what
    BY <1>3, <1>9 DEF Names
  <2>2. Has(bufs, h.id) /\ Entry(bufs, h.id) = x
    BY <1>2, <2>1, LookUp
  <2>3. ~Has(derived, h.id) /\ ~Has(imgs, h.id)
    BY <1>1, <1>2, <2>1, HasMeans DEF ObjectsApart
  <2>4. Mapped(h.id) = <<"buffer", h.what>>
    BY <2>1, <2>2, <2>3 DEF Mapped
  <2> QED
    BY <1>9, <2>4 DEF Resolves
<1> QED
  BY <1>3, <1>4, <1>5, <1>6, <1>7, <1>8, <1>9 DEF Names

(* Whatever was created and destroyed before, in whichever order, a handle    *)
(* the client holds still finds the object it was given for: a table's hole   *)
(* is refilled with its last entry, and vaMapBuffer asks three tables.        *)
THEOREM HandlesStayResolved == Spec => []HandlesResolve
<1>1. FrontendInv => HandlesResolve
  BY HandlesFollow
<1> QED
  BY <1>1, FrontendHolds, PTL

(* A derived image's mapping is of a surface that is still registered.        *)
THEOREM MappingsStayLive == Spec => []MappingsLive
<1>1. FrontendInv => MappingsLive
  <2> SUFFICES ASSUME FrontendInv PROVE MappingsLive
    OBVIOUS
  <2>1. surfs \in Seq(SurfaceRecord) /\ derived \in Seq(DerivedRecord) /\ Mappings
    BY TableParts DEF FrontendInv, Tables, Surfaces
  <2>2. \A i \in DOMAIN derived : \E x \in Range(surfs) : x.id = derived[i].mem
    BY <2>1, RangeOf DEF Mappings
  <2> QED
    BY <2>1, <2>2, HasMeans DEF MappingsLive
<1> QED
  BY <1>1, FrontendHolds, PTL

(* An inter picture is drawn by the session that decoded its references, when *)
(* there is one.                                                              *)
THEOREM PicturesFindTheirReferences == Spec => []PicturesMeetTheirReferences
<1>1. FrontendInv => PicturesMeetTheirReferences
  BY DEF FrontendInv, PicturesPlaced, PicturesMeetTheirReferences, Range
<1> QED
  BY <1>1, FrontendHolds, PTL

(* No call ends what a VP9 session can predict from, but for the reasons the  *)
(* property names.                                                            *)
THEOREM ReferencesStay == Spec => ReferencesKept
<1>1. FrontendInv /\ [Next]_vars
      => [\A d \in DOMAIN refs \cap DOMAIN refs' : IsVp9(d) =>
             \A s \in refs[d] \ refs'[d] :
                \/ ~Has(surfs', s)
                \/ Entry(surfs', s).owner \notin {d, None}
                \/ KeyFrameEnds(d)
                \/ ids'.fault > ids.fault
                \/ Len(retired) = MaxEngines /\ Len(engines') < Len(engines)
                \/ ~releaseAu]_vars
  BY StepKeeps DEF RefsStay
<1> QED
  BY <1>1, FrontendHolds, PTL DEF Spec, ReferencesKept

-----------------------------------------------------------------------------
(* Contexts in one place                                                      *)

(* A table whose entries differ has as many values as places.                 *)
LEMMA OnceCounts ==
    ASSUME NEW S, NEW t \in Seq(S), Once(t)
    PROVE  IsFiniteSet({t[i] : i \in DOMAIN t}) /\ Cardinality({t[i] : i \in DOMAIN t}) = Len(t)
<1> DEFINE n == Len(t)
           V == {t[i] : i \in DOMAIN t}
           f == [i \in 1..n |-> t[i]]
<1>1. n \in Nat /\ DOMAIN t = 1..n
  OBVIOUS
<1>2. IsFiniteSet(1..n) /\ Cardinality(1..n) = n
  BY <1>1, FS_Interval
<1>3. f \in Bijection(1..n, V)
  <2>1. f \in [1..n -> V]
    BY <1>1
  <2>2. \A a, b \in 1..n : f[a] = f[b] => a = b
    BY <1>1 DEF Once
  <2>3. \A v \in V : \E a \in 1..n : f[a] = v
    BY <1>1
  <2> HIDE DEF f, V
  <2> QED
    BY <2>1, <2>2, <2>3 DEF Bijection, Injection, Surjection, IsInjective
<1>4. ExistsBijection(1..n, V)
  BY <1>3 DEF ExistsBijection
<1> HIDE DEF V
<1>5. IsFiniteSet(V) /\ Cardinality(V) = n
  BY <1>2, <1>4, FS_Bijection
<1> QED
  BY <1>5 DEF V

LEMMA ContextsFollow ==
    ASSUME FrontendInv
    PROVE  ContextsPlaced
<1>1. Engines /\ Placed /\ Owners /\ Surfaces /\ RefsOwned
  BY DEF FrontendInv
<1>2. /\ engines \in Seq(EngineRecord) /\ Once(engines) /\ DOMAIN engines = 1..Len(engines)
      /\ Len(engines) \in Nat /\ \A i \in DOMAIN engines : engines[i] \in Range(engines)
  BY <1>1, TableParts DEF Engines
<1>3. IsFiniteSet(Active) /\ Cardinality(Active) = Len(engines)
  <2> DEFINE t == [i \in 1..Len(engines) |-> engines[i].dec]
  <2>1. t \in Seq(Nat) /\ Len(t) = Len(engines) /\ DOMAIN t = DOMAIN engines
    <3>1. \A i \in 1..Len(engines) : engines[i].dec \in Nat
      <4>1. \A i \in 1..Len(engines) : engines[i] \in EngineRecord
        BY <1>2
      <4> QED
        BY <4>1 DEF EngineRecord
    <3> QED
      BY <1>2, <3>1
  <2>2. \A i \in DOMAIN engines : t[i] = engines[i].dec
    BY <1>2
  <2> HIDE DEF t
  <2>3. Once(t)
    BY <1>1, <1>2, <2>1, <2>2 DEF Placed, Once
  <2>4. Active = {t[i] : i \in DOMAIN t}
    BY <2>1, <2>2 DEF Active
  <2> QED
    BY <2>1, <2>3, <2>4, OnceCounts
<1>4. IsFiniteSet(Retired) /\ Cardinality(Retired) = Len(retired) /\ Len(retired) \in Nat
  <2>1. retired \in Seq(Nat) /\ Once(retired)
    BY <1>1 DEF Placed
  <2>2. /\ IsFiniteSet({retired[i] : i \in DOMAIN retired})
        /\ Cardinality({retired[i] : i \in DOMAIN retired}) = Len(retired)
    BY <2>1, OnceCounts
  <2>3. Len(retired) \in Nat
    BY <2>1
  <2> QED
    BY <2>2, <2>3 DEF Retired
<1>5. Cardinality(Active \cup Retired) = Len(engines) + Len(retired)
  <2>1. Active \cap Retired = {}
    BY <1>1 DEF Placed
  <2>2. Cardinality(Active \cap Retired) = 0
    BY <2>1, FS_EmptySet
  <2>3. Cardinality(Active \cup Retired)
           = Cardinality(Active) + Cardinality(Retired) - Cardinality(Active \cap Retired)
    BY <1>3, <1>4, FS_Union
  <2> QED
    BY <1>2, <1>3, <1>4, <2>2, <2>3
<1>6. \A i \in DOMAIN surfs : surfs[i].owner \in Active \cup Retired \cup {None}
  BY <1>1 DEF Owners, Range
<1>7. ASSUME NEW d \in DOMAIN refs, refs[d] # {}
      PROVE  d \in Active \cup Retired
  <2>1. PICK s : s \in refs[d]
    BY <1>7
  <2>2. PICK x \in Range(surfs) : x.owner = d
    BY <1>1, <2>1 DEF RefsOwned, Owns
  <2>3. d # None
    <3>1. DOMAIN refs = 1..Len(refs)
      BY RefsShape
    <3> QED
      BY <1>7, <3>1 DEF None
  <2> QED
    BY <1>1, <2>2, <2>3 DEF Owners
<1> QED
  BY <1>5, <1>6, <1>7 DEF ContextsPlaced

(* A decode context serves one VA context or waits among the retired, never   *)
(* both and never twice, and what a surface names as its owner is there.      *)
THEOREM ContextsStayPlaced == Spec => []ContextsPlaced
<1>1. FrontendInv => ContextsPlaced
  BY ContextsFollow
<1> QED
  BY <1>1, FrontendHolds, PTL

-----------------------------------------------------------------------------
(* The sweep of the waiting sessions                                          *)

LEMMA SweptHold ==
    ASSUME FrontendInv, NEW S, NEW list \in Seq(S), Len(surfs) = Len(surfs') + Len(list),
           DestroySurfaces(list)
    PROVE  \A i \in DOMAIN retired' : \E j \in DOMAIN surfs' : surfs'[j].owner = retired'[i]
<1> DEFINE st == FreedAll(list)
           v == st.surfs
           kept == IF st.ok THEN SweepOut(retired, {d \in Retired : ~Retain(v, d)}) ELSE retired
           gone == Retired \ {kept[i] : i \in DOMAIN kept}
           n == Len(list)
<1>1. surfs' = Destroyed(v, gone) /\ retired' = kept
  BY DEF DestroySurfaces
<1>2. st \in FreedStates /\ FreedSoFar(st, list, n)
  <2>1. Surfaces /\ TableOf(derived, DerivedRecord, MaxDerived, ids.buffer) /\ Mappings
    BY DEF FrontendInv, Tables
  <2> QED
    BY <2>1, ListFrees
<1>3. PICK ok : ok = st.ok
  OBVIOUS
<1>4. Sifts(ok, v, kept, gone)
  BY <1>3 DEF Sifts
<1>5. /\ v \in Seq(SurfaceRecord) /\ ok \in BOOLEAN
      /\ ~ok => Len(v) > Len(surfs) - n
  BY <1>2, <1>3 DEF FreedStates, FreedSoFar
<1> HIDE DEF st, v, kept, gone
<1>6. /\ kept \in Seq(Nat) /\ Range(kept) = Retired \ gone
      /\ ok => \A d \in Range(kept) : Retain(v, d)
  BY <1>4, RetiredSwept
<1>7. PICK q : q = surfs' /\ q = Destroyed(v, gone)
  BY <1>1
<1>8. /\ Kin(q, v)
      /\ \A o, z : Owns(v, o, z) /\ o \notin gone => Owns(q, o, z)
  BY <1>5, <1>7, DestroyedKin
<1>9. ok
  <2>1. Len(q) = Len(v) /\ Len(q) \in Nat
    BY <1>8 DEF Kin
  <2>2. n \in Nat /\ Len(surfs) \in Nat
    BY RefsShape
  <2> QED
    BY <1>5, <1>7, <2>1, <2>2
<1>10. ASSUME NEW d \in Range(kept)
       PROVE  \E j \in DOMAIN q : q[j].owner = d
  <2>1. Retain(v, d) /\ d \notin gone
    BY <1>6, <1>9
  <2>2. PICK i \in DOMAIN v : v[i].owner = d
    BY <2>1 DEF Retain
  <2>3. Owns(v, d, v[i].id)
    BY <1>5, <2>2, RangeOf DEF Owns
  <2>4. Owns(q, d, v[i].id)
    BY <1>8, <2>1, <2>3
  <2> QED
    BY <2>4 DEF Owns, Range
<1>11. \A i \in DOMAIN kept : kept[i] \in Range(kept)
  BY DEF Range
<1> QED
  BY <1>1, <1>7, <1>10, <1>11

(* When every surface of the list was freed, the sessions that go on waiting  *)
(* all have a surface left that they decoded.                                 *)
THEOREM SweepLeavesHolders == Spec => SweptSessionsHoldReferences
<1>1. FrontendInv /\ [Next]_vars
      => [\A list \in Lists :
             /\ Len(surfs) = Len(surfs') + Len(list)
             /\ \A j \in DOMAIN list : Has(surfs, list[j]) /\ ~Has(surfs', list[j])
             /\ DestroySurfaces(list)
             => \A i \in DOMAIN retired' :
                   \E j \in DOMAIN surfs' : surfs'[j].owner = retired'[i]]_vars
  <2> SUFFICES ASSUME FrontendInv, NEW list \in Lists,
                      Len(surfs) = Len(surfs') + Len(list), DestroySurfaces(list)
               PROVE  \A i \in DOMAIN retired' :
                         \E j \in DOMAIN surfs' : surfs'[j].owner = retired'[i]
    OBVIOUS
  <2>1. list \in Seq(SurfaceIds)
    BY ListsTyped
  <2> QED
    BY <2>1, SweptHold
<1> QED
  BY <1>1, FrontendHolds, PTL DEF Spec, SweptSessionsHoldReferences
=============================================================================
