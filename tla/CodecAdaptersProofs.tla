------------------------- MODULE CodecAdaptersProofs -------------------------
(* The codec adapters, for every set of well-formed streams and every limit    *)
(* on slices: a firmware session sees one coded sequence, it is replaced       *)
(* exactly at the key pictures that begin a stream, and where no slice header  *)
(* is rewritten the firmware can parse every unit it accepts.                  *)
EXTENDS CodecAdapters, FiniteSetTheorems, SequenceTheorems, WellFoundedInduction, TLAPS

-----------------------------------------------------------------------------
(* Loops.                                                                     *)

(* What holds at 0 and is handed on holds for every number.                   *)
LEMMA Counting ==
    ASSUME NEW T, 0 \in T, \A k \in Nat : k \in T => k + 1 \in T
    PROVE  Nat \subseteq T
<1> SUFFICES ASSUME Nat \ T # {} PROVE FALSE
  OBVIOUS
<1> DEFINE R == OpToRel(<, Nat)
<1>1. IsWellFoundedOn(R, Nat)
  BY NatLessThanWellFounded
<1>2. R = {p \in Nat \X Nat : p[1] < p[2]}
  BY DEF OpToRel
<1> HIDE DEF R
<1>3. PICK x \in Nat \ T : \A y \in Nat \ T : <<y, x>> \notin R
  <2> DEFINE U == Nat \ T
  <2>1. U \subseteq Nat /\ U # {}
    OBVIOUS
  <2> HIDE DEF U
  <2>2. \E x \in U : \A y \in U : ~(<<y, x>> \in R)
    BY <1>1, <2>1, WFMin
  <2> QED
    BY <2>2 DEF U
<1>4. x # 0 /\ x - 1 \in Nat
  BY <1>3
<1> DEFINE p == <<x - 1, x>>
<1>5. p \in Nat \X Nat /\ p[1] < p[2]
  BY <1>3, <1>4
<1>6. p \in R
  BY <1>2, <1>5
<1>7. x - 1 \in T
  BY <1>3, <1>4, <1>6
<1> QED
  BY <1>3, <1>4, <1>7

(* The states of a loop, round by round.                                      *)
Rounds(n, X, b, F) ==
    {f \in [0..n -> X] : f[0] = b /\ \A k \in 1..n : f[k] = F[<<k, f[k - 1]>>]}

LEMMA LoopsRun ==
    ASSUME NEW n \in Nat, NEW X, NEW b \in X, NEW F \in [(1..n) \X X -> X]
    PROVE  Rounds(n, X, b, F) # {}
<1> DEFINE T == {m \in Nat : m <= n => Rounds(m, X, b, F) # {}}
<1>1. 0 \in T
  <2>1. [k \in 0..0 |-> b] \in Rounds(0, X, b, F)
    BY DEF Rounds
  <2> QED
    BY <2>1
<1>2. ASSUME NEW m \in Nat, m \in T
      PROVE  m + 1 \in T
  <2> SUFFICES ASSUME m + 1 <= n PROVE Rounds(m + 1, X, b, F) # {}
    OBVIOUS
  <2>1. PICK f \in [0..m -> X] : f[0] = b /\ \A k \in 1..m : f[k] = F[<<k, f[k - 1]>>]
    BY <1>2 DEF Rounds
  <2> DEFINE x == F[<<m + 1, f[m]>>]
             g == [k \in 0..(m + 1) |-> IF k = m + 1 THEN x ELSE f[k]]
  <2>2. f[m] \in X /\ m + 1 \in 1..n
    BY <2>1
  <2>3. x \in X
    BY <2>2
  <2>4. x = F[<<m + 1, f[m]>>]
    OBVIOUS
  <2> HIDE DEF x
  <2>5. g \in [0..(m + 1) -> X]
    BY <2>1, <2>3
  <2>6. g[0] = b
    BY <2>1
  <2>7. ASSUME NEW k \in 1..(m + 1)
        PROVE  g[k] = F[<<k, g[k - 1]>>]
    <3>1. CASE k = m + 1
      <4>1. g[k] = x /\ g[k - 1] = f[m]
        BY <3>1
      <4> QED
        BY <2>4, <3>1, <4>1
    <3>2. CASE k # m + 1
      <4>1. k \in 1..m /\ g[k] = f[k] /\ g[k - 1] = f[k - 1]
        BY <3>2
      <4> QED
        BY <2>1, <4>1
    <3> QED
      BY <3>1, <3>2
  <2> HIDE DEF g
  <2>8. g \in Rounds(m + 1, X, b, F)
    BY <2>5, <2>6, <2>7 DEF Rounds
  <2> QED
    BY <2>8
<1> HIDE DEF T
<1>3. Nat \subseteq T
  BY <1>1, <1>2, Counting
<1> QED
  BY <1>3 DEF T

-----------------------------------------------------------------------------
(* Sequences, whatever they hold.                                             *)

IsSeq(s) == s \in Seq(Range(s))

LEMMA SeqShape ==
    ASSUME NEW s, IsSeq(s)
    PROVE  /\ Len(s) \in Nat /\ DOMAIN s = 1..Len(s)
           /\ \A i \in 1..Len(s) : s[i] \in Range(s)
           /\ \A x \in Range(s) : \E i \in 1..Len(s) : x = s[i]
           /\ s # <<>> <=> Len(s) # 0
  BY DEF IsSeq, Range

LEMMA SeqIsSeq ==
    ASSUME NEW S, NEW s \in Seq(S)
    PROVE  IsSeq(s) /\ Range(s) \subseteq S
<1> DEFINE n == Len(s)
<1>1. n \in Nat /\ DOMAIN s = 1..n /\ s \in [1..n -> S]
  OBVIOUS
<1>2. s \in [1..n -> Range(s)]
  BY <1>1 DEF Range
<1>3. s \in Seq(Range(s))
  <2> HIDE DEF n
  <2>1. \A i \in 1..n : s[i] \in Range(s)
    BY <1>1 DEF Range
  <2>2. [i \in 1..n |-> s[i]] \in Seq(Range(s))
    BY <1>1, <2>1, IsASeq
  <2> QED
    BY <1>1, <2>2
<1> QED
  BY <1>1, <1>3 DEF IsSeq, Range

LEMMA ListIsSeq ==
    ASSUME NEW n \in Nat, NEW f, NEW s, s = [i \in 1..n |-> f[i]]
    PROVE  IsSeq(s) /\ Len(s) = n /\ DOMAIN s = 1..n /\ \A i \in 1..n : s[i] = f[i]
<1>1. \A i \in 1..n : f[i] \in Range(s)
  BY DEF Range
<1>2. [i \in 1..n |-> f[i]] \in Seq(Range(s))
  <2> DEFINE R == Range(s)
  <2>1. \A i \in 1..n : f[i] \in R
    BY <1>1
  <2> HIDE DEF R
  <2>2. [i \in 1..n |-> f[i]] \in Seq(R)
    BY <2>1, IsASeq
  <2> QED
    BY <2>2 DEF R
<1> QED
  BY <1>2 DEF IsSeq

LEMMA JoinIsSeq ==
    ASSUME NEW s, NEW t, IsSeq(s), IsSeq(t)
    PROVE  /\ IsSeq(s \o t) /\ Len(s \o t) = Len(s) + Len(t)
           /\ Range(s \o t) = Range(s) \cup Range(t)
           /\ \A i \in 1..Len(s) : (s \o t)[i] = s[i]
           /\ \A i \in 1..Len(t) : (s \o t)[Len(s) + i] = t[i]
<1> DEFINE S == Range(s) \cup Range(t)
           u == s \o t
           m == Len(s)
           n == Len(t)
<1>1. s \in Seq(S) /\ t \in Seq(S)
  <2>1. s \in Seq(Range(s)) /\ t \in Seq(Range(t))
    BY DEF IsSeq
  <2> QED
    BY <2>1, SeqMonotonic
<1>2. m \in Nat /\ n \in Nat /\ DOMAIN s = 1..m /\ DOMAIN t = 1..n
  BY SeqShape
<1>3. /\ u \in Seq(S) /\ Len(u) = m + n
      /\ \A i \in 1..(m + n) : u[i] = IF i <= m THEN s[i] ELSE t[i - m]
  <2> HIDE DEF S
  <2> QED
    BY <1>1, ConcatProperties
<1>4. DOMAIN u = 1..(m + n)
  BY <1>3
<1> HIDE DEF u, m, n
<1>5. IsSeq(u) /\ Range(u) \subseteq S
  BY <1>3, SeqIsSeq
<1>6. \A i \in 1..m : u[i] = s[i]
  BY <1>2, <1>3
<1>7. \A i \in 1..n : u[m + i] = t[i]
  BY <1>2, <1>3
<1>8. Range(s) \subseteq Range(u)
  BY <1>2, <1>4, <1>6 DEF Range
<1>9. Range(t) \subseteq Range(u)
  <2> SUFFICES ASSUME NEW i \in 1..n PROVE t[i] \in Range(u)
    BY <1>2 DEF Range
  <2>1. m + i \in DOMAIN u /\ u[m + i] = t[i]
    BY <1>2, <1>4, <1>7
  <2> QED
    BY <2>1 DEF Range
<1> QED
  BY <1>3, <1>5, <1>6, <1>7, <1>8, <1>9 DEF u, m, n

LEMMA OneIsSeq ==
    ASSUME NEW x
    PROVE  IsSeq(<<x>>) /\ Len(<<x>>) = 1 /\ Range(<<x>>) = {x} /\ <<x>>[1] = x
  BY DEF IsSeq, Range

LEMMA NoneIsSeq ==
    IsSeq(<<>>) /\ Len(<<>>) = 0 /\ Range(<<>>) = {}
  BY DEF IsSeq, Range

LEMMA AppendIsSeq ==
    ASSUME NEW s, NEW x, IsSeq(s)
    PROVE  /\ IsSeq(Append(s, x)) /\ Range(Append(s, x)) = Range(s) \cup {x}
           /\ Append(s, x) # <<>>
<1>1. s \in Seq(Range(s) \cup {x})
  <2>1. s \in Seq(Range(s))
    BY DEF IsSeq
  <2> QED
    BY <2>1, SeqMonotonic
<1>2. Append(s, x) = s \o <<x>>
  BY <1>1
<1>3. /\ IsSeq(s \o <<x>>) /\ Range(s \o <<x>>) = Range(s) \cup {x}
      /\ Len(s \o <<x>>) = Len(s) + 1
  BY OneIsSeq, JoinIsSeq
<1>4. Len(s) + 1 # 0
  BY SeqShape
<1> QED
  BY <1>2, <1>3, <1>4, NoneIsSeq

(* Element by element.                                                         *)
LEMMA SameList ==
    ASSUME NEW s, NEW t, IsSeq(s), IsSeq(t), Len(s) = Len(t), \A i \in 1..Len(s) : s[i] = t[i]
    PROVE  s = t
<1> DEFINE S == Range(s) \cup Range(t)
<1>1. s \in Seq(S) /\ t \in Seq(S)
  <2>1. s \in Seq(Range(s)) /\ t \in Seq(Range(t))
    BY DEF IsSeq
  <2> QED
    BY <2>1, SeqMonotonic
<1> HIDE DEF S
<1> QED
  BY <1>1, SeqEqual

-----------------------------------------------------------------------------
(* The NAL units of a buffer, one after another, and where each one starts.   *)

Flattening(S, ss, f) ==
    /\ f \in [0..Len(ss) -> Seq(S)] /\ f[0] = <<>>
    /\ \A k \in 1..Len(ss) : f[k] = f[k - 1] \o ss[k]

LEMMA FlattenRuns ==
    ASSUME NEW S, NEW ss \in Seq(Seq(S)), ss # <<>>
    PROVE  \E f : Flattening(S, ss, f) /\ FlattenSeq(ss) = f[Len(ss)]
<1> DEFINE n == Len(ss)
           X == Seq(S)
           F == [p \in (1..n) \X X |-> p[2] \o ss[p[1]]]
<1>1. n \in Nat /\ n # 0 /\ <<>> \in X /\ \A k \in 1..n : ss[k] \in X
  OBVIOUS
<1>2. F \in [(1..n) \X X -> X]
  <2>1. \A p \in (1..n) \X X : p[2] \o ss[p[1]] \in X
    <3> SUFFICES ASSUME NEW k \in 1..n, NEW x \in X PROVE x \o ss[k] \in X
      OBVIOUS
    <3> QED
      BY <1>1
  <2> QED
    BY <2>1
<1>3. PICK f \in [0..n -> X] : f[0] = <<>> /\ \A k \in 1..n : f[k] = F[<<k, f[k - 1]>>]
  <2> HIDE DEF F, X, n
  <2>1. Rounds(n, X, <<>>, F) # {}
    BY <1>1, <1>2, LoopsRun
  <2> QED
    BY <2>1 DEF Rounds
<1>4. \A k \in 1..n : f[k - 1] \in X /\ f[k] = f[k - 1] \o ss[k]
  <2> SUFFICES ASSUME NEW k \in 1..n PROVE f[k - 1] \in X /\ f[k] = f[k - 1] \o ss[k]
    OBVIOUS
  <2>1. f[k - 1] \in X
    <3> HIDE DEF X, n, F
    <3> QED
      BY <1>1, <1>3
  <2>2. <<k, f[k - 1]>> \in (1..n) \X X
    BY <2>1
  <2>3. F[<<k, f[k - 1]>>] = f[k - 1] \o ss[k]
    BY <2>2
  <2> QED
    BY <1>3, <2>1, <2>3
<1> DEFINE g == [k \in 1..n |-> f[k]]
<1>5. f[1] = ss[1]
  <2> HIDE DEF F, X, n
  <2>0. 1 \in 1..n /\ 1 - 1 = 0
    BY <1>1
  <2>1. f[1] = f[0] \o ss[1]
    BY <1>4, <2>0
  <2>2. ss[1] \in X /\ f[0] = <<>>
    BY <1>1, <1>3, <2>0
  <2>3. <<>> \o ss[1] = ss[1]
    BY <2>2, ConcatEmptySeq DEF X
  <2> QED
    BY <2>1, <2>2, <2>3
<1>6. g = [k \in 1..n |-> IF k = 1 THEN ss[k] ELSE g[k - 1] \o ss[k]]
  <2>1. \A k \in 1..n : f[k] = IF k = 1 THEN ss[k] ELSE g[k - 1] \o ss[k]
    <3> SUFFICES ASSUME NEW k \in 1..n, k # 1 PROVE f[k] = g[k - 1] \o ss[k]
      BY <1>5
    <3>1. g[k - 1] = f[k - 1]
      BY <1>1
    <3> QED
      BY <1>4, <3>1
  <2> QED
    BY <2>1
<1> HIDE DEF g
<1>7. PICK w : /\ w = [k \in 1..n |-> IF k = 1 THEN ss[k] ELSE w[k - 1] \o ss[k]]
               /\ FlattenSeq(ss) = w[n]
  <2>1. \E w : /\ w = [k \in 1..n |-> IF k = 1 THEN ss[k] ELSE w[k - 1] \o ss[k]]
               /\ FlattenSeq(ss) = w[n]
    BY <1>1, <1>6, Zenon DEF FlattenSeq
  <2> QED
    BY <2>1
<1>8. \A k \in 1..n : w[k] = IF k = 1 THEN ss[k] ELSE w[k - 1] \o ss[k]
  BY <1>7
<1>9. \A k \in 1..n : w[k] = f[k]
  <2> DEFINE T == {k \in Nat : k + 1 <= n => w[k + 1] = f[k + 1]}
  <2>1. 0 \in T
    BY <1>1, <1>5, <1>8
  <2>2. ASSUME NEW k \in Nat, k \in T PROVE k + 1 \in T
    <3> SUFFICES ASSUME k + 2 <= n PROVE w[k + 2] = f[k + 2]
      OBVIOUS
    <3>1. w[k + 1] = f[k + 1] /\ k + 2 \in 1..n /\ k + 2 # 1 /\ (k + 2) - 1 = k + 1
      BY <1>1, <2>2
    <3>2. w[k + 2] = w[k + 1] \o ss[k + 2]
      BY <1>8, <3>1
    <3>3. f[k + 2] = f[k + 1] \o ss[k + 2]
      BY <1>4, <3>1
    <3> QED
      BY <3>1, <3>2, <3>3
  <2> HIDE DEF T
  <2>3. Nat \subseteq T
    BY <2>1, <2>2, Counting
  <2>4. \A k \in 1..n : k - 1 \in T /\ (k - 1) + 1 = k /\ k <= n
    BY <1>1, <2>3
  <2> QED
    BY <2>4 DEF T
<1>10. Flattening(S, ss, f)
  BY <1>3, <1>4 DEF Flattening
<1>11. FlattenSeq(ss) = f[n]
  <2> HIDE DEF F, X, n
  <2>1. n \in 1..n
    BY <1>1
  <2> QED
    BY <1>7, <1>9, <2>1
<1> QED
  BY <1>10, <1>11

(* One sequence is itself.                                                    *)
LEMMA FlattenOne ==
    ASSUME NEW S, NEW x \in Seq(S)
    PROVE  FlattenSeq(<<x>>) = x
<1> DEFINE ss == <<x>>
<1>1. ss \in Seq(Seq(S)) /\ ss # <<>> /\ Len(ss) = 1 /\ ss[1] = x
  OBVIOUS
<1> HIDE DEF ss
<1>2. PICK f : Flattening(S, ss, f) /\ FlattenSeq(ss) = f[Len(ss)]
  BY <1>1, FlattenRuns
<1>3. f[1] = f[0] \o x /\ f[0] = <<>>
  <2>1. f[0] = <<>> /\ \A k \in 1..Len(ss) : f[k] = f[k - 1] \o ss[k]
    BY <1>2 DEF Flattening
  <2>2. 1 \in 1..Len(ss) /\ 1 - 1 = 0
    BY <1>1
  <2> QED
    BY <1>1, <2>1, <2>2
<1>4. <<>> \o x = x
  BY ConcatEmptySeq
<1> QED
  BY <1>1, <1>2, <1>3, <1>4 DEF ss

LEMMA JoinPlaces ==
    ASSUME NEW S, NEW a \in Seq(S), NEW b \in Seq(S), NEW c, c = a \o b
    PROVE  /\ Len(a) \in Nat /\ Len(b) \in Nat /\ Len(c) = Len(a) + Len(b)
           /\ \A j \in 1..Len(a) : c[j] = a[j]
           /\ Len(b) >= 1 => c[Len(a) + 1] = b[1]
<1>1. /\ Len(a \o b) = Len(a) + Len(b)
      /\ \A j \in 1..(Len(a) + Len(b)) :
            (a \o b)[j] = IF j <= Len(a) THEN a[j] ELSE b[j - Len(a)]
  BY ConcatProperties
<1>2. Len(a) \in Nat /\ Len(b) \in Nat
  OBVIOUS
<1> DEFINE m == Len(a)
           n == Len(b)
           d == a \o b
<1> HIDE DEF m, n, d
<1>3. /\ m \in Nat /\ n \in Nat /\ Len(d) = m + n
      /\ \A j \in 1..(m + n) : d[j] = IF j <= m THEN a[j] ELSE b[j - m]
  BY <1>1, <1>2 DEF m, n, d
<1>4. \A j \in 1..m : d[j] = a[j]
  BY <1>3
<1>5. n >= 1 => d[m + 1] = b[1]
  <2> SUFFICES ASSUME n >= 1 PROVE d[m + 1] = b[1]
    OBVIOUS
  <2>1. m + 1 \in 1..(m + n) /\ ~(m + 1 <= m) /\ (m + 1) - m = 1
    BY <1>3
  <2> QED
    BY <1>3, <2>1
<1> QED
  BY <1>3, <1>4, <1>5 DEF m, n, d

(* What comes before the i-th sequence is as long as those before it, and the  *)
(* i-th begins there.                                                         *)
LEMMA FlattenPlaces ==
    ASSUME NEW S, NEW ss \in Seq(Seq(S)), NEW f, Flattening(S, ss, f),
           NEW i \in 1..Len(ss), ss[i] # <<>>
    PROVE  /\ f[Len(ss)] \in Seq(S) /\ Len(f[i - 1]) \in Nat
           /\ Len(f[i - 1]) + Len(ss[i]) <= Len(f[Len(ss)])
           /\ f[Len(ss)][Len(f[i - 1]) + 1] = ss[i][1]
<1> DEFINE n == Len(ss)
           from == Len(f[i - 1])
           size == Len(ss[i])
           x == ss[i][1]
           T == {k \in Nat : i + k <= n => /\ from + size <= Len(f[i + k])
                                           /\ f[i + k][from + 1] = x}
<1> HIDE DEF from, size, x, T
<1>1. /\ n \in Nat /\ i \in Nat /\ i >= 1 /\ i <= n
      /\ \A k \in 0..n : f[k] \in Seq(S)
      /\ \A k \in 1..n : ss[k] \in Seq(S) /\ f[k] = f[k - 1] \o ss[k]
  <2>1. n \in Nat /\ i \in Nat /\ i >= 1 /\ i <= n /\ \A k \in 1..n : ss[k] \in Seq(S)
    OBVIOUS
  <2>2. f \in [0..n -> Seq(S)] /\ \A k \in 1..n : f[k] = f[k - 1] \o ss[k]
    BY DEF Flattening
  <2> HIDE DEF n
  <2> QED
    BY <2>1, <2>2
<1> HIDE DEF n
<1>2. from \in Nat /\ size \in Nat /\ size >= 1
  <2>1. i - 1 \in 0..n /\ i \in 1..n
    BY <1>1
  <2>2. f[i - 1] \in Seq(S) /\ ss[i] \in Seq(S) /\ ss[i] # <<>>
    BY <1>1, <2>1
  <2> QED
    BY <2>2 DEF from, size
<1>3. from + size <= Len(f[i]) /\ f[i][from + 1] = x
  <2>1. f[i - 1] \in Seq(S) /\ ss[i] \in Seq(S) /\ f[i] = f[i - 1] \o ss[i]
    <3>1. i - 1 \in 0..n /\ i \in 1..n
      BY <1>1
    <3> QED
      BY <1>1, <3>1
  <2>2. Len(f[i]) = from + size /\ (size >= 1 => f[i][from + 1] = x)
    <3> DEFINE a == f[i - 1]
               b == ss[i]
               c == f[i]
    <3>1. a \in Seq(S) /\ b \in Seq(S) /\ c = a \o b
      BY <2>1
    <3> HIDE DEF a, b, c
    <3>2. Len(c) = Len(a) + Len(b) /\ (Len(b) >= 1 => c[Len(a) + 1] = b[1])
      BY <3>1, JoinPlaces
    <3> QED
      BY <3>2 DEF a, b, c, from, size, x
  <2> QED
    BY <1>2, <2>2
<1>4. 0 \in T
  <2>1. i + 0 = i
    BY <1>1
  <2> QED
    BY <1>3, <2>1 DEF T
<1>5. ASSUME NEW k \in Nat, k \in T PROVE k + 1 \in T
  <2> DEFINE m == i + k
  <2> SUFFICES ASSUME m + 1 <= n
               PROVE  from + size <= Len(f[m + 1]) /\ f[m + 1][from + 1] = x
    <3>1. i + (k + 1) = m + 1
      BY <1>1
    <3> HIDE DEF m
    <3>2. m + 1 <= n => from + size <= Len(f[m + 1]) /\ f[m + 1][from + 1] = x
      OBVIOUS
    <3> QED
      BY <3>1, <3>2 DEF T
  <2>1. m \in Nat /\ m \in 0..n /\ m + 1 \in 1..n /\ (m + 1) - 1 = m
    BY <1>1
  <2>2. from + size <= Len(f[m]) /\ f[m][from + 1] = x
    BY <1>5, <2>1 DEF T
  <2>3. f[m] \in Seq(S) /\ ss[m + 1] \in Seq(S) /\ f[m + 1] = f[m] \o ss[m + 1]
    <3> HIDE DEF m
    <3> QED
      BY <1>1, <2>1
  <2> HIDE DEF m
  <2>4. /\ Len(f[m]) \in Nat /\ Len(ss[m + 1]) \in Nat
        /\ Len(f[m + 1]) = Len(f[m]) + Len(ss[m + 1])
        /\ \A j \in 1..Len(f[m]) : f[m + 1][j] = f[m][j]
    <3> DEFINE a == f[m]
               b == ss[m + 1]
               c == f[m + 1]
    <3>1. a \in Seq(S) /\ b \in Seq(S) /\ c = a \o b
      BY <2>3
    <3> HIDE DEF a, b, c
    <3>2. /\ Len(a) \in Nat /\ Len(b) \in Nat /\ Len(c) = Len(a) + Len(b)
          /\ \A j \in 1..Len(a) : c[j] = a[j]
      BY <3>1, JoinPlaces
    <3> QED
      BY <3>2 DEF a, b, c
  <2>5. from + 1 \in 1..Len(f[m])
    BY <1>2, <2>2, <2>4
  <2>6. f[m + 1][from + 1] = x
    BY <2>2, <2>4, <2>5
  <2>7. from + size <= Len(f[m + 1])
    <3> DEFINE q == Len(f[m + 1])
               o == Len(f[m])
               l == Len(ss[m + 1])
    <3>1. o \in Nat /\ l \in Nat /\ q = o + l /\ from + size <= o
      BY <2>2, <2>4
    <3> HIDE DEF q, o, l
    <3>2. from + size <= q
      BY <1>2, <3>1
    <3> QED
      BY <3>2 DEF q
  <2> QED
    BY <2>6, <2>7
<1> HIDE DEF T
<1>6. Nat \subseteq T
  BY <1>4, <1>5, Counting
<1>7. n - i \in T /\ i + (n - i) = n
  BY <1>1, <1>6
<1>8. from + size <= Len(f[n]) /\ f[n][from + 1] = x
  BY <1>1, <1>7 DEF T
<1>9. n \in 0..n
  BY <1>1
<1> QED
  BY <1>1, <1>2, <1>8, <1>9 DEF n, from, size, x

-----------------------------------------------------------------------------
(* Where a slice lies.                                                        *)

Rewriting == stream.codec = "hevc" /\ stream.packing # "inband"

SliceTypes(p) == {n.nal : n \in Range(p.slices)}

(* The slices of an HEVC picture are byte sequences that begin with their type. *)
HasBytes(p) ==
    /\ IsSeq(p.slices) /\ p.slices # <<>>
    /\ \A i \in 1..Len(p.slices) :
          /\ p.slices[i].bytes \in Seq(Byte) /\ p.slices[i].bytes # <<>>
          /\ NalType(p.slices[i].bytes) = p.slices[i].nal

BytesIn(p) == [i \in DOMAIN p.slices |-> p.slices[i].bytes]

LEMMA BytesAreSeqs ==
    ASSUME NEW p, HasBytes(p)
    PROVE  /\ BytesIn(p) \in Seq(Seq(Byte)) /\ Len(BytesIn(p)) = Len(p.slices)
           /\ Len(p.slices) \in Nat \ {0}
           /\ \A i \in 1..Len(p.slices) : BytesIn(p)[i] = p.slices[i].bytes
<1> DEFINE n == Len(p.slices)
           s == p.slices
<1>1. /\ n \in Nat /\ n # 0 /\ DOMAIN s = 1..n
      /\ \A i \in 1..n : s[i].bytes \in Seq(Byte)
  BY SeqShape DEF HasBytes
<1> HIDE DEF n, s
<1>2. BytesIn(p) = [i \in 1..n |-> s[i].bytes]
  BY <1>1 DEF BytesIn, s
<1>3. [i \in 1..n |-> s[i].bytes] \in [1..n -> Seq(Byte)]
  BY <1>1
<1>4. BytesIn(p) \in Seq(Seq(Byte)) /\ Len(BytesIn(p)) = n
  BY <1>1, <1>2, <1>3
<1> QED
  BY <1>1, <1>2, <1>4 DEF n, s

LEMMA OffsetIsPlace ==
    ASSUME NEW p, HasBytes(p), stream.codec = "hevc", stream.packing = "joint",
           NEW f, Flattening(Byte, BytesIn(p), f), NEW i \in 1..Len(p.slices)
    PROVE  Offset(p, i) = Len(f[i - 1])
<1> DEFINE b == BytesIn(p)
           n == Len(p.slices)
           X == Seq(Byte)
           m == i - 1
<1>1. /\ n \in Nat /\ Len(b) = n /\ b \in Seq(X)
      /\ \A k \in 1..n : b[k] = p.slices[k].bytes /\ b[k] \in X
  BY BytesAreSeqs
<1>2. /\ \A k \in 0..n : f[k] \in X
      /\ \A k \in 1..n : f[k] = f[k - 1] \o b[k]
      /\ f[0] = <<>>
  <2>1. f \in [0..Len(b) -> X] /\ f[0] = <<>> /\ \A k \in 1..Len(b) : f[k] = f[k - 1] \o b[k]
    BY DEF Flattening
  <2> HIDE DEF b, n, X
  <2> QED
    BY <1>1, <2>1
<1>3. m \in Nat /\ m <= n
  BY <1>1
<1> DEFINE g == [k \in 0..m |-> Len(f[k])]
<1>4. g = [k \in 0..m |-> IF k = 0 THEN 0 ELSE g[k - 1] + Size(p.slices[k])]
  <2>1. \A k \in 0..m : Len(f[k]) = IF k = 0 THEN 0 ELSE g[k - 1] + Size(p.slices[k])
    <3>1. Len(f[0]) = 0
      BY <1>2
    <3>2. ASSUME NEW k \in 1..m PROVE Len(f[k]) = g[k - 1] + Size(p.slices[k])
      <4>1. k \in 1..n /\ k - 1 \in 0..n /\ k - 1 \in 0..m
        BY <1>1, <1>3
      <4> DEFINE x == f[k - 1]
                 y == b[k]
                 z == f[k]
      <4>2. x \in X /\ y \in X /\ z = x \o y /\ y = p.slices[k].bytes
        BY <1>1, <1>2, <4>1
      <4>3. g[k - 1] = Len(x)
        BY <4>1
      <4> HIDE DEF x, y, z, g, b
      <4>4. Len(z) = Len(x) + Len(y)
        BY <4>2, JoinPlaces
      <4>5. Size(p.slices[k]) = Len(y)
        BY <4>2 DEF Size
      <4> QED
        BY <4>3, <4>4, <4>5 DEF z
    <3> HIDE DEF g, b, n, X
    <3>3. ASSUME NEW k \in 0..m
          PROVE  Len(f[k]) = IF k = 0 THEN 0 ELSE g[k - 1] + Size(p.slices[k])
      <4>1. CASE k = 0
        BY <3>1, <4>1
      <4>2. CASE k # 0
        <5>1. k \in 1..m
          BY <1>3, <4>2
        <5> QED
          BY <3>2, <4>2, <5>1
      <4> QED
        BY <4>1, <4>2
    <3> QED
      BY <3>3
  <2> QED
    BY <2>1
<1> HIDE DEF g
<1>5. PICK w : /\ w = [k \in 0..m |-> IF k = 0 THEN 0 ELSE w[k - 1] + Size(p.slices[k])]
               /\ Offset(p, i) = w[m]
  <2>1. stream.packing = "joint"
    OBVIOUS
  <2>2. \E w : /\ w = [k \in 0..m |-> IF k = 0 THEN 0 ELSE w[k - 1] + Size(p.slices[k])]
               /\ Offset(p, i) = w[m]
    BY <1>4, <2>1, Zenon DEF Offset
  <2> QED
    BY <2>2
<1>6. \A k \in 0..m : w[k] = IF k = 0 THEN 0 ELSE w[k - 1] + Size(p.slices[k])
  BY <1>5
<1>7. \A k \in 0..m : g[k] = IF k = 0 THEN 0 ELSE g[k - 1] + Size(p.slices[k])
  BY <1>4
<1> DEFINE T == {k \in Nat : k <= m => w[k] = g[k]}
<1>8. 0 \in T
  <2>1. 0 \in 0..m
    BY <1>3
  <2> QED
    BY <1>6, <1>7, <2>1
<1>9. ASSUME NEW k \in Nat, k \in T PROVE k + 1 \in T
  <2> SUFFICES ASSUME k + 1 <= m PROVE w[k + 1] = g[k + 1]
    OBVIOUS
  <2>1. w[k] = g[k] /\ k + 1 \in 0..m /\ k + 1 # 0 /\ (k + 1) - 1 = k
    BY <1>3, <1>9
  <2> HIDE DEF T
  <2> QED
    BY <1>6, <1>7, <2>1
<1> HIDE DEF T
<1>10. Nat \subseteq T
  BY <1>8, <1>9, Counting
<1>11. w[m] = g[m]
  BY <1>3, <1>10 DEF T
<1>12. g[m] = Len(f[m])
  BY <1>3 DEF g
<1> QED
  BY <1>5, <1>11, <1>12

(* What hevc_append_rewritten_slices takes for the source of a slice begins   *)
(* as a slice of the picture does (hevc_codec.c:176-182).                     *)
LEMMA SourceIsSlice ==
    ASSUME NEW p, HasBytes(p), Rewriting, NEW j \in 1..Len(p.slices), NEW nals,
           IF stream.packing = "joint" THEN nals = p.slices
           ELSE \E m \in 1..Len(p.slices) : nals = <<p.slices[m]>>,
           ~(Params(p, j).offset + Params(p, j).size > Len(Concatenated(nals)))
    PROVE  NalType(Source(Concatenated(nals), Params(p, j))) \in SliceTypes(p)
<1> DEFINE b == BytesIn(p)
           n == Len(p.slices)
           X == Seq(Byte)
           o == Offset(p, j)
           l == Len(p.slices[j].bytes)
           c == Concatenated(nals)
<1>1. /\ n \in Nat \ {0} /\ b \in Seq(X) /\ Len(b) = n /\ DOMAIN p.slices = 1..n
      /\ \A k \in 1..n : b[k] = p.slices[k].bytes /\ b[k] \in X /\ b[k] # <<>>
  <2>1. IsSeq(p.slices)
    BY DEF HasBytes
  <2>2. DOMAIN p.slices = 1..n
    BY <2>1, SeqShape
  <2> QED
    BY <2>2, BytesAreSeqs DEF HasBytes
<1>2. stream.codec = "hevc"
  BY DEF Rewriting
<1>3. Params(p, j).offset = o /\ Params(p, j).size = l
  BY <1>2 DEF Params, Size
<1>4. l \in Nat \ {0}
  <2>1. p.slices[j].bytes \in X /\ p.slices[j].bytes # <<>>
    BY <1>1
  <2> QED
    BY <2>1
<1>5. /\ o \in Nat /\ c \in X
      /\ o + l <= Len(c) => \E k \in 1..n : c[o + 1] = p.slices[k].bytes[1]
  <2>1. CASE stream.packing = "joint"
    <3>1. stream.packing = "joint"
      BY <2>1
    <3>2. c = FlattenSeq(b)
      BY <2>1 DEF Concatenated, BytesIn
    <3> HIDE DEF b, c, o, l, X
    <3>3. b # <<>>
      BY <1>1
    <3>4. PICK f : Flattening(Byte, b, f) /\ FlattenSeq(b) = f[Len(b)]
      BY <1>1, <3>3, FlattenRuns DEF X
    <3>5. o = Len(f[j - 1])
      BY <1>2, <3>1, <3>4, OffsetIsPlace DEF b, o
    <3>6. /\ f[Len(b)] \in Seq(Byte) /\ Len(f[j - 1]) \in Nat
          /\ f[Len(b)][Len(f[j - 1]) + 1] = b[j][1]
      <4>1. j \in 1..Len(b) /\ b[j] # <<>> /\ b \in Seq(Seq(Byte))
        BY <1>1 DEF X
      <4>2. Flattening(Byte, b, f)
        BY <3>4
      <4> QED
        BY <4>1, <4>2, FlattenPlaces
    <3>7. c[o + 1] = p.slices[j].bytes[1]
      BY <1>1, <3>2, <3>4, <3>5, <3>6
    <3> QED
      BY <3>2, <3>4, <3>5, <3>6, <3>7 DEF X
  <2>2. CASE stream.packing # "joint"
    <3>1. PICK m \in 1..n : nals = <<p.slices[m]>>
      BY <2>2
    <3>2. o = 0
      BY <2>2 DEF Offset
    <3>3. c = FlattenSeq(<<p.slices[m].bytes>>)
      <4>1. [i \in DOMAIN nals |-> nals[i].bytes] = <<p.slices[m].bytes>>
        BY <3>1
      <4> QED
        BY <4>1 DEF Concatenated
    <3>4. c = p.slices[m].bytes
      <4>1. p.slices[m].bytes \in Seq(Byte)
        BY <1>1
      <4> QED
        BY <3>3, <4>1, FlattenOne
    <3>5. p.slices[m].bytes \in X
      BY <1>1
    <3> HIDE DEF c, o, l, X, b, n
    <3>6. c \in X /\ o + 1 = 1 /\ o \in Nat /\ c[1] = p.slices[m].bytes[1]
      BY <3>2, <3>4, <3>5
    <3> QED
      BY <3>1, <3>6
  <2> HIDE DEF c, o, l, X, b, n
  <2> QED
    BY <2>1, <2>2
<1>11. o + l <= Len(c)
  <2>1. ~(o + l > Len(c))
    <3> HIDE DEF o, l
    <3> QED
      BY <1>3
  <2>2. Len(c) \in Nat
    <3> HIDE DEF c
    <3> QED
      BY <1>5
  <2> HIDE DEF c, o, l
  <2> QED
    BY <1>4, <1>5, <2>1, <2>2
<1>6. PICK k \in 1..n : c[o + 1] = p.slices[k].bytes[1]
  <2> HIDE DEF c, o, l
  <2> QED
    BY <1>5, <1>11
<1>7. Source(c, Params(p, j))[1] = c[o + 1]
  <2>1. o + l <= Len(c)
    BY <1>11
  <2> HIDE DEF o, l, c
  <2>2. Source(c, Params(p, j)) = SubSeq(c, o + 1, o + l)
    BY <1>3 DEF Source
  <2>3. \A i \in (o + 1)..(o + l) : c[i] \in Byte
    <3>1. c \in Seq(Byte) /\ o \in Nat /\ l \in Nat
      BY <1>4, <1>5
    <3>2. \A i \in 1..Len(c) : c[i] \in Byte
      BY <3>1
    <3>3. Len(c) \in Nat
      BY <3>1
    <3> QED
      BY <2>1, <3>1, <3>2, <3>3
  <2>4. \A i \in 1..((o + l) - (o + 1) + 1) : SubSeq(c, o + 1, o + l)[i] = c[(o + 1) + i - 1]
    <3> DEFINE m == o + 1
               z == o + l
    <3>1. m \in Int /\ z \in Int /\ \A i \in m..z : c[i] \in Byte
      BY <1>4, <1>5, <2>3
    <3> HIDE DEF m, z
    <3>2. \A i \in 1..(z - m + 1) : SubSeq(c, m, z)[i] = c[m + i - 1]
      BY <3>1, SubSeqProperties
    <3> QED
      BY <3>2 DEF m, z
  <2>5. 1 \in 1..((o + l) - (o + 1) + 1) /\ (o + 1) + 1 - 1 = o + 1
    BY <1>4, <1>5
  <2> QED
    BY <2>2, <2>4, <2>5
<1>8. NalType(Source(c, Params(p, j))) = NalType(p.slices[k].bytes)
  BY <1>6, <1>7 DEF NalType
<1>9. NalType(p.slices[k].bytes) = p.slices[k].nal
  BY <1>6 DEF HasBytes
<1>10. p.slices[k] \in Range(p.slices)
  BY <1>1, <1>6 DEF Range
<1> QED
  BY <1>8, <1>9, <1>10 DEF SliceTypes

-----------------------------------------------------------------------------
(* Rewriting the slices of a buffer touches the NAL units collected, and       *)
(* every one it appends is of a type of the picture's slices.                 *)

Shape(a) ==
    a = [have |-> a.have, picture |-> a.picture, iq |-> a.iq, params |-> a.params,
         data |-> a.data, next |-> a.next, ppsId |-> a.ppsId, rewritten |-> a.rewritten]

(* The states of hevc_append_rewritten_slices between two slices.             *)
Midway(a, E, P) ==
    [have : {a.have}, picture : {a.picture}, iq : {a.iq}, params : {a.params},
     data : Seq(E), next : {a.next, Unset}, ppsId : P, rewritten : BOOLEAN \cup {a.rewritten}]

OutOf(a, bytes, param) ==
    RewriteSlice(Source(bytes, param), param.slice.headerBytes, a.picture.params)

Outside(bytes, param) == param.offset + param.size > Len(bytes)

(* The NAL units the slices of a buffer may become, and their PPS ids.        *)
OutNal(a, bytes, param) ==
    [nal |-> NalType(Source(bytes, param)), bytes |-> OutOf(a, bytes, param).nal]

Fits(a, E, P, bytes, param) ==
    ~Outside(bytes, param) =>
        OutNal(a, bytes, param) \in E /\ OutOf(a, bytes, param).pps \in P

LEMMA RewriteOneStays ==
    ASSUME NEW a, NEW E, NEW P, NEW x \in Midway(a, E, P), NEW bytes, NEW param,
           Fits(a, E, P, bytes, param)
    PROVE  RewriteOne(x, bytes, param) \in Midway(a, E, P)
<1> DEFINE out == OutOf(a, bytes, param)
           source == Source(bytes, param)
           new == OutNal(a, bytes, param)
<1>1. x.picture = a.picture /\ x.data \in Seq(E)
  BY DEF Midway
<1>2. RewriteFailed(x) \in Midway(a, E, P)
  BY DEF Midway, RewriteFailed
<1>3. ASSUME ~Outside(bytes, param)
      PROVE  Kept(x, source, out) \in Midway(a, E, P)
  <2>1. new \in E /\ out.pps \in P
    BY <1>3 DEF Fits
  <2>2. new = [nal |-> NalType(source), bytes |-> out.nal]
    BY DEF OutNal
  <2> HIDE DEF out, source, new
  <2>3. Append(x.data, new) \in Seq(E)
    BY <1>1, <2>1
  <2> DEFINE d == Append(x.data, new)
             r == x.rewritten \/ out.nal # source
             q == out.pps
  <2>4. d \in Seq(E) /\ r \in BOOLEAN /\ q \in P
    BY <2>1, <2>3
  <2>5. Kept(x, source, out) =
           IF out.ret < 0 \/ x.ppsId \notin {Unset, q} THEN RewriteFailed(x)
           ELSE [x EXCEPT !.ppsId = q, !.rewritten = r, !.data = d]
    BY <2>2 DEF Kept
  <2> HIDE DEF d, r, q
  <2>6. [x EXCEPT !.ppsId = q, !.rewritten = r, !.data = d] \in Midway(a, E, P)
    BY <2>4 DEF Midway
  <2> QED
    BY <1>2, <2>5, <2>6
<1>4. RewriteOne(x, bytes, param) =
         IF ~x.have \/ Outside(bytes, param) THEN RewriteFailed(x) ELSE Kept(x, source, out)
  BY <1>1 DEF RewriteOne, Outside, OutOf
<1> QED
  BY <1>2, <1>3, <1>4

LEMMA RewriteAllStays ==
    ASSUME NEW a, Shape(a), NEW E, NEW P, NEW bytes, NEW use, NEW c \in Nat,
           c = Cardinality(use), a.data \in Seq(E), a.ppsId \in P, a.next \in Nat,
           \A k \in 1..c : Fits(a, E, P, bytes, a.params[a.next + k])
    PROVE  RewriteAll(a, bytes, use) \in Midway(a, E, P)
<1> DEFINE X == Midway(a, E, P)
           Turn(k, x) == IF x.next = Unset THEN x
                         ELSE RewriteOne(x, bytes, a.params[a.next + k])
           F == [q \in (1..c) \X X |-> Turn(q[1], q[2])]
<1>1. a \in X
  <2>1. [have |-> a.have, picture |-> a.picture, iq |-> a.iq, params |-> a.params,
         data |-> a.data, next |-> a.next, ppsId |-> a.ppsId, rewritten |-> a.rewritten] \in X
    BY DEF Midway
  <2> QED
    BY <2>1 DEF Shape
<1>2. \A k \in 1..c, x \in X : Turn(k, x) \in X
  <2> SUFFICES ASSUME NEW k \in 1..c, NEW x \in X
               PROVE  RewriteOne(x, bytes, a.params[a.next + k]) \in X
    OBVIOUS
  <2>1. Fits(a, E, P, bytes, a.params[a.next + k])
    OBVIOUS
  <2> QED
    BY <2>1, RewriteOneStays
<1> HIDE DEF X, Turn
<1>3. F \in [(1..c) \X X -> X]
  BY <1>2
<1>4. PICK f \in [0..c -> X] : f[0] = a /\ \A k \in 1..c : f[k] = F[<<k, f[k - 1]>>]
  <2> HIDE DEF F
  <2>1. Rounds(c, X, a, F) # {}
    BY <1>1, <1>3, LoopsRun
  <2> QED
    BY <2>1 DEF Rounds
<1>5. \A k \in 1..c : f[k] = Turn(k, f[k - 1])
  <2> SUFFICES ASSUME NEW k \in 1..c PROVE f[k] = Turn(k, f[k - 1])
    OBVIOUS
  <2>1. f[k - 1] \in X
    <3>1. k - 1 \in 0..c
      OBVIOUS
    <3> HIDE DEF F
    <3> QED
      BY <1>4, <3>1
  <2>2. <<k, f[k - 1]>> \in (1..c) \X X
    BY <2>1
  <2>3. F[<<k, f[k - 1]>>] = Turn(k, f[k - 1])
    BY <2>2
  <2> HIDE DEF F
  <2> QED
    BY <1>4, <2>3
<1> HIDE DEF F
<1>6. f = [k \in 0..c |-> IF k = 0 THEN a ELSE Turn(k, f[k - 1])]
  <2>1. \A k \in 0..c : f[k] = IF k = 0 THEN a ELSE Turn(k, f[k - 1])
    BY <1>4, <1>5
  <2> QED
    BY <1>4, <2>1
<1>7. PICK w : /\ w = [k \in 0..c |-> IF k = 0 THEN a ELSE Turn(k, w[k - 1])]
               /\ RewriteAll(a, bytes, use) = w[c]
  <2>1. f = [k \in 0..c |-> IF k = 0 THEN a
                            ELSE IF f[k - 1].next = Unset THEN f[k - 1]
                            ELSE RewriteOne(f[k - 1], bytes, a.params[a.next + k])]
    BY <1>6 DEF Turn
  <2>2. \E w : /\ w = [k \in 0..c |-> IF k = 0 THEN a
                                      ELSE IF w[k - 1].next = Unset THEN w[k - 1]
                                      ELSE RewriteOne(w[k - 1], bytes, a.params[a.next + k])]
               /\ RewriteAll(a, bytes, use) = w[c]
    BY <2>1, Zenon DEF RewriteAll
  <2> QED
    BY <2>2 DEF Turn
<1>8. \A k \in 0..c : w[k] = IF k = 0 THEN a ELSE Turn(k, w[k - 1])
  BY <1>7
<1> DEFINE T == {k \in Nat : k <= c => w[k] \in X}
<1>9. 0 \in T
  BY <1>1, <1>8
<1>10. ASSUME NEW k \in Nat, k \in T PROVE k + 1 \in T
  <2> SUFFICES ASSUME k + 1 <= c PROVE w[k + 1] \in X
    OBVIOUS
  <2>1. w[k] \in X /\ k + 1 \in 1..c /\ k + 1 \in 0..c /\ k + 1 # 0 /\ (k + 1) - 1 = k
    BY <1>10
  <2>2. w[k + 1] = Turn(k + 1, w[k])
    BY <1>8, <2>1
  <2> QED
    BY <1>2, <2>1, <2>2
<1> HIDE DEF T
<1>11. Nat \subseteq T
  BY <1>9, <1>10, Counting
<1> QED
  BY <1>7, <1>11 DEF T, X

-----------------------------------------------------------------------------
(* What a client sends of a picture.                                          *)

Packings ==
    /\ stream.codec \in {"h264", "hevc", "vp9"}
    /\ stream.packing \in {"pairs", "joint", "spread", "inband"}
    /\ stream.packing = "inband" => stream.codec = "hevc"

HeaderLen == IF stream.codec = "vp9" THEN 1 ELSE 2

Body(p) ==
    CASE stream.packing = "pairs" ->
            [k \in 1..2 * Len(p.slices) |->
                IF k % 2 = 1 THEN SliceParams(<<Params(p, k \div 2 + 1)>>)
                ELSE SliceData(<<p.slices[k \div 2]>>)]
      [] stream.packing = "joint" -> <<SliceParams(AllParams(p)), SliceData(p.slices)>>
      [] stream.packing = "spread" ->
            <<SliceParams(AllParams(p))>> \o [i \in DOMAIN p.slices |-> SliceData(<<p.slices[i]>>)]
      [] stream.packing = "inband" -> <<SliceData(p.sets \o p.slices)>>

BodyLen(p) ==
    CASE stream.packing = "pairs" -> 2 * Len(p.slices)
      [] stream.packing = "joint" -> 2
      [] stream.packing = "spread" -> 1 + Len(p.slices)
      [] stream.packing = "inband" -> 1

BodyAt(p, j) ==
    CASE stream.packing = "pairs" ->
            IF j % 2 = 1 THEN SliceParams(<<Params(p, j \div 2 + 1)>>)
            ELSE SliceData(<<p.slices[j \div 2]>>)
      [] stream.packing = "joint" ->
            IF j = 1 THEN SliceParams(AllParams(p)) ELSE SliceData(p.slices)
      [] stream.packing = "spread" ->
            IF j = 1 THEN SliceParams(AllParams(p)) ELSE SliceData(<<p.slices[j - 1]>>)
      [] stream.packing = "inband" -> SliceData(p.sets \o p.slices)

LEMMA BodyList ==
    ASSUME Packings, NEW p, IsSeq(p.slices)
    PROVE  /\ IsSeq(Body(p)) /\ Len(Body(p)) = BodyLen(p) /\ BodyLen(p) \in Nat
           /\ \A j \in 1..BodyLen(p) : Body(p)[j] = BodyAt(p, j)
<1> DEFINE n == Len(p.slices)
<1>1. n \in Nat /\ DOMAIN p.slices = 1..n
  BY SeqShape
<1>2. CASE stream.packing = "pairs"
  <2> DEFINE f == [k \in 1..2 * n |-> IF k % 2 = 1 THEN SliceParams(<<Params(p, k \div 2 + 1)>>)
                                      ELSE SliceData(<<p.slices[k \div 2]>>)]
             m == 2 * n
             b == Body(p)
  <2>1. b = f /\ m \in Nat /\ BodyLen(p) = m
    BY <1>1, <1>2 DEF Body, BodyLen
  <2>2. f = [k \in 1..m |-> f[k]]
    OBVIOUS
  <2>3. \A k \in 1..m : f[k] = BodyAt(p, k)
    BY <1>2 DEF BodyAt
  <2> HIDE DEF f, m, b
  <2>4. IsSeq(b) /\ Len(b) = m
    BY <2>1, <2>2, ListIsSeq
  <2> QED
    BY <2>1, <2>3, <2>4 DEF b
<1>3. CASE stream.packing = "joint"
  <2> DEFINE x == SliceParams(AllParams(p))
             y == SliceData(p.slices)
             b == Body(p)
  <2>1. b = <<x, y>> /\ BodyLen(p) = 2
    BY <1>3 DEF Body, BodyLen
  <2>2. BodyAt(p, 1) = x /\ BodyAt(p, 2) = y
    BY <1>3 DEF BodyAt
  <2> HIDE DEF x, y, b
  <2>3. b \in Seq({x, y}) /\ Len(b) = 2 /\ b[1] = x /\ b[2] = y
    BY <2>1
  <2>4. IsSeq(b)
    BY <2>3, SeqIsSeq
  <2>5. \A j \in 1..2 : b[j] = BodyAt(p, j)
    <3>1. \A j \in 1..2 : j = 1 \/ j = 2
      OBVIOUS
    <3> QED
      BY <2>2, <2>3, <3>1
  <2> QED
    BY <2>1, <2>3, <2>4, <2>5 DEF b
<1>4. CASE stream.packing = "spread"
  <2> DEFINE x == SliceParams(AllParams(p))
             f == [i \in 1..n |-> SliceData(<<p.slices[i]>>)]
             b == Body(p)
  <2>1. b = <<x>> \o f /\ BodyLen(p) = 1 + n
    BY <1>1, <1>4 DEF Body, BodyLen
  <2>2. f = [k \in 1..n |-> f[k]]
    OBVIOUS
  <2>3. IsSeq(f) /\ Len(f) = n
    <3> HIDE DEF f, n
    <3> QED
      BY <1>1, <2>2, ListIsSeq
  <2>4. \A j \in 2..(1 + n) : BodyAt(p, j) = f[j - 1]
    BY <1>1, <1>4 DEF BodyAt
  <2>5. BodyAt(p, 1) = x
    BY <1>4 DEF BodyAt
  <2> HIDE DEF x, f, b, n
  <2>6. IsSeq(<<x>>) /\ Len(<<x>>) = 1 /\ <<x>>[1] = x
    BY OneIsSeq
  <2>7. /\ IsSeq(<<x>> \o f) /\ Len(<<x>> \o f) = Len(<<x>>) + Len(f)
        /\ \A i \in 1..Len(<<x>>) : (<<x>> \o f)[i] = <<x>>[i]
        /\ \A i \in 1..Len(f) : (<<x>> \o f)[Len(<<x>>) + i] = f[i]
    BY <2>3, <2>6, JoinIsSeq
  <2>8. b[1] = x /\ \A i \in 1..n : b[1 + i] = f[i]
    BY <2>1, <2>3, <2>6, <2>7
  <2>9. \A j \in 1..(1 + n) : b[j] = BodyAt(p, j)
    <3> SUFFICES ASSUME NEW j \in 2..(1 + n) PROVE b[j] = BodyAt(p, j)
      BY <1>1, <2>5, <2>8
    <3>1. j - 1 \in 1..n /\ 1 + (j - 1) = j
      BY <1>1
    <3> QED
      BY <2>4, <2>8, <3>1
  <2> QED
    BY <1>1, <2>1, <2>3, <2>6, <2>7, <2>9 DEF b
<1>5. CASE stream.packing = "inband"
  <2> DEFINE x == SliceData(p.sets \o p.slices)
             b == Body(p)
  <2>1. b = <<x>> /\ BodyLen(p) = 1 /\ BodyAt(p, 1) = x
    BY <1>5 DEF Body, BodyLen, BodyAt
  <2> HIDE DEF x, b
  <2>2. IsSeq(b) /\ Len(b) = 1 /\ b[1] = x
    BY <2>1, OneIsSeq
  <2>3. \A j \in 1..1 : j = 1
    OBVIOUS
  <2> QED
    BY <2>1, <2>2, <2>3 DEF b
<1> QED
  BY <1>2, <1>3, <1>4, <1>5 DEF Packings

(* The picture's own buffers, then those of its slices.                       *)
LEMMA BufferList ==
    ASSUME Packings, NEW p, IsSeq(p.slices)
    PROVE  /\ Len(Buffers(p)) = HeaderLen + BodyLen(p) /\ BodyLen(p) \in Nat
           /\ Buffers(p)[1] = Picture
           /\ stream.codec # "vp9" => Buffers(p)[2] = IqMatrix
           /\ \A j \in 1..BodyLen(p) : Buffers(p)[HeaderLen + j] = BodyAt(p, j)
<1> DEFINE h == IF stream.codec = "vp9" THEN <<>> ELSE <<IqMatrix>>
           b == Body(p)
           g == <<Picture>> \o h
<1>1. Buffers(p) = g \o b
  BY DEF Buffers, Body
<1>2. IsSeq(h) /\ (stream.codec = "vp9" => Len(h) = 0)
      /\ (stream.codec # "vp9" => Len(h) = 1 /\ h[1] = IqMatrix)
  BY OneIsSeq, NoneIsSeq
<1>3. /\ IsSeq(b) /\ Len(b) = BodyLen(p) /\ BodyLen(p) \in Nat
      /\ \A j \in 1..BodyLen(p) : b[j] = BodyAt(p, j)
  BY BodyList
<1> HIDE DEF h, b
<1>4. IsSeq(<<Picture>>) /\ Len(<<Picture>>) = 1 /\ <<Picture>>[1] = Picture
  BY OneIsSeq
<1>5. /\ IsSeq(g) /\ Len(g) = Len(<<Picture>>) + Len(h)
      /\ \A i \in 1..Len(<<Picture>>) : g[i] = <<Picture>>[i]
      /\ \A i \in 1..Len(h) : g[Len(<<Picture>>) + i] = h[i]
  BY <1>2, <1>4, JoinIsSeq
<1>6. /\ IsSeq(g) /\ Len(g) = HeaderLen /\ g[1] = Picture
      /\ stream.codec # "vp9" => g[2] = IqMatrix
  <2> HIDE DEF g
  <2>1. Len(g) = 1 + Len(h) /\ g[1] = Picture /\ \A i \in 1..Len(h) : g[1 + i] = h[i]
    BY <1>4, <1>5
  <2> QED
    BY <1>2, <1>5, <2>1 DEF HeaderLen
<1> HIDE DEF g
<1>7. /\ Len(g \o b) = Len(g) + Len(b)
      /\ \A i \in 1..Len(g) : (g \o b)[i] = g[i]
      /\ \A i \in 1..Len(b) : (g \o b)[Len(g) + i] = b[i]
  BY <1>3, <1>6, JoinIsSeq
<1>8. 1 \in 1..Len(g) /\ (stream.codec # "vp9" => 2 \in 1..Len(g))
  BY <1>6 DEF HeaderLen
<1> QED
  BY <1>1, <1>3, <1>6, <1>7, <1>8

-----------------------------------------------------------------------------
(* Turns.  After j buffers of the slices, how many of their parameters and NAL *)
(* units the adapter has, and what the next buffer brings.                    *)

Total(p) == IF stream.packing = "inband" THEN p.sets \o p.slices ELSE p.slices

Given(p, j) ==
    CASE stream.packing = "pairs" -> j \div 2
      [] stream.packing = "joint" -> IF j >= 2 THEN Len(p.slices) ELSE 0
      [] stream.packing = "spread" -> IF j >= 1 THEN j - 1 ELSE 0
      [] stream.packing = "inband" -> IF j >= 1 THEN Len(Total(p)) ELSE 0

Shown(p, j) ==
    CASE stream.packing = "pairs" ->
            IF (j + 1) \div 2 <= MaxSlices THEN (j + 1) \div 2 ELSE MaxSlices
      [] stream.packing \in {"joint", "spread"} ->
            IF j >= 1 /\ Len(p.slices) <= MaxSlices THEN Len(p.slices) ELSE 0
      [] stream.packing = "inband" -> 0

(* A picture the adapter can be sent.                                         *)
Sendable(p) ==
    /\ IsSeq(p.slices) /\ p.slices # <<>>
    /\ stream.packing = "inband" => IsSeq(p.sets)
    /\ Rewriting => HasBytes(p)

ParamsTurn(p, j, ps) ==
    /\ IsSeq(ps) /\ Given(p, j + 1) = Given(p, j)
    /\ Shown(p, j + 1) = IF Len(ps) > MaxSlices - Shown(p, j) THEN Shown(p, j)
                         ELSE Shown(p, j) + Len(ps)
    /\ ~(Len(ps) > MaxSlices - Shown(p, j)) =>
          \A i \in 1..Len(ps) : ps[i] = Params(p, Shown(p, j) + i)

DataTurn(p, j, nals) ==
    /\ IsSeq(nals) /\ Given(p, j + 1) = Given(p, j) + Len(nals)
    /\ Shown(p, j + 1) = Shown(p, j)
    /\ \A i \in 1..Len(nals) : nals[i] = Total(p)[Given(p, j) + i]
    /\ Rewriting => IF stream.packing = "joint" THEN nals = p.slices
                    ELSE \E m \in 1..Len(p.slices) : nals = <<p.slices[m]>>

Turn(p, j) ==
    \/ \E ps : BodyAt(p, j + 1) = SliceParams(ps) /\ ParamsTurn(p, j, ps)
    \/ \E nals : BodyAt(p, j + 1) = SliceData(nals) /\ DataTurn(p, j, nals)

LEMMA AllParamsList ==
    ASSUME NEW p, IsSeq(p.slices)
    PROVE  /\ IsSeq(AllParams(p)) /\ Len(AllParams(p)) = Len(p.slices)
           /\ \A i \in 1..Len(p.slices) : AllParams(p)[i] = Params(p, i)
<1> DEFINE n == Len(p.slices)
           f == [i \in 1..n |-> Params(p, i)]
<1>1. n \in Nat /\ AllParams(p) = f
  BY SeqShape DEF AllParams
<1>2. f = [i \in 1..n |-> f[i]] /\ \A i \in 1..n : f[i] = Params(p, i)
  OBVIOUS
<1> HIDE DEF f, n
<1>3. IsSeq(f) /\ Len(f) = n
  BY <1>1, <1>2, ListIsSeq
<1> QED
  BY <1>1, <1>2, <1>3 DEF n

LEMMA Counts ==
    ASSUME Packings, NEW p, Sendable(p), NEW j \in 0..BodyLen(p)
    PROVE  /\ Len(p.slices) \in Nat \ {0} /\ Given(p, j) \in Nat
           /\ Shown(p, j) \in 0..MaxSlices /\ Shown(p, j) <= Len(p.slices)
           /\ stream.packing = "inband" => Shown(p, j) = 0
           /\ Given(p, 0) = 0 /\ Shown(p, 0) = 0
           /\ IsSeq(Total(p)) /\ Given(p, BodyLen(p)) = Len(Total(p))
<1> DEFINE n == Len(p.slices)
           l == BodyLen(p)
<1>1. n \in Nat \ {0} /\ MaxSlices \in Nat \ {0} /\ l \in Nat
  BY SeqShape, BodyList, MaxSlicesAssumption DEF Sendable
<1>2. IsSeq(Total(p)) /\ Len(Total(p)) \in Nat
  <2>1. IsSeq(Total(p))
    BY JoinIsSeq DEF Total, Sendable
  <2> QED
    BY <2>1, SeqShape
<1>3. CASE stream.packing = "pairs"
  <2>1. /\ l = 2 * n /\ Total(p) = p.slices /\ Given(p, j) = j \div 2 /\ Given(p, 0) = 0 \div 2
        /\ Given(p, l) = l \div 2
        /\ Shown(p, j) = IF (j + 1) \div 2 <= MaxSlices THEN (j + 1) \div 2 ELSE MaxSlices
        /\ Shown(p, 0) = IF (0 + 1) \div 2 <= MaxSlices THEN (0 + 1) \div 2 ELSE MaxSlices
    BY <1>3 DEF Given, Shown, Total, BodyLen
  <2>3. j \in 0..l
    OBVIOUS
  <2> HIDE DEF n, l
  <2>2. (2 * n) \div 2 = n /\ j \div 2 \in Nat /\ (j + 1) \div 2 <= n /\ (j + 1) \div 2 \in Nat
    BY <1>1, <2>1, <2>3
  <2> DEFINE i == j \div 2
             k == (j + 1) \div 2
             g == Given(p, j)
             t == Shown(p, j)
  <2>4. /\ i \in Nat /\ k \in Nat /\ k <= n /\ g = i
        /\ t = IF k <= MaxSlices THEN k ELSE MaxSlices
    BY <2>1, <2>2
  <2>5. 0 \div 2 = 0 /\ (0 + 1) \div 2 = 0
    OBVIOUS
  <2>6. Given(p, 0) = 0 /\ Shown(p, 0) = 0 /\ Given(p, l) = n
    BY <1>1, <2>1, <2>2, <2>5
  <2> HIDE DEF i, k, g, t
  <2>7. g \in Nat /\ t \in 0..MaxSlices /\ t <= n
    BY <1>1, <2>4
  <2> QED
    BY <1>1, <1>2, <1>3, <2>1, <2>6, <2>7 DEF n, l, g, t
<1>4. CASE stream.packing \in {"joint", "spread"}
  <2>1. l = (IF stream.packing = "joint" THEN 2 ELSE 1 + n) /\ Total(p) = p.slices
    BY <1>4 DEF BodyLen, Total
  <2>2. \A i : /\ Given(p, i) = IF stream.packing = "joint" THEN IF i >= 2 THEN n ELSE 0
                                 ELSE IF i >= 1 THEN i - 1 ELSE 0
               /\ Shown(p, i) = IF i >= 1 /\ n <= MaxSlices THEN n ELSE 0
    BY <1>4 DEF Given, Shown
  <2>3. j \in 0..l
    OBVIOUS
  <2> HIDE DEF n, l
  <2>4. Given(p, j) \in Nat /\ Shown(p, j) \in 0..MaxSlices /\ Shown(p, j) <= n
    BY <1>1, <2>2, <2>3
  <2>5. Given(p, 0) = 0 /\ Shown(p, 0) = 0 /\ Given(p, l) = n
    BY <1>1, <2>1, <2>2
  <2> QED
    BY <1>1, <1>2, <1>4, <2>1, <2>4, <2>5 DEF n, l
<1>5. CASE stream.packing = "inband"
  BY <1>1, <1>2, <1>5 DEF Given, Shown, BodyLen
<1> QED
  BY <1>3, <1>4, <1>5 DEF Packings

LEMMA Turns ==
    ASSUME Packings, NEW p, Sendable(p), NEW j \in Nat, j < BodyLen(p)
    PROVE  Turn(p, j)
<1> DEFINE n == Len(p.slices)
<1>1. n \in Nat \ {0} /\ MaxSlices \in Nat \ {0}
  BY SeqShape, MaxSlicesAssumption DEF Sendable
<1>2. CASE stream.packing = "pairs"
  <2>1. /\ Given(p, j) = j \div 2 /\ Given(p, j + 1) = (j + 1) \div 2
        /\ Shown(p, j) = IF (j + 1) \div 2 <= MaxSlices THEN (j + 1) \div 2 ELSE MaxSlices
        /\ Shown(p, j + 1) =
              IF ((j + 1) + 1) \div 2 <= MaxSlices THEN ((j + 1) + 1) \div 2 ELSE MaxSlices
        /\ Total(p) = p.slices
    BY <1>2 DEF Given, Shown, Total
  <2>2. CASE (j + 1) % 2 = 1
    <3> DEFINE k == (j + 1) \div 2
               x == Params(p, k + 1)
               ps == <<x>>
    <3>1. BodyAt(p, j + 1) = SliceParams(ps)
      BY <1>2, <2>2 DEF BodyAt
    <3>2. /\ k \in Nat /\ j \div 2 = k /\ ((j + 1) + 1) \div 2 = k + 1
      BY <2>2
    <3> HIDE DEF x
    <3>3. IsSeq(ps) /\ Len(ps) = 1 /\ ps[1] = x
      BY OneIsSeq
    <3> HIDE DEF ps, k
    <3>4. Shown(p, j) = IF k <= MaxSlices THEN k ELSE MaxSlices
      BY <2>1 DEF k
    <3>5. Shown(p, j + 1) = IF k + 1 <= MaxSlices THEN k + 1 ELSE MaxSlices
      BY <2>1, <3>2
    <3>6. Given(p, j + 1) = Given(p, j)
      BY <2>1, <3>2 DEF k
    <3>7. ~(1 > MaxSlices - Shown(p, j)) => Shown(p, j) = k
      BY <1>1, <3>2, <3>4
    <3>8. Shown(p, j + 1) = IF 1 > MaxSlices - Shown(p, j) THEN Shown(p, j)
                            ELSE Shown(p, j) + 1
      BY <1>1, <3>2, <3>4, <3>5
    <3>9. ParamsTurn(p, j, ps)
      BY <3>3, <3>6, <3>7, <3>8 DEF ParamsTurn, x
    <3> QED
      BY <3>1, <3>9 DEF Turn
  <2>3. CASE (j + 1) % 2 # 1
    <3> DEFINE k == (j + 1) \div 2
               x == p.slices[k]
               nals == <<x>>
    <3>1. BodyAt(p, j + 1) = SliceData(nals)
      BY <1>2, <2>3 DEF BodyAt
    <3>2. /\ k \in Nat /\ j \div 2 = k - 1 /\ ((j + 1) + 1) \div 2 = k
          /\ k \in 1..n
      <4>1. j < 2 * n
        BY <1>2 DEF BodyLen
      <4> HIDE DEF n
      <4> QED
        BY <1>1, <2>3, <4>1
    <3> HIDE DEF x
    <3>3. IsSeq(nals) /\ Len(nals) = 1 /\ nals[1] = x
      BY OneIsSeq
    <3> HIDE DEF nals, k
    <3>4. Shown(p, j + 1) = Shown(p, j)
      BY <2>1, <3>2 DEF k
    <3>5. Given(p, j + 1) = Given(p, j) + 1 /\ Given(p, j) + 1 = k
      BY <2>1, <3>2 DEF k
    <3>6. x = Total(p)[Given(p, j) + 1] /\ <<p.slices[k]>> = nals
      BY <2>1, <3>5 DEF x, nals
    <3>7. DataTurn(p, j, nals)
      BY <1>2, <3>2, <3>3, <3>4, <3>5, <3>6 DEF DataTurn
    <3> QED
      BY <3>1, <3>7 DEF Turn
  <2> QED
    BY <2>2, <2>3
<1>3. ASSUME stream.packing \in {"joint", "spread"}, j = 0
      PROVE  Turn(p, j)
  <2> DEFINE ps == AllParams(p)
  <2>1. IsSeq(ps) /\ Len(ps) = n /\ \A i \in 1..n : ps[i] = Params(p, i)
    BY AllParamsList DEF Sendable
  <2>2. BodyAt(p, j + 1) = SliceParams(ps)
    BY <1>3 DEF BodyAt
  <2>3. /\ Given(p, j) = 0 /\ Given(p, j + 1) = 0 /\ Shown(p, j) = 0
        /\ Shown(p, j + 1) = IF n <= MaxSlices THEN n ELSE 0
    BY <1>3 DEF Given, Shown
  <2> HIDE DEF ps, n
  <2>4. ParamsTurn(p, j, ps)
    <3>1. \A i \in 1..n : 0 + i = i
      BY <1>1
    <3> QED
      BY <1>1, <2>1, <2>3, <3>1 DEF ParamsTurn
  <2> QED
    BY <2>2, <2>4 DEF Turn
<1>4. ASSUME stream.packing = "joint", j = 1
      PROVE  Turn(p, j)
  <2>1. BodyAt(p, j + 1) = SliceData(p.slices)
    BY <1>4 DEF BodyAt
  <2>2. /\ Given(p, j) = 0 /\ Given(p, j + 1) = n /\ Shown(p, j + 1) = Shown(p, j)
        /\ Total(p) = p.slices /\ IsSeq(p.slices)
    BY <1>4 DEF Given, Shown, Total, Sendable
  <2>3. \A i \in 1..n : 0 + i = i
    BY <1>1
  <2>4. DataTurn(p, j, p.slices)
    BY <1>1, <1>4, <2>2, <2>3 DEF DataTurn
  <2> QED
    BY <2>1, <2>4 DEF Turn
<1>5. ASSUME stream.packing = "spread", j >= 1
      PROVE  Turn(p, j)
  <2> DEFINE x == p.slices[j]
             nals == <<x>>
  <2>1. BodyAt(p, j + 1) = SliceData(nals)
    <3>1. j + 1 # 1 /\ (j + 1) - 1 = j
      BY <1>5
    <3> QED
      BY <1>5, <3>1 DEF BodyAt
  <2>2. /\ Given(p, j) = j - 1 /\ Given(p, j + 1) = (j + 1) - 1 /\ Shown(p, j + 1) = Shown(p, j)
        /\ Total(p) = p.slices
    BY <1>5 DEF Given, Shown, Total
  <2>3. j \in 1..n
    BY <1>1, <1>5 DEF BodyLen
  <2>4. x = Total(p)[Given(p, j) + 1]
    BY <2>2
  <2>5. nals = <<p.slices[j]>>
    OBVIOUS
  <2> HIDE DEF x
  <2>6. IsSeq(nals) /\ Len(nals) = 1 /\ nals[1] = x
    BY OneIsSeq
  <2> HIDE DEF nals
  <2>7. DataTurn(p, j, nals)
    BY <1>5, <2>2, <2>3, <2>4, <2>5, <2>6 DEF DataTurn
  <2> QED
    BY <2>1, <2>7 DEF Turn
<1>6. ASSUME stream.packing = "inband"
      PROVE  Turn(p, j)
  <2>1. j = 0
    BY <1>6 DEF BodyLen
  <2> DEFINE nals == p.sets \o p.slices
  <2>2. BodyAt(p, j + 1) = SliceData(nals) /\ Total(p) = nals
    BY <1>6 DEF BodyAt, Total
  <2>3. /\ Given(p, j) = 0 /\ Given(p, j + 1) = Len(nals) /\ Shown(p, j + 1) = Shown(p, j)
    BY <1>6, <2>1, <2>2 DEF Given, Shown
  <2>4. IsSeq(nals) /\ Len(nals) \in Nat
    <3>1. IsSeq(nals)
      BY <1>6, JoinIsSeq DEF Sendable
    <3> QED
      BY <3>1, SeqShape
  <2> HIDE DEF nals
  <2>5. \A i \in 1..Len(nals) : 0 + i = i
    BY <2>4
  <2>6. DataTurn(p, j, nals)
    BY <1>6, <2>2, <2>3, <2>4, <2>5 DEF DataTurn, Rewriting
  <2> QED
    BY <2>2, <2>6 DEF Turn
<1>7. CASE stream.packing = "joint"
  <2>1. j = 0 \/ j = 1
    BY <1>7 DEF BodyLen
  <2> QED
    BY <1>3, <1>4, <1>7, <2>1
<1>8. CASE stream.packing = "spread"
  BY <1>3, <1>5, <1>8
<1> QED
  BY <1>2, <1>6, <1>7, <1>8 DEF Packings

-----------------------------------------------------------------------------
(* What the adapter has after j buffers of a picture's slices.                *)

KeepsPicture(a, b) ==
    Shape(b) /\ b.have = a.have /\ b.picture = a.picture /\ b.iq = a.iq

ParamsHeld(a, p, j) ==
    /\ IsSeq(a.params)
    /\ Len(a.params) = IF stream.codec = "vp9" THEN 0 ELSE Shown(p, j)
    /\ \A i \in 1..Len(a.params) : a.params[i] = Params(p, i)

(* Where slices are rewritten: NAL units of the picture's types.              *)
RewrittenHeld(a, p, j) ==
    /\ a.next \in 0..Len(a.params)
    /\ \A i \in 1..Len(a.data) : a.data[i].nal \in SliceTypes(p)
    /\ a.data # <<>> => j > 0

(* Elsewhere: the NAL units sent so far, as they were sent.                   *)
SentHeld(a, p, j) ==
    /\ a.next = 0 /\ a.ppsId = Unset /\ a.rewritten = FALSE
    /\ Len(a.data) = Given(p, j)
    /\ \A i \in 1..Len(a.data) : a.data[i] = InUnit(Total(p)[i])

DataHeld(a, p, j) ==
    IsSeq(a.data) /\ IF Rewriting THEN RewrittenHeld(a, p, j) ELSE SentHeld(a, p, j)

LEMMA RenderParams ==
    ASSUME Packings, NEW p, Sendable(p), NEW j \in Nat, j < BodyLen(p), stream.codec # "vp9",
           NEW a, Shape(a), ParamsHeld(a, p, j), DataHeld(a, p, j),
           NEW ps, ParamsTurn(p, j, ps)
    PROVE  LET b == Rendered(a, SliceParams(ps))
           IN KeepsPicture(a, b) /\ ParamsHeld(b, p, j + 1) /\ DataHeld(b, p, j + 1)
<1> DEFINE b == Rendered(a, SliceParams(ps))
           m == Len(a.params)
           n == Len(ps)
           both == a.params \o ps
<1>1. b = IF n > MaxSlices - m THEN a ELSE [a EXCEPT !.params = both]
  BY DEF Rendered, SliceParams
<1>2. /\ IsSeq(a.params) /\ m = Shown(p, j) /\ \A i \in 1..m : a.params[i] = Params(p, i)
      /\ IsSeq(ps) /\ Given(p, j + 1) = Given(p, j)
      /\ Shown(p, j + 1) = IF n > MaxSlices - m THEN m ELSE m + n
      /\ ~(n > MaxSlices - m) => \A i \in 1..n : ps[i] = Params(p, m + i)
  BY DEF ParamsHeld, ParamsTurn
<1>3. m \in Nat /\ n \in Nat
  BY <1>2, SeqShape
<1> HIDE DEF b, m, n, both
<1>4. CASE n > MaxSlices - m
  <2>1. b = a
    BY <1>1, <1>4
  <2>2. ParamsHeld(a, p, j + 1)
    BY <1>2, <1>4 DEF ParamsHeld, m
  <2>3. DataHeld(a, p, j + 1)
    BY <1>2 DEF DataHeld, RewrittenHeld, SentHeld
  <2> QED
    BY <2>1, <2>2, <2>3 DEF KeepsPicture, b
<1>5. CASE ~(n > MaxSlices - m)
  <2>1. b = [a EXCEPT !.params = both]
    BY <1>1, <1>5
  <2>2. /\ b.params = both /\ b.data = a.data /\ b.next = a.next /\ b.ppsId = a.ppsId
        /\ b.rewritten = a.rewritten /\ KeepsPicture(a, b)
    BY <2>1 DEF Shape, KeepsPicture
  <2>3. /\ IsSeq(both) /\ Len(both) = m + n
        /\ \A i \in 1..m : both[i] = a.params[i]
        /\ \A i \in 1..n : both[m + i] = ps[i]
    BY <1>2, JoinIsSeq DEF both, m, n
  <2>4. \A i \in 1..(m + n) : both[i] = Params(p, i)
    <3> SUFFICES ASSUME NEW i \in 1..(m + n) PROVE both[i] = Params(p, i)
      OBVIOUS
    <3>1. CASE i <= m
      BY <1>2, <1>3, <2>3, <3>1
    <3>2. CASE ~(i <= m)
      <4>1. i - m \in 1..n /\ m + (i - m) = i
        BY <1>3, <3>2
      <4>2. both[m + (i - m)] = ps[i - m] /\ ps[i - m] = Params(p, m + (i - m))
        BY <1>2, <1>5, <2>3, <4>1
      <4> QED
        BY <4>1, <4>2
    <3> QED
      BY <3>1, <3>2
  <2>5. ParamsHeld(b, p, j + 1)
    BY <1>2, <1>5, <2>2, <2>3, <2>4 DEF ParamsHeld
  <2>6. DataHeld(b, p, j + 1)
    <3>1. CASE Rewriting
      <4>1. /\ IsSeq(a.data) /\ a.next \in 0..m /\ (a.data # <<>> => j > 0)
            /\ \A i \in 1..Len(a.data) : a.data[i].nal \in SliceTypes(p)
        BY <3>1 DEF DataHeld, RewrittenHeld, m
      <4>2. IsSeq(a.data)
        BY <3>1 DEF DataHeld
      <4>3. a.next \in 0..(m + n) /\ (a.data # <<>> => j + 1 > 0)
        BY <1>3, <4>1
      <4> QED
        BY <2>2, <2>3, <3>1, <4>1, <4>2, <4>3 DEF DataHeld, RewrittenHeld
    <3>2. CASE ~Rewriting
      BY <1>2, <2>2, <3>2 DEF DataHeld, SentHeld
    <3> QED
      BY <3>1, <3>2
  <2> QED
    BY <2>2, <2>5, <2>6 DEF b
<1> QED
  BY <1>4, <1>5

(* The NAL units of a buffer as the access unit holds them.                   *)
InUnits(nals) == [i \in DOMAIN nals |-> InUnit(nals[i])]

LEMMA InUnitsList ==
    ASSUME NEW nals, IsSeq(nals)
    PROVE  /\ IsSeq(InUnits(nals)) /\ Len(InUnits(nals)) = Len(nals)
           /\ \A i \in 1..Len(nals) : InUnits(nals)[i] = InUnit(nals[i])
           /\ \A n : InUnit(n).nal = n.nal
<1> DEFINE n == Len(nals)
           f == [i \in 1..n |-> InUnit(nals[i])]
<1>1. n \in Nat /\ InUnits(nals) = f
  BY SeqShape DEF InUnits
<1>2. f = [i \in 1..n |-> f[i]] /\ \A i \in 1..n : f[i] = InUnit(nals[i])
  OBVIOUS
<1>3. \A x : InUnit(x).nal = x.nal
  BY DEF InUnit
<1> HIDE DEF f, n
<1>4. IsSeq(f) /\ Len(f) = n
  BY <1>1, <1>2, ListIsSeq
<1> QED
  BY <1>1, <1>2, <1>3, <1>4 DEF n

(* A buffer that is taken as it is.                                           *)
LEMMA RenderRaw ==
    ASSUME Packings, NEW p, Sendable(p), NEW j \in Nat, j < BodyLen(p),
           NEW a, Shape(a), ParamsHeld(a, p, j), DataHeld(a, p, j),
           NEW nals, DataTurn(p, j, nals),
           NEW b, b = [a EXCEPT !.data = a.data \o InUnits(nals)]
    PROVE  KeepsPicture(a, b) /\ ParamsHeld(b, p, j + 1) /\ DataHeld(b, p, j + 1)
<1> DEFINE m == Len(a.data)
           n == Len(nals)
           u == InUnits(nals)
           both == a.data \o u
<1>1. /\ b.params = a.params /\ b.data = both /\ b.next = a.next /\ b.ppsId = a.ppsId
      /\ b.rewritten = a.rewritten /\ KeepsPicture(a, b)
  BY DEF Shape, KeepsPicture
<1>2. /\ IsSeq(nals) /\ Given(p, j + 1) = Given(p, j) + n /\ Shown(p, j + 1) = Shown(p, j)
      /\ \A i \in 1..n : nals[i] = Total(p)[Given(p, j) + i]
      /\ Rewriting => IF stream.packing = "joint" THEN nals = p.slices
                      ELSE \E k \in 1..Len(p.slices) : nals = <<p.slices[k]>>
  BY DEF DataTurn
<1>3. /\ IsSeq(u) /\ Len(u) = n /\ \A i \in 1..n : u[i] = InUnit(nals[i])
      /\ \A x : InUnit(x).nal = x.nal
  BY <1>2, InUnitsList
<1>4. IsSeq(a.data) /\ m \in Nat /\ n \in Nat
  <2>1. IsSeq(a.data)
    BY DEF DataHeld
  <2> QED
    BY <1>2, <2>1, SeqShape
<1> HIDE DEF n, u
<1>5. /\ IsSeq(both) /\ Len(both) = m + n
      /\ \A i \in 1..m : both[i] = a.data[i]
      /\ \A i \in 1..n : both[m + i] = u[i]
  <2> DEFINE d == a.data
  <2>1. IsSeq(d) /\ IsSeq(u)
    BY <1>3, <1>4
  <2> HIDE DEF d
  <2>2. /\ IsSeq(d \o u) /\ Len(d \o u) = Len(d) + Len(u)
        /\ \A i \in 1..Len(d) : (d \o u)[i] = d[i]
        /\ \A i \in 1..Len(u) : (d \o u)[Len(d) + i] = u[i]
    BY <2>1, JoinIsSeq
  <2> QED
    BY <1>3, <2>2 DEF d
<1> HIDE DEF m
<1> HIDE DEF both
<1>6. \A i \in 1..(m + n) : \/ i <= m /\ i \in 1..m
                            \/ i - m \in 1..n /\ m + (i - m) = i
  BY <1>4
<1>7. ParamsHeld(b, p, j + 1)
  BY <1>1, <1>2 DEF ParamsHeld
<1>8. CASE Rewriting
  <2>1. /\ a.next \in 0..Len(a.params)
        /\ \A i \in 1..m : a.data[i].nal \in SliceTypes(p)
    BY <1>8 DEF DataHeld, RewrittenHeld, m
  <2>2. \A i \in 1..n : nals[i].nal \in SliceTypes(p)
    <3>1. IsSeq(p.slices)
      BY DEF Sendable
    <3>2. \A i \in 1..Len(p.slices) : p.slices[i].nal \in SliceTypes(p)
      BY <3>1, SeqShape DEF SliceTypes
    <3>3. CASE stream.packing = "joint"
      BY <1>2, <1>8, <3>2, <3>3 DEF n
    <3>4. CASE stream.packing # "joint"
      <4>1. PICK k \in 1..Len(p.slices) : nals = <<p.slices[k]>>
        BY <1>2, <1>8, <3>4
      <4>2. n = 1 /\ nals[1] = p.slices[k]
        BY <4>1 DEF n
      <4>3. \A i \in 1..1 : i = 1
        OBVIOUS
      <4> QED
        BY <3>2, <4>1, <4>2, <4>3
    <3> QED
      BY <3>3, <3>4
  <2>3. \A i \in 1..(m + n) : both[i].nal \in SliceTypes(p)
    <3> SUFFICES ASSUME NEW i \in 1..(m + n) PROVE both[i].nal \in SliceTypes(p)
      OBVIOUS
    <3>1. CASE i \in 1..m
      BY <1>5, <2>1, <3>1
    <3>2. CASE i \notin 1..m
      <4>1. i - m \in 1..n /\ m + (i - m) = i
        BY <1>6, <3>2
      <4>2. both[m + (i - m)] = InUnit(nals[i - m])
        BY <1>3, <1>5, <4>1
      <4> QED
        BY <1>3, <2>2, <4>1, <4>2
    <3> QED
      BY <3>1, <3>2
  <2>4. DataHeld(b, p, j + 1)
    <3>1. b.next \in 0..Len(b.params) /\ b.data = both
      BY <1>1, <2>1
    <3>2. j + 1 > 0 /\ Len(both) = m + n
      BY <1>5
    <3>3. RewrittenHeld(b, p, j + 1)
      BY <2>3, <3>1, <3>2 DEF RewrittenHeld
    <3> QED
      BY <1>5, <1>8, <3>1, <3>3 DEF DataHeld
  <2> QED
    BY <1>1, <1>7, <2>4
<1>9. CASE ~Rewriting
  <2>1. /\ a.next = 0 /\ a.ppsId = Unset /\ a.rewritten = FALSE /\ m = Given(p, j)
        /\ \A i \in 1..m : a.data[i] = InUnit(Total(p)[i])
    BY <1>9 DEF DataHeld, SentHeld, m
  <2>2. \A i \in 1..(m + n) : both[i] = InUnit(Total(p)[i])
    <3> SUFFICES ASSUME NEW i \in 1..(m + n) PROVE both[i] = InUnit(Total(p)[i])
      OBVIOUS
    <3>1. CASE i \in 1..m
      BY <1>5, <2>1, <3>1
    <3>2. CASE i \notin 1..m
      <4>1. i - m \in 1..n /\ m + (i - m) = i
        BY <1>6, <3>2
      <4>2. /\ both[m + (i - m)] = InUnit(nals[i - m])
            /\ nals[i - m] = Total(p)[m + (i - m)]
        BY <1>2, <1>3, <1>5, <2>1, <4>1
      <4> QED
        BY <4>1, <4>2
    <3> QED
      BY <3>1, <3>2
  <2>3. DataHeld(b, p, j + 1)
    <3>1. /\ b.next = 0 /\ b.ppsId = Unset /\ b.rewritten = FALSE /\ b.data = both
          /\ Len(both) = Given(p, j + 1)
      BY <1>1, <1>2, <1>5, <2>1
    <3>2. Len(both) = m + n
      BY <1>5
    <3>3. SentHeld(b, p, j + 1)
      BY <2>2, <3>1, <3>2 DEF SentHeld
    <3> QED
      BY <1>5, <1>9, <3>1, <3>3 DEF DataHeld
  <2> QED
    BY <1>1, <1>7, <2>3
<1> QED
  BY <1>8, <1>9

(* The slices of a buffer that have parameters (hevc_codec.c:143-156): at      *)
(* least one, and all of them have.                                           *)
LEMMA SlicesHaveParams ==
    ASSUME NEW a, NEW bytes, Len(a.params) \in Nat, a.next \in 0..Len(a.params),
           a.next < Len(a.params)
    PROVE  /\ Cardinality(SlicesInBuffer(a, bytes)) \in Nat
           /\ a.next + Cardinality(SlicesInBuffer(a, bytes)) <= Len(a.params)
<1> DEFINE m == Len(a.params)
           k == a.next
           left == (k + 1)..m
<1>1. m \in Nat /\ k \in Nat /\ k < m
  OBVIOUS
<1> HIDE DEF m, k
<1>2. Cardinality(left) = m - k
  <2> DEFINE i == k + 1
  <2>1. i \in Int /\ m \in Int /\ ~(i > m) /\ m - i + 1 = m - k
    BY <1>1
  <2> HIDE DEF i
  <2>2. Cardinality(i..m) = IF i > m THEN 0 ELSE m - i + 1
    BY <2>1, FS_Interval
  <2> QED
    BY <2>1, <2>2 DEF i
<1>3. Cardinality({k + 1}) = 1
  BY FS_Singleton
<1>4. SlicesInBuffer(a, bytes) = left \/ SlicesInBuffer(a, bytes) = {k + 1}
  BY DEF SlicesInBuffer, m, k
<1> HIDE DEF left
<1>5. CASE SlicesInBuffer(a, bytes) = left
  <2> DEFINE x == Cardinality(SlicesInBuffer(a, bytes))
  <2>1. x = m - k
    BY <1>2, <1>5
  <2> HIDE DEF x
  <2>2. x \in Nat /\ k + x <= m
    BY <1>1, <2>1
  <2> QED
    BY <2>2 DEF x, m, k
<1>6. CASE SlicesInBuffer(a, bytes) = {k + 1}
  <2> DEFINE x == Cardinality(SlicesInBuffer(a, bytes))
  <2>1. x = 1
    BY <1>3, <1>6
  <2> HIDE DEF x
  <2>2. x \in Nat /\ k + x <= m
    BY <1>1, <2>1
  <2> QED
    BY <2>2 DEF x, m, k
<1> QED
  BY <1>4, <1>5, <1>6

(* A buffer whose slices are rewritten.                                       *)
LEMMA RenderRewritten ==
    ASSUME Packings, NEW p, Sendable(p), NEW j \in Nat, j < BodyLen(p), Rewriting,
           NEW a, Shape(a), ParamsHeld(a, p, j), DataHeld(a, p, j),
           NEW nals, DataTurn(p, j, nals), a.next < Len(a.params),
           NEW b, b = AppendRewritten(a, Concatenated(nals))
    PROVE  KeepsPicture(a, b) /\ ParamsHeld(b, p, j + 1) /\ DataHeld(b, p, j + 1)
<1> DEFINE bytes == Concatenated(nals)
           use == SlicesInBuffer(a, bytes)
           c == Cardinality(use)
           m == Len(a.params)
           E == Range(a.data) \cup {OutNal(a, bytes, a.params[i]) :
                                       i \in {k \in 1..m : ~Outside(bytes, a.params[k])}}
           P == {a.ppsId} \cup {OutOf(a, bytes, a.params[i]).pps : i \in 1..m}
           d == RewriteAll(a, bytes, use)
<1>1. /\ IsSeq(a.params) /\ m = Shown(p, j) /\ \A i \in 1..m : a.params[i] = Params(p, i)
  BY DEF ParamsHeld, Rewriting
<1>2. /\ IsSeq(a.data) /\ a.next \in 0..m
      /\ \A i \in 1..Len(a.data) : a.data[i].nal \in SliceTypes(p)
  BY DEF DataHeld, RewrittenHeld
<1>3. m \in Nat /\ m <= Len(p.slices) /\ a.next \in Nat
  <2>1. j \in 0..BodyLen(p)
    BY BodyList DEF Sendable
  <2> HIDE DEF m
  <2>2. m \in Nat /\ m <= Len(p.slices)
    BY <1>1, <2>1, Counts
  <2> QED
    BY <1>2, <2>2
<1>4. c \in Nat /\ a.next + c <= m
  BY <1>2, <1>3, SlicesHaveParams
<1>5. \A x \in E : x.nal \in SliceTypes(p)
  <2>1. \A x \in Range(a.data) : x.nal \in SliceTypes(p)
    BY <1>2, SeqShape
  <2>2. ASSUME NEW i \in 1..m, ~Outside(bytes, a.params[i])
        PROVE  OutNal(a, bytes, a.params[i]).nal \in SliceTypes(p)
    <3>1. a.params[i] = Params(p, i)
      BY <1>1
    <3>2. i \in 1..Len(p.slices)
      BY <1>3
    <3>3. IF stream.packing = "joint" THEN nals = p.slices
          ELSE \E k \in 1..Len(p.slices) : nals = <<p.slices[k]>>
      BY DEF DataTurn
    <3>4. ~(Params(p, i).offset + Params(p, i).size > Len(Concatenated(nals)))
      BY <2>2, <3>1 DEF Outside
    <3>5. HasBytes(p)
      BY DEF Sendable
    <3>6. NalType(Source(Concatenated(nals), Params(p, i))) \in SliceTypes(p)
      BY <3>2, <3>3, <3>4, <3>5, SourceIsSlice
    <3> QED
      BY <3>1, <3>6 DEF OutNal
  <2> QED
    BY <2>1, <2>2
<1>6. a.data \in Seq(E)
  <2> DEFINE R == Range(a.data)
  <2>1. a.data \in Seq(R) /\ R \subseteq E
    BY <1>2 DEF IsSeq
  <2> HIDE DEF R, E
  <2> QED
    BY <2>1, SeqMonotonic
<1>7. a.ppsId \in P
  OBVIOUS
<1>8. ASSUME NEW k \in 1..c PROVE Fits(a, E, P, bytes, a.params[a.next + k])
  <2>1. a.next + k \in 1..m
    <3> HIDE DEF c, m
    <3> QED
      BY <1>3, <1>4
  <2> QED
    BY <2>1 DEF Fits
<1> HIDE DEF E, P, bytes, use, c
<1>9. d \in Midway(a, E, P)
  BY <1>3, <1>4, <1>6, <1>7, <1>8, RewriteAllStays DEF c
<1>10. b = [d EXCEPT !.next = IF d.next = Unset THEN a.next ELSE a.next + c]
  BY DEF AppendRewritten, Consumed, bytes, use, c
<1> HIDE DEF d
<1> DEFINE z == IF d.next = Unset THEN a.next ELSE a.next + c
<1>11. b = [d EXCEPT !.next = z] /\ z \in 0..m
  <2>1. z = a.next \/ z = a.next + c
    OBVIOUS
  <2> HIDE DEF m, z
  <2>2. z \in 0..m
    BY <1>2, <1>3, <1>4, <2>1
  <2> QED
    BY <1>10, <2>2 DEF z
<1> HIDE DEF z
<1>12. /\ b.have = a.have /\ b.picture = a.picture /\ b.iq = a.iq /\ b.params = a.params
       /\ b.next = z /\ b.data \in Seq(E) /\ Shape(b)
  BY <1>9, <1>11 DEF Midway, Shape
<1>13. IsSeq(b.data) /\ \A i \in 1..Len(b.data) : b.data[i].nal \in SliceTypes(p)
  <2> DEFINE e == b.data
  <2>1. e \in Seq(E)
    BY <1>12
  <2> HIDE DEF e
  <2>2. IsSeq(e) /\ \A i \in 1..Len(e) : e[i] \in E
    BY <2>1, SeqIsSeq
  <2> QED
    BY <1>5, <2>2 DEF e
<1>14. ParamsHeld(b, p, j + 1)
  <2>1. Shown(p, j + 1) = Shown(p, j)
    BY DEF DataTurn
  <2>2. stream.codec # "vp9"
    BY DEF Rewriting
  <2> QED
    BY <1>1, <1>12, <2>1, <2>2 DEF ParamsHeld
<1>15. RewrittenHeld(b, p, j + 1)
  <2>1. j + 1 > 0
    OBVIOUS
  <2>2. b.next \in 0..Len(b.params)
    BY <1>11, <1>12
  <2> QED
    BY <1>13, <2>1, <2>2 DEF RewrittenHeld
<1>16. DataHeld(b, p, j + 1)
  BY <1>13, <1>15 DEF DataHeld
<1> QED
  BY <1>12, <1>14, <1>16 DEF KeepsPicture

-----------------------------------------------------------------------------
(* Begin and render.                                                          *)

(* Buffers of its slices among the first k of a picture.                      *)
Past(k) == IF k >= HeaderLen THEN k - HeaderLen ELSE 0

HeaderHeld(a, p, k) ==
    /\ Shape(a)
    /\ a.have = IF k >= 1 /\ stream.codec # "vp9" THEN TRUE ELSE FALSE
    /\ stream.codec # "vp9" => /\ k >= 1 => a.picture = p
                               /\ k >= 2 => a.iq = p.iq

(* What the adapter has of picture p after k buffers.                         *)
Collected(a, p, k) ==
    HeaderHeld(a, p, k) /\ ParamsHeld(a, p, Past(k)) /\ DataHeld(a, p, Past(k))

LEMMA BeginCollects ==
    ASSUME Packings, NEW p, Sendable(p), NEW a, Shape(a)
    PROVE  Collected(Emptied(a), p, 0)
<1> DEFINE b == Emptied(a)
<1>1. /\ b.have = FALSE /\ b.params = <<>> /\ b.data = <<>> /\ b.next = 0 /\ b.ppsId = Unset
      /\ b.rewritten = FALSE /\ Shape(b)
  <2>1. a \in [have : {a.have}, picture : {a.picture}, iq : {a.iq}, params : {a.params},
               data : {a.data}, next : {a.next}, ppsId : {a.ppsId}, rewritten : {a.rewritten}]
    BY DEF Shape
  <2>2. b = [a EXCEPT !.have = FALSE, !.params = <<>>, !.data = <<>>, !.next = 0,
                      !.ppsId = Unset, !.rewritten = FALSE]
    BY DEF Emptied
  <2> HIDE DEF b
  <2>3. /\ b.have = FALSE /\ b.params = <<>> /\ b.data = <<>> /\ b.next = 0 /\ b.ppsId = Unset
        /\ b.rewritten = FALSE
    BY <2>1, <2>2
  <2>4. b \in [have : {FALSE}, picture : {a.picture}, iq : {a.iq}, params : {<<>>},
               data : {<<>>}, next : {0}, ppsId : {Unset}, rewritten : {FALSE}]
    BY <2>1, <2>2
  <2>5. Shape(b)
    BY <2>4 DEF Shape
  <2> QED
    BY <2>3, <2>5
<1> HIDE DEF b
<1>2. Past(0) = 0
  BY DEF Past, HeaderLen
<1>3. 0 \in 0..BodyLen(p)
  BY BodyList DEF Sendable
<1>4. Given(p, 0) = 0 /\ Shown(p, 0) = 0
  BY <1>3, Counts
<1>5. IsSeq(<<>>) /\ Len(<<>>) = 0
  BY NoneIsSeq
<1>6. HeaderHeld(b, p, 0)
  <2>1. ~(0 >= 1) /\ ~(0 >= 2)
    OBVIOUS
  <2> QED
    BY <1>1, <2>1, Zenon DEF HeaderHeld
<1>7. ParamsHeld(b, p, 0)
  <2>1. Len(b.params) = 0 /\ IsSeq(b.params)
    BY <1>1, <1>5
  <2>2. \A i \in 1..Len(b.params) : FALSE
    BY <2>1
  <2> QED
    BY <1>4, <2>1, <2>2 DEF ParamsHeld
<1>8. DataHeld(b, p, 0)
  <2>1. Len(b.data) = 0 /\ IsSeq(b.data) /\ Len(b.params) = 0
    BY <1>1, <1>5
  <2>2. \A i \in 1..Len(b.data) : FALSE
    BY <2>1
  <2>3. SentHeld(b, p, 0)
    BY <1>1, <1>4, <2>1, <2>2 DEF SentHeld
  <2>4. RewrittenHeld(b, p, 0)
    BY <1>1, <2>1, <2>2 DEF RewrittenHeld
  <2> QED
    BY <2>1, <2>3, <2>4 DEF DataHeld
<1> QED
  BY <1>2, <1>6, <1>7, <1>8 DEF Collected, b

LEMMA RenderTurn ==
    ASSUME Packings, NEW p, Sendable(p), NEW j \in Nat, j < BodyLen(p),
           NEW a, Shape(a), ParamsHeld(a, p, j), DataHeld(a, p, j)
    PROVE  LET b == Rendered(a, BodyAt(p, j + 1))
           IN KeepsPicture(a, b) /\ ParamsHeld(b, p, j + 1) /\ DataHeld(b, p, j + 1)
<1> DEFINE buffer == BodyAt(p, j + 1)
           b == Rendered(a, buffer)
<1>1. Turn(p, j)
  BY Turns
<1>2. ASSUME NEW ps, buffer = SliceParams(ps), ParamsTurn(p, j, ps)
      PROVE  KeepsPicture(a, b) /\ ParamsHeld(b, p, j + 1) /\ DataHeld(b, p, j + 1)
  <2>1. CASE stream.codec # "vp9"
    BY <1>2, <2>1, RenderParams
  <2>2. CASE stream.codec = "vp9"
    <3> HIDE DEF buffer
    <3>1. b = a
      BY <1>2, <2>2 DEF Rendered, SliceParams
    <3>2. Given(p, j + 1) = Given(p, j)
      BY <1>2 DEF ParamsTurn
    <3>3. ParamsHeld(a, p, j + 1)
      BY <2>2 DEF ParamsHeld
    <3>4. DataHeld(a, p, j + 1)
      BY <2>2, <3>2 DEF DataHeld, SentHeld, Rewriting
    <3> HIDE DEF b
    <3> QED
      BY <3>1, <3>3, <3>4 DEF KeepsPicture
  <2> QED
    BY <2>1, <2>2
<1>3. ASSUME NEW nals, buffer = SliceData(nals), DataTurn(p, j, nals)
      PROVE  KeepsPicture(a, b) /\ ParamsHeld(b, p, j + 1) /\ DataHeld(b, p, j + 1)
  <2> HIDE DEF buffer
  <2>1. b = IF stream.codec = "hevc" /\ a.next < Len(a.params)
            THEN AppendRewritten(a, Concatenated(nals))
            ELSE [a EXCEPT !.data = a.data \o InUnits(nals)]
    BY <1>3 DEF Rendered, SliceData, InUnits
  <2> HIDE DEF b
  <2>2. CASE stream.codec = "hevc" /\ a.next < Len(a.params)
    <3>1. Rewriting
      <4> SUFFICES ASSUME ~Rewriting PROVE FALSE
        OBVIOUS
      <4>1. stream.packing = "inband"
        BY <2>2 DEF Rewriting
      <4>2. j \in 0..BodyLen(p)
        BY BodyList DEF Sendable
      <4>3. Len(a.params) = 0
        BY <2>2, <4>1, <4>2, Counts DEF ParamsHeld
      <4>4. a.next = 0
        BY DEF DataHeld, SentHeld
      <4> QED
        BY <2>2, <4>3, <4>4
    <3>2. b = AppendRewritten(a, Concatenated(nals)) /\ a.next < Len(a.params)
      BY <2>1, <2>2
    <3> QED
      BY <1>3, <3>1, <3>2, RenderRewritten
  <2>3. CASE ~(stream.codec = "hevc" /\ a.next < Len(a.params))
    <3>1. b = [a EXCEPT !.data = a.data \o InUnits(nals)]
      BY <2>1, <2>3
    <3> QED
      BY <1>3, <3>1, RenderRaw
  <2> QED
    BY <2>2, <2>3
<1> HIDE DEF b
<1>4. KeepsPicture(a, b) /\ ParamsHeld(b, p, j + 1) /\ DataHeld(b, p, j + 1)
  BY <1>1, <1>2, <1>3 DEF Turn
<1> QED
  BY <1>4 DEF b

LEMMA RenderCollects ==
    ASSUME Packings, NEW p, Sendable(p), pic = p, NEW k \in Nat, k < Len(Buffers(p)),
           NEW a, Collected(a, p, k)
    PROVE  Collected(Rendered(a, Buffers(p)[k + 1]), p, k + 1)
<1> DEFINE b == Rendered(a, Buffers(p)[k + 1])
           j == k - HeaderLen
<1>1. /\ Len(Buffers(p)) = HeaderLen + BodyLen(p) /\ BodyLen(p) \in Nat
      /\ Buffers(p)[1] = Picture
      /\ stream.codec # "vp9" => Buffers(p)[2] = IqMatrix
      /\ \A i \in 1..BodyLen(p) : Buffers(p)[HeaderLen + i] = BodyAt(p, i)
  BY BufferList DEF Sendable
<1>2. /\ HeaderLen \in {1, 2} /\ (HeaderLen = 1 <=> stream.codec = "vp9")
  BY DEF HeaderLen
<1>3. HeaderHeld(a, p, k) /\ ParamsHeld(a, p, Past(k)) /\ DataHeld(a, p, Past(k))
  BY DEF Collected
<1>4. CASE k = 0
  <2>1. k + 1 = 1 /\ Past(k) = Past(k + 1)
    BY <1>2, <1>4 DEF Past
  <2>2. Buffers(p)[k + 1] = Picture
    BY <1>1, <2>1
  <2>3. CASE stream.codec = "vp9"
    <3>1. b = a
      BY <2>2, <2>3 DEF Rendered, Picture
    <3> HIDE DEF b
    <3>2. HeaderHeld(a, p, k + 1)
      BY <1>3, <1>4, <2>3 DEF HeaderHeld
    <3> QED
      BY <1>3, <2>1, <3>1, <3>2 DEF Collected, b
  <2>4. CASE stream.codec # "vp9"
    <3>1. b = [a EXCEPT !.have = TRUE, !.picture = p]
      BY <2>2, <2>4 DEF Rendered, Picture
    <3> HIDE DEF b
    <3>2. /\ Shape(b) /\ b.have = TRUE /\ b.picture = p /\ b.params = a.params /\ b.data = a.data
          /\ b.next = a.next /\ b.ppsId = a.ppsId /\ b.rewritten = a.rewritten
      BY <1>3, <3>1 DEF HeaderHeld, Shape
    <3>3. HeaderHeld(b, p, k + 1)
      <4> DEFINE i == k + 1
      <4>1. i >= 1 /\ ~(i >= 2)
        BY <2>1
      <4> HIDE DEF i
      <4>2. HeaderHeld(b, p, i)
        BY <2>4, <3>2, <4>1, Zenon DEF HeaderHeld
      <4> QED
        BY <4>2 DEF i
    <3>4. ParamsHeld(b, p, Past(k + 1))
      BY <1>3, <2>1, <3>2 DEF ParamsHeld
    <3>5. DataHeld(b, p, Past(k + 1))
      BY <1>3, <2>1, <3>2 DEF DataHeld, RewrittenHeld, SentHeld
    <3> QED
      BY <3>3, <3>4, <3>5 DEF Collected, b
  <2> QED
    BY <2>3, <2>4
<1>5. CASE k = 1 /\ stream.codec # "vp9"
  <2>1. k + 1 = 2 /\ Past(k) = Past(k + 1)
    BY <1>2, <1>5 DEF Past
  <2>2. Buffers(p)[k + 1] = IqMatrix
    BY <1>1, <1>5, <2>1
  <2>3. b = [a EXCEPT !.iq = p.iq]
    BY <1>5, <2>2 DEF Rendered, IqMatrix
  <2> HIDE DEF b
  <2>4. /\ Shape(b) /\ b.have = a.have /\ b.picture = a.picture /\ b.iq = p.iq
        /\ b.params = a.params /\ b.data = a.data
        /\ b.next = a.next /\ b.ppsId = a.ppsId /\ b.rewritten = a.rewritten
    BY <1>3, <2>3 DEF HeaderHeld, Shape
  <2>5. HeaderHeld(b, p, k + 1)
    BY <1>3, <1>5, <2>4 DEF HeaderHeld
  <2>6. ParamsHeld(b, p, Past(k + 1))
    BY <1>3, <2>1, <2>4 DEF ParamsHeld
  <2>7. DataHeld(b, p, Past(k + 1))
    BY <1>3, <2>1, <2>4 DEF DataHeld, RewrittenHeld, SentHeld
  <2> QED
    BY <2>5, <2>6, <2>7 DEF Collected, b
<1>6. CASE k >= HeaderLen
  <2>1. /\ j \in Nat /\ j < BodyLen(p) /\ Past(k) = j /\ Past(k + 1) = j + 1
        /\ HeaderLen + (j + 1) = k + 1 /\ j + 1 \in 1..BodyLen(p)
    BY <1>1, <1>2, <1>6 DEF Past
  <2>2. Buffers(p)[k + 1] = BodyAt(p, j + 1)
    BY <1>1, <2>1
  <2>3. b = Rendered(a, BodyAt(p, j + 1))
    BY <2>2
  <2> HIDE DEF b, j
  <2>4. ParamsHeld(a, p, j) /\ DataHeld(a, p, j) /\ Shape(a)
    BY <1>3, <2>1 DEF HeaderHeld
  <2>5. KeepsPicture(a, b) /\ ParamsHeld(b, p, j + 1) /\ DataHeld(b, p, j + 1)
    BY <2>1, <2>3, <2>4, RenderTurn
  <2>6. HeaderHeld(b, p, k + 1)
    <3>1. k >= 1 /\ k + 1 >= 1 /\ k + 1 >= 2 /\ (stream.codec # "vp9" => k >= 2)
      BY <1>2, <1>6
    <3>2. /\ a.have = IF stream.codec # "vp9" THEN TRUE ELSE FALSE
          /\ stream.codec # "vp9" => a.picture = p /\ a.iq = p.iq
      BY <1>3, <3>1, Zenon DEF HeaderHeld
    <3>3. Shape(b) /\ b.have = a.have /\ b.picture = a.picture /\ b.iq = a.iq
      BY <2>5 DEF KeepsPicture
    <3> DEFINE i == k + 1
    <3>4. /\ i >= 1 /\ i >= 2 /\ Shape(b)
          /\ b.have = IF stream.codec # "vp9" THEN TRUE ELSE FALSE
          /\ stream.codec # "vp9" => b.picture = p /\ b.iq = p.iq
      BY <3>1, <3>2, <3>3
    <3> HIDE DEF i
    <3>5. b.have = IF i >= 1 /\ stream.codec # "vp9" THEN TRUE ELSE FALSE
      BY <3>4, Zenon
    <3>6. HeaderHeld(b, p, i)
      BY <3>4, <3>5, Zenon DEF HeaderHeld
    <3> QED
      BY <3>6 DEF i
  <2> QED
    BY <2>1, <2>5, <2>6 DEF Collected, b
<1>7. k = 0 \/ (k = 1 /\ stream.codec # "vp9") \/ k >= HeaderLen
  BY <1>2
<1> QED
  BY <1>4, <1>5, <1>6, <1>7

-----------------------------------------------------------------------------
(* The client's stream stays, and with it what is expected of the adapter.    *)

LEMMA PlacesStay ==
    ASSUME stream' = stream
    PROVE  /\ HeaderLen' = HeaderLen /\ (Rewriting' <=> Rewriting) /\ (Packings' <=> Packings)
           /\ \A k : Past(k)' = Past(k)
           /\ \A p : Total(p)' = Total(p)
           /\ \A p : Buffers(p)' = Buffers(p)
<1>1. HeaderLen' = HeaderLen /\ (Rewriting' <=> Rewriting) /\ (Packings' <=> Packings)
  BY Zenon DEF HeaderLen, Rewriting, Packings
<1>2. ASSUME NEW k PROVE Past(k)' = Past(k)
  BY <1>1, Zenon DEF Past
<1>3. ASSUME NEW p PROVE Total(p)' = Total(p)
  BY Zenon DEF Total
<1>4. ASSUME NEW p PROVE Buffers(p)' = Buffers(p)
  BY Zenon DEF Buffers, Params, AllParams, Offset, Size
<1> QED
  BY <1>1, <1>2, <1>3, <1>4, Zenon

LEMMA CountsStay ==
    ASSUME stream' = stream, NEW p, NEW j
    PROVE  Given(p, j)' = Given(p, j) /\ Shown(p, j)' = Shown(p, j)
<1>1. Total(p)' = Total(p)
  BY Zenon DEF Total
<1>2. Given(p, j)' = Given(p, j)
  BY <1>1, Zenon DEF Given
<1>3. Shown(p, j)' = Shown(p, j)
  BY Zenon DEF Shown
<1> QED
  BY <1>2, <1>3

LEMMA ParamsStay ==
    ASSUME stream' = stream, NEW p, NEW i
    PROVE  Params(p, i)' = Params(p, i)
<1>1. Size(p.slices[i])' = Size(p.slices[i])
  BY DEF Size
<1>2. Offset(p, i)' = Offset(p, i)
  BY DEF Offset, Size
<1> QED
  BY <1>1, <1>2, Zenon DEF Params

LEMMA CollectedStays ==
    ASSUME stream' = stream, NEW p, NEW a, NEW k
    PROVE  Collected(a, p, k)' <=> Collected(a, p, k)
<1>1. HeaderHeld(a, p, k)' <=> HeaderHeld(a, p, k)
  BY Zenon DEF HeaderHeld
<1> DEFINE j == Past(k)
<1>2. ASSUME NEW i PROVE ParamsHeld(a, p, i)' <=> ParamsHeld(a, p, i)
  <2>1. Shown(p, i)' = Shown(p, i)
    BY CountsStay
  <2>2. \A l : Params(p, l)' = Params(p, l)
    <3> TAKE l
    <3> QED
      BY ParamsStay
  <2> QED
    BY <2>1, <2>2, Zenon DEF ParamsHeld
<1>3. ASSUME NEW i PROVE DataHeld(a, p, i)' <=> DataHeld(a, p, i)
  <2>1. Given(p, i)' = Given(p, i)
    BY CountsStay
  <2>2. \A n : InUnit(n)' = InUnit(n)
    BY Zenon DEF InUnit
  <2>3. Total(p)' = Total(p) /\ (Rewriting' <=> Rewriting)
    BY PlacesStay, Zenon
  <2>4. SentHeld(a, p, i)' <=> SentHeld(a, p, i)
    BY <2>1, <2>2, <2>3, Zenon DEF SentHeld
  <2>5. RewrittenHeld(a, p, i)' <=> RewrittenHeld(a, p, i)
    BY Zenon DEF RewrittenHeld
  <2> QED
    BY <2>3, <2>4, <2>5, Zenon DEF DataHeld
<1>4. Past(k)' = Past(k)
  BY PlacesStay, Zenon
<1> QED
  BY <1>1, <1>2, <1>3, <1>4, Zenon DEF Collected

(* The pictures of the streams played can be sent.                            *)
LEMMA PicturesCanBeSent ==
    ASSUME stream \in Streams
    PROVE  Packings /\ \A p \in stream.pictures : Sendable(p) /\ p # NoPicture
<1>1. WellFormed(stream)
  BY StreamsAssumption
<1>2. Packings
  BY <1>1 DEF WellFormed, Packings
<1>3. ASSUME NEW p \in stream.pictures PROVE Sendable(p) /\ p # NoPicture
  <2>1. /\ p # NoPicture /\ Len(p.slices) \in Nat \ {0} /\ p.slices \in Seq(Range(p.slices))
        /\ stream.packing = "inband" => p.sets \in Seq(Range(p.sets))
        /\ stream.codec = "hevc" => HevcPicture(p)
    BY <1>1, Zenon DEF WellFormed
  <2>2. IsSeq(p.slices) /\ p.slices # <<>>
    BY <2>1 DEF IsSeq
  <2>3. ASSUME Rewriting PROVE HasBytes(p)
    <3> DEFINE n == Len(p.slices)
               s == p.slices
    <3>1. HevcPicture(p)
      BY <2>1, <2>3 DEF Rewriting
    <3>2. \A i \in 1..n : s[i] \in Range(s)
      BY <2>2, SeqShape
    <3>3. \A x \in Range(s) : x.bytes \in Seq(Byte) \ {<<>>} /\ NalType(x.bytes) = x.nal
      BY <3>1, Zenon DEF HevcPicture
    <3>4. \A i \in 1..n : /\ s[i].bytes \in Seq(Byte) /\ s[i].bytes # <<>>
                          /\ NalType(s[i].bytes) = s[i].nal
      BY <3>2, <3>3, Zenon
    <3> QED
      BY <2>2, <3>4 DEF HasBytes
  <2> QED
    BY <2>1, <2>2, <2>3 DEF Sendable, IsSeq
<1> QED
  BY <1>2, <1>3

-----------------------------------------------------------------------------
(* Between the calls: the picture begun is one of the stream's, a key picture *)
(* or of the sequence played, and the adapter has collected what was sent.    *)

SessionHeld ==
    /\ session \in [open : BOOLEAN, started : BOOLEAN, eos : BOOLEAN]
    /\ session.started => session.open
    /\ session.eos => session.started

PicHeld ==
    pic # NoPicture =>
        /\ pic \in stream.pictures /\ (pic.key \/ pic.seq = seq)
        /\ sent <= Len(Buffers(pic)) /\ Collected(adapter, pic, sent)

AdapterInv ==
    /\ stream \in Streams /\ sent \in Nat /\ Shape(adapter) /\ SessionHeld /\ PicHeld

LEMMA AdapterInit == Init => AdapterInv
<1> SUFFICES ASSUME Init PROVE AdapterInv
  OBVIOUS
<1>1. stream \in Streams /\ sent \in Nat
  BY DEF Init
<1>2. Shape(adapter)
  BY DEF Init, NewAdapter, Shape
<1>3. SessionHeld
  BY DEF Init, SessionHeld, Closed
<1>4. PicHeld
  BY DEF Init, PicHeld
<1> QED
  BY <1>1, <1>2, <1>3, <1>4 DEF AdapterInv

LEMMA FinishedShape ==
    ASSUME NEW a, Shape(a)
    PROVE  Shape(Finished(a)) /\ Finished(a).params = a.params /\ Finished(a).next = a.next
           /\ Finished(a).ppsId = a.ppsId
<1> DEFINE b == Finished(a)
<1>1. a \in [have : {a.have}, picture : {a.picture}, iq : {a.iq}, params : {a.params},
             data : {a.data}, next : {a.next}, ppsId : {a.ppsId}, rewritten : {a.rewritten}]
  BY DEF Shape
<1>2. b = [a EXCEPT !.have = FALSE, !.data = <<>>]
  BY DEF Finished
<1> HIDE DEF b
<1>3. b \in [have : {FALSE}, picture : {a.picture}, iq : {a.iq}, params : {a.params},
             data : {<<>>}, next : {a.next}, ppsId : {a.ppsId}, rewritten : {a.rewritten}]
  BY <1>1, <1>2
<1>4. Shape(b) /\ b.params = a.params /\ b.next = a.next /\ b.ppsId = a.ppsId
  BY <1>3 DEF Shape
<1> QED
  BY <1>4 DEF b

LEMMA StreamStays == [Next]_vars => stream' = stream
<1>1. ASSUME NEW ok, Ended(ok) PROVE stream' = stream
  BY <1>1 DEF Ended
<1> SUFFICES ASSUME [Next]_vars PROVE stream' = stream
  OBVIOUS
<1>2. CASE UNCHANGED vars
  BY <1>2 DEF vars
<1>3. CASE \E p \in stream.pictures : BeginPicture(p)
  BY <1>3 DEF BeginPicture
<1>4. CASE Render
  BY <1>4 DEF Render
<1>5. CASE EndRefused
  BY <1>1, <1>5 DEF EndRefused
<1>6. CASE \E idle \in BOOLEAN : EndUndrained(idle)
  BY <1>1, <1>6 DEF EndUndrained
<1>7. CASE \E idle \in BOOLEAN, fault \in {"none"} \cup (stream.faults \ {"drain"}) :
             EndPicture(idle, fault)
  <2>1. PICK idle \in BOOLEAN, fault \in {"none"} \cup (stream.faults \ {"drain"}) :
               EndPicture(idle, fault)
    BY <1>7
  <2>2. \E ok : Ended(ok)
    BY <2>1, Zenon DEF EndPicture
  <2> QED
    BY <1>1, <2>2
<1>8. CASE Flush
  BY <1>8 DEF Flush
<1> QED
  BY <1>2, <1>3, <1>4, <1>5, <1>6, <1>7, <1>8 DEF Next

(* Every call that ends a picture leaves none begun.                          *)
LEMMA EndedHolds ==
    ASSUME AdapterInv, stream' = stream, sent' = sent, pic' = NoPicture, SessionHeld',
           adapter' = adapter \/ adapter' = Finished(adapter)
    PROVE  AdapterInv'
<1>1. stream' \in Streams /\ sent' \in Nat
  BY DEF AdapterInv
<1>2. Shape(adapter')
  BY FinishedShape DEF AdapterInv
<1>3. PicHeld'
  BY DEF PicHeld
<1>4. Shape(adapter)'
  BY <1>2 DEF Shape
<1> QED
  BY <1>1, <1>3, <1>4 DEF AdapterInv

LEMMA EmptiedShape ==
    ASSUME NEW a, Shape(a)
    PROVE  Shape(Emptied(a)) /\ Len(Emptied(a).params) = 0 /\ Emptied(a).next = 0
           /\ Emptied(a).ppsId = Unset
<1> DEFINE b == Emptied(a)
<1>1. a \in [have : {a.have}, picture : {a.picture}, iq : {a.iq}, params : {a.params},
             data : {a.data}, next : {a.next}, ppsId : {a.ppsId}, rewritten : {a.rewritten}]
  BY DEF Shape
<1>2. b = [a EXCEPT !.have = FALSE, !.params = <<>>, !.data = <<>>, !.next = 0,
                    !.ppsId = Unset, !.rewritten = FALSE]
  BY DEF Emptied
<1> HIDE DEF b
<1>3. b \in [have : {FALSE}, picture : {a.picture}, iq : {a.iq}, params : {<<>>},
             data : {<<>>}, next : {0}, ppsId : {Unset}, rewritten : {FALSE}]
  BY <1>1, <1>2
<1>4. Shape(b) /\ Len(b.params) = 0 /\ b.next = 0 /\ b.ppsId = Unset
  BY <1>3 DEF Shape
<1> QED
  BY <1>4 DEF b

LEMMA PicHeldNext ==
    ASSUME stream' = stream,
           NEW q, q = pic', NEW a, a = adapter', NEW k, k = sent', NEW s, s = seq',
           q # NoPicture => /\ q \in stream.pictures /\ (q.key \/ q.seq = s)
                            /\ k <= Len(Buffers(q)) /\ Collected(a, q, k)
    PROVE  PicHeld'
<1>1. Buffers(q)' = Buffers(q)
  BY PlacesStay, Zenon
<1>2. Collected(a, q, k)' <=> Collected(a, q, k)
  BY CollectedStays
<1>3. q # NoPicture => k <= Len(Buffers(q)') /\ Collected(a, q, k)'
  BY <1>1, <1>2, Zenon
<1> QED
  BY <1>3, Zenon DEF PicHeld

(* The session after vaEndPicture (dec_open, dec_started, eos_sent).          *)
LEMMA SessionNext ==
    ASSUME SessionHeld, NEW idle, NEW fault, EndPicture(idle, fault)
    PROVE  SessionHeld'
<1> DEFINE S == [open : BOOLEAN, started : BOOLEAN, eos : BOOLEAN]
<1>1. \/ session' = Closed
      \/ session' = [Opened EXCEPT !.started = TRUE]
      \/ session' = session
      \/ session' = Opened
  BY Zenon DEF EndPicture
<1>2. Closed \in S /\ Opened \in S /\ [Opened EXCEPT !.started = TRUE] \in S
      /\ ~Closed.eos /\ ~Closed.started /\ ~Opened.eos /\ ~Opened.started
      /\ ~[Opened EXCEPT !.started = TRUE].eos /\ [Opened EXCEPT !.started = TRUE].open
  BY DEF Closed, Opened
<1>3. session \in S /\ (session.started => session.open) /\ (session.eos => session.started)
  BY DEF SessionHeld
<1>4. session' \in S /\ (session'.started => session'.open) /\ (session'.eos => session'.started)
  <2> HIDE DEF S
  <2>1. CASE session' = Closed
    BY <1>2, <2>1, Zenon
  <2>2. CASE session' = [Opened EXCEPT !.started = TRUE]
    BY <1>2, <2>2, Zenon
  <2>3. CASE session' = session
    BY <1>3, <2>3, Zenon
  <2>4. CASE session' = Opened
    BY <1>2, <2>4, Zenon
  <2> QED
    BY <1>1, <2>1, <2>2, <2>3, <2>4
<1> QED
  BY <1>4 DEF SessionHeld

LEMMA AdapterStep == AdapterInv /\ [Next]_vars => AdapterInv'
<1> SUFFICES ASSUME AdapterInv, [Next]_vars PROVE AdapterInv'
  OBVIOUS
<1>1. stream' = stream
  BY StreamStays
<1>2. /\ stream \in Streams /\ sent \in Nat /\ Shape(adapter) /\ SessionHeld /\ PicHeld
      /\ Packings /\ \A p \in stream.pictures : Sendable(p) /\ p # NoPicture
  BY PicturesCanBeSent DEF AdapterInv
<1>3. CASE UNCHANGED vars
  <2>1. /\ pic' = pic /\ sent' = sent /\ seq' = seq /\ adapter' = adapter /\ session' = session
    BY <1>3 DEF vars
  <2>2. SessionHeld' /\ Shape(adapter)'
    BY <1>2, <2>1 DEF SessionHeld, Shape
  <2>3. pic # NoPicture => /\ pic \in stream.pictures /\ (pic.key \/ pic.seq = seq)
                           /\ sent <= Len(Buffers(pic)) /\ Collected(adapter, pic, sent)
    BY <1>2 DEF PicHeld
  <2>4. PicHeld'
    BY <1>1, <2>1, <2>3, PicHeldNext
  <2> QED
    BY <1>1, <1>2, <2>1, <2>2, <2>4 DEF AdapterInv
<1>4. ASSUME NEW p \in stream.pictures, BeginPicture(p) PROVE AdapterInv'
  <2>1. /\ pic' = p /\ sent' = 0 /\ adapter' = Emptied(adapter) /\ seq' = seq
        /\ session' = session /\ (p.key \/ p.seq = seq)
    BY <1>4 DEF BeginPicture
  <2>2. SessionHeld'
    BY <1>2, <2>1 DEF SessionHeld
  <2>3. PICK b : b = adapter'
    OBVIOUS
  <2>4. Shape(b) /\ Collected(b, p, 0)
    BY <1>2, <2>1, <2>3, EmptiedShape, BeginCollects
  <2>5. 0 <= Len(Buffers(p))
    <3>1. IsSeq(p.slices)
      BY <1>2, <1>4 DEF Sendable
    <3>2. Len(Buffers(p)) = HeaderLen + BodyLen(p) /\ BodyLen(p) \in Nat
      BY <1>2, <3>1, BufferList
    <3>3. HeaderLen \in {1, 2}
      BY DEF HeaderLen
    <3> QED
      BY <3>2, <3>3
  <2>6. PicHeld'
    BY <1>1, <1>4, <2>1, <2>3, <2>4, <2>5, PicHeldNext
  <2>7. Shape(adapter)'
    BY <2>3, <2>4 DEF Shape
  <2> QED
    BY <1>1, <1>2, <2>1, <2>2, <2>6, <2>7 DEF AdapterInv
<1>5. CASE Render
  <2>1. /\ pic # NoPicture /\ sent < Len(Buffers(pic)) /\ sent' = sent + 1
        /\ pic' = pic /\ seq' = seq /\ session' = session
    BY <1>5 DEF Render
  <2>2. adapter' = Rendered(adapter, Buffers(pic)[sent + 1])
    BY <1>5 DEF Render
  <2>3. /\ pic \in stream.pictures /\ (pic.key \/ pic.seq = seq) /\ Collected(adapter, pic, sent)
    BY <1>2, <2>1 DEF PicHeld
  <2>4. SessionHeld'
    BY <1>2, <2>1 DEF SessionHeld
  <2>5. PICK b : b = adapter'
    OBVIOUS
  <2>6. Collected(b, pic, sent + 1)
    <3>1. Sendable(pic)
      BY <1>2, <2>3
    <3>2. Collected(Rendered(adapter, Buffers(pic)[sent + 1]), pic, sent + 1)
      BY <1>2, <2>1, <2>3, <3>1, RenderCollects
    <3> QED
      BY <2>2, <2>5, <3>2
  <2>7. sent + 1 <= Len(Buffers(pic)) /\ sent + 1 \in Nat
    <3>1. IsSeq(pic.slices)
      BY <1>2, <2>3 DEF Sendable
    <3>2. Len(Buffers(pic)) = HeaderLen + BodyLen(pic) /\ BodyLen(pic) \in Nat
      BY <1>2, <3>1, BufferList
    <3>3. HeaderLen \in {1, 2}
      BY DEF HeaderLen
    <3> QED
      BY <1>2, <2>1, <3>2, <3>3
  <2>8. PicHeld'
    BY <1>1, <2>1, <2>3, <2>5, <2>6, <2>7, PicHeldNext
  <2>9. Shape(adapter)'
    BY <2>5, <2>6 DEF Shape, Collected, HeaderHeld
  <2> QED
    BY <1>1, <1>2, <2>1, <2>4, <2>7, <2>8, <2>9 DEF AdapterInv
<1>6. CASE EndRefused
  <2>1. Ended(FALSE) /\ adapter' = adapter /\ session' = session
    BY <1>6 DEF EndRefused
  <2>2. SessionHeld'
    BY <1>2, <2>1 DEF SessionHeld
  <2> QED
    BY <1>1, <2>1, <2>2, EndedHolds DEF Ended
<1>7. CASE \E idle \in BOOLEAN : EndUndrained(idle)
  <2>1. PICK idle \in BOOLEAN : EndUndrained(idle)
    BY <1>7
  <2>2. Ended(FALSE) /\ adapter' = adapter /\ session' = [session EXCEPT !.eos = TRUE]
        /\ session.started
    BY <2>1 DEF EndUndrained, StartsStream
  <2>3. SessionHeld'
    BY <1>2, <2>2 DEF SessionHeld
  <2> QED
    BY <1>1, <2>2, <2>3, EndedHolds DEF Ended
<1>8. CASE \E idle \in BOOLEAN, fault \in {"none"} \cup (stream.faults \ {"drain"}) :
             EndPicture(idle, fault)
  <2>1. PICK idle \in BOOLEAN, fault \in {"none"} \cup (stream.faults \ {"drain"}) :
               EndPicture(idle, fault)
    BY <1>8
  <2>2. \E ok : Ended(ok)
    BY <2>1, Zenon DEF EndPicture
  <2>3. adapter' = adapter \/ adapter' = Finished(adapter)
    BY <2>1, Zenon DEF EndPicture
  <2>4. SessionHeld'
    BY <1>2, <2>1, SessionNext
  <2>5. pic' = NoPicture /\ sent' = sent
    BY <2>2 DEF Ended
  <2> QED
    BY <1>1, <2>3, <2>4, <2>5, EndedHolds
<1>9. CASE Flush
  <2>1. /\ pic' = NoPicture /\ sent' = sent /\ adapter' = adapter /\ session.started
        /\ session' = [session EXCEPT !.eos = TRUE]
    BY <1>9 DEF Flush
  <2>2. SessionHeld'
    BY <1>2, <2>1 DEF SessionHeld
  <2> QED
    BY <1>1, <2>1, <2>2, EndedHolds
<1> QED
  BY <1>3, <1>4, <1>5, <1>6, <1>7, <1>8, <1>9, Zenon DEF Next

-----------------------------------------------------------------------------
(* What the NAL units collected are.                                          *)

LEMMA GivenFits ==
    ASSUME Packings, NEW p, Sendable(p), NEW j \in 0..BodyLen(p)
    PROVE  Given(p, j) \in Nat /\ Given(p, j) <= Len(Total(p)) /\ Len(Total(p)) \in Nat
<1> DEFINE n == Len(p.slices)
           t == Len(Total(p))
<1>1. n \in Nat \ {0} /\ Given(p, j) \in Nat /\ t \in Nat
  <2>1. IsSeq(Total(p)) /\ n \in Nat \ {0} /\ Given(p, j) \in Nat
    BY Counts
  <2> QED
    BY <2>1, SeqShape
<1>2. CASE stream.packing = "inband"
  <2>1. Given(p, j) = IF j >= 1 THEN t ELSE 0
    BY <1>2, Zenon DEF Given
  <2> HIDE DEF t
  <2> QED
    BY <1>1, <2>1 DEF t
<1>3. CASE stream.packing # "inband"
  <2>1. t = n
    BY <1>3 DEF Total
  <2> HIDE DEF t
  <2>2. Given(p, j) <= n
    <3> HIDE DEF n
    <3>1. CASE stream.packing = "pairs"
      BY <1>1, <3>1 DEF Given, BodyLen, n
    <3>2. CASE stream.packing = "joint"
      BY <1>1, <3>2 DEF Given, BodyLen, n
    <3>3. CASE stream.packing = "spread"
      BY <1>1, <3>3 DEF Given, BodyLen, n
    <3> QED
      BY <1>3, <3>1, <3>2, <3>3 DEF Packings
  <2> QED
    BY <1>1, <2>1, <2>2 DEF t
<1> QED
  BY <1>2, <1>3

(* The places the buffers rendered stand for.                                 *)
LEMMA PastPlaces ==
    ASSUME Packings, NEW p, Sendable(p), NEW k \in Nat, k <= Len(Buffers(p))
    PROVE  Past(k) \in 0..BodyLen(p)
<1>1. Len(Buffers(p)) = HeaderLen + BodyLen(p) /\ BodyLen(p) \in Nat
  BY BufferList DEF Sendable
<1>2. HeaderLen \in {1, 2}
  BY DEF HeaderLen
<1> QED
  BY <1>1, <1>2 DEF Past

Begun(a, p, k) ==
    stream \in Streams /\ p \in stream.pictures /\ k \in Nat /\ k <= Len(Buffers(p))
    /\ Collected(a, p, k)

LEMMA Sent ==
    ASSUME NEW a, NEW p, NEW k, Begun(a, p, k), ~Rewriting
    PROVE  /\ IsSeq(a.data) /\ Len(a.data) \in Nat /\ Len(a.data) <= Len(Total(p))
           /\ IsSeq(Total(p)) /\ Len(Total(p)) \in Nat
           /\ \A i \in 1..Len(a.data) : a.data[i] = InUnit(Total(p)[i])
           /\ a.next = 0 /\ a.ppsId = Unset /\ a.rewritten = FALSE
           /\ stream.packing = "inband" => a.data = <<>> \/ Len(a.data) = Len(Total(p))
<1>1. Packings /\ Sendable(p)
  BY PicturesCanBeSent DEF Begun
<1>2. Past(k) \in 0..BodyLen(p)
  BY <1>1, PastPlaces DEF Begun
<1>3. DataHeld(a, p, Past(k))
  BY DEF Begun, Collected
<1>4. SentHeld(a, p, Past(k)) /\ IsSeq(a.data)
  BY <1>3 DEF DataHeld
<1>5. Given(p, Past(k)) \in Nat /\ Given(p, Past(k)) <= Len(Total(p)) /\ Len(Total(p)) \in Nat
  BY <1>1, <1>2, GivenFits
<1>6. IsSeq(Total(p))
  BY <1>1, <1>2, Counts
<1>7. Len(a.data) = Given(p, Past(k))
  BY <1>4 DEF SentHeld
<1>8. ASSUME stream.packing = "inband" PROVE a.data = <<>> \/ Len(a.data) = Len(Total(p))
  <2>1. Given(p, Past(k)) = Len(Total(p)) \/ Given(p, Past(k)) = 0
    BY <1>8, Zenon DEF Given
  <2>2. Len(a.data) = 0 => a.data = <<>>
    BY <1>4 DEF IsSeq
  <2> QED
    BY <1>7, <2>1, <2>2
<1> QED
  BY <1>4, <1>5, <1>6, <1>7, <1>8 DEF SentHeld

LEMMA SentSlices ==
    ASSUME NEW a, NEW p, NEW k, Begun(a, p, k), stream.packing # "inband", ~Rewriting
    PROVE  /\ IsSeq(a.data) /\ Len(a.data) \in Nat /\ Len(a.data) <= Len(p.slices)
           /\ IsSeq(p.slices) /\ Len(p.slices) \in Nat
           /\ \A i \in 1..Len(a.data) : a.data[i] = p.slices[i] /\ a.data[i] \in Range(p.slices)
<1>1. Total(p) = p.slices
  BY DEF Total
<1>2. \A n : InUnit(n) = n
  BY DEF InUnit, Rewriting
<1>3. /\ IsSeq(a.data) /\ Len(a.data) \in Nat /\ Len(a.data) <= Len(p.slices)
      /\ IsSeq(p.slices) /\ Len(p.slices) \in Nat
      /\ \A i \in 1..Len(a.data) : a.data[i] = p.slices[i]
  <2>1. /\ IsSeq(a.data) /\ Len(a.data) \in Nat /\ Len(a.data) <= Len(Total(p))
        /\ IsSeq(Total(p)) /\ Len(Total(p)) \in Nat
        /\ \A i \in 1..Len(a.data) : a.data[i] = InUnit(Total(p)[i])
    BY Sent
  <2> QED
    BY <1>1, <1>2, <2>1, Zenon
<1>4. ASSUME NEW i \in 1..Len(a.data) PROVE a.data[i] \in Range(p.slices)
  <2>1. i \in 1..Len(p.slices) /\ a.data[i] = p.slices[i]
    BY <1>3
  <2> QED
    BY <1>3, <2>1, SeqShape
<1> QED
  BY <1>3, <1>4

LEMMA RewrittenSlices ==
    ASSUME NEW a, NEW p, NEW k, Begun(a, p, k), Rewriting
    PROVE  /\ IsSeq(a.data)
           /\ \A i \in 1..Len(a.data) : a.data[i].nal \in SliceTypes(p)
<1>1. DataHeld(a, p, Past(k))
  BY DEF Begun, Collected
<1> QED
  BY <1>1 DEF DataHeld, RewrittenHeld

(* What WellFormed says of a picture of each kind of stream.                  *)
LEMMA PictureKinds ==
    ASSUME stream \in Streams, NEW p \in stream.pictures
    PROVE  /\ stream.codec = "h264" => H264Picture(p)
           /\ stream.codec = "hevc" => HevcPicture(p)
           /\ stream.codec = "vp9" => Vp9Picture(p)
           /\ stream.packing = "inband" => stream.codec = "hevc" /\ InBand(stream, p)
           /\ IsSeq(p.slices) /\ Len(p.slices) \in Nat \ {0} /\ p.slices # <<>>
           /\ \A i \in 1..Len(p.slices) : p.slices[i] \in Range(p.slices)
           /\ stream.packing = "inband" =>
                 /\ IsSeq(p.sets) /\ Len(p.sets) \in Nat
                 /\ \A i \in 1..Len(p.sets) : p.sets[i] \in Range(p.sets)
           /\ p.seq \in Nat \ {0}
<1>1. WellFormed(stream)
  BY StreamsAssumption
<1>2. /\ p.slices \in Seq(Range(p.slices)) /\ Len(p.slices) \in Nat \ {0} /\ p.seq \in Nat \ {0}
      /\ stream.codec = "h264" => H264Picture(p)
      /\ stream.codec = "hevc" => HevcPicture(p)
      /\ stream.codec = "vp9" => Vp9Picture(p)
      /\ stream.packing = "inband" => InBand(stream, p) /\ p.sets \in Seq(Range(p.sets))
  BY <1>1 DEF WellFormed
<1>3. stream.packing = "inband" => stream.codec = "hevc"
  BY PicturesCanBeSent DEF Packings
<1>4. IsSeq(p.slices) /\ p.slices # <<>> /\ (stream.packing = "inband" => IsSeq(p.sets))
  BY <1>2 DEF IsSeq
<1>5. \A i \in 1..Len(p.slices) : p.slices[i] \in Range(p.slices)
  BY <1>4, SeqShape
<1>6. ASSUME stream.packing = "inband"
      PROVE  Len(p.sets) \in Nat /\ \A i \in 1..Len(p.sets) : p.sets[i] \in Range(p.sets)
  BY <1>4, <1>6, SeqShape
<1> QED
  BY <1>2, <1>3, <1>4, <1>5, <1>6, Zenon

(* In-band data: the parameter sets, then the slices.                         *)
LEMMA InBandData ==
    ASSUME NEW a, NEW p, NEW k, Begun(a, p, k), stream.packing = "inband", a.data # <<>>
    PROVE  /\ Len(a.data) = Len(p.sets) + Len(p.slices)
           /\ \A i \in 1..Len(p.sets) : a.data[i] = p.sets[i] /\ i \in 1..Len(a.data)
           /\ \A i \in 1..Len(p.slices) :
                 /\ Len(p.sets) + i \in 1..Len(a.data)
                 /\ a.data[Len(p.sets) + i] = [nal |-> p.slices[i].nal, bytes |-> p.slices[i].bytes]
                 /\ p.slices[i].nal \in 0..31
<1> DEFINE s == p.sets
           n == p.slices
           t == s \o n
           m == Len(s)
           l == Len(n)
<1>1. stream \in Streams /\ p \in stream.pictures
  BY DEF Begun
<1>2. /\ stream.codec = "hevc" /\ HevcPicture(p) /\ InBand(stream, p)
      /\ IsSeq(n) /\ l \in Nat \ {0} /\ \A i \in 1..l : n[i] \in Range(n)
      /\ IsSeq(s) /\ m \in Nat /\ \A i \in 1..m : s[i] \in Range(s)
  BY <1>1, PictureKinds
<1>3. ~Rewriting /\ Total(p) = t
  BY DEF Rewriting, Total
<1>4. Len(a.data) = Len(t) /\ \A i \in 1..Len(a.data) : a.data[i] = InUnit(t[i])
  <2>1. /\ \A i \in 1..Len(a.data) : a.data[i] = InUnit(Total(p)[i])
        /\ a.data = <<>> \/ Len(a.data) = Len(Total(p))
    BY <1>3, Sent
  <2> QED
    BY <1>3, <2>1
<1>5. /\ Len(t) = m + l
      /\ \A i \in 1..m : t[i] = s[i]
      /\ \A i \in 1..l : t[m + i] = n[i]
  <2>1. IsSeq(s) /\ IsSeq(n)
    BY <1>2
  <2> HIDE DEF s, n, t
  <2> QED
    BY <2>1, JoinIsSeq DEF t, m, l
<1>6. \A i \in 1..m : s[i].nal \in 32..34 /\ InUnit(s[i]) = s[i]
  <2> SUFFICES ASSUME NEW i \in 1..m PROVE s[i].nal \in 32..34 /\ InUnit(s[i]) = s[i]
    OBVIOUS
  <2>1. s[i].nal \in 32..34
    BY <1>2 DEF InBand
  <2>2. ~(s[i].nal < 32)
    BY <2>1
  <2> QED
    BY <2>1, <2>2 DEF InUnit
<1>7. \A i \in 1..l : n[i].nal \in 0..31 /\ InUnit(n[i]) = [nal |-> n[i].nal, bytes |-> n[i].bytes]
  <2> SUFFICES ASSUME NEW i \in 1..l
               PROVE  n[i].nal \in 0..31 /\ InUnit(n[i]) = [nal |-> n[i].nal, bytes |-> n[i].bytes]
    OBVIOUS
  <2>1. n[i].nal \in 0..31
    BY <1>2, Zenon DEF HevcPicture
  <2> DEFINE x == n[i].nal
  <2>2. x \in 0..31
    BY <2>1
  <2> HIDE DEF x
  <2>3. x < 32
    BY <2>2
  <2> QED
    BY <1>2, <2>1, <2>3 DEF InUnit, x
<1> HIDE DEF s, n, t, m, l
<1>8. ASSUME NEW i \in 1..m PROVE a.data[i] = s[i] /\ i \in 1..Len(a.data)
  <2>1. i \in 1..Len(a.data)
    BY <1>2, <1>4, <1>5
  <2> QED
    BY <1>4, <1>5, <1>6, <2>1
<1>9. ASSUME NEW i \in 1..l
      PROVE  m + i \in 1..Len(a.data) /\ a.data[m + i] = [nal |-> n[i].nal, bytes |-> n[i].bytes]
  <2>1. m + i \in 1..Len(a.data)
    BY <1>2, <1>4, <1>5
  <2>2. a.data[m + i] = InUnit(t[m + i]) /\ t[m + i] = n[i]
    BY <1>4, <1>5, <2>1
  <2> QED
    BY <1>7, <2>1, <2>2
<1>10. Len(a.data) = m + l
  BY <1>4, <1>5
<1> QED
  BY <1>7, <1>8, <1>9, <1>10 DEF s, n, m, l

(* A unit is a random access point when its picture is a key picture.         *)
LEMMA KeyData ==
    ASSUME NEW a, NEW p, NEW k, Begun(a, p, k), a.data # <<>>
    PROVE  RandomAccess(a.data) <=> p.key
<1>1. stream \in Streams /\ p \in stream.pictures /\ Packings
  BY PicturesCanBeSent DEF Begun
<1>2. /\ stream.codec = "h264" => H264Picture(p)
      /\ stream.codec = "hevc" => HevcPicture(p)
      /\ stream.codec = "vp9" => Vp9Picture(p)
  BY <1>1, PictureKinds
<1>3. IsSeq(a.data)
  BY DEF Begun, Collected, DataHeld
<1>4. Len(a.data) \in Nat \ {0} /\ DOMAIN a.data = 1..Len(a.data)
  BY <1>3 DEF IsSeq
<1>5. CASE stream.codec = "h264"
  <2>1. \A i \in 1..Len(a.data) : a.data[i] \in Range(p.slices)
    BY <1>1, <1>5, SentSlices DEF Rewriting, Packings
  <2>2. \A i \in 1..Len(a.data) : a.data[i].nal = 5 <=> p.key
    BY <1>2, <1>5, <2>1 DEF H264Picture
  <2>3. RandomAccess(a.data) <=> \E i \in DOMAIN a.data : a.data[i].nal = 5
    BY <1>5 DEF RandomAccess
  <2>4. 1 \in 1..Len(a.data)
    BY <1>4
  <2> QED
    BY <1>4, <2>2, <2>3, <2>4, Zenon
<1>6. CASE stream.codec = "vp9"
  <2>1. \A i \in 1..Len(a.data) : a.data[i] = p.slices[i]
    BY <1>1, <1>6, SentSlices DEF Rewriting, Packings
  <2>2. 1 \in 1..Len(a.data)
    BY <1>4
  <2>3. RandomAccess(a.data) <=> Vp9RandomAccess(a.data[1].byte)
    BY <1>6 DEF RandomAccess
  <2> QED
    BY <1>2, <1>6, <2>1, <2>2, <2>3 DEF Vp9Picture
<1>7. CASE stream.codec = "hevc"
  <2>1. RandomAccess(a.data) <=> \E i \in DOMAIN a.data : a.data[i].nal \in 16..23
    BY <1>7 DEF RandomAccess
  <2>2. \A x \in Range(p.slices) : (x.nal \in 16..23 <=> p.key)
    BY <1>2, <1>7 DEF HevcPicture
  <2>3. CASE Rewriting
    <3>1. \A i \in 1..Len(a.data) : a.data[i].nal \in SliceTypes(p)
      BY <2>3, RewrittenSlices
    <3>2. \A i \in 1..Len(a.data) : (a.data[i].nal \in 16..23 <=> p.key)
      BY <2>2, <3>1 DEF SliceTypes
    <3>3. 1 \in 1..Len(a.data)
      BY <1>4
    <3> QED
      BY <1>4, <2>1, <3>2, <3>3, Zenon
  <2>4. CASE ~Rewriting
    <3>1. stream.packing = "inband"
      BY <1>7, <2>4 DEF Rewriting
    <3>2. /\ Len(a.data) = Len(p.sets) + Len(p.slices)
          /\ \A i \in 1..Len(p.sets) : a.data[i] = p.sets[i] /\ i \in 1..Len(a.data)
          /\ \A i \in 1..Len(p.slices) :
                /\ Len(p.sets) + i \in 1..Len(a.data)
                /\ a.data[Len(p.sets) + i].nal = p.slices[i].nal
      <4>1. \A i \in 1..Len(p.slices) :
               a.data[Len(p.sets) + i] = [nal |-> p.slices[i].nal, bytes |-> p.slices[i].bytes]
        BY <3>1, InBandData
      <4>2. \A i \in 1..Len(p.slices) : a.data[Len(p.sets) + i].nal = p.slices[i].nal
        <5> SUFFICES ASSUME NEW i \in 1..Len(p.slices)
                     PROVE  a.data[Len(p.sets) + i].nal = p.slices[i].nal
          OBVIOUS
        <5> DEFINE x == a.data[Len(p.sets) + i]
                   y == p.slices[i]
        <5>1. x = [nal |-> y.nal, bytes |-> y.bytes]
          BY <4>1
        <5> HIDE DEF x, y
        <5>2. x.nal = y.nal
          BY <5>1
        <5> QED
          BY <5>2 DEF x, y
      <4> QED
        BY <3>1, <4>2, InBandData
    <3>3. /\ Len(p.slices) \in Nat \ {0} /\ Len(p.sets) \in Nat /\ InBand(stream, p)
          /\ \A i \in 1..Len(p.slices) : p.slices[i] \in Range(p.slices)
          /\ \A i \in 1..Len(p.sets) : p.sets[i] \in Range(p.sets)
      BY <1>1, <3>1, PictureKinds
    <3>4. \A i \in 1..Len(p.sets) : a.data[i].nal \notin 16..23
      <4> SUFFICES ASSUME NEW i \in 1..Len(p.sets) PROVE a.data[i].nal \notin 16..23
        OBVIOUS
      <4>1. a.data[i].nal \in 32..34
        BY <3>2, <3>3 DEF InBand
      <4> QED
        BY <4>1
    <3>5. \A i \in 1..Len(p.slices) : a.data[Len(p.sets) + i].nal \in 16..23 <=> p.key
      BY <2>2, <3>2, <3>3
    <3> DEFINE m == Len(p.sets)
               l == Len(p.slices)
               d == a.data
               n == Len(d)
    <3>6. m \in Nat /\ l \in Nat \ {0} /\ n = m + l /\ 1 \in 1..l
      BY <3>2, <3>3
    <3> HIDE DEF m, l, n
    <3>7. \A i \in 1..n : i \in 1..m \/ (i - m \in 1..l /\ i = m + (i - m))
      BY <3>6
    <3>8. \A i \in 1..n : d[i].nal \in 16..23 => p.key
      <4> SUFFICES ASSUME NEW i \in 1..n, d[i].nal \in 16..23 PROVE p.key
        OBVIOUS
      <4>1. i \notin 1..m
        BY <3>4 DEF m
      <4> DEFINE j == i - m
      <4>2. j \in 1..l /\ i = m + j
        BY <3>7, <4>1
      <4> HIDE DEF j
      <4> QED
        BY <3>5, <4>2 DEF m, l
    <3>9. p.key => d[m + 1].nal \in 16..23 /\ m + 1 \in 1..n
      <4>1. d[m + 1].nal \in 16..23 <=> p.key
        BY <3>5, <3>6 DEF m, l
      <4>2. m + 1 \in 1..n
        BY <3>6
      <4> QED
        BY <4>1, <4>2
    <3> QED
      BY <1>4, <2>1, <3>8, <3>9 DEF n
  <2> QED
    BY <2>3, <2>4
<1> QED
  BY <1>1, <1>5, <1>6, <1>7 DEF Packings

-----------------------------------------------------------------------------
(* The units built.                                                           *)

LEMMA UnitFields ==
    ASSUME NEW nals, NEW key, NEW new, NEW c
    PROVE  /\ Unit(nals, key, new, c).ok /\ ~Refused(c).ok
           /\ Unit(nals, key, new, c).nals = nals /\ Unit(nals, key, new, c).cache = c
           /\ (Unit(nals, key, new, c).key <=> key)
           /\ (Unit(nals, key, new, c).newSequence <=> new)
           /\ Refused(c).cache = c
<1>1. PICK k : k = key
  OBVIOUS
<1> QED
  BY DEF Unit, Refused

(* Whether a unit is built, and of what kind, is not the caches' choice.      *)
Buildable(a) ==
    CASE stream.codec = "h264" -> a.have /\ a.data # <<>> /\ Len(a.data) = Len(a.params)
      [] stream.codec = "hevc" -> a.have /\ a.data # <<>> /\ a.next = Len(a.params)
      [] stream.codec = "vp9" -> a.data # <<>>

(* The units of each codec, part by part.                                     *)
Updated(a, c) == [c EXCEPT !.refs = PpsRefs(a, c.refs)]
SpsOf(a) == H264Sps(a.picture)
PpsOf(a, c) == H264Pps(a.picture, a.iq, Updated(a, c).refs)
H264Nals(a, c) == Unsent(SpsOf(a), c.sps) \o Unsent(PpsOf(a, c), c.pps) \o a.data
H264Cache(a, c) == [Updated(a, c) EXCEPT !.sps = SpsOf(a), !.pps = PpsOf(a, c)]

LEMMA H264Unit ==
    ASSUME NEW a, NEW c, stream.codec = "h264"
    PROVE  /\ Buildable(a) =>
                 Build(a, c) = Unit(H264Nals(a, c), RandomAccess(a.data), SpsOf(a) # c.sps,
                                    H264Cache(a, c))
           /\ ~Buildable(a) => \/ Build(a, c) = Refused(c)
                               \/ a.data # <<>> /\ Build(a, c) = Refused(Updated(a, c))
<1>1. BuildH264(a, c) =
        IF ~a.have \/ a.data = <<>> THEN Refused(c)
        ELSE IF Len(a.data) # Len(a.params) THEN Refused(Updated(a, c))
        ELSE Unit(H264Nals(a, c), RandomAccess(a.data), SpsOf(a) # c.sps, H264Cache(a, c))
  BY Zenon DEF BuildH264, Updated, SpsOf, PpsOf, H264Nals, H264Cache
<1>2. Build(a, c) = BuildH264(a, c)
  BY DEF Build
<1>3. Buildable(a) <=> a.have /\ a.data # <<>> /\ Len(a.data) = Len(a.params)
  BY DEF Buildable
<1> QED
  BY <1>1, <1>2, <1>3, Zenon

OwnTypes(a) == IF a.rewritten THEN {} ELSE RawTypes(a)
KeptCache(a, c) == IF a.rewritten THEN c ELSE CacheRaw(a, c)
Noted(a, c) ==
    IF 33 \in OwnTypes(a) THEN [KeptCache(a, c) EXCEPT !.lastRawSps = KeptCache(a, c).raw[33]]
    ELSE KeptCache(a, c)
NewRawSps(a, c) == 33 \in OwnTypes(a) /\ KeptCache(a, c).raw[33] # c.lastRawSps
Raw(a, c) == <<KeptCache(a, c).raw[32], KeptCache(a, c).raw[33], KeptCache(a, c).raw[34]>>
VpsBuilt(a) == HevcVps(a.picture)
SpsBuilt(a) == HevcSps(a.picture, a.iq)
PpsBuilt(a) == HevcPps(a.picture, IF a.ppsId = Unset THEN 0 ELSE a.ppsId)
BuiltNals(a, c) ==
    Unsent(VpsBuilt(a), c.vps) \o Unsent(SpsBuilt(a), c.sps) \o Unsent(PpsBuilt(a), c.pps)
    \o a.data
BuiltCache(a, c) ==
    [Noted(a, c) EXCEPT !.vps = VpsBuilt(a), !.sps = SpsBuilt(a), !.pps = PpsBuilt(a)]

OwnUnit(a, c) == Unit(a.data, RandomAccess(a.data), NewRawSps(a, c), Noted(a, c))
RawUnit(a, c) == Unit(Raw(a, c) \o a.data, RandomAccess(a.data), NewRawSps(a, c), Noted(a, c))
BuiltUnit(a, c) ==
    Unit(BuiltNals(a, c), RandomAccess(a.data), NewRawSps(a, c) \/ SpsBuilt(a) # c.sps,
         BuiltCache(a, c))

LEMMA HevcUnit ==
    ASSUME NEW a, NEW c, stream.codec = "hevc"
    PROVE  Build(a, c) = IF ~Buildable(a) THEN Refused(c)
                         ELSE IF OwnTypes(a) = 32..34 THEN OwnUnit(a, c)
                         ELSE IF ~a.rewritten /\ NoNal \notin Range(Raw(a, c)) THEN RawUnit(a, c)
                         ELSE BuiltUnit(a, c)
<1>1. BuildHevc(a, c) =
        IF ~a.have \/ a.data = <<>> \/ a.next # Len(a.params) THEN Refused(c)
        ELSE IF OwnTypes(a) = 32..34 THEN OwnUnit(a, c)
        ELSE IF ~a.rewritten /\ NoNal \notin Range(Raw(a, c)) THEN RawUnit(a, c)
        ELSE BuiltUnit(a, c)
  BY Zenon DEF BuildHevc, OwnTypes, KeptCache, Noted, NewRawSps, Raw, VpsBuilt, SpsBuilt, PpsBuilt,
               BuiltNals, BuiltCache, OwnUnit, RawUnit, BuiltUnit
<1>2. Build(a, c) = BuildHevc(a, c)
  BY DEF Build
<1>3. Buildable(a) <=> a.have /\ a.data # <<>> /\ a.next = Len(a.params)
  BY DEF Buildable
<1> QED
  BY <1>1, <1>2, <1>3, Zenon

LEMMA Vp9Unit ==
    ASSUME NEW a, NEW c, stream.codec = "vp9"
    PROVE  Build(a, c) = IF ~Buildable(a) THEN Refused(c)
                         ELSE Unit(a.data, RandomAccess(a.data), FALSE, c)
<1>1. Build(a, c) = BuildVp9(a, c) /\ (Buildable(a) <=> a.data # <<>>)
  BY DEF Build, Buildable
<1> QED
  BY <1>1, Zenon DEF BuildVp9

LEMMA UnitKinds ==
    ASSUME Packings, NEW a, NEW c
    PROVE  /\ Build(a, c).ok <=> Buildable(a)
           /\ Buildable(a) => a.data # <<>> /\ (Build(a, c).key <=> RandomAccess(a.data))
<1>1. Buildable(a) => a.data # <<>>
  BY Zenon DEF Packings, Buildable
<1>2. ASSUME Buildable(a)
      PROVE  \E nals, new, d : Build(a, c) = Unit(nals, RandomAccess(a.data), new, d)
  <2>1. CASE stream.codec = "h264"
    BY <1>2, <2>1, H264Unit, Zenon
  <2>2. CASE stream.codec = "hevc"
    <3>1. Build(a, c) = OwnUnit(a, c) \/ Build(a, c) = RawUnit(a, c) \/ Build(a, c) = BuiltUnit(a, c)
      BY <1>2, <2>2, HevcUnit, Zenon
    <3> QED
      BY <3>1, Zenon DEF OwnUnit, RawUnit, BuiltUnit
  <2>3. CASE stream.codec = "vp9"
    BY <1>2, <2>3, Vp9Unit, Zenon
  <2> QED
    BY <2>1, <2>2, <2>3 DEF Packings
<1>3. ASSUME ~Buildable(a) PROVE \E d : Build(a, c) = Refused(d)
  <2>1. CASE stream.codec = "h264"
    BY <1>3, <2>1, H264Unit, Zenon
  <2>2. CASE stream.codec = "hevc"
    BY <1>3, <2>2, HevcUnit, Zenon
  <2>3. CASE stream.codec = "vp9"
    BY <1>3, <2>3, Vp9Unit, Zenon
  <2> QED
    BY <2>1, <2>2, <2>3 DEF Packings
<1>4. ASSUME Buildable(a) PROVE Build(a, c).ok /\ (Build(a, c).key <=> RandomAccess(a.data))
  <2>1. PICK nals, new, d : Build(a, c) = Unit(nals, RandomAccess(a.data), new, d)
    BY <1>2, <1>4
  <2> DEFINE r == RandomAccess(a.data)
             u == Unit(nals, r, new, d)
  <2>2. u.ok /\ (u.key <=> r)
    <3> HIDE DEF r
    <3> QED
      BY UnitFields
  <2> QED
    BY <2>1, <2>2, Zenon
<1>5. ASSUME ~Buildable(a) PROVE ~Build(a, c).ok
  <2>1. PICK d : Build(a, c) = Refused(d)
    BY <1>3, <1>5
  <2>2. ~Refused(d).ok
    BY UnitFields
  <2> QED
    BY <2>1, <2>2
<1> QED
  BY <1>1, <1>4, <1>5

-----------------------------------------------------------------------------
(* A unit that is built is a random access point exactly when the client's    *)
(* picture is a key picture.                                                  *)
LEMMA KeyUnits ==
    ASSUME AdapterInv, pic # NoPicture, NEW c, Build(adapter, c).ok
    PROVE  /\ Begun(adapter, pic, sent) /\ Buildable(adapter) /\ adapter.data # <<>>
           /\ Build(adapter, c).key <=> pic.key
<1>1. Packings
  BY PicturesCanBeSent DEF AdapterInv
<1>2. Begun(adapter, pic, sent)
  BY DEF AdapterInv, PicHeld, Begun
<1>3. Buildable(adapter) /\ adapter.data # <<>>
      /\ (Build(adapter, c).key <=> RandomAccess(adapter.data))
  BY <1>1, UnitKinds
<1>4. RandomAccess(adapter.data) <=> pic.key
  BY <1>2, <1>3, KeyData
<1> QED
  BY <1>2, <1>3, <1>4

(* The steps of vaEndPicture that submit a unit, and what they leave.         *)
LEMMA Submits ==
    ASSUME NEW idle, NEW fault, EndPicture(idle, fault),
           NEW before, before = Build(adapter, cache),
           NEW restart, restart = StartsStream(before, idle),
           NEW unit, unit = IF restart THEN Build(adapter, ResetSession) ELSE before,
           NEW reopen, reopen = (~restart /\ session.open /\ session.eos),
           NEW keeps, keeps = (session.open /\ ~session.eos /\ ~restart),
           NEW held, held = IF keeps THEN firmware ELSE NoSets
    PROVE  /\ pic # NoPicture /\ before.ok
           /\ cache' = IF reopen THEN ResetSession ELSE unit.cache
           /\ session' = IF fault = "open" THEN Closed
                         ELSE IF fault \in {"none", "wait"} THEN [Opened EXCEPT !.started = TRUE]
                         ELSE IF keeps THEN session ELSE Opened
           /\ firmware' = IF fault \in {"open", "submit"} THEN held ELSE Receive(held, unit.nals)
           /\ adapter' = IF fault = "none" THEN Finished(adapter) ELSE adapter
           /\ fed' = IF fault \in {"open", "submit"} THEN fed
                     ELSE [pic |-> pic, whole |-> sent = Len(Buffers(pic)), nals |-> unit.nals,
                           sets |-> Receive(held, unit.nals).sets, first |-> ~held.fed,
                           restart |-> restart, idle |-> idle /\ session.started]
           /\ lost' = (fault \notin {"none", "wait"} \/ reopen \/ (lost /\ ~restart))
           /\ Ended(fault = "none")
  BY Zenon DEF EndPicture

LEMMA RestartsAtKeys ==
    ASSUME AdapterInv, NEW idle \in BOOLEAN, NEW fault, EndPicture(idle, fault),
           RestartsAtKeyPictures
    PROVE  RestartsAtKeyPictures'
<1> DEFINE before == Build(adapter, cache)
           restart == StartsStream(before, idle)
           new == fed'
<1>1. pic # NoPicture /\ before.ok
  BY Zenon DEF EndPicture
<1>2. fed' = fed \/ (fed'.pic = pic /\ fed'.restart = restart
                     /\ fed'.idle = (idle /\ session.started))
  <2>1. PICK r, u, h : \/ fed' = fed
                       \/ fed' = [pic |-> pic, whole |-> sent = Len(Buffers(pic)), nals |-> u,
                                  sets |-> h, first |-> r,
                                  restart |-> restart, idle |-> idle /\ session.started]
    BY Zenon DEF EndPicture
  <2> DEFINE w == sent = Len(Buffers(pic))
             i == idle /\ session.started
  <2>2. \/ fed' = fed
        \/ fed' = [pic |-> pic, whole |-> w, nals |-> u, sets |-> h, first |-> r,
                   restart |-> restart, idle |-> i]
    BY <2>1
  <2> HIDE DEF w, restart, i
  <2>3. fed' = fed \/ (fed'.pic = pic /\ fed'.restart = restart /\ fed'.idle = i)
    BY <2>2
  <2> QED
    BY <2>3 DEF i
<1>3. before.key <=> pic.key
  BY <1>1, KeyUnits
<1>4. /\ restart => before.key
      /\ before.ok /\ before.key /\ idle /\ session.started => restart
  BY DEF StartsStream
<1> HIDE DEF restart, before
<1>5. CASE fed' = fed
  BY <1>5 DEF RestartsAtKeyPictures
<1>6. CASE fed'.pic = pic /\ fed'.restart = restart /\ fed'.idle = (idle /\ session.started)
  <2>1. fed'.restart => fed'.pic.key
    BY <1>3, <1>4, <1>6, Zenon
  <2>2. fed'.pic.key /\ fed'.idle => fed'.restart
    BY <1>1, <1>3, <1>4, <1>6, Zenon
  <2> QED
    BY <2>1, <2>2, Zenon DEF RestartsAtKeyPictures
<1> QED
  BY <1>2, <1>5, <1>6

LEMMA RestartsStep == AdapterInv /\ RestartsAtKeyPictures /\ [Next]_vars => RestartsAtKeyPictures'
<1> SUFFICES ASSUME AdapterInv, RestartsAtKeyPictures, [Next]_vars PROVE RestartsAtKeyPictures'
  OBVIOUS
<1>1. CASE UNCHANGED vars \/ Render \/ EndRefused \/ Flush
           \/ (\E p \in stream.pictures : BeginPicture(p))
           \/ (\E idle \in BOOLEAN : EndUndrained(idle))
  <2>1. fed' = fed
    BY <1>1 DEF vars, history, Render, EndRefused, Flush, BeginPicture, EndUndrained
  <2> QED
    BY <2>1 DEF RestartsAtKeyPictures
<1>2. CASE \E idle \in BOOLEAN, fault \in {"none"} \cup (stream.faults \ {"drain"}) :
             EndPicture(idle, fault)
  BY <1>2, RestartsAtKeys
<1> QED
  BY <1>1, <1>2 DEF Next

(* AdapterInv: whatever the client plays and whatever fails, the adapter holds *)
(* the buffers rendered of the picture and nothing else (codec.c's render and  *)
(* begin_picture hooks), and a unit was built from its picture's buffers.     *)
THEOREM AdapterHolds == Spec => []AdapterInv
<1> QED
  BY AdapterInit, AdapterStep, PTL DEF Spec

(* A running session is replaced only at key pictures, and always at a key     *)
(* picture after a pause (h264_codec.c, hevc_codec.c and vp9_codec.c's         *)
(* random_access with decode.c's stream_boundary_restart): for every stream    *)
(* whose pictures are formed as the standards say, whatever fails.            *)
THEOREM RestartsOnlyAtKeyPictures == Spec => []RestartsAtKeyPictures
<1>1. Init => RestartsAtKeyPictures
  BY DEF Init, RestartsAtKeyPictures
<1> QED
  BY <1>1, RestartsStep, AdapterHolds, PTL DEF Spec

-----------------------------------------------------------------------------
(* The parameter sets among the NAL units of a unit.                          *)

SetsIn(s) == {n \in Range(s) : IsSet(n)}

LEMMA SetsJoin ==
    ASSUME NEW s, NEW t, IsSeq(s), IsSeq(t)
    PROVE  IsSeq(s \o t) /\ SetsIn(s \o t) = SetsIn(s) \cup SetsIn(t)
<1>1. IsSeq(s \o t) /\ Range(s \o t) = Range(s) \cup Range(t)
  BY JoinIsSeq
<1> QED
  BY <1>1, Zenon DEF SetsIn

LEMMA SetsUnsent ==
    ASSUME NEW n, NEW cached, IsSet(n)
    PROVE  /\ IsSeq(Unsent(n, cached))
           /\ SetsIn(Unsent(n, cached)) = IF n = cached THEN {} ELSE {n}
<1>1. IsSeq(<<>>) /\ Range(<<>>) = {}
  BY NoneIsSeq
<1>2. IsSeq(<<n>>) /\ Range(<<n>>) = {n}
  BY OneIsSeq
<1> QED
  BY <1>1, <1>2 DEF Unsent, SetsIn

LEMMA SetsOnly ==
    ASSUME NEW s, IsSeq(s), \A i \in 1..Len(s) : ~IsSet(s[i])
    PROVE  SetsIn(s) = {}
  BY SeqShape DEF SetsIn

LEMMA Greatest ==
    ASSUME NEW n \in Nat, NEW S \in SUBSET (1..n), S # {}
    PROVE  Max(S) \in S /\ \A y \in S : Max(S) >= y
<1> DEFINE T == {m \in Nat : \A R \in SUBSET (1..m) : R # {} => \E x \in R : \A y \in R : x >= y}
<1>1. 0 \in T
  <2>1. 1..0 = {}
    OBVIOUS
  <2>2. \A R \in SUBSET (1..0) : R = {}
    BY <2>1, Zenon
  <2> QED
    BY <2>2
<1>2. ASSUME NEW m \in Nat, m \in T PROVE m + 1 \in T
  <2> SUFFICES ASSUME NEW R \in SUBSET (1..m + 1), R # {}
               PROVE  \E x \in R : \A y \in R : x >= y
    OBVIOUS
  <2>1. CASE m + 1 \in R
    BY <2>1
  <2>2. CASE m + 1 \notin R
    <3>1. R \in SUBSET (1..m)
      BY <2>2
    <3> QED
      BY <1>2, <3>1
  <2> QED
    BY <2>1, <2>2
<1> HIDE DEF T
<1>3. Nat \subseteq T
  BY <1>1, <1>2, Counting
<1>4. \E x \in S : \A y \in S : x >= y
  BY <1>3 DEF T
<1> QED
  BY <1>4, Zenon DEF Max

(* The data of a picture whose parameter sets are built holds none.           *)
LEMMA DataHasNoSets ==
    ASSUME NEW a, NEW p, NEW k, Begun(a, p, k), stream.packing # "inband"
    PROVE  /\ IsSeq(a.data) /\ SetsIn(a.data) = {}
           /\ stream.codec = "hevc" => \A i \in 1..Len(a.data) : a.data[i].nal \notin 32..34
<1>1. stream \in Streams /\ p \in stream.pictures /\ Packings
  BY PicturesCanBeSent DEF Begun
<1>2. /\ stream.codec = "h264" => H264Picture(p)
      /\ stream.codec = "hevc" => HevcPicture(p)
      /\ stream.codec = "vp9" => Vp9Picture(p)
      /\ Len(p.slices) \in Nat \ {0}
  BY <1>1, PictureKinds
<1>3. IsSeq(a.data)
  BY DEF Begun, Collected, DataHeld
<1>4. CASE stream.codec = "h264"
  <2>1. \A i \in 1..Len(a.data) : a.data[i] \in Range(p.slices)
    BY <1>4, SentSlices DEF Rewriting
  <2>2. \A x \in Range(p.slices) : x.nal \in 1..5
    BY <1>2, <1>4 DEF H264Picture
  <2>3. ASSUME NEW i \in 1..Len(a.data) PROVE ~IsSet(a.data[i])
    <3> DEFINE x == a.data[i].nal
    <3>1. x \in 1..5
      BY <2>1, <2>2
    <3> HIDE DEF x
    <3>2. x \notin {7, 8}
      BY <3>1
    <3> QED
      BY <1>4, <3>2 DEF IsSet, IsSetOf, x
  <2> QED
    BY <1>3, <1>4, <2>3, SetsOnly
<1>5. CASE stream.codec = "hevc"
  <2>1. \A i \in 1..Len(a.data) : a.data[i].nal \in SliceTypes(p)
    BY <1>5, RewrittenSlices DEF Rewriting
  <2>2. \A x \in Range(p.slices) : x.nal \in 0..31
    BY <1>2, <1>5 DEF HevcPicture
  <2>3. ASSUME NEW i \in 1..Len(a.data) PROVE ~IsSet(a.data[i]) /\ a.data[i].nal \notin 32..34
    <3> DEFINE x == a.data[i].nal
    <3>1. x \in 0..31
      BY <2>1, <2>2 DEF SliceTypes
    <3> HIDE DEF x
    <3>2. x \notin 32..34
      BY <3>1
    <3> QED
      BY <1>5, <3>2 DEF IsSet, IsSetOf, x
  <2> QED
    BY <1>3, <2>3, SetsOnly
<1>6. CASE stream.codec = "vp9"
  <2>1. \A i \in 1..Len(a.data) : a.data[i] = p.slices[i] /\ Len(a.data) <= Len(p.slices)
    BY <1>1, <1>6, SentSlices DEF Rewriting, Packings
  <2>2. Len(p.slices) = 1 /\ ~IsSet(p.slices[1])
    BY <1>2, <1>6 DEF Vp9Picture, IsSet
  <2>3. Len(a.data) \in Nat
    BY <1>3, SeqShape
  <2>4. ASSUME NEW i \in 1..Len(a.data) PROVE ~IsSet(a.data[i])
    <3>1. i = 1
      BY <2>1, <2>2, <2>3
    <3> QED
      BY <2>1, <2>2, <3>1
  <2> QED
    BY <1>3, <1>6, <2>4, SetsOnly
<1> QED
  BY <1>1, <1>4, <1>5, <1>6 DEF Packings

-----------------------------------------------------------------------------
(* The caches: raw parameter sets are kept by type, and only where the stream *)
(* brings them.                                                               *)
CachesHeld(c) ==
    /\ c = [vps |-> c.vps, sps |-> c.sps, pps |-> c.pps, refs |-> c.refs, raw |-> c.raw,
            lastRawSps |-> c.lastRawSps]
    /\ c.raw = [t \in 32..34 |-> c.raw[t]]
    /\ \A t \in 32..34 : c.raw[t] = NoNal \/ c.raw[t].nal = t
    /\ stream.packing # "inband" => \A t \in 32..34 : c.raw[t] = NoNal

CacheRecords(c) ==
    [vps : {c.vps}, sps : {c.sps}, pps : {c.pps}, refs : {c.refs}, raw : {c.raw},
     lastRawSps : {c.lastRawSps}]

LEMMA FreshCaches == CachesHeld(ResetSession)
<1> DEFINE r == [t \in 32..34 |-> NoNal]
           c == ResetSession
<1>1. c = [vps |-> NoNal, sps |-> NoNal, pps |-> NoNal, refs |-> <<Unset, Unset>>,
           raw |-> r, lastRawSps |-> NoNal]
  BY DEF ResetSession
<1> HIDE DEF c, r
<1>2. /\ c = [vps |-> c.vps, sps |-> c.sps, pps |-> c.pps, refs |-> c.refs, raw |-> c.raw,
              lastRawSps |-> c.lastRawSps]
      /\ c.raw = r
  BY <1>1
<1>3. r = [t \in 32..34 |-> r[t]] /\ \A t \in 32..34 : r[t] = NoNal
  BY DEF r
<1> QED
  BY <1>2, <1>3 DEF CachesHeld, c

(* The picture of a unit is the client's.                                     *)
LEMMA PictureOfUnit ==
    ASSUME NEW a, NEW p, NEW k, Begun(a, p, k), a.data # <<>>
    PROVE  stream.codec # "vp9" => a.picture = p /\ a.iq = p.iq
<1>1. Packings /\ Sendable(p)
  BY PicturesCanBeSent DEF Begun
<1>2. HeaderHeld(a, p, k) /\ DataHeld(a, p, Past(k)) /\ k \in Nat
  BY DEF Begun, Collected
<1>3. Past(k) \in 0..BodyLen(p)
  BY <1>1, PastPlaces DEF Begun
<1>4. Past(k) # 0
  <2>1. CASE Rewriting
    <3>1. RewrittenHeld(a, p, Past(k))
      BY <1>2, <2>1 DEF DataHeld
    <3> QED
      BY <3>1 DEF RewrittenHeld
  <2>2. CASE ~Rewriting
    <3>1. SentHeld(a, p, Past(k)) /\ IsSeq(a.data)
      BY <1>2, <2>2 DEF DataHeld
    <3>2. Given(p, 0) = 0
      BY <1>1, <1>3, Counts
    <3>3. Len(a.data) = Given(p, Past(k))
      BY <3>1 DEF SentHeld
    <3>4. Len(a.data) # 0
      BY <3>1 DEF IsSeq
    <3> QED
      BY <3>2, <3>3, <3>4
  <2> QED
    BY <2>1, <2>2
<1>5. stream.codec # "vp9" => k >= 1 /\ k >= 2
  BY <1>2, <1>4 DEF Past, HeaderLen
<1> QED
  BY <1>2, <1>5, Zenon DEF HeaderHeld

LEMMA NoRawTypes ==
    ASSUME NEW a, IsSeq(a.data), \A i \in 1..Len(a.data) : a.data[i].nal \notin 32..34,
           NEW c, CachesHeld(c)
    PROVE  /\ RawTypes(a) = {} /\ OwnTypes(a) = {} /\ KeptCache(a, c) = c /\ Noted(a, c) = c
           /\ ~NewRawSps(a, c)
<1>1. RawTypes(a) = {}
  BY SeqShape DEF RawTypes
<1>2. CacheRaw(a, c) = c
  <2>1. c.raw = [t \in 32..34 |-> c.raw[t]] /\ c \in CacheRecords(c)
    <3>1. [vps |-> c.vps, sps |-> c.sps, pps |-> c.pps, refs |-> c.refs, raw |-> c.raw,
           lastRawSps |-> c.lastRawSps] \in CacheRecords(c)
      BY DEF CacheRecords
    <3> QED
      BY <3>1 DEF CachesHeld
  <2> DEFINE r == [t \in 32..34 |-> IF t \in RawTypes(a)
                                    THEN a.data[Max({i \in DOMAIN a.data : a.data[i].nal = t})]
                                    ELSE c.raw[t]]
  <2>2. r = [t \in 32..34 |-> c.raw[t]]
    BY <1>1, Zenon
  <2>3. CacheRaw(a, c) = [c EXCEPT !.raw = r]
    BY DEF CacheRaw
  <2> HIDE DEF r
  <2>4. r = c.raw
    BY <2>1, <2>2, Zenon
  <2>5. [c EXCEPT !.raw = c.raw] = c
    BY <2>1 DEF CacheRecords
  <2> QED
    BY <2>3, <2>4, <2>5
<1>3. OwnTypes(a) = {} /\ KeptCache(a, c) = c
  BY <1>1, <1>2 DEF OwnTypes, KeptCache
<1>4. 33 \notin OwnTypes(a)
  BY <1>3
<1>5. Noted(a, c) = c /\ ~NewRawSps(a, c)
  BY <1>3, <1>4, Zenon DEF Noted, NewRawSps
<1> QED
  BY <1>1, <1>3, <1>5

(* An H.264 unit: SPS and PPS where they changed, then the slices.            *)
H264Is(a, p, c, u) ==
    /\ u.nals = H264Nals(a, c) /\ (u.newSequence <=> H264Sps(p) # c.sps)
    /\ SpsOf(a) = H264Sps(p) /\ PpsOf(a, c) = H264Pps(p, p.iq, PpsRefs(a, c.refs))
    /\ SetsIn(u.nals) = (IF SpsOf(a) = c.sps THEN {} ELSE {SpsOf(a)})
                        \cup (IF PpsOf(a, c) = c.pps THEN {} ELSE {PpsOf(a, c)})
    /\ CachesHeld(u.cache) /\ u.cache.sps = SpsOf(a) /\ u.cache.pps = PpsOf(a, c)
    /\ u.cache.refs = PpsRefs(a, c.refs)

LEMMA H264Contents ==
    ASSUME NEW a, NEW p, NEW k, Begun(a, p, k), Buildable(a), stream.codec = "h264",
           NEW c, CachesHeld(c), NEW u, u = Build(a, c)
    PROVE  H264Is(a, p, c, u)
<1>1. u = Unit(H264Nals(a, c), RandomAccess(a.data), SpsOf(a) # c.sps, H264Cache(a, c))
  BY H264Unit
<1>2. u.nals = H264Nals(a, c) /\ (u.newSequence <=> SpsOf(a) # c.sps) /\ u.cache = H264Cache(a, c)
  <2> DEFINE r == RandomAccess(a.data)
             n == SpsOf(a) # c.sps
  <2>1. u = Unit(H264Nals(a, c), r, n, H264Cache(a, c))
    BY <1>1
  <2> HIDE DEF r, n
  <2>2. u.nals = H264Nals(a, c) /\ (u.newSequence <=> n) /\ u.cache = H264Cache(a, c)
    BY <2>1, UnitFields
  <2> QED
    BY <2>2 DEF n
<1>3. a.data # <<>>
  BY DEF Buildable
<1>4. a.picture = p /\ a.iq = p.iq
  BY <1>3, PictureOfUnit
<1> DEFINE U == Updated(a, c)
           R == PpsRefs(a, c.refs)
<1>5. c \in CacheRecords(c)
  <2>1. [vps |-> c.vps, sps |-> c.sps, pps |-> c.pps, refs |-> c.refs, raw |-> c.raw,
         lastRawSps |-> c.lastRawSps] \in CacheRecords(c)
    BY DEF CacheRecords
  <2> QED
    BY <2>1 DEF CachesHeld
<1>6. U = [c EXCEPT !.refs = R]
  BY DEF Updated
<1> HIDE DEF U, R
<1>7. /\ U \in [vps : {c.vps}, sps : {c.sps}, pps : {c.pps}, refs : {R}, raw : {c.raw},
                lastRawSps : {c.lastRawSps}]
      /\ U.refs = R
  BY <1>5, <1>6 DEF CacheRecords
<1>8. SpsOf(a) = H264Sps(p) /\ PpsOf(a, c) = H264Pps(p, p.iq, R)
  BY <1>4, <1>7 DEF SpsOf, PpsOf, U
<1> DEFINE s == SpsOf(a)
           q == PpsOf(a, c)
           v == H264Cache(a, c)
<1>9. v = [U EXCEPT !.sps = s, !.pps = q]
  BY DEF H264Cache, U
<1> HIDE DEF s, q, v
<1>10. v \in [vps : {c.vps}, sps : {s}, pps : {q}, refs : {R}, raw : {c.raw},
              lastRawSps : {c.lastRawSps}]
  BY <1>7, <1>9
<1>11. /\ v.sps = s /\ v.pps = q /\ v.refs = R /\ v.raw = c.raw
       /\ v = [vps |-> v.vps, sps |-> v.sps, pps |-> v.pps, refs |-> v.refs, raw |-> v.raw,
               lastRawSps |-> v.lastRawSps]
  BY <1>10
<1>12. CachesHeld(v)
  BY <1>11 DEF CachesHeld
<1>13. IsSet(s) /\ IsSet(q)
  <2>1. s.nal = 7 /\ q.nal = 8
    BY <1>8 DEF s, q, H264Sps, H264Pps
  <2> QED
    BY <2>1 DEF IsSet, IsSetOf
<1>14. SetsIn(H264Nals(a, c)) = (IF s = c.sps THEN {} ELSE {s}) \cup (IF q = c.pps THEN {} ELSE {q})
  <2>1. stream.packing # "inband"
    BY PicturesCanBeSent DEF Begun, Packings
  <2>2. IsSeq(a.data) /\ SetsIn(a.data) = {}
    BY <2>1, DataHasNoSets
  <2> DEFINE x == Unsent(s, c.sps)
             y == Unsent(q, c.pps)
             d == a.data
  <2>3. H264Nals(a, c) = (x \o y) \o d
    BY DEF H264Nals, s, q
  <2>4. /\ IsSeq(x) /\ SetsIn(x) = IF s = c.sps THEN {} ELSE {s}
        /\ IsSeq(y) /\ SetsIn(y) = IF q = c.pps THEN {} ELSE {q}
    BY <1>13, SetsUnsent
  <2> HIDE DEF x, y, d
  <2>5. IsSeq(x \o y) /\ SetsIn(x \o y) = SetsIn(x) \cup SetsIn(y)
    BY <2>4, SetsJoin
  <2>6. SetsIn((x \o y) \o d) = SetsIn(x \o y) \cup SetsIn(d)
    BY <2>2, <2>5, SetsJoin DEF d
  <2> QED
    BY <2>2, <2>3, <2>4, <2>5, <2>6 DEF d
<1> QED
  BY <1>2, <1>8, <1>11, <1>12, <1>14 DEF s, q, v, R, H264Is

(* An HEVC unit whose parameter sets are built from the picture.              *)
BuiltIs(a, p, c, u) ==
    /\ SpsBuilt(a) = HevcSps(p, p.iq)
    /\ u.newSequence <=> SpsBuilt(a) # c.sps
    /\ SetsIn(u.nals) = (IF VpsBuilt(a) = c.vps THEN {} ELSE {VpsBuilt(a)})
                        \cup (IF SpsBuilt(a) = c.sps THEN {} ELSE {SpsBuilt(a)})
                        \cup (IF PpsBuilt(a) = c.pps THEN {} ELSE {PpsBuilt(a)})
    /\ VpsBuilt(a).nal = 32 /\ SpsBuilt(a).nal = 33 /\ PpsBuilt(a).nal = 34
    /\ CachesHeld(u.cache) /\ u.cache.sps = SpsBuilt(a) /\ u.cache.raw = c.raw
    /\ u.cache.lastRawSps = c.lastRawSps

LEMMA BuiltContents ==
    ASSUME NEW a, NEW p, NEW k, Begun(a, p, k), Buildable(a), stream.codec = "hevc",
           NEW c, CachesHeld(c), NEW u, u = Build(a, c),
           RawTypes(a) = {}, \E t \in 32..34 : c.raw[t] = NoNal, SetsIn(a.data) = {}
    PROVE  BuiltIs(a, p, c, u)
<1>1. a.data # <<>> /\ IsSeq(a.data)
  BY DEF Buildable, Begun, Collected, DataHeld
<1>2. a.picture = p /\ a.iq = p.iq
  BY <1>1, PictureOfUnit
<1>3. /\ OwnTypes(a) = {} /\ KeptCache(a, c) = c /\ Noted(a, c) = c /\ ~NewRawSps(a, c)
  <2>1. ASSUME NEW i \in 1..Len(a.data) PROVE a.data[i].nal \notin 32..34
    <3>1. a.data[i] \in Range(a.data)
      BY <1>1, SeqShape
    <3> QED
      BY <3>1, Zenon DEF RawTypes
  <2> QED
    BY <1>1, <2>1, NoRawTypes
<1>4. u = BuiltUnit(a, c)
  <2>1. {} # 32..34
    <3>1. 32 \in 32..34
      OBVIOUS
    <3> QED
      BY <3>1
  <2>2. NoNal \in Range(Raw(a, c))
    <3>1. c.raw[32] = NoNal \/ c.raw[33] = NoNal \/ c.raw[34] = NoNal
      <4>1. 32..34 = {32, 33, 34}
        OBVIOUS
      <4> QED
        BY <4>1
    <3>2. Raw(a, c) = <<c.raw[32], c.raw[33], c.raw[34]>>
      BY <1>3 DEF Raw
    <3> DEFINE s == <<c.raw[32], c.raw[33], c.raw[34]>>
    <3>3. 1 \in DOMAIN s /\ 2 \in DOMAIN s /\ 3 \in DOMAIN s
      OBVIOUS
    <3>4. s[1] = c.raw[32] /\ s[2] = c.raw[33] /\ s[3] = c.raw[34]
      OBVIOUS
    <3> HIDE DEF s
    <3>5. NoNal \in {s[i] : i \in DOMAIN s}
      BY <3>1, <3>3, <3>4
    <3> QED
      BY <3>2, <3>5 DEF Range, s
  <2> QED
    BY <1>3, <2>1, <2>2, HevcUnit
<1> DEFINE V == VpsBuilt(a)
           S == SpsBuilt(a)
           P == PpsBuilt(a)
           v == BuiltCache(a, c)
<1>5. u.nals = BuiltNals(a, c) /\ (u.newSequence <=> S # c.sps) /\ u.cache = v
  <2> DEFINE r == RandomAccess(a.data)
             n == NewRawSps(a, c) \/ S # c.sps
  <2>1. u = Unit(BuiltNals(a, c), r, n, v)
    BY <1>4 DEF BuiltUnit
  <2> HIDE DEF r, n
  <2>2. u.nals = BuiltNals(a, c) /\ (u.newSequence <=> n) /\ u.cache = v
    BY <2>1, UnitFields
  <2> QED
    BY <1>3, <2>2 DEF n
<1>6. S = HevcSps(p, p.iq) /\ V.nal = 32 /\ S.nal = 33 /\ P.nal = 34
  BY <1>2 DEF VpsBuilt, SpsBuilt, PpsBuilt, HevcVps, HevcSps, HevcPps
<1>7. c \in CacheRecords(c)
  <2>1. [vps |-> c.vps, sps |-> c.sps, pps |-> c.pps, refs |-> c.refs, raw |-> c.raw,
         lastRawSps |-> c.lastRawSps] \in CacheRecords(c)
    BY DEF CacheRecords
  <2> QED
    BY <2>1 DEF CachesHeld
<1>8. v = [c EXCEPT !.vps = V, !.sps = S, !.pps = P]
  BY <1>3 DEF BuiltCache
<1> HIDE DEF V, S, P, v
<1>9. v \in [vps : {V}, sps : {S}, pps : {P}, refs : {c.refs}, raw : {c.raw},
             lastRawSps : {c.lastRawSps}]
  BY <1>7, <1>8 DEF CacheRecords
<1>10. /\ v.sps = S /\ v.raw = c.raw /\ v.lastRawSps = c.lastRawSps
       /\ v = [vps |-> v.vps, sps |-> v.sps, pps |-> v.pps, refs |-> v.refs, raw |-> v.raw,
               lastRawSps |-> v.lastRawSps]
  BY <1>9
<1>11. CachesHeld(v)
  BY <1>10 DEF CachesHeld
<1>12. SetsIn(BuiltNals(a, c)) = (IF V = c.vps THEN {} ELSE {V}) \cup (IF S = c.sps THEN {} ELSE {S})
                                 \cup (IF P = c.pps THEN {} ELSE {P})
  <2>1. IsSet(V) /\ IsSet(S) /\ IsSet(P)
    BY <1>6 DEF IsSet, IsSetOf
  <2> DEFINE x == Unsent(V, c.vps)
             y == Unsent(S, c.sps)
             z == Unsent(P, c.pps)
             d == a.data
  <2>2. BuiltNals(a, c) = ((x \o y) \o z) \o d
    BY DEF BuiltNals, V, S, P
  <2>3. /\ IsSeq(x) /\ SetsIn(x) = IF V = c.vps THEN {} ELSE {V}
        /\ IsSeq(y) /\ SetsIn(y) = IF S = c.sps THEN {} ELSE {S}
        /\ IsSeq(z) /\ SetsIn(z) = IF P = c.pps THEN {} ELSE {P}
    BY <2>1, SetsUnsent
  <2>4. IsSeq(d) /\ SetsIn(d) = {}
    BY <1>1
  <2> HIDE DEF x, y, z, d
  <2>5. IsSeq(x \o y) /\ SetsIn(x \o y) = SetsIn(x) \cup SetsIn(y)
    BY <2>3, SetsJoin
  <2>6. IsSeq((x \o y) \o z) /\ SetsIn((x \o y) \o z) = SetsIn(x \o y) \cup SetsIn(z)
    BY <2>3, <2>5, SetsJoin
  <2>7. SetsIn(((x \o y) \o z) \o d) = SetsIn((x \o y) \o z) \cup SetsIn(d)
    BY <2>4, <2>6, SetsJoin
  <2> QED
    BY <2>2, <2>3, <2>4, <2>5, <2>6, <2>7
<1> QED
  BY <1>5, <1>6, <1>10, <1>11, <1>12 DEF V, S, P, v, BuiltIs

LEMMA Vp9Contents ==
    ASSUME NEW a, NEW p, NEW k, Begun(a, p, k), Buildable(a), stream.codec = "vp9",
           NEW c, NEW u, u = Build(a, c)
    PROVE  ~u.newSequence /\ u.cache = c /\ SetsIn(u.nals) = {}
<1> DEFINE r == RandomAccess(a.data)
           n == FALSE
<1>1. u = Unit(a.data, r, n, c)
  BY Vp9Unit
<1> HIDE DEF r, n
<1>2. u.nals = a.data /\ (u.newSequence <=> n) /\ u.cache = c
  BY <1>1, UnitFields
<1>3. stream.packing # "inband"
  BY PicturesCanBeSent DEF Begun, Packings
<1>4. SetsIn(a.data) = {}
  BY <1>3, DataHasNoSets
<1> QED
  BY <1>2, <1>4 DEF n

(* The parameter sets of an in-band picture's data are its own.               *)
LEMMA InBandSets ==
    ASSUME NEW a, NEW p, NEW k, Begun(a, p, k), stream.packing = "inband", a.data # <<>>
    PROVE  /\ IsSeq(a.data) /\ Len(a.data) \in Nat /\ stream.codec = "hevc"
           /\ SetsIn(a.data) = Range(p.sets)
           /\ RawTypes(a) = {n.nal : n \in Range(p.sets)}
           /\ a.rewritten = FALSE /\ a.ppsId = Unset
<1> DEFINE d == a.data
           s == p.sets
           m == Len(s)
           l == Len(p.slices)
<1>1. stream \in Streams /\ p \in stream.pictures
  BY DEF Begun
<1>2. ~Rewriting
  BY DEF Rewriting
<1>3. /\ stream.codec = "hevc" /\ InBand(stream, p) /\ IsSeq(s) /\ m \in Nat
      /\ \A i \in 1..m : s[i] \in Range(s)
      /\ l \in Nat
  BY <1>1, PictureKinds
<1>4. a.rewritten = FALSE /\ a.ppsId = Unset /\ IsSeq(d) /\ Len(d) \in Nat
  BY <1>2, Sent
<1>5. /\ Len(d) = m + l
      /\ \A i \in 1..m : d[i] = s[i] /\ i \in 1..Len(d)
      /\ \A i \in 1..l : /\ m + i \in 1..Len(d)
                         /\ d[m + i] = [nal |-> p.slices[i].nal, bytes |-> p.slices[i].bytes]
                         /\ p.slices[i].nal \in 0..31
  BY InBandData
<1>6. \A n \in Range(s) : n.nal \in 32..34
  BY <1>3 DEF InBand
<1>7. \A n \in Range(s) : n \in Range(d)
  <2> SUFFICES ASSUME NEW n \in Range(s) PROVE n \in Range(d)
    OBVIOUS
  <2>1. PICK i \in 1..m : n = s[i]
    BY <1>3, SeqShape
  <2> HIDE DEF s, m, d
  <2>2. n = d[i] /\ i \in 1..Len(d)
    BY <1>5, <2>1
  <2> QED
    BY <1>4, <2>2, SeqShape
<1>8. ASSUME NEW n \in Range(d) PROVE n \in Range(s) \/ n.nal \in 0..31
  <2>1. PICK i \in 1..Len(d) : n = d[i]
    BY <1>4, SeqShape
  <2>2. CASE i \in 1..m
    BY <1>3, <1>5, <2>1, <2>2
  <2>3. CASE i \notin 1..m
    <3> DEFINE j == i - m
    <3> HIDE DEF s, m, d, l
    <3>1. j \in 1..l /\ m + j = i
      BY <1>3, <1>4, <1>5, <2>1, <2>3
    <3> HIDE DEF j
    <3>2. d[m + j] = [nal |-> p.slices[j].nal, bytes |-> p.slices[j].bytes]
          /\ p.slices[j].nal \in 0..31
      BY <1>5, <3>1
    <3> DEFINE x == p.slices[j]
    <3>3. n = [nal |-> x.nal, bytes |-> x.bytes] /\ x.nal \in 0..31
      BY <2>1, <3>1, <3>2
    <3> HIDE DEF x
    <3> QED
      BY <3>3
  <2> QED
    BY <2>2, <2>3
<1> HIDE DEF s, d
<1>9. \A n \in Range(d) : (n.nal \in 32..34 <=> n \in Range(s))
  <2> SUFFICES ASSUME NEW n \in Range(d) PROVE n.nal \in 32..34 <=> n \in Range(s)
    OBVIOUS
  <2> DEFINE x == n.nal
  <2>1. n \in Range(s) => x \in 32..34
    BY <1>6
  <2>2. n \in Range(s) \/ x \in 0..31
    BY <1>8
  <2> HIDE DEF x
  <2>3. x \in 0..31 => x \notin 32..34
    OBVIOUS
  <2> QED
    BY <2>1, <2>2, <2>3 DEF x
<1>10. \A n : (IsSet(n) <=> n.nal \in 32..34)
  BY <1>3, Zenon DEF IsSet, IsSetOf
<1>11. SetsIn(d) = Range(s)
  BY <1>7, <1>9, <1>10, Zenon DEF SetsIn
<1>12. RawTypes(a) = {n.nal : n \in Range(s)}
  <2>1. RawTypes(a) = {n.nal : n \in Range(d)} \cap 32..34
    BY DEF RawTypes, d
  <2> QED
    BY <1>6, <1>7, <1>9, <2>1, Zenon
<1> QED
  BY <1>3, <1>4, <1>11, <1>12 DEF s, d

OwnRaw(a) == [t \in 32..34 |-> a.data[Max({i \in DOMAIN a.data : a.data[i].nal = t})]]

(* A key picture brings a parameter set of each type, and one SPS.            *)
KeyIs(a, p, c, u) ==
    /\ u.nals = a.data /\ CachesHeld(u.cache)
    /\ u.cache.raw = OwnRaw(a) /\ u.cache.lastRawSps = OwnRaw(a)[33]
    /\ \A t \in 32..34 : OwnRaw(a)[t] \in Range(p.sets) /\ OwnRaw(a)[t].nal = t
    /\ u.newSequence <=> OwnRaw(a)[33] # c.lastRawSps

LEMMA KeyContents ==
    ASSUME NEW a, NEW p, NEW k, Begun(a, p, k), stream.packing = "inband", Buildable(a), p.key,
           NEW c, CachesHeld(c), NEW u, u = Build(a, c)
    PROVE  KeyIs(a, p, c, u)
<1> DEFINE d == a.data
           R == OwnRaw(a)
<1>1. d # <<>>
  BY PicturesCanBeSent DEF Buildable, Begun, Packings
<1>2. /\ IsSeq(d) /\ Len(d) \in Nat /\ stream.codec = "hevc" /\ SetsIn(d) = Range(p.sets)
      /\ RawTypes(a) = {n.nal : n \in Range(p.sets)} /\ a.rewritten = FALSE
  BY <1>1, InBandSets
<1>3. InBand(stream, p)
  BY PictureKinds DEF Begun
<1>4. RawTypes(a) = 32..34
  <2>1. \A m \in Range(p.sets) : m.nal \in 32..34
    BY <1>3, Zenon DEF InBand
  <2>2. \A t \in 32..34 : \E n \in Range(p.sets) : n.nal = t
    BY <1>3, Zenon DEF InBand
  <2> QED
    BY <1>2, <2>1, <2>2
<1>5. ASSUME NEW t \in 32..34 PROVE R[t] \in Range(p.sets) /\ R[t].nal = t
  <2> DEFINE D == {i \in DOMAIN d : d[i].nal = t}
  <2>1. DOMAIN d = 1..Len(d)
    BY <1>2, SeqShape
  <2>2. D # {}
    <3>1. PICK n \in Range(d) : n.nal = t
      BY <1>4 DEF RawTypes
    <3>2. PICK i \in 1..Len(d) : n = d[i]
      BY <1>2, SeqShape
    <3> QED
      BY <2>1, <3>1, <3>2
  <2>3. D \in SUBSET (1..Len(d))
    BY <2>1
  <2> HIDE DEF D
  <2>4. Max(D) \in D
    BY <1>2, <2>2, <2>3, Greatest
  <2>5. R[t] = d[Max(D)]
    BY DEF OwnRaw, D
  <2> HIDE DEF R
  <2>6. R[t].nal = t /\ R[t] \in Range(d)
    <3>1. Max(D) \in 1..Len(d) /\ d[Max(D)].nal = t
      BY <2>1, <2>4 DEF D
    <3> QED
      BY <1>2, <2>5, <3>1, SeqShape
  <2>7. IsSet(R[t])
    BY <1>2, <2>6 DEF IsSet, IsSetOf
  <2> QED
    BY <1>2, <2>6, <2>7 DEF SetsIn
<1>6. c \in CacheRecords(c)
  <2>1. [vps |-> c.vps, sps |-> c.sps, pps |-> c.pps, refs |-> c.refs, raw |-> c.raw,
         lastRawSps |-> c.lastRawSps] \in CacheRecords(c)
    BY DEF CacheRecords
  <2> QED
    BY <2>1 DEF CachesHeld
<1> DEFINE K == KeptCache(a, c)
           N == Noted(a, c)
<1>7. K = [c EXCEPT !.raw = R]
  <2>1. R = [t \in 32..34 |-> IF t \in RawTypes(a)
                              THEN a.data[Max({i \in DOMAIN a.data : a.data[i].nal = t})]
                              ELSE c.raw[t]]
    BY <1>4, Zenon DEF OwnRaw
  <2> HIDE DEF R
  <2>2. K = CacheRaw(a, c)
    BY <1>2 DEF KeptCache
  <2> QED
    BY <2>1, <2>2, Zenon DEF CacheRaw
<1>8. R = [t \in 32..34 |-> R[t]]
  BY DEF OwnRaw
<1> HIDE DEF K, R
<1>9. K.raw = R /\ K \in [vps : {c.vps}, sps : {c.sps}, pps : {c.pps}, refs : {c.refs}, raw : {R},
                          lastRawSps : {c.lastRawSps}]
  BY <1>6, <1>7 DEF CacheRecords
<1>10. 33 \in OwnTypes(a) /\ OwnTypes(a) = 32..34
  <2>1. OwnTypes(a) = 32..34
    BY <1>2, <1>4, Zenon DEF OwnTypes
  <2>2. 33 \in 32..34
    OBVIOUS
  <2> QED
    BY <2>1, <2>2
<1>11. N = [K EXCEPT !.lastRawSps = R[33]] /\ (NewRawSps(a, c) <=> R[33] # c.lastRawSps)
  BY <1>9, <1>10 DEF Noted, NewRawSps, K
<1> HIDE DEF N
<1>12. N \in [vps : {c.vps}, sps : {c.sps}, pps : {c.pps}, refs : {c.refs}, raw : {R},
              lastRawSps : {R[33]}]
  BY <1>9, <1>11
<1>13. /\ N.raw = R /\ N.lastRawSps = R[33]
       /\ N = [vps |-> N.vps, sps |-> N.sps, pps |-> N.pps, refs |-> N.refs, raw |-> N.raw,
               lastRawSps |-> N.lastRawSps]
  BY <1>12
<1>14. CachesHeld(N)
  BY <1>5, <1>8, <1>13 DEF CachesHeld
<1>15. u.nals = d /\ u.cache = N /\ (u.newSequence <=> R[33] # c.lastRawSps)
  <2>1. u = OwnUnit(a, c)
    BY <1>2, <1>10, HevcUnit
  <2> DEFINE r == RandomAccess(a.data)
             n == NewRawSps(a, c)
  <2>2. u = Unit(d, r, n, N)
    BY <2>1 DEF OwnUnit, N
  <2> HIDE DEF r, n, d
  <2>3. u.nals = d /\ (u.newSequence <=> n) /\ u.cache = N
    BY <2>2, UnitFields
  <2> QED
    BY <1>11, <2>3 DEF n
<1> QED
  BY <1>5, <1>13, <1>14, <1>15 DEF R, d, N, KeyIs

(* Any other picture of the stream brings none: the cached ones go in front,  *)
(* when there is one of each type.                                            *)
OtherIs(a, c, u) ==
    /\ SetsIn(a.data) = {} /\ RawTypes(a) = {} /\ IsSeq(a.data) /\ stream.codec = "hevc"
    /\ (\A t \in 32..34 : c.raw[t] # NoNal) =>
          /\ u.nals = <<c.raw[32], c.raw[33], c.raw[34]>> \o a.data
          /\ u.cache = c /\ ~u.newSequence
          /\ SetsIn(u.nals) = {c.raw[32], c.raw[33], c.raw[34]}

LEMMA OtherContents ==
    ASSUME NEW a, NEW p, NEW k, Begun(a, p, k), stream.packing = "inband", Buildable(a), ~p.key,
           NEW c, CachesHeld(c), NEW u, u = Build(a, c)
    PROVE  OtherIs(a, c, u)
<1> DEFINE d == a.data
<1>1. d # <<>>
  BY PicturesCanBeSent DEF Buildable, Begun, Packings
<1>2. /\ IsSeq(d) /\ Len(d) \in Nat /\ stream.codec = "hevc" /\ SetsIn(d) = Range(p.sets)
      /\ RawTypes(a) = {n.nal : n \in Range(p.sets)} /\ a.rewritten = FALSE
  BY <1>1, InBandSets
<1>3. InBand(stream, p)
  BY PictureKinds DEF Begun
<1>4. Range(p.sets) = {}
  <2>1. p.sets = <<>>
    BY <1>3, Zenon DEF InBand
  <2> QED
    BY <2>1, NoneIsSeq
<1>5. SetsIn(d) = {} /\ RawTypes(a) = {}
  BY <1>2, <1>4
<1>6. ASSUME \A t \in 32..34 : c.raw[t] # NoNal
      PROVE  /\ u.nals = <<c.raw[32], c.raw[33], c.raw[34]>> \o d
             /\ u.cache = c /\ ~u.newSequence
             /\ SetsIn(u.nals) = {c.raw[32], c.raw[33], c.raw[34]}
  <2>1. /\ OwnTypes(a) = {} /\ KeptCache(a, c) = c /\ Noted(a, c) = c /\ ~NewRawSps(a, c)
    <3>1. ASSUME NEW i \in 1..Len(d) PROVE d[i].nal \notin 32..34
      <4>1. d[i] \in Range(d)
        BY <1>2, SeqShape
      <4> QED
        BY <1>5, <4>1, Zenon DEF RawTypes
    <3> QED
      BY <1>2, <3>1, NoRawTypes
  <2> DEFINE x == c.raw[32]
             y == c.raw[33]
             z == c.raw[34]
             s == <<x, y, z>>
  <2>2. x # NoNal /\ y # NoNal /\ z # NoNal /\ x.nal = 32 /\ y.nal = 33 /\ z.nal = 34
    BY <1>6 DEF CachesHeld
  <2>3. Raw(a, c) = s
    BY <2>1 DEF Raw
  <2> HIDE DEF x, y, z
  <2>4. IsSeq(s) /\ Range(s) = {x, y, z}
    <3>1. s \in Seq({x, y, z}) /\ DOMAIN s = 1..3 /\ s[1] = x /\ s[2] = y /\ s[3] = z
      OBVIOUS
    <3>2. 1..3 = {1, 2, 3}
      OBVIOUS
    <3> HIDE DEF s
    <3>3. {s[i] : i \in DOMAIN s} = {x, y, z}
      BY <3>1, <3>2
    <3> QED
      BY <3>1, <3>3 DEF IsSeq, Range
  <2>5. NoNal \notin Range(Raw(a, c))
    BY <2>2, <2>3, <2>4
  <2>6. {} # 32..34
    <3>1. 32 \in 32..34
      OBVIOUS
    <3> QED
      BY <3>1
  <2>7. u = RawUnit(a, c)
    BY <1>2, <2>1, <2>5, <2>6, HevcUnit
  <2>8. u.nals = s \o d /\ u.cache = c /\ ~u.newSequence
    <3> DEFINE r == RandomAccess(a.data)
               n == NewRawSps(a, c)
               w == s \o d
    <3>1. u = Unit(w, r, n, c)
      BY <2>1, <2>3, <2>7 DEF RawUnit
    <3> HIDE DEF r, n, w
    <3>2. u.nals = w /\ (u.newSequence <=> n) /\ u.cache = c
      BY <3>1, UnitFields
    <3> QED
      BY <2>1, <3>2 DEF n, w
  <2>9. SetsIn(u.nals) = {x, y, z}
    <3>1. SetsIn(s \o d) = SetsIn(s) \cup SetsIn(d)
      BY <1>2, <2>4, SetsJoin
    <3>2. IsSet(x) /\ IsSet(y) /\ IsSet(z)
      BY <1>2, <2>2 DEF IsSet, IsSetOf
    <3>3. SetsIn(s) = {x, y, z}
      BY <2>4, <3>2 DEF SetsIn
    <3> QED
      BY <1>5, <2>8, <3>1, <3>3
  <2> QED
    BY <2>8, <2>9 DEF x, y, z
<1> QED
  BY <1>2, <1>5, <1>6 DEF OtherIs

-----------------------------------------------------------------------------
(* The sequence the adapter believes the session plays: the SPS it sent last. *)
Cur(c) ==
    IF stream.codec = "vp9" THEN NoNal
    ELSE IF stream.packing = "inband" THEN c.lastRawSps ELSE c.sps

(* The caches hold what pictures of sequence s need.                          *)
InSequence(c, s) ==
    CASE stream.codec = "h264" -> c.sps = [nal |-> 7, seq |-> s]
      [] stream.codec = "hevc" ->
            IF stream.packing = "inband"
            THEN (\A t \in 32..34 : c.raw[t] # NoNal) /\ c.raw[33] = c.lastRawSps
            ELSE \E q \in stream.pictures : q.seq = s /\ c.sps = HevcSps(q, q.iq)
      [] stream.codec = "vp9" -> TRUE

Sequences(nals) == {n \in SetsIn(nals) : n.nal \in {7, 33}}

SameSets(c, d) ==
    c.sps = d.sps /\ c.pps = d.pps /\ c.raw = d.raw /\ c.lastRawSps = d.lastRawSps

(* A unit that cannot be built changes the reference counts at most.          *)
LEMMA RefusedCaches ==
    ASSUME Packings, NEW a, NEW c, CachesHeld(c), ~Buildable(a), NEW u, u = Build(a, c)
    PROVE  /\ CachesHeld(u.cache) /\ SameSets(u.cache, c)
           /\ (stream.codec # "h264" => u.cache = c)
           /\ u.cache.refs = c.refs \/ (/\ stream.codec = "h264" /\ a.data # <<>>
                                        /\ u.cache.refs = PpsRefs(a, c.refs))
<1>1. u = Refused(c) \/ (stream.codec = "h264" /\ a.data # <<>> /\ u = Refused(Updated(a, c)))
  <2>1. stream.codec = "h264" => \/ Build(a, c) = Refused(c)
                                 \/ a.data # <<>> /\ Build(a, c) = Refused(Updated(a, c))
    BY H264Unit
  <2>2. stream.codec = "hevc" => Build(a, c) = Refused(c)
    BY HevcUnit
  <2>3. stream.codec = "vp9" => Build(a, c) = Refused(c)
    BY Vp9Unit
  <2> QED
    BY <2>1, <2>2, <2>3 DEF Packings
<1>2. u.cache = c \/ (stream.codec = "h264" /\ a.data # <<>> /\ u.cache = Updated(a, c))
  <2>1. Refused(c).cache = c /\ Refused(Updated(a, c)).cache = Updated(a, c)
    BY DEF Refused
  <2> QED
    BY <1>1, <2>1
<1> DEFINE U == Updated(a, c)
           R == PpsRefs(a, c.refs)
<1>3. c \in CacheRecords(c)
  <2>1. [vps |-> c.vps, sps |-> c.sps, pps |-> c.pps, refs |-> c.refs, raw |-> c.raw,
         lastRawSps |-> c.lastRawSps] \in CacheRecords(c)
    BY DEF CacheRecords
  <2> QED
    BY <2>1 DEF CachesHeld
<1>4. U = [c EXCEPT !.refs = R]
  BY DEF Updated
<1> HIDE DEF U, R
<1>5. U \in [vps : {c.vps}, sps : {c.sps}, pps : {c.pps}, refs : {R}, raw : {c.raw},
             lastRawSps : {c.lastRawSps}]
  BY <1>3, <1>4 DEF CacheRecords
<1>6. /\ U.sps = c.sps /\ U.pps = c.pps /\ U.raw = c.raw /\ U.lastRawSps = c.lastRawSps /\ U.refs = R
      /\ U = [vps |-> U.vps, sps |-> U.sps, pps |-> U.pps, refs |-> U.refs, raw |-> U.raw,
              lastRawSps |-> U.lastRawSps]
  BY <1>5
<1>7. CachesHeld(U) /\ SameSets(U, c)
  BY <1>6 DEF CachesHeld, SameSets
<1> QED
  BY <1>2, <1>6, <1>7 DEF SameSets, U, R

LEMMA UnitCaches ==
    ASSUME NEW a, NEW p, NEW k, Begun(a, p, k), Buildable(a), NEW c, CachesHeld(c),
           NEW u, u = Build(a, c)
    PROVE  CachesHeld(u.cache)
<1>1. Packings
  BY PicturesCanBeSent DEF Begun
<1>2. CASE stream.codec = "h264"
  BY <1>2, H264Contents DEF H264Is
<1>3. CASE stream.codec = "vp9"
  BY <1>3, Vp9Contents
<1>4. CASE stream.codec = "hevc" /\ stream.packing # "inband"
  <2>1. /\ IsSeq(a.data) /\ SetsIn(a.data) = {}
        /\ \A i \in 1..Len(a.data) : a.data[i].nal \notin 32..34
    BY <1>4, DataHasNoSets
  <2>2. RawTypes(a) = {}
    BY <2>1, NoRawTypes
  <2>3. \E t \in 32..34 : c.raw[t] = NoNal
    <3>1. 32 \in 32..34
      OBVIOUS
    <3> QED
      BY <1>4, <3>1 DEF CachesHeld
  <2> QED
    BY <1>4, <2>1, <2>2, <2>3, BuiltContents DEF BuiltIs
<1>5. CASE stream.packing = "inband" /\ p.key
  BY <1>5, KeyContents DEF KeyIs
<1>6. CASE stream.packing = "inband" /\ ~p.key
  <2>1. /\ SetsIn(a.data) = {} /\ RawTypes(a) = {} /\ stream.codec = "hevc"
        /\ (\A t \in 32..34 : c.raw[t] # NoNal) => u.cache = c
    <3>1. OtherIs(a, c, u)
      BY <1>6, OtherContents
    <3> QED
      BY <3>1, Zenon DEF OtherIs
  <2>2. CASE \A t \in 32..34 : c.raw[t] # NoNal
    BY <2>1, <2>2
  <2>3. CASE \E t \in 32..34 : c.raw[t] = NoNal
    BY <2>1, <2>3, BuiltContents DEF BuiltIs
  <2> QED
    BY <2>2, <2>3
<1> QED
  BY <1>1, <1>2, <1>3, <1>4, <1>5, <1>6 DEF Packings

(* A unit of a picture that begins a sequence, or continues the one cached,    *)
(* brings no SPS but the one the adapter then takes for current; if that is   *)
(* another than before, the picture is a key picture and the unit says so.    *)
LEMMA UnitSequences ==
    ASSUME NEW a, NEW p, NEW k, Begun(a, p, k), Buildable(a), NEW c, CachesHeld(c),
           NEW u, u = Build(a, c), p.key \/ InSequence(c, p.seq)
    PROVE  /\ CachesHeld(u.cache) /\ InSequence(u.cache, p.seq)
           /\ Sequences(u.nals) \subseteq {Cur(u.cache)}
           /\ Cur(u.cache) = Cur(c) \/ (p.key /\ u.newSequence)
<1>1. Packings /\ stream \in Streams /\ p \in stream.pictures
  BY PicturesCanBeSent DEF Begun
<1>2. CachesHeld(u.cache)
  BY UnitCaches
<1>3. CASE stream.codec = "h264"
  <2>1. /\ u.newSequence <=> H264Sps(p) # c.sps
        /\ SpsOf(a) = H264Sps(p) /\ PpsOf(a, c) = H264Pps(p, p.iq, PpsRefs(a, c.refs))
        /\ SetsIn(u.nals) \subseteq {SpsOf(a), PpsOf(a, c)}
        /\ u.cache.sps = SpsOf(a)
    <3>1. /\ u.newSequence <=> H264Sps(p) # c.sps
          /\ SpsOf(a) = H264Sps(p) /\ PpsOf(a, c) = H264Pps(p, p.iq, PpsRefs(a, c.refs))
          /\ SetsIn(u.nals) = (IF SpsOf(a) = c.sps THEN {} ELSE {SpsOf(a)})
                               \cup (IF PpsOf(a, c) = c.pps THEN {} ELSE {PpsOf(a, c)})
          /\ u.cache.sps = SpsOf(a)
      <4>1. H264Is(a, p, c, u)
        BY <1>3, H264Contents
      <4> QED
        BY <4>1, Zenon DEF H264Is
    <3>2. SetsIn(u.nals) \subseteq {SpsOf(a), PpsOf(a, c)}
      BY <3>1
    <3> QED
      BY <3>1, <3>2
  <2>2. Cur(u.cache) = H264Sps(p) /\ Cur(c) = c.sps
    BY <1>1, <1>3, <2>1 DEF Cur, Packings
  <2>3. PpsOf(a, c).nal = 8
    BY <2>1 DEF H264Pps
  <2>4. Sequences(u.nals) \subseteq {Cur(u.cache)}
    BY <2>1, <2>2, <2>3 DEF Sequences
  <2>5. InSequence(u.cache, p.seq)
    BY <1>3, <2>1 DEF InSequence, H264Sps
  <2>6. ~p.key => c.sps = H264Sps(p)
    BY <1>3 DEF InSequence, H264Sps
  <2> QED
    BY <1>2, <2>1, <2>2, <2>4, <2>5, <2>6
<1>4. CASE stream.codec = "vp9"
  <2>1. SetsIn(u.nals) = {} /\ u.cache = c
    BY <1>4, Vp9Contents
  <2> QED
    BY <1>2, <1>4, <2>1 DEF Sequences, InSequence
<1>5. CASE stream.codec = "hevc" /\ stream.packing # "inband"
  <2>1. /\ IsSeq(a.data) /\ SetsIn(a.data) = {}
        /\ \A i \in 1..Len(a.data) : a.data[i].nal \notin 32..34
    BY <1>5, DataHasNoSets
  <2>2. RawTypes(a) = {}
    BY <2>1, NoRawTypes
  <2>3. \E t \in 32..34 : c.raw[t] = NoNal
    <3>1. 32 \in 32..34
      OBVIOUS
    <3> QED
      BY <1>5, <3>1 DEF CachesHeld
  <2>4. /\ SpsBuilt(a) = HevcSps(p, p.iq)
        /\ u.newSequence <=> SpsBuilt(a) # c.sps
        /\ SetsIn(u.nals) \subseteq {VpsBuilt(a), SpsBuilt(a), PpsBuilt(a)}
        /\ VpsBuilt(a).nal = 32 /\ SpsBuilt(a).nal = 33 /\ PpsBuilt(a).nal = 34
        /\ u.cache.sps = SpsBuilt(a)
    <3>1. /\ SpsBuilt(a) = HevcSps(p, p.iq)
          /\ u.newSequence <=> SpsBuilt(a) # c.sps
          /\ SetsIn(u.nals) = (IF VpsBuilt(a) = c.vps THEN {} ELSE {VpsBuilt(a)})
                               \cup (IF SpsBuilt(a) = c.sps THEN {} ELSE {SpsBuilt(a)})
                               \cup (IF PpsBuilt(a) = c.pps THEN {} ELSE {PpsBuilt(a)})
          /\ VpsBuilt(a).nal = 32 /\ SpsBuilt(a).nal = 33 /\ PpsBuilt(a).nal = 34
          /\ u.cache.sps = SpsBuilt(a)
      <4>1. BuiltIs(a, p, c, u)
        BY <1>5, <2>1, <2>2, <2>3, BuiltContents
      <4> QED
        BY <4>1, Zenon DEF BuiltIs
    <3>2. SetsIn(u.nals) \subseteq {VpsBuilt(a), SpsBuilt(a), PpsBuilt(a)}
      BY <3>1
    <3> QED
      BY <3>1, <3>2
  <2>5. Cur(u.cache) = SpsBuilt(a) /\ Cur(c) = c.sps
    BY <1>5, <2>4 DEF Cur
  <2>6. Sequences(u.nals) \subseteq {Cur(u.cache)}
    BY <2>4, <2>5 DEF Sequences
  <2>7. InSequence(u.cache, p.seq)
    BY <1>1, <1>5, <2>4 DEF InSequence
  <2>8. ~p.key => c.sps = SpsBuilt(a)
    <3> SUFFICES ASSUME ~p.key PROVE c.sps = SpsBuilt(a)
      OBVIOUS
    <3>1. PICK q \in stream.pictures : q.seq = p.seq /\ c.sps = HevcSps(q, q.iq)
      BY <1>5 DEF InSequence
    <3>2. p.iq = q.iq
      BY <1>1, <1>5, <3>1, StreamsAssumption, Zenon DEF WellFormed
    <3> QED
      BY <2>4, <3>1, <3>2 DEF HevcSps
  <2> QED
    BY <1>2, <2>4, <2>5, <2>6, <2>7, <2>8
<1>6. CASE stream.packing = "inband" /\ p.key
  <2> DEFINE R == OwnRaw(a)
  <2>1. /\ u.nals = a.data /\ u.cache.raw = R /\ u.cache.lastRawSps = R[33]
        /\ \A t \in 32..34 : R[t] \in Range(p.sets) /\ R[t].nal = t
        /\ u.newSequence <=> R[33] # c.lastRawSps
    BY <1>6, KeyContents DEF KeyIs
  <2>2. a.data # <<>>
    BY <1>1 DEF Buildable, Packings
  <2>3. SetsIn(u.nals) = Range(p.sets) /\ stream.codec = "hevc"
    <3>1. SetsIn(a.data) = Range(p.sets) /\ stream.codec = "hevc"
      BY <1>6, <2>2, InBandSets
    <3> QED
      BY <2>1, <3>1
  <2>4. 33 \in 32..34 /\ \A t \in 32..34 : t # 0
    OBVIOUS
  <2>5. Cur(u.cache) = R[33] /\ Cur(c) = c.lastRawSps
    BY <1>6, <2>1, <2>3 DEF Cur
  <2> HIDE DEF R
  <2>6. Sequences(u.nals) \subseteq {R[33]}
    <3>1. InBand(stream, p)
      BY <1>1, <1>6, PictureKinds
    <3>2. \A m, n \in Range(p.sets) : (m.nal = 33 /\ n.nal = 33) => m = n
      BY <3>1, Zenon DEF InBand
    <3>3. \A m \in Range(p.sets) : m.nal # 7
      BY <3>1 DEF InBand
    <3> QED
      BY <2>1, <2>3, <2>4, <3>2, <3>3 DEF Sequences
  <2>7. InSequence(u.cache, p.seq)
    <3>1. \A t \in 32..34 : R[t] # NoNal
      BY <2>1, <2>4 DEF NoNal
    <3> QED
      BY <1>6, <2>1, <2>3, <3>1, Zenon DEF InSequence
  <2> QED
    BY <1>2, <1>6, <2>1, <2>5, <2>6, <2>7
<1>7. CASE stream.packing = "inband" /\ ~p.key
  <2>1. stream.codec = "hevc"
    BY <1>1, <1>7 DEF Packings
  <2>2. (\A t \in 32..34 : c.raw[t] # NoNal) /\ c.raw[33] = c.lastRawSps
    BY <1>7, <2>1 DEF InSequence
  <2>3. u.cache = c /\ SetsIn(u.nals) = {c.raw[32], c.raw[33], c.raw[34]}
    <3>1. OtherIs(a, c, u)
      BY <1>7, OtherContents
    <3> QED
      BY <2>2, <3>1, Zenon DEF OtherIs
  <2>4. c.raw[32].nal = 32 /\ c.raw[34].nal = 34
    <3>1. 32 \in 32..34 /\ 34 \in 32..34
      OBVIOUS
    <3> QED
      BY <2>2, <3>1 DEF CachesHeld
  <2>5. Cur(c) = c.raw[33]
    BY <1>7, <2>1, <2>2 DEF Cur
  <2>6. Sequences(u.nals) \subseteq {c.raw[33]}
    BY <2>3, <2>4 DEF Sequences
  <2> QED
    BY <1>2, <1>7, <2>3, <2>5, <2>6
<1> QED
  BY <1>1, <1>3, <1>4, <1>5, <1>6, <1>7 DEF Packings

-----------------------------------------------------------------------------
(* One sequence per session: nothing lost, the session has been given no SPS  *)
(* but the one the adapter takes for current, and the caches hold what the    *)
(* sequence played needs.  A session that does not run has been given         *)
(* nothing, and the client then has to begin with a key picture.              *)
SequenceState(c, l, s, e, f) ==
    /\ CachesHeld(c)
    /\ ~l => /\ f.sequences \subseteq {Cur(c)}
             /\ e.started => (s # 0 => InSequence(c, s))
             /\ ~e.started => ~e.open /\ f = NoSets /\ s = 0

SequenceInv == SequenceState(cache, lost, seq, session, firmware)

LEMMA SequenceNext ==
    ASSUME stream' = stream, NEW c, c = cache', NEW l, l = lost', NEW s, s = seq',
           NEW e, e = session', NEW f, f = firmware', SequenceState(c, l, s, e, f)
    PROVE  SequenceInv'
<1>1. CachesHeld(c)' <=> CachesHeld(c)
  BY Zenon DEF CachesHeld
<1>2. Cur(c)' = Cur(c)
  BY Zenon DEF Cur
<1>3. InSequence(c, s)' <=> InSequence(c, s)
  BY Zenon DEF InSequence
<1>4. SequenceState(c, l, s, e, f)'
  BY <1>1, <1>2, <1>3, Zenon DEF SequenceState
<1> QED
  BY <1>4, Zenon DEF SequenceInv

LEMMA Received ==
    ASSUME NEW f, NEW nals
    PROVE  Receive(f, nals).sequences = f.sequences \cup Sequences(nals)
  BY DEF Receive, Sequences, SetsIn

LEMMA SequenceInit == Init => SequenceInv
<1> SUFFICES ASSUME Init PROVE SequenceInv
  OBVIOUS
<1>1. CachesHeld(cache)
  BY FreshCaches DEF Init
<1>2. firmware = NoSets /\ session = Closed /\ seq = 0
  BY DEF Init
<1>3. ~session.open /\ ~session.started /\ firmware.sequences = {}
  BY <1>2 DEF Closed, NoSets
<1> QED
  BY <1>1, <1>2, <1>3, Zenon DEF SequenceInv, SequenceState

(* The unit built next to the caches of a running or closed session.          *)
LEMMA NextUnitSequences ==
    ASSUME AdapterInv, SequenceInv, pic # NoPicture, NEW u, u = Build(adapter, cache), u.ok, ~lost
    PROVE  /\ CachesHeld(u.cache) /\ InSequence(u.cache, pic.seq)
           /\ Sequences(u.nals) \subseteq {Cur(u.cache)}
           /\ Cur(u.cache) = Cur(cache) \/ (pic.key /\ u.newSequence)
           /\ u.key <=> pic.key
<1>1. /\ Begun(adapter, pic, sent) /\ Buildable(adapter) /\ (u.key <=> pic.key)
  BY KeyUnits
<1>2. CachesHeld(cache)
  BY DEF SequenceInv, SequenceState
<1>3. pic.key \/ InSequence(cache, pic.seq)
  <2> SUFFICES ASSUME ~pic.key PROVE InSequence(cache, pic.seq)
    OBVIOUS
  <2>1. pic.seq = seq
    BY DEF AdapterInv, PicHeld
  <2>2. pic.seq # 0
    <3>1. pic.seq \in Nat \ {0}
      BY <1>1, PictureKinds DEF Begun
    <3> QED
      BY <3>1
  <2> QED
    BY <2>1, <2>2, Zenon DEF SequenceInv, SequenceState
<1> QED
  BY <1>1, <1>2, <1>3, UnitSequences

LEMMA SequenceEnds ==
    ASSUME AdapterInv, SequenceInv, stream' = stream, NEW idle, NEW fault, EndPicture(idle, fault)
    PROVE  SequenceInv'
<1> DEFINE before == Build(adapter, cache)
           restart == StartsStream(before, idle)
           unit == IF restart THEN Build(adapter, ResetSession) ELSE before
           reopen == ~restart /\ session.open /\ session.eos
           keeps == session.open /\ ~session.eos /\ ~restart
           held == IF keeps THEN firmware ELSE NoSets
<1>1. /\ pic # NoPicture /\ before.ok
      /\ cache' = IF reopen THEN ResetSession ELSE unit.cache
      /\ session' = IF fault = "open" THEN Closed
                    ELSE IF fault \in {"none", "wait"} THEN [Opened EXCEPT !.started = TRUE]
                    ELSE IF keeps THEN session ELSE Opened
      /\ firmware' = IF fault \in {"open", "submit"} THEN held ELSE Receive(held, unit.nals)
      /\ lost' = (fault \notin {"none", "wait"} \/ reopen \/ (lost /\ ~restart))
      /\ Ended(fault = "none")
  BY Zenon DEF EndPicture
<1>2. /\ Begun(adapter, pic, sent) /\ Buildable(adapter) /\ (before.key <=> pic.key)
  BY <1>1, KeyUnits
<1>3. CachesHeld(cache) /\ CachesHeld(ResetSession)
  BY FreshCaches DEF SequenceInv, SequenceState
<1>4. CachesHeld(before.cache) /\ CachesHeld(Build(adapter, ResetSession).cache)
  BY <1>2, <1>3, UnitCaches
<1>5. restart => /\ pic.key /\ session.started
  BY <1>2, Zenon DEF StartsStream
<1>6. session.started /\ before.ok /\ before.key /\ before.newSequence => restart
  BY Zenon DEF StartsStream
<1>7. ~lost => /\ InSequence(before.cache, pic.seq)
               /\ Sequences(before.nals) \subseteq {Cur(before.cache)}
               /\ Cur(before.cache) = Cur(cache) \/ (pic.key /\ before.newSequence)
  BY <1>1, NextUnitSequences
<1> HIDE DEF before, restart
<1>8. CachesHeld(cache')
  <2>1. cache' = ResetSession \/ cache' = before.cache \/ cache' = Build(adapter, ResetSession).cache
    BY <1>1, Zenon
  <2>2. PICK c : c = cache'
    OBVIOUS
  <2>3. CachesHeld(c)
    BY <1>3, <1>4, <2>1, <2>2
  <2> QED
    BY <2>2, <2>3
<1>9. CASE lost'
  <2>1. PICK c, l, s, e, f : c = cache' /\ l = lost' /\ s = seq' /\ e = session' /\ f = firmware'
    OBVIOUS
  <2>2. CachesHeld(c)
    BY <1>8, <2>1
  <2>3. SequenceState(c, l, s, e, f)
    BY <1>9, <2>1, <2>2, Zenon DEF SequenceState
  <2> QED
    BY <2>1, <2>3, SequenceNext
<1>10. CASE ~lost'
  <2>1. fault \in {"none", "wait"} /\ ~reopen /\ (~lost \/ restart)
    BY <1>1, <1>10, Zenon
  <2> fault # "open"
    BY <2>1
  <2>2. /\ cache' = unit.cache /\ session' = [Opened EXCEPT !.started = TRUE]
        /\ firmware' = Receive(held, unit.nals)
    <3>1. cache' = unit.cache
      BY <1>1, <2>1, Zenon
    <3>2. session' = [Opened EXCEPT !.started = TRUE]
      BY <1>1, <2>1, Zenon
    <3>3. fault \notin {"open", "submit"}
      BY <2>1
    <3>4. firmware' = Receive(held, unit.nals)
      BY <1>1, <3>3, Zenon
    <3> QED
      BY <3>1, <3>2, <3>4
  <2>3. seq' = pic.seq \/ seq' = 0
    <3>1. pic.key \/ pic.seq = seq
      BY <1>1 DEF AdapterInv, PicHeld
    <3> QED
      BY <1>1, <3>1, Zenon DEF Ended
  <2>4. /\ InSequence(unit.cache, pic.seq)
        /\ Sequences(unit.nals) \subseteq {Cur(unit.cache)}
        /\ held.sequences \subseteq {Cur(unit.cache)}
    <3>1. CASE restart
      <4> DEFINE fresh == Build(adapter, ResetSession)
      <4>1. unit = fresh /\ held = NoSets
        BY <3>1
      <4>2. InSequence(fresh.cache, pic.seq) /\ Sequences(fresh.nals) \subseteq {Cur(fresh.cache)}
        BY <1>2, <1>3, <1>5, <3>1, UnitSequences
      <4> QED
        BY <4>1, <4>2 DEF NoSets
    <3>2. CASE ~restart
      <4>1. unit = before /\ ~lost
        BY <2>1, <3>2
      <4> HIDE DEF unit
      <4>2. CASE ~keeps
        <5>1. held.sequences = {}
          BY <4>2 DEF NoSets
        <5> QED
          BY <1>7, <4>1, <5>1
      <4>3. CASE keeps
        <5>1. /\ firmware.sequences \subseteq {Cur(cache)}
              /\ ~session.started => ~session.open
          BY <4>1, Zenon DEF SequenceInv, SequenceState
        <5>2. session.started
          BY <4>3, <5>1
        <5>3. Cur(before.cache) = Cur(cache)
          BY <1>1, <1>2, <1>6, <1>7, <3>2, <4>1, <5>2
        <5> QED
          BY <1>7, <4>1, <4>3, <5>1, <5>3
      <4> QED
        BY <4>2, <4>3
    <3> QED
      BY <3>1, <3>2
  <2> HIDE DEF unit, held, reopen, keeps
  <2>5. PICK c, l, s, e, f : c = cache' /\ l = lost' /\ s = seq' /\ e = session' /\ f = firmware'
    OBVIOUS
  <2>6. CachesHeld(c) /\ c = unit.cache
    BY <1>8, <2>2, <2>5
  <2>7. e.started
    BY <2>2, <2>5 DEF Opened
  <2>8. f.sequences \subseteq {Cur(c)}
    BY <2>2, <2>4, <2>5, <2>6, Received
  <2>9. s # 0 => InSequence(c, s)
    BY <2>3, <2>4, <2>5, <2>6
  <2>10. SequenceState(c, l, s, e, f)
    BY <2>6, <2>7, <2>8, <2>9, Zenon DEF SequenceState
  <2> QED
    BY <2>5, <2>10, SequenceNext
<1> QED
  BY <1>9, <1>10

(* A picture that is refused: the caches keep the sequence.                   *)
LEMMA SequenceRefused ==
    ASSUME AdapterInv, SequenceInv, stream' = stream, EndRefused
    PROVE  SequenceInv'
<1> DEFINE u == Build(adapter, cache)
<1>1. ~u.ok /\ cache' = u.cache /\ Ended(FALSE) /\ session' = session /\ firmware' = firmware
      /\ lost' = lost
  BY DEF EndRefused, history
<1>2. Packings /\ CachesHeld(cache)
  BY PicturesCanBeSent DEF AdapterInv, SequenceInv, SequenceState
<1>3. ~Buildable(adapter)
  BY <1>1, <1>2, UnitKinds
<1>4. CachesHeld(u.cache) /\ SameSets(u.cache, cache)
  <2>1. /\ CachesHeld(u.cache) /\ SameSets(u.cache, cache)
        /\ (stream.codec # "h264" => u.cache = cache)
        /\ u.cache.refs = cache.refs \/ (/\ stream.codec = "h264" /\ adapter.data # <<>>
                                         /\ u.cache.refs = PpsRefs(adapter, cache.refs))
    BY <1>2, <1>3, RefusedCaches
  <2> QED
    BY <2>1
<1>5. Cur(u.cache) = Cur(cache)
  BY <1>4 DEF Cur, SameSets
<1>6. \A s : InSequence(cache, s) => InSequence(u.cache, s)
  BY <1>2, <1>4 DEF InSequence, SameSets, Packings
<1>7. seq' = 0 \/ seq' = seq
  BY <1>1 DEF Ended
<1> HIDE DEF u
<1>8. PICK c, l, s, e, f : c = cache' /\ l = lost' /\ s = seq' /\ e = session' /\ f = firmware'
  OBVIOUS
<1>9. SequenceState(cache, lost, seq, session, firmware)
  BY DEF SequenceInv
<1>10. CachesHeld(c) /\ c = u.cache /\ l = lost /\ e = session /\ f = firmware /\ (s = 0 \/ s = seq)
  BY <1>1, <1>4, <1>7, <1>8
<1>11. SequenceState(c, l, s, e, f)
  BY <1>5, <1>6, <1>9, <1>10, Zenon DEF SequenceState
<1> QED
  BY <1>8, <1>11, SequenceNext

LEMMA SequenceStep == AdapterInv /\ SequenceInv /\ [Next]_vars => SequenceInv'
<1> SUFFICES ASSUME AdapterInv, SequenceInv, [Next]_vars PROVE SequenceInv'
  OBVIOUS
<1>1. stream' = stream
  BY StreamStays
<1>2. SequenceState(cache, lost, seq, session, firmware)
  BY DEF SequenceInv
<1>3. CASE UNCHANGED vars \/ Render \/ (\E p \in stream.pictures : BeginPicture(p))
  <2>1. cache' = cache /\ lost' = lost /\ seq' = seq /\ session' = session /\ firmware' = firmware
    BY <1>3 DEF vars, history, Render, BeginPicture
  <2> QED
    BY <1>1, <1>2, <2>1, SequenceNext
<1>4. CASE EndRefused
  BY <1>1, <1>4, SequenceRefused
<1>5. CASE \E idle \in BOOLEAN : EndUndrained(idle)
  <2>1. PICK idle \in BOOLEAN : EndUndrained(idle)
    BY <1>5
  <2> DEFINE u == Build(adapter, cache)
  <2>2. u.ok /\ pic # NoPicture /\ cache' = u.cache /\ lost'
    BY <2>1 DEF EndUndrained, StartsStream
  <2>3. Begun(adapter, pic, sent) /\ Buildable(adapter) /\ CachesHeld(cache)
    BY <1>2, <2>2, KeyUnits DEF SequenceState
  <2>4. CachesHeld(u.cache)
    BY <2>3, UnitCaches
  <2> HIDE DEF u
  <2>5. PICK c, l, s, e, f : c = cache' /\ l = lost' /\ s = seq' /\ e = session' /\ f = firmware'
    OBVIOUS
  <2>6. SequenceState(c, l, s, e, f)
    BY <2>2, <2>4, <2>5, Zenon DEF SequenceState
  <2> QED
    BY <1>1, <2>5, <2>6, SequenceNext
<1>6. CASE \E idle \in BOOLEAN, fault \in {"none"} \cup (stream.faults \ {"drain"}) :
             EndPicture(idle, fault)
  BY <1>1, <1>6, SequenceEnds
<1>7. CASE Flush
  <2>1. cache' = cache /\ lost' = lost /\ seq' = seq /\ firmware' = firmware /\ session.started
        /\ session' = [session EXCEPT !.eos = TRUE]
    BY <1>7 DEF Flush, history
  <2>2. PICK e : e = session'
    OBVIOUS
  <2>3. e.started
    <3>1. session \in [open : BOOLEAN, started : BOOLEAN, eos : BOOLEAN]
      BY DEF AdapterInv, SessionHeld
    <3> QED
      BY <2>1, <2>2, <3>1
  <2>4. SequenceState(cache, lost, seq, e, firmware)
    BY <1>2, <2>1, <2>3, Zenon DEF SequenceState
  <2> QED
    BY <1>1, <2>1, <2>2, <2>4, SequenceNext
<1> QED
  BY <1>3, <1>4, <1>5, <1>6, <1>7, Zenon DEF Next

(* SequenceInv: until something is lost, the caches of the adapter            *)
(* (h264_codec.c, hevc_codec.c) name the parameter sets of the one sequence    *)
(* the session was given.                                                    *)
THEOREM SequencesHold == Spec => []SequenceInv
<1> QED
  BY SequenceInit, SequenceStep, AdapterHolds, PTL DEF Spec

(* Failures aside, a firmware session is given the SPS of one sequence        *)
(* (h264_codec.c's and hevc_codec.c's new_sequence with decode.c's            *)
(* stream_boundary_restart): for every stream whose pictures are formed as    *)
(* the standards say, HEVC streams with rewritten slices included.            *)
THEOREM SessionsPlayOneSequence == Spec => []OneSequencePerSession
<1>1. SequenceInv => OneSequencePerSession
  <2> SUFFICES ASSUME SequenceInv, ~lost PROVE Cardinality(firmware.sequences) <= 1
    BY DEF OneSequencePerSession
  <2>1. firmware.sequences \subseteq {Cur(cache)}
    BY Zenon DEF SequenceInv, SequenceState
  <2> DEFINE x == Cur(cache)
             S == firmware.sequences
  <2> HIDE DEF x, S
  <2>2. S \subseteq {x}
    BY <2>1 DEF x, S
  <2>3. S = {} \/ S = {x}
    BY <2>2
  <2>4. Cardinality({}) = 0 /\ Cardinality({x}) = 1
    BY FS_EmptySet, FS_Singleton
  <2>5. Cardinality(S) <= 1
    BY <2>3, <2>4
  <2> QED
    BY <2>5 DEF S
<1> QED
  BY <1>1, SequencesHold, PTL

-----------------------------------------------------------------------------
(* Type correctness.                                                          *)

ParamsOk(a) ==
    /\ Len(a.params) \in 0..MaxSlices /\ a.next \in 0..Len(a.params)
    /\ ~Rewriting => a.ppsId = Unset

RefsOk(c) == \A l \in 1..2 : c.refs[l] \in -1..31

SlotUnique(S) == \A m, n \in S : SameSlot(m, n) => m = n

LEMMA CollectedParams ==
    ASSUME NEW a, NEW p, NEW k, Begun(a, p, k)
    PROVE  /\ ParamsOk(a) /\ Len(a.params) <= Len(p.slices) /\ Len(p.slices) \in Nat \ {0}
           /\ \A i \in 1..Len(a.params) : a.params[i] = Params(p, i) /\ i \in 1..Len(p.slices)
<1>1. Packings /\ Sendable(p)
  BY PicturesCanBeSent DEF Begun
<1> DEFINE j == Past(k)
           m == Len(a.params)
           n == Len(p.slices)
<1>2. j \in 0..BodyLen(p)
  BY <1>1, PastPlaces DEF Begun
<1>3. Shown(p, j) \in 0..MaxSlices /\ Shown(p, j) <= n /\ n \in Nat \ {0}
  BY <1>1, <1>2, Counts
<1>4. ParamsHeld(a, p, j) /\ DataHeld(a, p, j)
  BY DEF Begun, Collected
<1>5. m = IF stream.codec = "vp9" THEN 0 ELSE Shown(p, j)
  BY <1>4 DEF ParamsHeld
<1>6. \A i \in 1..m : a.params[i] = Params(p, i)
  BY <1>4 DEF ParamsHeld
<1> HIDE DEF j, m, n
<1>7. m \in 0..MaxSlices /\ m <= n
  BY <1>3, <1>5, MaxSlicesAssumption
<1>8. \A i \in 1..m : i \in 1..n
  BY <1>3, <1>7
<1>9. a.next \in 0..m /\ (~Rewriting => a.ppsId = Unset)
  <2>1. CASE Rewriting
    BY <1>4, <2>1 DEF DataHeld, RewrittenHeld, m
  <2>2. CASE ~Rewriting
    <3>1. a.next = 0 /\ a.ppsId = Unset
      BY <1>4, <2>2 DEF DataHeld, SentHeld
    <3> QED
      BY <1>7, <3>1
  <2> QED
    BY <2>1, <2>2
<1> QED
  BY <1>3, <1>6, <1>7, <1>8, <1>9 DEF ParamsOk, m, n

(* The default reference counts of an H.264 PPS stay in range.                *)
LEMMA RefsInRange ==
    ASSUME NEW a, NEW p, NEW k, Begun(a, p, k), stream.codec = "h264", a.data # <<>>,
           NEW c, RefsOk(c)
    PROVE  \A l \in 1..2 : PpsRefs(a, c.refs)[l] \in -1..31
<1>1. H264Picture(p) /\ IsSeq(p.slices)
  BY PictureKinds DEF Begun
<1>2. a.picture = p
  BY PictureOfUnit
<1>3. ~Rewriting /\ stream.packing # "inband"
  BY PicturesCanBeSent DEF Rewriting, Begun, Packings
<1>4. IsSeq(a.data) /\ Len(a.data) \in Nat
  BY <1>3, SentSlices
<1> SUFFICES ASSUME NEW l \in 1..2 PROVE PpsRefs(a, c.refs)[l] \in -1..31
  OBVIOUS
<1> DEFINE relying == {i \in DOMAIN a.data \cap DOMAIN a.params : l \in DefaultRefs(a.data[i])}
           x == PpsRefs(a, c.refs)[l]
<1>5. x = IF relying # {} THEN a.params[Max(relying)].slice.active[l]
          ELSE IF c.refs[l] = Unset THEN FirstDefaults(p)[l] ELSE c.refs[l]
  BY <1>2 DEF PpsRefs
<1>6. CASE relying # {}
  <2>1. IsSeq(a.params)
    BY DEF Begun, Collected, ParamsHeld
  <2>2. DOMAIN a.data = 1..Len(a.data) /\ DOMAIN a.params = 1..Len(a.params)
    BY <1>4, <2>1, SeqShape
  <2>3. relying \in SUBSET (1..Len(a.data))
    BY <2>2
  <2> DEFINE j == Max(relying)
  <2> HIDE DEF relying
  <2>4. j \in relying
    BY <1>4, <1>6, <2>3, Greatest
  <2>5. j \in 1..Len(a.params)
    BY <2>2, <2>4 DEF relying
  <2>6. a.params[j] = Params(p, j) /\ j \in 1..Len(p.slices)
    BY <2>5, CollectedParams
  <2> HIDE DEF j
  <2>7. a.params[j].slice = p.slices[j]
    BY <2>6 DEF Params
  <2>8. p.slices[j] \in Range(p.slices)
    BY <1>1, <2>6, SeqShape
  <2>9. p.slices[j].active \in [1..2 -> 0..31]
    BY <1>1, <2>8 DEF H264Picture
  <2>10. p.slices[j].active[l] \in 0..31
    BY <2>9
  <2> QED
    BY <1>5, <1>6, <2>7, <2>10 DEF j
<1>7. CASE relying = {} /\ c.refs[l] = Unset
  <2>1. x = FirstDefaults(p)[l]
    BY <1>5, <1>7
  <2> DEFINE n == p.numRefs
  <2>2. n \in Nat
    BY <1>1 DEF H264Picture
  <2> HIDE DEF n
  <2>3. PICK y \in 0..2 : y = IF n > 3 THEN 2 ELSE IF n = 0 THEN 0 ELSE n - 1
    BY <2>2
  <2>4. FirstDefaults(p) = <<y, 0>>
    BY <2>3 DEF FirstDefaults, n
  <2>5. <<y, 0>>[l] = y \/ <<y, 0>>[l] = 0
    BY <2>3
  <2> HIDE DEF x, relying
  <2>6. x = y \/ x = 0
    BY <2>1, <2>4, <2>5
  <2>7. x \in -1..31
    <3>1. x = y => x \in -1..31
      BY <2>3
    <3>2. x = 0 => x \in -1..31
      OBVIOUS
    <3> QED
      BY <2>6, <3>1, <3>2
  <2> QED
    BY <2>7 DEF x
<1>8. CASE relying = {} /\ c.refs[l] # Unset
  BY <1>5, <1>8 DEF RefsOk
<1> HIDE DEF relying, x
<1>9. x \in -1..31
  BY <1>6, <1>7, <1>8 DEF x
<1> QED
  BY <1>9 DEF x

(* Receiving parameter sets of different slots keeps one of each.             *)
LEMMA ReceivedSlots ==
    ASSUME NEW f, NEW nals, SlotUnique(f.sets), SlotUnique(SetsIn(nals))
    PROVE  SlotUnique(Receive(f, nals).sets)
<1> DEFINE new == SetsIn(nals)
           old == {m \in f.sets : \A n \in new : ~SameSlot(m, n)}
<1>1. Receive(f, nals).sets = old \cup new
  BY DEF Receive, SetsIn
<1>2. \A m, n : SameSlot(m, n) => SameSlot(n, m)
  BY Zenon DEF SameSlot
<1>3. SlotUnique(old \cup new)
  <2> SUFFICES ASSUME NEW m \in old \cup new, NEW n \in old \cup new, SameSlot(m, n) PROVE m = n
    BY DEF SlotUnique
  <2>1. CASE m \in old /\ n \in old
    BY <2>1, Zenon DEF SlotUnique
  <2>2. CASE m \in new /\ n \in new
    BY <2>2, Zenon DEF SlotUnique
  <2>3. CASE m \in old /\ n \in new
    BY <2>3, Zenon
  <2>4. CASE m \in new /\ n \in old
    BY <1>2, <2>4, Zenon
  <2> QED
    BY <2>1, <2>2, <2>3, <2>4
<1> QED
  BY <1>1, <1>3

LEMMA DistinctSlots ==
    ASSUME NEW S, \A m, n \in S : m.nal = n.nal => m = n
    PROVE  SlotUnique(S)
  BY Zenon DEF SlotUnique, SameSlot

LEMMA UnitSlots ==
    ASSUME NEW a, NEW p, NEW k, Begun(a, p, k), Buildable(a), NEW c, CachesHeld(c),
           NEW u, u = Build(a, c)
    PROVE  SlotUnique(SetsIn(u.nals))
<1>1. Packings /\ stream \in Streams /\ p \in stream.pictures
  BY PicturesCanBeSent DEF Begun
<1>2. CASE stream.codec = "h264"
  <2>1. H264Is(a, p, c, u)
    BY <1>2, H264Contents
  <2>2. /\ SpsOf(a).nal = 7 /\ PpsOf(a, c).nal = 8
        /\ SetsIn(u.nals) = (IF SpsOf(a) = c.sps THEN {} ELSE {SpsOf(a)})
                            \cup (IF PpsOf(a, c) = c.pps THEN {} ELSE {PpsOf(a, c)})
    BY <2>1 DEF H264Is, H264Sps, H264Pps
  <2> DEFINE s == SpsOf(a)
             q == PpsOf(a, c)
             S == SetsIn(u.nals)
  <2> HIDE DEF s, q, S
  <2>3. S \subseteq {s, q}
    BY <2>2 DEF s, q, S
  <2>4. \A m, n \in S : m.nal = n.nal => m = n
    BY <2>2, <2>3 DEF s, q
  <2> QED
    BY <2>4, DistinctSlots DEF S
<1>3. CASE stream.codec = "vp9"
  <2>1. SetsIn(u.nals) = {}
    BY <1>3, Vp9Contents
  <2> QED
    BY <2>1 DEF SlotUnique
<1>4. ASSUME BuiltIs(a, p, c, u) PROVE SlotUnique(SetsIn(u.nals))
  <2> DEFINE v == VpsBuilt(a)
             s == SpsBuilt(a)
             q == PpsBuilt(a)
             S == SetsIn(u.nals)
  <2>1. v.nal = 32 /\ s.nal = 33 /\ q.nal = 34
    BY <1>4, Zenon DEF BuiltIs
  <2>2. S = (IF v = c.vps THEN {} ELSE {v}) \cup (IF s = c.sps THEN {} ELSE {s})
            \cup (IF q = c.pps THEN {} ELSE {q})
    BY <1>4, Zenon DEF BuiltIs
  <2> HIDE DEF v, s, q, S
  <2>3. S \subseteq {v, s, q}
    BY <2>2
  <2>4. \A m, n \in S : m.nal = n.nal => m = n
    BY <2>1, <2>3
  <2> QED
    BY <2>4, DistinctSlots DEF S
<1>5. CASE stream.codec = "hevc" /\ stream.packing # "inband"
  <2>1. /\ IsSeq(a.data) /\ SetsIn(a.data) = {}
        /\ \A i \in 1..Len(a.data) : a.data[i].nal \notin 32..34
    BY <1>5, DataHasNoSets
  <2>2. RawTypes(a) = {}
    BY <2>1, NoRawTypes
  <2>3. \E t \in 32..34 : c.raw[t] = NoNal
    <3>1. 32 \in 32..34
      OBVIOUS
    <3> QED
      BY <1>5, <3>1 DEF CachesHeld
  <2>4. BuiltIs(a, p, c, u)
    BY <1>5, <2>1, <2>2, <2>3, BuiltContents
  <2> QED
    BY <1>4, <2>4
<1>6. CASE stream.packing = "inband" /\ p.key
  <2>1. KeyIs(a, p, c, u)
    BY <1>6, KeyContents
  <2>2. a.data # <<>>
    BY <1>1 DEF Buildable, Packings
  <2>3. SetsIn(a.data) = Range(p.sets)
    BY <1>6, <2>2, InBandSets
  <2>4. u.nals = a.data
    BY <2>1 DEF KeyIs
  <2>5. InBand(stream, p)
    BY <1>1, <1>6, PictureKinds
  <2>6. SlotUnique(Range(p.sets))
    BY <2>5, Zenon DEF InBand, SlotUnique
  <2> QED
    BY <2>3, <2>4, <2>6
<1>7. CASE stream.packing = "inband" /\ ~p.key
  <2>1. OtherIs(a, c, u)
    BY <1>7, OtherContents
  <2>2. CASE \A t \in 32..34 : c.raw[t] # NoNal
    <3> DEFINE v == c.raw[32]
               s == c.raw[33]
               q == c.raw[34]
               S == SetsIn(u.nals)
    <3>1. S = {v, s, q}
      BY <2>1, <2>2, Zenon DEF OtherIs
    <3>2. v.nal = 32 /\ s.nal = 33 /\ q.nal = 34
      BY <2>2 DEF CachesHeld
    <3> HIDE DEF v, s, q, S
    <3>3. \A m, n \in S : m.nal = n.nal => m = n
      BY <3>1, <3>2
    <3> QED
      BY <3>3, DistinctSlots DEF S
  <2>3. CASE \E t \in 32..34 : c.raw[t] = NoNal
    <3>1. SetsIn(a.data) = {} /\ RawTypes(a) = {} /\ stream.codec = "hevc"
      BY <2>1, Zenon DEF OtherIs
    <3>2. BuiltIs(a, p, c, u)
      BY <2>3, <3>1, BuiltContents
    <3> QED
      BY <1>4, <3>2
  <2> QED
    BY <2>2, <2>3
<1> QED
  BY <1>1, <1>2, <1>3, <1>5, <1>6, <1>7 DEF Packings

TypeInv ==
    /\ pic \in {NoPicture} \cup stream.pictures
    /\ ParamsOk(adapter) /\ RefsOk(cache) /\ SlotUnique(firmware.sets)

LEMMA TypeNext ==
    ASSUME stream' = stream, NEW q, q = pic', NEW a, a = adapter', NEW c, c = cache',
           NEW f, f = firmware', q \in {NoPicture} \cup stream.pictures,
           ParamsOk(a), RefsOk(c), SlotUnique(f.sets)
    PROVE  TypeInv'
<1>1. ParamsOk(a)' <=> ParamsOk(a)
  BY Zenon DEF ParamsOk, Rewriting
<1>2. ParamsOk(a)' /\ RefsOk(c)' /\ SlotUnique(f.sets)'
  BY <1>1, Zenon DEF RefsOk, SlotUnique, SameSlot
<1>3. q \in {NoPicture'} \cup stream'.pictures
  BY DEF NoPicture
<1> QED
  BY <1>2, <1>3, Zenon DEF TypeInv

LEMMA FreshRefs == RefsOk(ResetSession)
<1>1. ResetSession.refs = <<Unset, Unset>>
  BY DEF ResetSession
<1>2. \A l \in 1..2 : <<Unset, Unset>>[l] = Unset
  OBVIOUS
<1>3. Unset \in -1..31
  BY DEF Unset
<1> QED
  BY <1>1, <1>2, <1>3 DEF RefsOk

LEMMA UnitRefs ==
    ASSUME NEW a, NEW p, NEW k, Begun(a, p, k), NEW c, CachesHeld(c), RefsOk(c),
           NEW u, u = Build(a, c)
    PROVE  RefsOk(u.cache)
<1>1. Packings
  BY PicturesCanBeSent DEF Begun
<1>2. CASE stream.codec = "h264" /\ a.data # <<>> /\ u.cache.refs = PpsRefs(a, c.refs)
  BY <1>2, RefsInRange DEF RefsOk
<1>3. CASE u.cache.refs = c.refs
  BY <1>3 DEF RefsOk
<1>4. \/ stream.codec = "h264" /\ a.data # <<>> /\ u.cache.refs = PpsRefs(a, c.refs)
      \/ u.cache.refs = c.refs
  <2>1. CASE ~Buildable(a)
    BY <1>1, <2>1, RefusedCaches
  <2>2. CASE Buildable(a) /\ stream.codec = "h264"
    <3>1. H264Is(a, p, c, u)
      BY <2>2, H264Contents
    <3> QED
      BY <2>2, <3>1 DEF H264Is, Buildable
  <2>3. CASE Buildable(a) /\ stream.codec = "vp9"
    BY <2>3, Vp9Contents
  <2>4. CASE Buildable(a) /\ stream.codec = "hevc"
    <3>1. u.cache = Noted(a, c) \/ u.cache = BuiltCache(a, c)
      <4>1. u = OwnUnit(a, c) \/ u = RawUnit(a, c) \/ u = BuiltUnit(a, c)
        BY <2>4, HevcUnit, Zenon
      <4> QED
        BY <4>1 DEF OwnUnit, RawUnit, BuiltUnit, Unit
    <3>2. c \in CacheRecords(c)
      <4>1. [vps |-> c.vps, sps |-> c.sps, pps |-> c.pps, refs |-> c.refs, raw |-> c.raw,
             lastRawSps |-> c.lastRawSps] \in CacheRecords(c)
        BY DEF CacheRecords
      <4> QED
        BY <4>1 DEF CachesHeld
    <3> DEFINE K == KeptCache(a, c)
               N == Noted(a, c)
               B == BuiltCache(a, c)
    <3>3. \E r : K = c \/ K = [c EXCEPT !.raw = r]
      BY DEF KeptCache, CacheRaw
    <3> HIDE DEF K
    <3>4. PICK R : K \in [vps : {c.vps}, sps : {c.sps}, pps : {c.pps}, refs : {c.refs}, raw : R,
                          lastRawSps : {c.lastRawSps}]
      <4>1. PICK r : K = c \/ K = [c EXCEPT !.raw = r]
        BY <3>3
      <4>2. K \in [vps : {c.vps}, sps : {c.sps}, pps : {c.pps}, refs : {c.refs},
                   raw : {c.raw, r}, lastRawSps : {c.lastRawSps}]
        BY <3>2, <4>1 DEF CacheRecords
      <4> QED
        BY <4>2
    <3>5. \E r : N = K \/ N = [K EXCEPT !.lastRawSps = r]
      BY DEF Noted, K
    <3> HIDE DEF N
    <3>6. N.refs = c.refs
          /\ N = [vps |-> N.vps, sps |-> N.sps, pps |-> N.pps, refs |-> N.refs, raw |-> N.raw,
                  lastRawSps |-> N.lastRawSps]
      <4>1. PICK r : N = K \/ N = [K EXCEPT !.lastRawSps = r]
        BY <3>5
      <4> QED
        BY <3>4, <4>1
    <3>7. \E v, s, q : B = [N EXCEPT !.vps = v, !.sps = s, !.pps = q]
      BY DEF BuiltCache, N
    <3> HIDE DEF B
    <3>8. B.refs = c.refs
      <4>1. PICK v, s, q : B = [N EXCEPT !.vps = v, !.sps = s, !.pps = q]
        BY <3>7
      <4>2. N \in [vps : {N.vps}, sps : {N.sps}, pps : {N.pps}, refs : {c.refs}, raw : {N.raw},
                   lastRawSps : {N.lastRawSps}]
        BY <3>6
      <4> QED
        BY <4>1, <4>2
    <3> QED
      BY <3>1, <3>6, <3>8 DEF N, B
  <2> QED
    BY <1>1, <2>1, <2>2, <2>3, <2>4 DEF Packings
<1> QED
  BY <1>2, <1>3, <1>4

LEMMA TypeEnds ==
    ASSUME AdapterInv, SequenceInv, TypeInv, stream' = stream,
           NEW idle, NEW fault, EndPicture(idle, fault)
    PROVE  TypeInv'
<1> DEFINE before == Build(adapter, cache)
           fresh == Build(adapter, ResetSession)
           restart == StartsStream(before, idle)
           unit == IF restart THEN fresh ELSE before
           reopen == ~restart /\ session.open /\ session.eos
           keeps == session.open /\ ~session.eos /\ ~restart
           held == IF keeps THEN firmware ELSE NoSets
<1>1. /\ pic # NoPicture /\ before.ok
      /\ cache' = IF reopen THEN ResetSession ELSE unit.cache
      /\ firmware' = IF fault \in {"open", "submit"} THEN held ELSE Receive(held, unit.nals)
      /\ adapter' = IF fault = "none" THEN Finished(adapter) ELSE adapter
      /\ Ended(fault = "none")
  BY Zenon DEF EndPicture
<1>2. /\ Begun(adapter, pic, sent) /\ Buildable(adapter)
  BY <1>1, KeyUnits
<1>3. CachesHeld(cache) /\ CachesHeld(ResetSession) /\ RefsOk(cache) /\ RefsOk(ResetSession)
  BY FreshCaches, FreshRefs DEF SequenceInv, SequenceState, TypeInv
<1>4. RefsOk(before.cache) /\ RefsOk(fresh.cache)
  BY <1>2, <1>3, UnitRefs
<1>5. SlotUnique(SetsIn(before.nals)) /\ SlotUnique(SetsIn(fresh.nals))
  BY <1>2, <1>3, UnitSlots
<1>6. SlotUnique(held.sets)
  <2>1. SlotUnique(NoSets.sets)
    BY DEF NoSets, SlotUnique
  <2> QED
    BY <2>1 DEF TypeInv
<1> HIDE DEF before, fresh, restart, held
<1>7. SlotUnique(Receive(held, before.nals).sets) /\ SlotUnique(Receive(held, fresh.nals).sets)
  BY <1>5, <1>6, ReceivedSlots
<1>8. PICK q, a, c, f : q = pic' /\ a = adapter' /\ c = cache' /\ f = firmware'
  OBVIOUS
<1>9. RefsOk(c)
  <2>1. c = ResetSession \/ c = fresh.cache \/ c = before.cache
    BY <1>1, <1>8, Zenon
  <2> QED
    BY <1>3, <1>4, <2>1
<1>10. SlotUnique(f.sets)
  <2>1. f = held \/ f = Receive(held, fresh.nals) \/ f = Receive(held, before.nals)
    BY <1>1, <1>8, Zenon
  <2> QED
    BY <1>6, <1>7, <2>1
<1>11. ParamsOk(a)
  <2>1. a = adapter \/ a = Finished(adapter)
    BY <1>1, <1>8, Zenon
  <2>2. Shape(adapter) /\ ParamsOk(adapter)
    BY DEF AdapterInv, TypeInv
  <2>3. ParamsOk(Finished(adapter))
    BY <2>2, FinishedShape DEF ParamsOk
  <2> QED
    BY <2>1, <2>2, <2>3
<1>12. q = NoPicture
  BY <1>1, <1>8 DEF Ended
<1> QED
  BY <1>8, <1>9, <1>10, <1>11, <1>12, TypeNext

LEMMA TypeStep == AdapterInv /\ AdapterInv' /\ SequenceInv /\ TypeInv /\ [Next]_vars => TypeInv'
<1> SUFFICES ASSUME AdapterInv, AdapterInv', SequenceInv, TypeInv, [Next]_vars PROVE TypeInv'
  OBVIOUS
<1>1. stream' = stream
  BY StreamStays
<1>2. PICK q, a, c, f : q = pic' /\ a = adapter' /\ c = cache' /\ f = firmware'
  OBVIOUS
<1>3. /\ pic \in {NoPicture} \cup stream.pictures
      /\ ParamsOk(adapter) /\ RefsOk(cache) /\ SlotUnique(firmware.sets)
  BY DEF TypeInv
<1>4. ASSUME cache' = cache, firmware' = firmware, pic' \in {NoPicture} \cup stream.pictures,
             ParamsOk(a)
      PROVE  TypeInv'
  BY <1>1, <1>2, <1>3, <1>4, TypeNext
<1>5. CASE UNCHANGED vars \/ Flush \/ (\E idle \in BOOLEAN : EndUndrained(idle)) \/ EndRefused
  <2>1. adapter' = adapter /\ firmware' = firmware /\ (pic' = pic \/ pic' = NoPicture)
    BY <1>5 DEF vars, Flush, EndUndrained, EndRefused, Ended
  <2>2. RefsOk(c)
    <3>1. CASE c = cache
      BY <1>3, <3>1
    <3>2. CASE c # cache
      <4>1. pic # NoPicture /\ c = Build(adapter, cache).cache
        BY <1>2, <1>5, <3>2 DEF vars, Flush, EndUndrained, EndRefused
      <4>2. Begun(adapter, pic, sent)
        BY <4>1 DEF AdapterInv, PicHeld, Begun
      <4>3. CachesHeld(cache)
        BY DEF SequenceInv, SequenceState
      <4> QED
        BY <1>3, <4>1, <4>2, <4>3, UnitRefs
    <3> QED
      BY <3>1, <3>2
  <2> QED
    BY <1>1, <1>2, <1>3, <2>1, <2>2, TypeNext
<1>6. ASSUME cache' = cache, firmware' = firmware, pic' # NoPicture PROVE TypeInv'
  <2>1. PicHeld' /\ sent' \in Nat /\ stream' \in Streams
    BY DEF AdapterInv
  <2>2. PICK k : k = sent'
    OBVIOUS
  <2>3. /\ q \in stream.pictures /\ k <= Len(Buffers(q)) /\ Collected(a, q, k)
    <3>1. (q # NoPicture => /\ q \in stream.pictures
                            /\ k <= Len(Buffers(q)) /\ Collected(a, q, k))'
      BY <1>2, <2>1, <2>2, Zenon DEF PicHeld
    <3>2. Buffers(q)' = Buffers(q)
      BY <1>1, PlacesStay, Zenon
    <3>3. Collected(a, q, k)' <=> Collected(a, q, k)
      BY <1>1, CollectedStays
    <3> QED
      BY <1>1, <1>2, <1>6, <3>1, <3>2, <3>3, Zenon DEF NoPicture
  <2>4. Begun(a, q, k)
    BY <1>1, <2>1, <2>2, <2>3 DEF Begun
  <2>5. ParamsOk(a)
    BY <2>4, CollectedParams
  <2> QED
    BY <1>1, <1>2, <1>3, <1>6, <2>3, <2>5, TypeNext
<1>7. CASE \E p \in stream.pictures : BeginPicture(p)
  <2>1. cache' = cache /\ firmware' = firmware /\ pic' \in stream.pictures
    BY <1>7 DEF BeginPicture
  <2>2. pic' # NoPicture
    BY <2>1, PicturesCanBeSent DEF AdapterInv
  <2> QED
    BY <1>6, <2>1, <2>2
<1>8. CASE Render
  BY <1>6, <1>8 DEF Render
<1>9. CASE \E idle \in BOOLEAN, fault \in {"none"} \cup (stream.faults \ {"drain"}) :
             EndPicture(idle, fault)
  BY <1>1, <1>9, TypeEnds
<1> QED
  BY <1>5, <1>7, <1>8, <1>9, Zenon DEF Next

LEMMA TypeInit == Init => TypeInv
<1> SUFFICES ASSUME Init PROVE TypeInv
  OBVIOUS
<1>1. ParamsOk(adapter)
  <2>1. adapter.params = <<>> /\ adapter.next = 0 /\ adapter.ppsId = Unset
    BY DEF Init, NewAdapter
  <2> QED
    BY <2>1, MaxSlicesAssumption DEF ParamsOk
<1>2. SlotUnique(firmware.sets)
  BY DEF Init, NoSets, SlotUnique
<1>3. RefsOk(cache)
  BY FreshRefs DEF Init
<1> QED
  BY <1>1, <1>2, <1>3 DEF TypeInv, Init

(* TypeInv: slice_next (hevc_codec.c) stays within the parameters kept unless  *)
(* slices are rewritten, reference counts stay in range, and the firmware     *)
(* holds one parameter set of each slot.                                     *)
THEOREM TypesHold == Spec => []TypeInv
<1> QED
  BY TypeInit, TypeStep, AdapterHolds, SequencesHold, PTL DEF Spec

(* Streams whose HEVC slices are never rewritten: what a rewritten slice       *)
(* header says is read bit by bit, and that stays with the runs.              *)
NoRewriting == \A s \in Streams : s.codec = "hevc" => s.packing = "inband"

(* Slices are never consumed ahead of their parameters, at most MaxSlices     *)
(* are kept, reference counts stay in range, a started session is open and    *)
(* the firmware holds one parameter set of each slot.                         *)
THEOREM AdaptersTyped ==
    ASSUME NoRewriting
    PROVE  Spec => []TypeOK
<1>1. AdapterInv /\ TypeInv => TypeOK
  <2> SUFFICES ASSUME AdapterInv, TypeInv PROVE TypeOK
    OBVIOUS
  <2>1. ~Rewriting
    BY DEF NoRewriting, AdapterInv, Rewriting
  <2>2. /\ adapter.next \in 0..Len(adapter.params) /\ adapter.ppsId \in -1..63
        /\ Len(adapter.params) <= MaxSlices
    BY <2>1, MaxSlicesAssumption DEF TypeInv, ParamsOk, Unset
  <2>3. (session.started => session.open) /\ (session.eos => session.started)
    BY DEF AdapterInv, SessionHeld
  <2> QED
    BY <2>2, <2>3, Zenon DEF TypeOK, TypeInv, RefsOk, SlotUnique
<1> QED
  BY <1>1, AdapterHolds, TypesHold, PTL

-----------------------------------------------------------------------------
(* What the firmware has been given: nothing lost, the parameter sets the     *)
(* caches name are in the session, and an in-band sequence brought what all   *)
(* its pictures need.                                                         *)

LEMMA ReceivedSets ==
    ASSUME NEW f, NEW nals
    PROVE  /\ SetsIn(nals) \subseteq Receive(f, nals).sets
           /\ \A m \in f.sets : (\A n \in SetsIn(nals) : ~SameSlot(m, n)) =>
                 m \in Receive(f, nals).sets
  BY DEF Receive, SetsIn

(* The parameter sets of an in-band sequence that picture q needs.            *)
PlaysPicture(S, q) ==
    /\ \E n \in S : n.nal = 32 /\ n.seq = q.seq
    /\ \E n \in S : n.nal = 33 /\ n.seq = q.seq /\ ~n.built
    /\ \E n \in S : n.nal = 34 /\ n.id = q.ppsId /\ n.pps = q.pps

Plays(S, s) == \A q \in stream.pictures : q.seq = s => PlaysPicture(S, q)

(* The caches against the session.                                            *)
CachedSent(c, S) == (c.sps = NoNal \/ c.sps \in S) /\ (c.pps = NoNal \/ c.pps \in S)
RawsSent(c, S) == \A t \in 32..34 : c.raw[t] \in S

LEMMA H264Sends ==
    ASSUME NEW a, NEW p, NEW k, Begun(a, p, k), Buildable(a), stream.codec = "h264",
           NEW c, CachesHeld(c), NEW f, CachedSent(c, f.sets), NEW u, u = Build(a, c)
    PROVE  /\ H264Sps(p) \in Receive(f, u.nals).sets
           /\ H264Pps(p, p.iq, PpsRefs(a, c.refs)) \in Receive(f, u.nals).sets
           /\ u.cache.sps \in Receive(f, u.nals).sets /\ u.cache.pps \in Receive(f, u.nals).sets
<1> DEFINE s == H264Sps(p)
           q == H264Pps(p, p.iq, PpsRefs(a, c.refs))
           N == SetsIn(u.nals)
           R == Receive(f, u.nals).sets
<1>1. H264Is(a, p, c, u)
  BY H264Contents
<1>2. s.nal = 7 /\ q.nal = 8 /\ NoNal.nal = 0
  BY DEF H264Sps, H264Pps, NoNal
<1>3. /\ SpsOf(a) = s /\ PpsOf(a, c) = q /\ u.cache.sps = s /\ u.cache.pps = q
      /\ N = (IF s = c.sps THEN {} ELSE {s}) \cup (IF q = c.pps THEN {} ELSE {q})
  <2>1. /\ SpsOf(a) = s /\ PpsOf(a, c) = q /\ u.cache.sps = SpsOf(a) /\ u.cache.pps = PpsOf(a, c)
        /\ N = (IF SpsOf(a) = c.sps THEN {} ELSE {SpsOf(a)})
               \cup (IF PpsOf(a, c) = c.pps THEN {} ELSE {PpsOf(a, c)})
    BY <1>1, Zenon DEF H264Is
  <2> QED
    BY <2>1, Zenon
<1>4. /\ N \subseteq R
      /\ \A m \in f.sets : (\A n \in N : ~SameSlot(m, n)) => m \in R
  BY ReceivedSets
<1>5. \A m, n : SameSlot(m, n) => m.nal = n.nal
  BY DEF SameSlot
<1> HIDE DEF s, q, N, R
<1>6. s \in R
  <2>1. CASE s # c.sps
    BY <1>3, <1>4, <2>1
  <2>2. CASE s = c.sps
    <3>1. s \in f.sets
      BY <1>2, <2>2 DEF CachedSent
    <3>2. N \subseteq {q}
      BY <1>3, <2>2
    <3>3. \A n \in N : ~SameSlot(s, n)
      BY <1>2, <1>5, <3>2
    <3> QED
      BY <1>4, <3>1, <3>3
  <2> QED
    BY <2>1, <2>2
<1>7. q \in R
  <2>1. CASE q # c.pps
    BY <1>3, <1>4, <2>1
  <2>2. CASE q = c.pps
    <3>1. q \in f.sets
      BY <1>2, <2>2 DEF CachedSent
    <3>2. N \subseteq {s}
      BY <1>3, <2>2
    <3>3. \A n \in N : ~SameSlot(q, n)
      BY <1>2, <1>5, <3>2
    <3> QED
      BY <1>4, <3>1, <3>3
  <2> QED
    BY <2>1, <2>2
<1> QED
  BY <1>3, <1>6, <1>7 DEF s, q, R

(* A key picture brings what its sequence needs; any other finds it there.     *)
LEMMA KeySends ==
    ASSUME NEW a, NEW p, NEW k, Begun(a, p, k), stream.packing = "inband", Buildable(a), p.key,
           NEW c, CachesHeld(c), NEW f, NEW u, u = Build(a, c)
    PROVE  Plays(Receive(f, u.nals).sets, p.seq) /\ RawsSent(u.cache, Receive(f, u.nals).sets)
<1> DEFINE R == Receive(f, u.nals).sets
           N == Range(p.sets)
<1>1. KeyIs(a, p, c, u)
  BY KeyContents
<1>2. a.data # <<>>
  BY PicturesCanBeSent DEF Buildable, Begun, Packings
<1>3. SetsIn(u.nals) = N
  <2>1. SetsIn(a.data) = N
    BY <1>2, InBandSets
  <2> QED
    BY <1>1, <2>1 DEF KeyIs
<1>4. N \subseteq R
  BY <1>3, ReceivedSets
<1>5. InBand(stream, p)
  BY PictureKinds DEF Begun
<1> HIDE DEF N, R
<1>6. RawsSent(u.cache, R)
  <2> SUFFICES ASSUME NEW t \in 32..34 PROVE u.cache.raw[t] \in R
    BY DEF RawsSent
  <2>1. u.cache.raw[t] \in N
    BY <1>1, Zenon DEF KeyIs, N
  <2> QED
    BY <1>4, <2>1
<1>7. ASSUME NEW q \in stream.pictures, q.seq = p.seq PROVE PlaysPicture(R, q)
  <2>1. /\ \A t \in 32..34 : \E n \in N : n.nal = t
        /\ \A n \in N : n.nal \in {32, 33} => n.seq = p.seq
        /\ \E n \in N : n.nal = 34 /\ n.id = q.ppsId /\ n.pps = q.pps
        /\ \A n \in N : ~n.built
    BY <1>5, <1>7, Zenon DEF InBand, N
  <2>2. 32 \in 32..34 /\ 33 \in 32..34
    OBVIOUS
  <2>3. \E n \in N : n.nal = 32
    BY <2>1, <2>2, Zenon
  <2>4. \E n \in N : n.nal = 33
    BY <2>1, <2>2, Zenon
  <2>5. \E n \in R : n.nal = 32 /\ n.seq = q.seq
    BY <1>4, <1>7, <2>1, <2>3
  <2>6. \E n \in R : n.nal = 33 /\ n.seq = q.seq /\ ~n.built
    BY <1>4, <1>7, <2>1, <2>4
  <2>7. \E n \in R : n.nal = 34 /\ n.id = q.ppsId /\ n.pps = q.pps
    BY <1>4, <2>1
  <2> QED
    BY <2>5, <2>6, <2>7, Zenon DEF PlaysPicture
<1> QED
  BY <1>6, <1>7 DEF R, Plays

LEMMA OtherSends ==
    ASSUME NEW a, NEW p, NEW k, Begun(a, p, k), stream.packing = "inband", Buildable(a), ~p.key,
           NEW c, CachesHeld(c), NEW f, NEW u, u = Build(a, c),
           \A t \in 32..34 : c.raw[t] # NoNal,
           SlotUnique(f.sets), RawsSent(c, f.sets), Plays(f.sets, p.seq)
    PROVE  Plays(Receive(f, u.nals).sets, p.seq) /\ RawsSent(u.cache, Receive(f, u.nals).sets)
<1> DEFINE R == Receive(f, u.nals).sets
           N == SetsIn(u.nals)
<1>1. OtherIs(a, c, u)
  BY OtherContents
<1>2. N = {c.raw[32], c.raw[33], c.raw[34]} /\ u.cache = c
  BY <1>1, Zenon DEF OtherIs
<1>3. N \subseteq f.sets
  <2>1. 32 \in 32..34 /\ 33 \in 32..34 /\ 34 \in 32..34
    OBVIOUS
  <2>2. c.raw[32] \in f.sets /\ c.raw[33] \in f.sets /\ c.raw[34] \in f.sets
    BY <2>1, Zenon DEF RawsSent
  <2> QED
    BY <1>2, <2>2
<1>4. /\ N \subseteq R
      /\ \A m \in f.sets : (\A n \in N : ~SameSlot(m, n)) => m \in R
  BY ReceivedSets
<1> HIDE DEF N, R
<1>5. f.sets \subseteq R
  <2> SUFFICES ASSUME NEW m \in f.sets PROVE m \in R
    OBVIOUS
  <2>1. CASE \E n \in N : SameSlot(m, n)
    <3>1. PICK n \in N : SameSlot(m, n)
      BY <2>1
    <3>2. m = n
      BY <1>3, <3>1 DEF SlotUnique
    <3> QED
      BY <1>4, <3>2
  <2>2. CASE \A n \in N : ~SameSlot(m, n)
    BY <1>4, <2>2
  <2> QED
    BY <2>1, <2>2
<1>6. RawsSent(u.cache, R)
  BY <1>2, <1>5 DEF RawsSent
<1>7. ASSUME NEW q \in stream.pictures, q.seq = p.seq PROVE PlaysPicture(R, q)
  <2>1. PlaysPicture(f.sets, q)
    BY <1>7, Zenon DEF Plays
  <2> QED
    BY <1>5, <2>1, Zenon DEF PlaysPicture
<1> QED
  BY <1>6, <1>7 DEF R, Plays

-----------------------------------------------------------------------------
(* Where a unit's slices are: its parameter sets first, then the picture's    *)
(* slices in order, all of them once the whole picture was sent.              *)

Slots(nals) == {i \in DOMAIN nals : ~IsSet(nals[i])}
RankIn(nals, i) == Cardinality({j \in Slots(nals) : j <= i})
SameSlice(n, x) == IF stream.codec = "hevc" THEN n.bytes = x.bytes ELSE n = x

Laid(nals, p, m, l) ==
    /\ IsSeq(nals) /\ m \in Nat /\ l \in Nat /\ Len(nals) = m + l /\ l <= Len(p.slices)
    /\ \A i \in 1..m : IsSet(nals[i])
    /\ \A r \in 1..l : ~IsSet(nals[m + r]) /\ SameSlice(nals[m + r], p.slices[r])

LEMMA LaidRanks ==
    ASSUME NEW nals, NEW p, NEW m, NEW l, Laid(nals, p, m, l)
    PROVE  /\ Cardinality(Slots(nals)) = l
           /\ \A i \in Slots(nals) : /\ RankIn(nals, i) \in 1..l /\ i = m + RankIn(nals, i)
                                     /\ SameSlice(nals[i], p.slices[RankIn(nals, i)])
<1>1. /\ m \in Nat /\ l \in Nat /\ DOMAIN nals = 1..m + l
      /\ \A i \in 1..m : IsSet(nals[i])
      /\ \A r \in 1..l : ~IsSet(nals[m + r]) /\ SameSlice(nals[m + r], p.slices[r])
  <2>1. IsSeq(nals) /\ Len(nals) = m + l
    BY DEF Laid
  <2>2. DOMAIN nals = 1..Len(nals)
    BY <2>1, SeqShape
  <2> QED
    BY <2>1, <2>2 DEF Laid
<1>2. Slots(nals) = m + 1..m + l
  <2>1. ASSUME NEW i \in 1..m + l, ~IsSet(nals[i]) PROVE i \in m + 1..m + l
    BY <1>1, <2>1
  <2>2. ASSUME NEW i \in m + 1..m + l PROVE i \in 1..m + l /\ ~IsSet(nals[i])
    <3>1. i - m \in 1..l /\ m + (i - m) = i
      BY <1>1
    <3> QED
      BY <1>1, <3>1
  <2> QED
    BY <1>1, <2>1, <2>2 DEF Slots
<1>3. Cardinality(m + 1..m + l) = l
  BY <1>1, FS_Interval
<1>4. ASSUME NEW i \in m + 1..m + l
      PROVE  RankIn(nals, i) = i - m
  <2>1. {j \in m + 1..m + l : j <= i} = m + 1..i
    BY <1>1
  <2>2. Cardinality(m + 1..i) = i - m
    BY <1>1, FS_Interval
  <2> QED
    BY <1>2, <2>1, <2>2 DEF RankIn
<1>5. ASSUME NEW i \in m + 1..m + l
      PROVE  /\ RankIn(nals, i) \in 1..l /\ i = m + RankIn(nals, i)
             /\ SameSlice(nals[i], p.slices[RankIn(nals, i)])
  <2> DEFINE r == RankIn(nals, i)
  <2>1. r = i - m
    BY <1>4
  <2> HIDE DEF r
  <2>2. r \in 1..l /\ i = m + r
    BY <1>1, <2>1
  <2>3. SameSlice(nals[i], p.slices[r])
    BY <1>1, <2>2
  <2> QED
    BY <2>2, <2>3 DEF r
<1> QED
  BY <1>2, <1>3, <1>5

LEMMA JoinLaid ==
    ASSUME NEW x, IsSeq(x), \A i \in 1..Len(x) : IsSet(x[i]),
           NEW y, NEW p, NEW m, NEW l, Laid(y, p, m, l)
    PROVE  Laid(x \o y, p, Len(x) + m, l)
<1> DEFINE k == Len(x)
           z == x \o y
<1>1. /\ IsSeq(y) /\ m \in Nat /\ l \in Nat /\ Len(y) = m + l /\ l <= Len(p.slices)
      /\ \A i \in 1..m : IsSet(y[i])
      /\ \A r \in 1..l : ~IsSet(y[m + r]) /\ SameSlice(y[m + r], p.slices[r])
  BY DEF Laid
<1>2. k \in Nat
  BY SeqShape
<1>3. /\ IsSeq(z) /\ Len(z) = k + Len(y)
      /\ \A i \in 1..k : z[i] = x[i]
      /\ \A i \in 1..Len(y) : z[k + i] = y[i]
  <2>1. IsSeq(y)
    BY <1>1
  <2>2. /\ IsSeq(x \o y) /\ Len(x \o y) = Len(x) + Len(y)
        /\ \A i \in 1..Len(x) : (x \o y)[i] = x[i]
        /\ \A i \in 1..Len(y) : (x \o y)[Len(x) + i] = y[i]
    BY <2>1, JoinIsSeq
  <2> QED
    BY <2>2
<1> HIDE DEF z, k
<1>4. ASSUME NEW i \in 1..k + m PROVE IsSet(z[i])
  <2>1. CASE i <= k
    <3>1. i \in 1..k
      BY <1>2, <2>1, <1>1
    <3>2. IsSet(x[i]) /\ z[i] = x[i]
      BY <1>3, <3>1 DEF k
    <3> QED
      BY <3>2
  <2>2. CASE i > k
    <3>1. i - k \in 1..m /\ i - k \in 1..m + l /\ k + (i - k) = i
      BY <1>1, <1>2, <2>2
    <3>2. z[i] = y[i - k]
      BY <1>1, <1>3, <3>1
    <3> QED
      BY <1>1, <3>1, <3>2
  <2> QED
    BY <1>1, <1>2, <2>1, <2>2
<1>5. ASSUME NEW r \in 1..l
      PROVE  ~IsSet(z[k + m + r]) /\ SameSlice(z[k + m + r], p.slices[r])
  <2>1. m + r \in 1..m + l /\ k + (m + r) = k + m + r
    BY <1>1, <1>2
  <2>2. z[k + m + r] = y[m + r]
    BY <1>1, <1>3, <2>1
  <2> QED
    BY <1>1, <2>2
<1>6. k + m \in Nat /\ Len(z) = k + m + l
  BY <1>1, <1>2, <1>3
<1> QED
  BY <1>1, <1>3, <1>4, <1>5, <1>6, Zenon DEF Laid, z, k

(* A set list of at most one.                                                  *)
LEMMA UnsentLaid ==
    ASSUME NEW n, NEW cached, IsSet(n), NEW y, NEW p, NEW m, NEW l, Laid(y, p, m, l)
    PROVE  \E k : Laid(Unsent(n, cached) \o y, p, k, l)
<1> DEFINE x == Unsent(n, cached)
<1>1. IsSeq(x)
  BY SetsUnsent
<1>2. \A i \in 1..Len(x) : IsSet(x[i])
  <2>1. x = <<>> \/ x = <<n>>
    BY DEF Unsent
  <2> HIDE DEF x
  <2>2. \A i \in 1..Len(x) : x[i] = n
    BY <2>1
  <2> QED
    BY <2>2
<1> HIDE DEF x
<1> QED
  BY <1>1, <1>2, JoinLaid DEF x

(* The slices collected of a picture that is not rewritten.                   *)
LEMMA DataLaid ==
    ASSUME NEW a, NEW p, NEW k, Begun(a, p, k), ~Rewriting, a.data # <<>>
    PROVE  \E m, l : Laid(a.data, p, m, l) /\ (k = Len(Buffers(p)) => l = Len(p.slices))
<1>1. stream \in Streams /\ p \in stream.pictures /\ Packings /\ Sendable(p)
  BY PicturesCanBeSent DEF Begun
<1> DEFINE n == Len(p.slices)
<1>2. n \in Nat
  BY <1>1, PictureKinds
<1>3. CASE stream.packing = "inband"
  <2> DEFINE m == Len(p.sets)
             d == a.data
  <2>1. /\ Len(d) = m + n
        /\ \A i \in 1..m : d[i] = p.sets[i] /\ i \in 1..Len(d)
        /\ \A i \in 1..n : /\ m + i \in 1..Len(d)
                           /\ d[m + i] = [nal |-> p.slices[i].nal, bytes |-> p.slices[i].bytes]
                           /\ p.slices[i].nal \in 0..31
    BY <1>3, InBandData
  <2>2. /\ IsSeq(d) /\ stream.codec = "hevc" /\ m \in Nat
        /\ \A i \in 1..m : p.sets[i] \in Range(p.sets)
        /\ InBand(stream, p)
    <3>1. IsSeq(d) /\ stream.codec = "hevc"
      BY <1>3, InBandSets
    <3> QED
      BY <1>1, <1>3, <3>1, PictureKinds
  <2>3. ASSUME NEW i \in 1..m PROVE IsSet(d[i])
    <3>1. p.sets[i].nal \in 32..34
      BY <2>2 DEF InBand
    <3> QED
      BY <2>1, <2>2, <3>1 DEF IsSet, IsSetOf
  <2>4. ASSUME NEW i \in 1..n PROVE ~IsSet(d[m + i]) /\ SameSlice(d[m + i], p.slices[i])
    <3> DEFINE x == p.slices[i].nal
               y == p.slices[i].bytes
    <3>1. d[m + i] = [nal |-> x, bytes |-> y]
      BY <2>1
    <3>3. x \in 0..31
      BY <2>1
    <3> HIDE DEF x, y, d, m
    <3>2. d[m + i].nal = x /\ d[m + i].bytes = y
      BY <3>1
    <3>4. x \notin 32..34
      BY <3>3
    <3> QED
      BY <2>2, <3>2, <3>4 DEF IsSet, IsSetOf, SameSlice, y
  <2> HIDE DEF d, m, n
  <2>5. Laid(d, p, m, n)
    <3>1. n <= n
      BY <1>2
    <3> QED
      BY <1>2, <2>1, <2>2, <2>3, <2>4, <3>1, Zenon DEF Laid, n
  <2> QED
    BY <2>5 DEF d, n
<1>4. CASE stream.packing # "inband"
  <2> DEFINE d == a.data
             l == Len(d)
  <2>1. IsSeq(d) /\ l \in Nat /\ l <= n /\ \A i \in 1..l : d[i] = p.slices[i]
    BY <1>4, SentSlices
  <2>2. stream.codec # "hevc"
    BY <1>4 DEF Rewriting
  <2>3. ASSUME NEW i \in 1..l PROVE ~IsSet(d[i])
    <3>1. SetsIn(d) = {}
      BY <1>4, DataHasNoSets
    <3>2. d[i] \in Range(d)
      BY <2>1, SeqShape
    <3> QED
      BY <3>1, <3>2 DEF SetsIn
  <2>4. k = Len(Buffers(p)) => l = n
    <3>1. SentHeld(a, p, Past(k))
      BY DEF Begun, Collected, DataHeld
    <3>2. l = Given(p, Past(k))
      BY <3>1 DEF SentHeld
    <3>3. /\ Len(Buffers(p)) = HeaderLen + BodyLen(p) /\ BodyLen(p) \in Nat /\ HeaderLen \in {1, 2}
      BY <1>1, BufferList DEF Sendable, HeaderLen
    <3>4. k = Len(Buffers(p)) => Past(k) = BodyLen(p)
      BY <3>3 DEF Past
    <3>5. BodyLen(p) \in 0..BodyLen(p)
      BY <3>3
    <3>6. Given(p, BodyLen(p)) = Len(Total(p))
      BY <1>1, <3>5, Counts
    <3>7. Total(p) = p.slices
      BY <1>4 DEF Total
    <3> QED
      BY <3>2, <3>4, <3>6, <3>7
  <2> HIDE DEF d, l, n
  <2>5. Laid(d, p, 0, l)
    <3>1. 0 \in Nat /\ Len(d) = 0 + l /\ \A r \in 1..l : 0 + r = r
      BY <2>1 DEF l
    <3>2. \A i \in 1..0 : IsSet(d[i])
      OBVIOUS
    <3>3. \A r \in 1..l : ~IsSet(d[0 + r]) /\ SameSlice(d[0 + r], p.slices[r])
      BY <2>1, <2>2, <2>3, <3>1 DEF SameSlice
    <3> QED
      BY <2>1, <3>1, <3>2, <3>3, Zenon DEF Laid, n
  <2> QED
    BY <2>4, <2>5 DEF d, n
<1> QED
  BY <1>3, <1>4

LEMMA UnitLaid ==
    ASSUME NEW a, NEW p, NEW k, Begun(a, p, k), Buildable(a), ~Rewriting,
           NEW c, CachesHeld(c), NEW u, u = Build(a, c),
           stream.packing = "inband" /\ ~p.key => \A t \in 32..34 : c.raw[t] # NoNal
    PROVE  \E m, l : Laid(u.nals, p, m, l) /\ (k = Len(Buffers(p)) => l = Len(p.slices))
<1>1. Packings /\ a.data # <<>>
  BY PicturesCanBeSent DEF Begun, Buildable, Packings
<1>2. PICK m, l : Laid(a.data, p, m, l) /\ (k = Len(Buffers(p)) => l = Len(p.slices))
  BY <1>1, DataLaid
<1>3. ASSUME u.nals = a.data
      PROVE  \E n : Laid(u.nals, p, n, l)
  BY <1>2, <1>3
<1>4. CASE stream.codec = "vp9"
  <2>1. u = Unit(a.data, RandomAccess(a.data), FALSE, c)
    BY <1>4, Vp9Unit
  <2>2. u.nals = a.data
    <3> DEFINE key == RandomAccess(a.data)
               new == FALSE
    <3> HIDE DEF key, new
    <3>1. u = Unit(a.data, key, new, c)
      BY <2>1 DEF key, new
    <3> QED
      BY <3>1, UnitFields
  <2> QED
    BY <1>2, <1>3, <2>2
<1>5. CASE stream.codec = "h264"
  <2> DEFINE s == SpsOf(a)
             q == PpsOf(a, c)
             d == a.data
             x == Unsent(s, c.sps)
             y == Unsent(q, c.pps)
  <2>1. u.nals = (x \o y) \o d
    <3>1. H264Is(a, p, c, u)
      BY <1>5, H264Contents
    <3> QED
      BY <3>1 DEF H264Is, H264Nals
  <2>2. IsSet(s) /\ IsSet(q)
    BY <1>5 DEF IsSet, IsSetOf, SpsOf, PpsOf, H264Sps, H264Pps
  <2>3. Laid(d, p, m, l)
    BY <1>2
  <2> HIDE DEF s, q, d
  <2>4. PICK i : Laid(y \o d, p, i, l)
    BY <2>2, <2>3, UnsentLaid
  <2>5. PICK j : Laid(x \o (y \o d), p, j, l)
    BY <2>2, <2>4, UnsentLaid
  <2>6. x \o (y \o d) = (x \o y) \o d
    <3>1. IsSeq(x) /\ IsSeq(y) /\ IsSeq(d)
      BY <2>2, <2>3, SetsUnsent DEF Laid
    <3> DEFINE S == (Range(x) \cup Range(y)) \cup Range(d)
    <3>2. x \in Seq(Range(x)) /\ y \in Seq(Range(y)) /\ d \in Seq(Range(d))
      BY <3>1 DEF IsSeq
    <3> HIDE DEF x, y
    <3>3. x \in Seq(S) /\ y \in Seq(S) /\ d \in Seq(S)
      BY <3>2, SeqMonotonic
    <3> HIDE DEF S
    <3> QED
      BY <3>3, ConcatAssociative
  <2>7. Laid(u.nals, p, j, l)
    BY <2>1, <2>5, <2>6
  <2> QED
    BY <1>2, <2>7
<1>6. CASE stream.codec = "hevc"
  <2>1. stream.packing = "inband"
    BY <1>6 DEF Rewriting
  <2>2. CASE p.key
    <3>1. KeyIs(a, p, c, u)
      BY <2>1, <2>2, KeyContents
    <3> QED
      BY <1>2, <1>3, <3>1 DEF KeyIs
  <2>3. CASE ~p.key
    <3> DEFINE x == <<c.raw[32], c.raw[33], c.raw[34]>>
               d == a.data
    <3>1. OtherIs(a, c, u) /\ \A t \in 32..34 : c.raw[t] # NoNal
      BY <2>1, <2>3, OtherContents
    <3>2. u.nals = x \o d
      BY <3>1, Zenon DEF OtherIs
    <3>3. \A t \in 32..34 : c.raw[t].nal = t
      BY <3>1, Zenon DEF CachesHeld
    <3>4. IsSet(c.raw[32]) /\ IsSet(c.raw[33]) /\ IsSet(c.raw[34])
      BY <1>6, <3>3 DEF IsSet, IsSetOf
    <3> DEFINE v == c.raw[32]
               s == c.raw[33]
               q == c.raw[34]
    <3>5. x = <<v, s, q>> /\ IsSet(v) /\ IsSet(s) /\ IsSet(q)
      BY <3>4
    <3> HIDE DEF x, v, s, q, d
    <3>6. IsSeq(x) /\ \A i \in 1..Len(x) : IsSet(x[i])
      <4>1. <<v, s, q>> \in Seq({v, s, q})
        OBVIOUS
      <4>2. IsSeq(x)
        BY <3>5, <4>1, SeqIsSeq
      <4>3. Len(x) = 3 /\ x[1] = v /\ x[2] = s /\ x[3] = q
        BY <3>5
      <4> QED
        BY <3>5, <4>2, <4>3
    <3>7. Laid(x \o d, p, Len(x) + m, l)
      BY <1>2, <3>6, JoinLaid DEF d
    <3> QED
      BY <1>2, <3>2, <3>7
  <2> QED
    BY <2>2, <2>3
<1> QED
  BY <1>1, <1>4, <1>5, <1>6 DEF Packings

(* The default reference counts of the PPS are those of every slice that      *)
(* relies on them: a client's slices agree on them.                           *)
LEMMA RefsOfSlices ==
    ASSUME NEW a, NEW p, NEW k, Begun(a, p, k), Buildable(a), stream.codec = "h264", NEW refs,
           NEW i \in 1..Len(a.data), NEW l \in DefaultRefs(a.data[i])
    PROVE  PpsRefs(a, refs)[l] = a.data[i].active[l]
<1>1. H264Picture(p) /\ IsSeq(p.slices)
  BY PictureKinds DEF Begun
<1>2. a.data # <<>> /\ Len(a.data) = Len(a.params)
  BY DEF Buildable
<1>3. ~Rewriting /\ stream.packing # "inband"
  BY PicturesCanBeSent DEF Rewriting, Begun, Packings
<1>4. /\ IsSeq(a.data) /\ Len(a.data) \in Nat
      /\ \A j \in 1..Len(a.data) : a.data[j] = p.slices[j] /\ a.data[j] \in Range(p.slices)
  BY <1>3, SentSlices
<1>5. l \in 1..2
  BY DEF DefaultRefs
<1> DEFINE relying == {j \in DOMAIN a.data \cap DOMAIN a.params : l \in DefaultRefs(a.data[j])}
           x == PpsRefs(a, refs)[l]
<1>6. x = IF relying # {} THEN a.params[Max(relying)].slice.active[l]
          ELSE IF refs[l] = Unset THEN FirstDefaults(a.picture)[l] ELSE refs[l]
  BY <1>5 DEF PpsRefs
<1>7. IsSeq(a.params)
  BY DEF Begun, Collected, ParamsHeld
<1>8. DOMAIN a.data = 1..Len(a.data) /\ DOMAIN a.params = 1..Len(a.params)
  BY <1>4, <1>7, SeqShape
<1>9. relying \in SUBSET (1..Len(a.data)) /\ i \in relying
  BY <1>2, <1>8
<1> DEFINE j == Max(relying)
<1>10. x = a.params[j].slice.active[l]
  BY <1>6, <1>9, Zenon
<1>11. j \in 1..Len(a.data) /\ l \in DefaultRefs(a.data[j])
  <2>1. j \in relying
    <3> HIDE DEF relying
    <3> QED
      BY <1>4, <1>9, Greatest
  <2> HIDE DEF j
  <2> QED
    BY <1>8, <2>1
<1> HIDE DEF x, j, relying
<1>12. a.params[j] = Params(p, j)
  BY <1>2, <1>11, CollectedParams
<1>13. x = a.data[j].active[l]
  BY <1>4, <1>10, <1>11, <1>12 DEF Params
<1>14. a.data[j].active[l] = a.data[i].active[l]
  <2> DEFINE y == a.data[j]
             z == a.data[i]
  <2>1. y \in Range(p.slices) /\ z \in Range(p.slices)
    BY <1>4, <1>11
  <2>2. l \in DefaultRefs(y) \cap DefaultRefs(z)
    BY <1>11
  <2>3. \A m, n \in Range(p.slices) : \A g \in DefaultRefs(m) \cap DefaultRefs(n) :
          m.active[g] = n.active[g]
    BY <1>1, Zenon DEF H264Picture
  <2> HIDE DEF y, z
  <2>4. y.active[l] = z.active[l]
    BY <2>1, <2>2, <2>3, Zenon
  <2> QED
    BY <2>4 DEF y, z
<1> QED
  BY <1>13, <1>14 DEF x

-----------------------------------------------------------------------------
(* What parses a unit, where no slice is rewritten.                           *)
ParsesWith(nals, sets, p) ==
    CASE stream.codec = "h264" ->
            /\ H264Sps(p) \in sets
            /\ \E s \in sets :
                  /\ s.nal = 8 /\ s.pps = p.pps /\ s.iq = p.iq
                  /\ \A i \in Slots(nals) : \A l \in DefaultRefs(nals[i]) :
                        s.refs[l] = nals[i].active[l]
            /\ \A i \in Slots(nals) : nals[i] = p.slices[RankIn(nals, i)]
      [] stream.codec = "hevc" ->
            /\ PlaysPicture(sets, p)
            /\ \A i \in Slots(nals) : nals[i].bytes = p.slices[RankIn(nals, i)].bytes
      [] stream.codec = "vp9" -> TRUE

(* The caches and the session are ready for picture p.                        *)
Ready(c, f, p) ==
    /\ stream.codec = "h264" => CachedSent(c, f.sets)
    /\ stream.packing = "inband" /\ ~p.key =>
          /\ \A t \in 32..34 : c.raw[t] # NoNal
          /\ SlotUnique(f.sets) /\ RawsSent(c, f.sets) /\ Plays(f.sets, p.seq)

(* They stay so for the pictures of sequence s.                               *)
Carries(c, S, s) ==
    /\ stream.codec = "h264" => c.sps \in S /\ c.pps \in S
    /\ stream.packing = "inband" => RawsSent(c, S) /\ Plays(S, s)

LEMMA H264Data ==
    ASSUME NEW a, NEW p, NEW k, Begun(a, p, k), Buildable(a), stream.codec = "h264",
           NEW c, CachesHeld(c), NEW u, u = Build(a, c), NEW i \in Slots(u.nals)
    PROVE  \E j \in 1..Len(a.data) : u.nals[i] = a.data[j]
<1> DEFINE s == SpsOf(a)
           q == PpsOf(a, c)
           d == a.data
           x == Unsent(s, c.sps)
           y == Unsent(q, c.pps)
<1>1. u.nals = (x \o y) \o d
  <2>1. H264Is(a, p, c, u)
    BY H264Contents
  <2> QED
    BY <2>1 DEF H264Is, H264Nals
<1>2. IsSet(s) /\ IsSet(q)
  BY DEF IsSet, IsSetOf, SpsOf, PpsOf, H264Sps, H264Pps
<1>3. IsSeq(d)
  BY DEF Begun, Collected, DataHeld
<1>4. u.nals[i] \in Range(u.nals) /\ ~IsSet(u.nals[i])
  BY DEF Slots, Range
<1> HIDE DEF s, q, d
<1>5. /\ IsSeq(x) /\ SetsIn(x) = IF s = c.sps THEN {} ELSE {s}
      /\ IsSeq(y) /\ SetsIn(y) = IF q = c.pps THEN {} ELSE {q}
  BY <1>2, SetsUnsent
<1>6. \A n \in Range(x) : IsSet(n)
  BY <1>2, OneIsSeq, NoneIsSeq DEF Unsent
<1>7. \A n \in Range(y) : IsSet(n)
  BY <1>2, OneIsSeq, NoneIsSeq DEF Unsent
<1> HIDE DEF x, y
<1>8. IsSeq(x \o y) /\ Range(x \o y) = Range(x) \cup Range(y)
  BY <1>5, JoinIsSeq
<1>9. Range((x \o y) \o d) = Range(x \o y) \cup Range(d)
  BY <1>3, <1>8, JoinIsSeq
<1>10. u.nals[i] \in Range(d)
  BY <1>1, <1>4, <1>6, <1>7, <1>8, <1>9
<1>11. \E j \in 1..Len(d) : u.nals[i] = d[j]
  BY <1>3, <1>10, SeqShape
<1> QED
  BY <1>11 DEF d

LEMMA UnitDecodes ==
    ASSUME NEW a, NEW p, NEW k, Begun(a, p, k), Buildable(a), ~Rewriting,
           NEW c, CachesHeld(c), NEW f, Ready(c, f, p), NEW u, u = Build(a, c)
    PROVE  /\ ParsesWith(u.nals, Receive(f, u.nals).sets, p)
           /\ Carries(u.cache, Receive(f, u.nals).sets, p.seq)
           /\ k = Len(Buffers(p)) => Cardinality(Slots(u.nals)) = Len(p.slices)
<1> DEFINE R == Receive(f, u.nals).sets
<1>1. Packings /\ stream \in Streams /\ p \in stream.pictures
  BY PicturesCanBeSent DEF Begun
<1>2. PICK m, l : Laid(u.nals, p, m, l) /\ (k = Len(Buffers(p)) => l = Len(p.slices))
  <2>1. stream.packing = "inband" /\ ~p.key => \A t \in 32..34 : c.raw[t] # NoNal
    BY Zenon DEF Ready
  <2> QED
    BY <2>1, UnitLaid
<1>3. /\ Cardinality(Slots(u.nals)) = l
      /\ \A i \in Slots(u.nals) : SameSlice(u.nals[i], p.slices[RankIn(u.nals, i)])
  BY <1>2, LaidRanks, Zenon
<1>4. k = Len(Buffers(p)) => Cardinality(Slots(u.nals)) = Len(p.slices)
  BY <1>2, <1>3
<1>5. ASSUME stream.codec = "h264"
      PROVE  ParsesWith(u.nals, R, p) /\ Carries(u.cache, R, p.seq)
  <2> DEFINE refs == PpsRefs(a, c.refs)
             q == H264Pps(p, p.iq, refs)
  <2>1. H264Sps(p) \in R /\ q \in R /\ u.cache.sps \in R /\ u.cache.pps \in R
    <3>1. CachedSent(c, f.sets)
      BY <1>5, Zenon DEF Ready
    <3> QED
      BY <1>5, <3>1, H264Sends
  <2>2. q.nal = 8 /\ q.pps = p.pps /\ q.iq = p.iq /\ q.refs = refs
    BY DEF H264Pps
  <2>3. ASSUME NEW i \in Slots(u.nals), NEW g \in DefaultRefs(u.nals[i])
        PROVE  q.refs[g] = u.nals[i].active[g]
    <3>1. PICK j \in 1..Len(a.data) : u.nals[i] = a.data[j]
      BY <1>5, H264Data
    <3>2. refs[g] = a.data[j].active[g]
      BY <1>5, <2>3, <3>1, RefsOfSlices
    <3> QED
      BY <2>2, <3>1, <3>2
  <2>4. \A i \in Slots(u.nals) : u.nals[i] = p.slices[RankIn(u.nals, i)]
    BY <1>3, <1>5 DEF SameSlice
  <2> HIDE DEF q, refs, R
  <2>5. ParsesWith(u.nals, R, p)
    BY <1>5, <2>1, <2>2, <2>3, <2>4, Zenon DEF ParsesWith
  <2>6. stream.packing # "inband"
    BY <1>1, <1>5 DEF Packings
  <2> QED
    BY <1>5, <2>1, <2>5, <2>6 DEF Carries
<1>6. ASSUME stream.codec = "hevc"
      PROVE  ParsesWith(u.nals, R, p) /\ Carries(u.cache, R, p.seq)
  <2>1. stream.packing = "inband"
    BY <1>6 DEF Rewriting
  <2>2. Plays(R, p.seq) /\ RawsSent(u.cache, R)
    <3>1. CASE p.key
      BY <2>1, <3>1, KeySends
    <3>2. CASE ~p.key
      <4>1. /\ \A t \in 32..34 : c.raw[t] # NoNal
            /\ SlotUnique(f.sets) /\ RawsSent(c, f.sets) /\ Plays(f.sets, p.seq)
        BY <2>1, <3>2, Zenon DEF Ready
      <4> QED
        BY <2>1, <3>2, <4>1, OtherSends
    <3> QED
      BY <3>1, <3>2
  <2>3. \A i \in Slots(u.nals) : u.nals[i].bytes = p.slices[RankIn(u.nals, i)].bytes
    BY <1>3, <1>6 DEF SameSlice
  <2> HIDE DEF R
  <2>4. PlaysPicture(R, p)
    BY <1>1, <2>2, Zenon DEF Plays
  <2>5. stream.codec # "h264"
    BY <1>6
  <2>6. ParsesWith(u.nals, R, p)
    BY <1>6, <2>3, <2>4, <2>5 DEF ParsesWith
  <2>7. Carries(u.cache, R, p.seq)
    BY <2>2, <2>5 DEF Carries
  <2> QED
    BY <2>6, <2>7
<1>7. ASSUME stream.codec = "vp9"
      PROVE  ParsesWith(u.nals, R, p) /\ Carries(u.cache, R, p.seq)
  <2> HIDE DEF R
  <2>1. stream.packing # "inband"
    BY <1>1, <1>7 DEF Packings
  <2> QED
    BY <1>7, <2>1 DEF ParsesWith, Carries
<1> QED
  BY <1>1, <1>4, <1>5, <1>6, <1>7 DEF Packings

(* The session between the calls, and the unit accepted last.                 *)
SetsState(c, l, s, e, f) ==
    ~l => /\ stream.codec = "h264" =>
                IF e.started THEN c.sps \in f.sets /\ c.pps \in f.sets
                ELSE c.sps = NoNal /\ c.pps = NoNal
          /\ stream.packing = "inband" /\ e.started /\ s # 0 =>
                RawsSent(c, f.sets) /\ Plays(f.sets, s)

FedState(g, l) ==
    g # NothingFed /\ ~l =>
        /\ ParsesWith(g.nals, g.sets, g.pic)
        /\ g.whole => Cardinality(Slots(g.nals)) = Len(g.pic.slices)

DecodesInv == SetsState(cache, lost, seq, session, firmware) /\ FedState(fed, lost)

LEMMA ParsesStays ==
    ASSUME stream' = stream, NEW nals, NEW sets, NEW p, ParsesWith(nals, sets, p)
    PROVE  ParsesWith(nals, sets, p)'
<1>1. Slots(nals)' = Slots(nals)
  BY Zenon DEF Slots, IsSet, IsSetOf
<1>2. \A i : RankIn(nals, i)' = RankIn(nals, i)
  BY <1>1, Zenon DEF RankIn
<1>3. PlaysPicture(sets, p)' <=> PlaysPicture(sets, p)
  BY Zenon DEF PlaysPicture
<1> QED
  BY <1>1, <1>2, <1>3, Zenon DEF ParsesWith, H264Sps, DefaultRefs

LEMMA DecodesNext ==
    ASSUME stream' = stream, NEW c, c = cache', NEW l, l = lost', NEW s, s = seq',
           NEW e, e = session', NEW f, f = firmware', NEW g, g = fed',
           SetsState(c, l, s, e, f), FedState(g, l)
    PROVE  DecodesInv'
<1>1. Plays(f.sets, s)' <=> Plays(f.sets, s)
  BY Zenon DEF Plays, PlaysPicture
<1>2. RawsSent(c, f.sets)' <=> RawsSent(c, f.sets)
  BY Zenon DEF RawsSent
<1>3. SetsState(c, l, s, e, f)'
  BY <1>1, <1>2, Zenon DEF SetsState, NoNal
<1>4. Slots(g.nals)' = Slots(g.nals)
  BY Zenon DEF Slots, IsSet, IsSetOf
<1>5. FedState(g, l)'
  BY <1>4, ParsesStays, Zenon DEF FedState, NothingFed
<1> QED
  BY <1>3, <1>5, Zenon DEF DecodesInv

LEMMA DecodesEnds ==
    ASSUME AdapterInv, SequenceInv, TypeInv, DecodesInv, ~Rewriting, stream' = stream,
           NEW idle, NEW fault, EndPicture(idle, fault)
    PROVE  DecodesInv'
<1> DEFINE before == Build(adapter, cache)
           restart == StartsStream(before, idle)
           unit == IF restart THEN Build(adapter, ResetSession) ELSE before
           reopen == ~restart /\ session.open /\ session.eos
           keeps == session.open /\ ~session.eos /\ ~restart
           held == IF keeps THEN firmware ELSE NoSets
           w == sent = Len(Buffers(pic))
           R == Receive(held, unit.nals)
<1>1. /\ pic # NoPicture /\ before.ok
      /\ cache' = IF reopen THEN ResetSession ELSE unit.cache
      /\ session' = IF fault = "open" THEN Closed
                    ELSE IF fault \in {"none", "wait"} THEN [Opened EXCEPT !.started = TRUE]
                    ELSE IF keeps THEN session ELSE Opened
      /\ firmware' = IF fault \in {"open", "submit"} THEN held ELSE Receive(held, unit.nals)
      /\ lost' = (fault \notin {"none", "wait"} \/ reopen \/ (lost /\ ~restart))
      /\ Ended(fault = "none")
  BY Zenon DEF EndPicture
<1>2. fault \notin {"open", "submit"} =>
         \E x, y, z : fed' = [pic |-> pic, whole |-> w, nals |-> unit.nals, sets |-> R.sets,
                              first |-> x, restart |-> y, idle |-> z]
  BY Zenon DEF EndPicture
<1>3. /\ Begun(adapter, pic, sent) /\ Buildable(adapter) /\ (before.key <=> pic.key)
  BY <1>1, KeyUnits
<1>4. CachesHeld(cache) /\ CachesHeld(ResetSession) /\ SlotUnique(firmware.sets)
  BY FreshCaches DEF SequenceInv, SequenceState, TypeInv
<1>5. restart => pic.key /\ session.started
  BY <1>3, Zenon DEF StartsStream
<1>6. CASE lost'
  <2>1. PICK c, l, s, e, f, g : c = cache' /\ l = lost' /\ s = seq' /\ e = session'
                                /\ f = firmware' /\ g = fed'
    OBVIOUS
  <2>2. SetsState(c, l, s, e, f) /\ FedState(g, l)
    BY <1>6, <2>1, Zenon DEF SetsState, FedState
  <2> QED
    BY <2>1, <2>2, DecodesNext
<1>7. CASE ~lost'
  <2>1. fault \in {"none", "wait"} /\ ~reopen /\ (~lost \/ restart)
    BY <1>1, <1>7, Zenon
  <2> fault # "open"
    BY <2>1
  <2>2. /\ cache' = unit.cache /\ session' = [Opened EXCEPT !.started = TRUE]
        /\ firmware' = R /\ (seq' = pic.seq \/ seq' = 0)
    <3>1. cache' = unit.cache
      BY <1>1, <2>1, Zenon
    <3>2. session' = [Opened EXCEPT !.started = TRUE]
      BY <1>1, <2>1, Zenon
    <3>3. fault \notin {"open", "submit"}
      BY <2>1
    <3>4. firmware' = R
      BY <1>1, <3>3, Zenon
    <3>5. seq' = pic.seq \/ seq' = 0
      <4>1. pic.key \/ pic.seq = seq
        BY <1>1 DEF AdapterInv, PicHeld
      <4> QED
        BY <1>1, <4>1, Zenon DEF Ended
    <3> QED
      BY <3>1, <3>2, <3>4, <3>5
  <2>3. PICK x, y, z : fed' = [pic |-> pic, whole |-> w, nals |-> unit.nals, sets |-> R.sets,
                               first |-> x, restart |-> y, idle |-> z]
    <3>1. fault \notin {"open", "submit"}
      BY <2>1
    <3> QED
      BY <1>2, <3>1
  <2>4. \E c : CachesHeld(c) /\ unit = Build(adapter, c) /\ Ready(c, held, pic)
    <3>1. CASE restart
      <4>1. unit = Build(adapter, ResetSession) /\ pic.key
        BY <1>5, <3>1
      <4>2. ResetSession.sps = NoNal /\ ResetSession.pps = NoNal
        BY DEF ResetSession
      <4>3. Ready(ResetSession, held, pic)
        BY <4>1, <4>2, Zenon DEF Ready, CachedSent
      <4> QED
        BY <1>4, <4>1, <4>3
    <3>2. CASE ~restart
      <4>1. unit = before /\ ~lost
        BY <2>1, <3>2
      <4>2. /\ stream.codec = "h264" =>
                  IF session.started THEN cache.sps \in firmware.sets /\ cache.pps \in firmware.sets
                  ELSE cache.sps = NoNal /\ cache.pps = NoNal
            /\ stream.packing = "inband" /\ session.started /\ seq # 0 =>
                  RawsSent(cache, firmware.sets) /\ Plays(firmware.sets, seq)
        BY <4>1, Zenon DEF DecodesInv, SetsState
      <4>3. /\ session.started => (seq # 0 => InSequence(cache, seq))
            /\ ~session.started => ~session.open /\ seq = 0
        BY <4>1, Zenon DEF SequenceInv, SequenceState
      <4>4. session.started => keeps
        BY <2>1, <3>2 DEF AdapterInv, SessionHeld
      <4>5. ~session.started => ~keeps
        BY <4>3
      <4> HIDE DEF keeps, unit, before
      <4>6. stream.codec = "h264" => CachedSent(cache, held.sets)
        <5>1. session.started => held = firmware
          BY <4>4
        <5> HIDE DEF held
        <5> QED
          BY <4>2, <5>1, Zenon DEF CachedSent
      <4>7. ASSUME stream.packing = "inband", ~pic.key
            PROVE  /\ \A t \in 32..34 : cache.raw[t] # NoNal
                   /\ SlotUnique(held.sets) /\ RawsSent(cache, held.sets)
                   /\ Plays(held.sets, pic.seq)
        <5>1. pic.seq = seq /\ seq # 0
          <6>1. pic.seq \in Nat \ {0}
            BY <1>3, PictureKinds DEF Begun
          <6>2. pic.seq = seq
            BY <1>1, <4>7 DEF AdapterInv, PicHeld
          <6> QED
            BY <6>1, <6>2
        <5>2. session.started /\ InSequence(cache, seq)
          BY <4>3, <5>1
        <5>3. held = firmware
          BY <4>4, <5>2
        <5>4. stream.codec = "hevc"
          BY <1>3, <4>7, PictureKinds DEF Begun
        <5>5. \A t \in 32..34 : cache.raw[t] # NoNal
          BY <4>7, <5>2, <5>4 DEF InSequence
        <5> QED
          BY <1>4, <4>2, <4>7, <5>1, <5>2, <5>3, <5>5, Zenon
      <4>8. Ready(cache, held, pic)
        BY <4>6, <4>7, Zenon DEF Ready
      <4> QED
        BY <1>4, <4>1, <4>8 DEF before
    <3> QED
      BY <3>1, <3>2
  <2> HIDE DEF unit, held, reopen, keeps
  <2>5. /\ ParsesWith(unit.nals, R.sets, pic)
        /\ Carries(unit.cache, R.sets, pic.seq)
        /\ w => Cardinality(Slots(unit.nals)) = Len(pic.slices)
    <3>1. PICK c : CachesHeld(c) /\ unit = Build(adapter, c) /\ Ready(c, held, pic)
      BY <2>4
    <3> QED
      BY <1>3, <3>1, UnitDecodes
  <2>6. PICK c, l, s, e, f, g : c = cache' /\ l = lost' /\ s = seq' /\ e = session'
                                /\ f = firmware' /\ g = fed'
    OBVIOUS
  <2> HIDE DEF w, R
  <2>7. SetsState(c, l, s, e, f)
    <3>1. e.started /\ c = unit.cache /\ f = R /\ (s = pic.seq \/ s = 0)
      BY <2>2, <2>6 DEF Opened
    <3>2. /\ stream.codec = "h264" => c.sps \in f.sets /\ c.pps \in f.sets
          /\ stream.packing = "inband" /\ s # 0 => RawsSent(c, f.sets) /\ Plays(f.sets, s)
      BY <2>5, <3>1, Zenon DEF Carries
    <3> QED
      BY <3>1, <3>2, Zenon DEF SetsState
  <2>8. FedState(g, l)
    <3>1. g.nals = unit.nals /\ g.sets = R.sets /\ g.pic = pic /\ g.whole = w
      BY <2>3, <2>6
    <3> QED
      BY <2>5, <3>1, Zenon DEF FedState
  <2> QED
    BY <2>6, <2>7, <2>8, DecodesNext
<1> QED
  BY <1>6, <1>7

LEMMA DecodesStep ==
    AdapterInv /\ SequenceInv /\ TypeInv /\ DecodesInv /\ ~Rewriting /\ [Next]_vars => DecodesInv'
<1> SUFFICES ASSUME AdapterInv, SequenceInv, TypeInv, DecodesInv, ~Rewriting, [Next]_vars
             PROVE  DecodesInv'
  OBVIOUS
<1>1. stream' = stream
  BY StreamStays
<1>2. SetsState(cache, lost, seq, session, firmware) /\ FedState(fed, lost)
  BY DEF DecodesInv
<1>3. CASE UNCHANGED vars \/ Render \/ (\E p \in stream.pictures : BeginPicture(p))
  <2>1. cache' = cache /\ lost' = lost /\ seq' = seq /\ session' = session /\ firmware' = firmware
        /\ fed' = fed
    BY <1>3 DEF vars, history, Render, BeginPicture
  <2> QED
    BY <1>1, <1>2, <2>1, DecodesNext
<1>4. CASE EndRefused
  <2> DEFINE u == Build(adapter, cache)
  <2>1. ~u.ok /\ cache' = u.cache /\ Ended(FALSE) /\ session' = session /\ firmware' = firmware
        /\ lost' = lost /\ fed' = fed
    BY <1>4 DEF EndRefused, history
  <2>2. Packings /\ CachesHeld(cache)
    BY PicturesCanBeSent DEF AdapterInv, SequenceInv, SequenceState
  <2>3. ~Buildable(adapter)
    BY <2>1, <2>2, UnitKinds
  <2>4. SameSets(u.cache, cache)
    <3>1. /\ CachesHeld(u.cache) /\ SameSets(u.cache, cache)
          /\ (stream.codec # "h264" => u.cache = cache)
          /\ u.cache.refs = cache.refs \/ (/\ stream.codec = "h264" /\ adapter.data # <<>>
                                           /\ u.cache.refs = PpsRefs(adapter, cache.refs))
      BY <2>2, <2>3, RefusedCaches
    <3> QED
      BY <3>1
  <2>5. seq' = 0 \/ seq' = seq
    BY <2>1 DEF Ended
  <2> HIDE DEF u
  <2>6. PICK c, l, s, e, f, g : c = cache' /\ l = lost' /\ s = seq' /\ e = session'
                                /\ f = firmware' /\ g = fed'
    OBVIOUS
  <2>7. /\ c.sps = cache.sps /\ c.pps = cache.pps /\ c.raw = cache.raw
        /\ l = lost /\ e = session /\ f = firmware /\ g = fed /\ (s = 0 \/ s = seq)
    BY <2>1, <2>4, <2>5, <2>6 DEF SameSets
  <2>8. RawsSent(c, f.sets) <=> RawsSent(cache, f.sets)
    BY <2>7 DEF RawsSent
  <2>9. SetsState(c, l, s, e, f) /\ FedState(g, l)
    BY <1>2, <2>7, <2>8, Zenon DEF SetsState
  <2> QED
    BY <1>1, <2>6, <2>9, DecodesNext
<1>5. CASE \E idle \in BOOLEAN : EndUndrained(idle)
  <2>1. lost'
    BY <1>5 DEF EndUndrained
  <2>2. PICK c, l, s, e, f, g : c = cache' /\ l = lost' /\ s = seq' /\ e = session'
                                /\ f = firmware' /\ g = fed'
    OBVIOUS
  <2>3. SetsState(c, l, s, e, f) /\ FedState(g, l)
    BY <2>1, <2>2, Zenon DEF SetsState, FedState
  <2> QED
    BY <1>1, <2>2, <2>3, DecodesNext
<1>6. CASE Flush
  <2>1. /\ cache' = cache /\ lost' = lost /\ seq' = seq /\ firmware' = firmware /\ fed' = fed
        /\ session' = [session EXCEPT !.eos = TRUE]
    BY <1>6 DEF Flush, history
  <2>2. PICK e : e = session'
    OBVIOUS
  <2>3. e.started = session.started
    BY <2>1, <2>2 DEF AdapterInv, SessionHeld
  <2>4. SetsState(cache, lost, seq, e, firmware)
    BY <1>2, <2>3, Zenon DEF SetsState
  <2> QED
    BY <1>1, <1>2, <2>1, <2>2, <2>4, DecodesNext
<1>7. CASE \E idle \in BOOLEAN, fault \in {"none"} \cup (stream.faults \ {"drain"}) :
             EndPicture(idle, fault)
  BY <1>1, <1>7, DecodesEnds
<1> QED
  BY <1>3, <1>4, <1>5, <1>6, <1>7, Zenon DEF Next

LEMMA DecodesInit == Init => DecodesInv
<1> SUFFICES ASSUME Init PROVE DecodesInv
  OBVIOUS
<1>1. ~session.started /\ cache.sps = NoNal /\ cache.pps = NoNal /\ fed = NothingFed
  BY DEF Init, Closed, ResetSession
<1> QED
  BY <1>1, Zenon DEF DecodesInv, SetsState, FedState

LEMMA FedUnitParses == AdapterInv /\ DecodesInv => UnitsDecodable
<1> SUFFICES ASSUME AdapterInv, DecodesInv, fed # NothingFed, ~lost
             PROVE  UnitParses /\ (fed.whole => Cardinality(SlicesFed) = Len(fed.pic.slices))
  BY DEF UnitsDecodable
<1>1. /\ ParsesWith(fed.nals, fed.sets, fed.pic)
      /\ fed.whole => Cardinality(Slots(fed.nals)) = Len(fed.pic.slices)
  BY Zenon DEF DecodesInv, FedState
<1>2. SlicesFed = Slots(fed.nals)
  BY DEF SlicesFed, Slots
<1>3. \A i : Rank(i) = RankIn(fed.nals, i)
  BY <1>2 DEF Rank, RankIn
<1>4. Packings
  BY PicturesCanBeSent DEF AdapterInv
<1>5. ASSUME stream.codec = "h264" PROVE UnitParses
  <2>1. /\ H264Sps(fed.pic) \in fed.sets
        /\ \E s \in fed.sets :
              /\ s.nal = 8 /\ s.pps = fed.pic.pps /\ s.iq = fed.pic.iq
              /\ \A i \in SlicesFed : \A l \in DefaultRefs(fed.nals[i]) :
                    s.refs[l] = fed.nals[i].active[l]
        /\ \A i \in SlicesFed : fed.nals[i] = fed.pic.slices[Rank(i)]
    BY <1>1, <1>2, <1>3, <1>5, Zenon DEF ParsesWith
  <2> QED
    BY <1>5, <2>1, Zenon DEF UnitParses
<1>6. ASSUME stream.codec = "hevc" PROVE UnitParses
  <2>1. /\ PlaysPicture(fed.sets, fed.pic)
        /\ \A i \in SlicesFed : fed.nals[i].bytes = fed.pic.slices[Rank(i)].bytes
    BY <1>1, <1>2, <1>3, <1>6 DEF ParsesWith
  <2>2. PICK s \in fed.sets : s.nal = 33 /\ s.seq = fed.pic.seq /\ ~s.built
    BY <2>1, Zenon DEF PlaysPicture
  <2>3. \A i \in SlicesFed : HevcSliceDecodable(fed.nals[i], fed.pic.slices[Rank(i)], s)
    BY <2>1, <2>2, Zenon DEF HevcSliceDecodable
  <2>4. /\ \E n \in fed.sets : n.nal = 32 /\ n.seq = fed.pic.seq
        /\ \E n \in fed.sets : n.nal = 34 /\ n.id = fed.pic.ppsId /\ n.pps = fed.pic.pps
    BY <2>1, Zenon DEF PlaysPicture
  <2>5. stream.codec # "h264"
    BY <1>6
  <2> QED
    BY <1>6, <2>2, <2>3, <2>4, <2>5, Zenon DEF UnitParses
<1>7. ASSUME stream.codec = "vp9" PROVE UnitParses
  <2>1. stream.codec # "h264" /\ stream.codec # "hevc"
    BY <1>7
  <2> QED
    BY <1>7, <2>1, Zenon DEF UnitParses
<1>8. fed.whole => Cardinality(SlicesFed) = Len(fed.pic.slices)
  BY <1>1, <1>2
<1>9. UnitParses
  BY <1>4, <1>5, <1>6, <1>7, Zenon DEF Packings
<1> QED
  BY <1>8, <1>9

(* Every unit the firmware accepts it can also parse with the parameter sets   *)
(* it was given since its session was opened (h264_build_access_unit and       *)
(* hevc_build_access_unit with their caches, vpu_decode_end_impl's restart),   *)
(* and a picture sent whole has all its slices: H.264 however it is packed,    *)
(* HEVC with its own parameter sets, and VP9.                                  *)
THEOREM UnitsCanBeParsed ==
    ASSUME NoRewriting
    PROVE  Spec => []UnitsDecodable
<1>1. AdapterInv => ~Rewriting
  BY DEF NoRewriting, AdapterInv, Rewriting
<1>2. AdapterInv /\ SequenceInv /\ TypeInv /\ DecodesInv /\ [Next]_vars => DecodesInv'
  BY <1>1, DecodesStep
<1>3. Spec => []DecodesInv
  BY <1>2, DecodesInit, AdapterHolds, SequencesHold, TypesHold, PTL DEF Spec
<1> QED
  BY <1>3, FedUnitParses, AdapterHolds, PTL
=============================================================================
