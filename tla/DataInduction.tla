---------------------------- MODULE DataInduction ----------------------------
(* Induction over the natural numbers for sets, and what it gives for      *)
(* functions defined by recursion along a sequence: they exist, and what   *)
(* every step keeps holds of them.                                         *)
EXTENDS SequencesExt, Integers, WellFoundedInduction, TLAPS

LEMMA LeastNumber ==
    ASSUME NEW S \in SUBSET Nat, S # {}
    PROVE  \E m \in S : \A k \in S : m <= k
<1> DEFINE R == OpToRel(<, Nat)
<1>1. IsWellFoundedOn(R, Nat)
  BY NatLessThanWellFounded
<1>2. \A k \in Nat, l \in Nat : k < l => <<k, l>> \in R
  BY DEF OpToRel
<1> HIDE DEF R
<1>3. PICK m \in S : \A k \in S : <<k, m>> \notin R
  BY <1>1, WFMin
<1>4. \A k \in S : ~(k < m)
  BY <1>2, <1>3
<1>5. \A k \in S : m <= k
  BY <1>4
<1> QED BY <1>5

LEMMA SetInduction ==
    ASSUME NEW S, 0 \in S, \A i \in Nat : i \in S => i + 1 \in S
    PROVE  Nat \subseteq S
<1> SUFFICES ASSUME Nat \ S # {} PROVE FALSE
  OBVIOUS
<1>1. PICK m \in Nat \ S : \A k \in Nat \ S : m <= k
  BY LeastNumber
<1>2. m - 1 \in Nat /\ ~(m <= m - 1)
  BY <1>1
<1>3. (m - 1) + 1 \in S
  BY <1>1, <1>2
<1> QED BY <1>1, <1>3

LEMMA UpTo ==
    ASSUME NEW n \in Nat, NEW S, 0 \in S, \A i \in 0..n - 1 : i \in S => i + 1 \in S
    PROVE  0..n \subseteq S
<1> DEFINE T == {i \in Nat : i <= n => i \in S}
<1>1. 0 \in T /\ \A i \in Nat : i \in T => i + 1 \in T
  OBVIOUS
<1> HIDE DEF T
<1>2. Nat \subseteq T
  BY <1>1, SetInduction
<1> QED BY <1>2 DEF T

(* f[0] is the base, and f[i] what the i-th step makes of f[i - 1]. *)
Runs(f, n, base, steps) == f = [i \in 0..n |-> IF i = 0 THEN base ELSE steps[i][f[i - 1]]]

LEMMA RecursionExists ==
    ASSUME NEW V, NEW n \in Nat, NEW base \in V, NEW steps \in [1..n -> [V -> V]]
    PROVE  \E f \in [0..n -> V] : Runs(f, n, base, steps)
<1> DEFINE S == {k \in 0..n : \E f \in [0..k -> V] : Runs(f, k, base, steps)}
<1>1. 0 \in S
  <2> DEFINE f == [i \in 0..0 |-> base]
  <2>1. f \in [0..0 -> V] /\ Runs(f, 0, base, steps)
    BY DEF Runs
  <2> QED BY <2>1
<1>2. ASSUME NEW k \in 0..n - 1, k \in S PROVE k + 1 \in S
  <2>1. PICK f \in [0..k -> V] : Runs(f, k, base, steps)
    BY <1>2
  <2> DEFINE h == [i \in 0..k + 1 |-> IF i = k + 1 THEN steps[i][f[k]] ELSE f[i]]
  <2>2. h \in [0..k + 1 -> V]
    <3>1. k + 1 \in 1..n /\ f[k] \in V
      OBVIOUS
    <3>2. steps[k + 1][f[k]] \in V
      BY <3>1
    <3> QED BY <3>2
  <2>3. ASSUME NEW i \in 0..k + 1
        PROVE  h[i] = IF i = 0 THEN base ELSE steps[i][h[i - 1]]
    <3>1. CASE i = k + 1
      BY <3>1
    <3>2. CASE i \in 0..k
      <4>1. f[i] = IF i = 0 THEN base ELSE steps[i][f[i - 1]]
        BY <2>1, <3>2 DEF Runs
      <4>2. h[i] = f[i] /\ (i # 0 => h[i - 1] = f[i - 1])
        BY <3>2
      <4> QED BY <4>1, <4>2
    <3> QED BY <3>1, <3>2
  <2>4. Runs(h, k + 1, base, steps)
    <3>1. DOMAIN h = 0..k + 1 /\ h = [i \in 0..k + 1 |-> h[i]]
      OBVIOUS
    <3> HIDE DEF h
    <3> QED BY <2>3, <3>1 DEF Runs
  <2> HIDE DEF h
  <2> QED BY <2>2, <2>4
<1> HIDE DEF S
<1>3. 0..n \subseteq S
  BY <1>1, <1>2, UpTo
<1> QED BY <1>3 DEF S

(* The same for FoldLeft, whose recursion is over the sets of positions    *)
(* still to come.                                                          *)
LEMMA MaxUpTo ==
    ASSUME NEW k \in Nat, NEW s \in SUBSET (1..k + 1), k + 1 \in s
    PROVE  Max(s) = k + 1
<1>1. k + 1 \in s /\ \A y \in s : k + 1 >= y
  OBVIOUS
<1>2. \A x \in s : (\A y \in s : x >= y) => x = k + 1
  OBVIOUS
<1> QED BY <1>1, <1>2 DEF Max

FoldsOver(F, n, base, steps) ==
    F = [s \in SUBSET (1..n) |-> IF s = {} THEN base ELSE steps[Max(s)][F[s \ {Max(s)}]]]

LEMMA FoldExists ==
    ASSUME NEW V, NEW n \in Nat, NEW base \in V, NEW steps \in [1..n -> [V -> V]]
    PROVE  \E F \in [SUBSET (1..n) -> V] : FoldsOver(F, n, base, steps)
<1> DEFINE S == {k \in 0..n : \E F \in [SUBSET (1..k) -> V] : FoldsOver(F, k, base, steps)}
<1>1. 0 \in S
  <2> DEFINE F == [s \in SUBSET (1..0) |-> base]
  <2>1. \A s \in SUBSET (1..0) : s = {}
    OBVIOUS
  <2>2. F \in [SUBSET (1..0) -> V] /\ FoldsOver(F, 0, base, steps)
    BY <2>1 DEF FoldsOver
  <2> QED BY <2>2
<1>2. ASSUME NEW k \in 0..n - 1, k \in S PROVE k + 1 \in S
  <2>1. PICK F \in [SUBSET (1..k) -> V] : FoldsOver(F, k, base, steps)
    BY <1>2
  <2> DEFINE H == [s \in SUBSET (1..k + 1) |->
                      IF k + 1 \in s THEN steps[k + 1][F[s \ {k + 1}]] ELSE F[s]]
  <2>2. \A s \in SUBSET (1..k + 1) : s \ {k + 1} \in SUBSET (1..k)
    OBVIOUS
  <2>3. \A s \in SUBSET (1..k + 1) : k + 1 \notin s => s \in SUBSET (1..k)
    OBVIOUS
  <2>4. H \in [SUBSET (1..k + 1) -> V]
    <3>1. k + 1 \in 1..n
      OBVIOUS
    <3>2. \A s \in SUBSET (1..k + 1) : steps[k + 1][F[s \ {k + 1}]] \in V
      BY <2>2, <3>1
    <3>3. \A s \in SUBSET (1..k + 1) : k + 1 \notin s => F[s] \in V
      BY <2>3
    <3> QED BY <3>2, <3>3
  <2>5. ASSUME NEW s \in SUBSET (1..k + 1)
        PROVE  H[s] = IF s = {} THEN base ELSE steps[Max(s)][H[s \ {Max(s)}]]
    <3>1. CASE k + 1 \in s
      <4>1. Max(s) = k + 1
        BY <3>1, MaxUpTo
      <4>2. s \ {k + 1} \in SUBSET (1..k + 1) /\ k + 1 \notin s \ {k + 1}
        OBVIOUS
      <4>3. H[s \ {k + 1}] = F[s \ {k + 1}]
        BY <4>2
      <4> QED BY <3>1, <4>1, <4>3
    <3>2. CASE k + 1 \notin s
      <4>1. s \in SUBSET (1..k) /\ H[s] = F[s]
        BY <2>3, <3>2
      <4>2. F[s] = IF s = {} THEN base ELSE steps[Max(s)][F[s \ {Max(s)}]]
        BY <2>1, <4>1 DEF FoldsOver
      <4>3. s \ {Max(s)} \in SUBSET (1..k + 1) /\ k + 1 \notin s \ {Max(s)}
        BY <3>2
      <4>4. H[s \ {Max(s)}] = F[s \ {Max(s)}]
        BY <4>3
      <4> QED BY <4>1, <4>2, <4>4
    <3> QED BY <3>1, <3>2
  <2>6. FoldsOver(H, k + 1, base, steps)
    <3>1. H = [s \in SUBSET (1..k + 1) |-> H[s]]
      OBVIOUS
    <3> HIDE DEF H
    <3> QED BY <2>5, <3>1 DEF FoldsOver
  <2> HIDE DEF H
  <2> QED BY <2>4, <2>6
<1> HIDE DEF S
<1>3. 0..n \subseteq S
  BY <1>1, <1>2, UpTo
<1>4. n \in S
  BY <1>3
<1> QED BY <1>4 DEF S

(* Along 1..i, a fold does one step after the other. *)
LEMMA FoldStep ==
    ASSUME NEW n \in Nat, NEW k \in 1..n
    PROVE  /\ Max(1..k) = k
           /\ (1..k) \ {k} = 1..k - 1
           /\ 1..k \in SUBSET (1..n) /\ 1..k # {}
<1> DEFINE l == k - 1
<1>1. l \in Nat /\ k = l + 1 /\ 1..l + 1 \in SUBSET (1..l + 1) /\ l + 1 \in 1..l + 1
  OBVIOUS
<1>2. Max(1..l + 1) = l + 1
  <2> HIDE DEF l
  <2> QED BY <1>1, MaxUpTo
<1>3. Max(1..k) = k
  BY <1>1, <1>2
<1>4. (1..k) \ {k} = 1..k - 1
  OBVIOUS
<1> QED BY <1>3, <1>4
LEMMA GreatestNumber ==
    ASSUME NEW n \in Nat, NEW s \in SUBSET (1..n), s # {}
    PROVE  Max(s) \in s /\ \A y \in s : Max(s) >= y
<1> DEFINE T == {k \in Nat : n - k \in s}
<1>1. T \in SUBSET Nat /\ T # {}
  <2>1. PICK x \in s : TRUE
    OBVIOUS
  <2>2. n - x \in Nat /\ n - (n - x) = x
    OBVIOUS
  <2>3. n - x \in T
    BY <2>1, <2>2
  <2> QED BY <2>3
<1>2. PICK m \in T : \A k \in T : m <= k
  <2> HIDE DEF T
  <2> QED BY <1>1, LeastNumber
<1>3. n - m \in s /\ \A y \in s : n - m >= y
  <2> SUFFICES ASSUME NEW y \in s PROVE n - m >= y
    BY <1>2
  <2>1. n - y \in Nat /\ n - (n - y) = y
    OBVIOUS
  <2>2. n - y \in T
    BY <2>1
  <2> QED BY <1>2, <2>1, <2>2
<1> QED BY <1>3 DEF Max
-----------------------------------------------------------------------------
LEMMA RemainderNext ==
    ASSUME NEW t \in Nat \ {0}, NEW i \in Nat
    PROVE  /\ i % t \in 0..t - 1
           /\ (i + 1) % t = IF (i % t) + 1 = t THEN 0 ELSE (i % t) + 1
<1>1. \A q \in Int, r \in 0..t - 1 : (t * q + r) % t = r
  BY SMTT(60)
<1> DEFINE q == i \div t
           r == i % t
<1>2. i = t * q + r /\ r \in 0..t - 1 /\ q \in Int
  OBVIOUS
<1> HIDE DEF q, r
<1>3. CASE r + 1 = t
  <2>1. t * (q + 1) = t * q + t
    BY <1>2
  <2>2. t * (q + 1) + 0 = i + 1 /\ q + 1 \in Int
    BY <1>2, <1>3, <2>1
  <2>3. (t * (q + 1) + 0) % t = 0
    BY <1>1, <2>2
  <2> QED BY <1>2, <1>3, <2>2, <2>3 DEF r
<1>4. CASE r + 1 # t
  <2>1. r + 1 \in 0..t - 1 /\ t * q + (r + 1) = i + 1
    BY <1>2, <1>4
  <2>2. (t * q + (r + 1)) % t = r + 1
    BY <1>1, <1>2, <2>1
  <2> QED BY <1>2, <1>4, <2>1, <2>2 DEF r
<1> QED BY <1>3, <1>4

-----------------------------------------------------------------------------
(* Flattening what has been appended appends it. *)
FlattensAlong(F, s, S) ==
    /\ F \in [0..Len(s) -> Seq(S)] /\ F[0] = <<>>
    /\ \A i \in 1..Len(s) : F[i] = F[i - 1] \o s[i]
    /\ FlattenSeq(s) = F[Len(s)]

LEMMA FlattenRuns ==
    ASSUME NEW S, NEW s \in Seq(Seq(S))
    PROVE  \E F : FlattensAlong(F, s, S)
<1> DEFINE n == Len(s)
           steps == [i \in 1..n |-> [acc \in Seq(S) |-> acc \o s[i]]]
           Flat(g) == g = [i \in 1..n |-> IF i = 1 THEN s[i] ELSE g[i - 1] \o s[i]]
<1>1. n \in Nat /\ n \in 0..n /\ \A i \in 1..n : s[i] \in Seq(S)
  OBVIOUS
<1>2. <<>> \in Seq(S)
  OBVIOUS
<1>3. steps \in [1..n -> [Seq(S) -> Seq(S)]]
  <2>1. \A i \in 1..n : [acc \in Seq(S) |-> acc \o s[i]] \in [Seq(S) -> Seq(S)]
    BY <1>1
  <2> QED BY <2>1
<1>4. PICK F \in [0..n -> Seq(S)] : Runs(F, n, <<>>, steps)
  <2> HIDE DEF n, steps
  <2> QED BY <1>1, <1>2, <1>3, RecursionExists
<1>5. F[0] = <<>>
  <2>1. 0 \in 0..n
    BY <1>1
  <2> HIDE DEF n, steps
  <2> QED BY <1>4, <2>1 DEF Runs
<1>6. ASSUME NEW i \in 1..n PROVE F[i] = F[i - 1] \o s[i]
  <2>1. i \in 0..n /\ i # 0 /\ i - 1 \in 0..n
    BY <1>1
  <2>2. F[i] = steps[i][F[i - 1]]
    <3> HIDE DEF steps, n
    <3> QED BY <1>4, <2>1 DEF Runs
  <2>3. F[i - 1] \in Seq(S)
    BY <2>1
  <2> QED BY <2>2, <2>3
<1>7. CASE n = 0
  <2>1. s = <<>> /\ FlattenSeq(s) = s
    BY <1>7 DEF FlattenSeq
  <2>2. FlattenSeq(s) = F[n]
    BY <1>5, <1>7, <2>1
  <2> QED BY <1>5, <1>6, <2>2 DEF FlattensAlong
<1>8. CASE n # 0
  <2> DEFINE G == [i \in 1..n |-> F[i]]
             g == CHOOSE h : Flat(h)
  <2>1. Flat(G)
    <3>1. ASSUME NEW i \in 1..n
          PROVE  F[i] = IF i = 1 THEN s[i] ELSE G[i - 1] \o s[i]
      <4>1. CASE i = 1
        <5>1. F[i] = <<>> \o s[i]
          <6>1. F[i] = F[i - 1] \o s[i]
            BY <1>6, Zenon
          <6>2. i - 1 = 0
            BY <4>1
          <6> QED BY <1>5, <6>1, <6>2
        <5>2. <<>> \o s[i] = s[i]
          BY <1>1
        <5> QED BY <4>1, <5>1, <5>2
      <4>2. CASE i # 1
        <5>1. i - 1 \in 1..n
          BY <4>2, <1>1
        <5> QED BY <1>6, <4>2, <5>1
      <4> QED BY <4>1, <4>2
    <3> QED BY <3>1
  <2>2. Flat(g)
    <3> HIDE DEF Flat
    <3> QED BY <2>1
  <2>3. FlattenSeq(s) = g[n]
    BY <1>8, Zenon DEF FlattenSeq
  <2> HIDE DEF g, G
  <2>4. \A i \in 1..n : g[i] = IF i = 1 THEN s[i] ELSE g[i - 1] \o s[i]
    <3> HIDE DEF n
    <3> QED BY <2>2
  <2> HIDE DEF Flat, steps
  <2> DEFINE T == {i \in 0..n : i # 0 => g[i] = F[i]}
  <2>5. 0 \in T
    BY <1>1
  <2>6. \A i \in 0..n - 1 : i \in T => i + 1 \in T
    <3> SUFFICES ASSUME NEW i \in 0..n - 1, i \in T PROVE i + 1 \in T
      OBVIOUS
    <3>1. i + 1 \in 1..n /\ i + 1 \in 0..n /\ (i + 1) - 1 = i
      BY <1>1
    <3>2. F[i + 1] = F[i] \o s[i + 1]
      BY <1>6, <3>1
    <3> DEFINE j == i + 1
    <3>3. g[j] = IF j = 1 THEN s[j] ELSE g[j - 1] \o s[j]
      <4> HIDE DEF j
      <4> QED BY <2>4, <3>1 DEF j
    <3>4. CASE i = 0
      <4>1. g[1] = s[1]
        BY <3>3, <3>4
      <4>2. i + 1 = 1
        BY <3>4
      <4>3. F[1] = <<>> \o s[1]
        BY <1>5, <3>2, <3>4, <4>2, Zenon
      <4>4. <<>> \o s[1] = s[1]
        <5>1. s[1] \in Seq(S)
          BY <1>1, <3>1, <4>2
        <5> QED BY <5>1
      <4> QED BY <3>1, <4>1, <4>2, <4>3, <4>4, Zenon
    <3>5. CASE i # 0
      <4>1. g[i] = F[i]
        BY <3>5
      <4>2. g[i + 1] = g[i] \o s[i + 1]
        <5>1. j - 1 = i /\ j # 1
          BY <3>1, <3>5
        <5> QED BY <3>3, <5>1, Zenon DEF j
      <4> QED BY <3>1, <3>2, <4>1, <4>2
    <3> QED BY <3>4, <3>5
  <2>7. n \in T
    <3> HIDE DEF T, n
    <3>1. 0..n \subseteq T
      BY <1>1, <2>5, <2>6, UpTo
    <3> QED BY <1>1, <3>1
  <2>8. FlattenSeq(s) = F[n]
    BY <1>8, <2>3, <2>7
  <2> QED BY <1>5, <1>6, <2>8 DEF FlattensAlong
<1> QED BY <1>7, <1>8

LEMMA FlattenAppend ==
    ASSUME NEW S, NEW s \in Seq(Seq(S)), NEW x \in Seq(S)
    PROVE  /\ FlattenSeq(s) \in Seq(S)
           /\ FlattenSeq(Append(s, x)) = FlattenSeq(s) \o x
<1> DEFINE n == Len(s)
           t == Append(s, x)
<1>1. /\ n \in Nat /\ t \in Seq(Seq(S)) /\ Len(t) = n + 1 /\ t[n + 1] = x
      /\ \A i \in 1..n : t[i] = s[i]
  OBVIOUS
<1> HIDE DEF t
<1>2. PICK F : FlattensAlong(F, s, S)
  BY FlattenRuns
<1>3. PICK G : FlattensAlong(G, t, S)
  BY <1>1, FlattenRuns
<1> DEFINE T == {i \in 0..n : G[i] = F[i]}
<1>4. 0 \in T
  BY <1>1, <1>2, <1>3 DEF FlattensAlong
<1>5. \A i \in 0..n - 1 : i \in T => i + 1 \in T
  <2> SUFFICES ASSUME NEW i \in 0..n - 1, G[i] = F[i] PROVE i + 1 \in T
    OBVIOUS
  <2>1. i + 1 \in 1..n /\ i + 1 \in 1..n + 1 /\ i + 1 \in 0..n /\ (i + 1) - 1 = i
    BY <1>1
  <2>2. F[i + 1] = F[i] \o s[i + 1] /\ G[i + 1] = G[i] \o t[i + 1]
    BY <1>1, <1>2, <1>3, <2>1 DEF FlattensAlong
  <2> QED BY <1>1, <2>1, <2>2
<1>6. n \in T
  <2> HIDE DEF T, n
  <2>1. 0..n \subseteq T
    BY <1>1, <1>4, <1>5, UpTo
  <2> QED BY <1>1, <2>1
<1>7. n + 1 \in 1..n + 1 /\ (n + 1) - 1 = n /\ n \in 0..n
  BY <1>1
<1>8. G[n + 1] = G[n] \o x
  BY <1>1, <1>3, <1>7 DEF FlattensAlong
<1>9. FlattenSeq(s) = F[n] /\ FlattenSeq(t) = G[n + 1] /\ F[n] \in Seq(S)
  BY <1>1, <1>2, <1>3, <1>7 DEF FlattensAlong
<1> QED BY <1>6, <1>8, <1>9 DEF t
=============================================================================
