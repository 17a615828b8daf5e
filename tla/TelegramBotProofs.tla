-------------------------- MODULE TelegramBotProofs --------------------------
(* Invariants of the bot, for every set of chats, messages and tracks.     *)
EXTENDS TelegramBot, DataInduction

-----------------------------------------------------------------------------
(* What take_while has after each track. *)
Accs == [total: Nat, goes: BOOLEAN, kept: Seq(Tracks)]
TakeNone == [total |-> 0, goes |-> TRUE, kept |-> <<>>]

LEMMA TakingType ==
    ASSUME NEW acc \in Accs, NEW t \in Tracks
    PROVE  Taking(acc, t) \in Accs
<1>1. Duration[t] \in Nat
  BY TrackListsAssumption
<1>2. acc.total + Duration[t] \in Nat /\ Append(acc.kept, t) \in Seq(Tracks)
  BY <1>1 DEF Accs
<1>3. MaxDuration \in Nat
  BY TrackListsAssumption
<1> QED BY <1>2, <1>3 DEF Taking, Accs

TakesAlong(f, list) ==
    /\ f \in [0..Len(list) -> Accs] /\ f[0] = TakeNone
    /\ \A i \in 1..Len(list) : f[i] = Taking(f[i - 1], list[i])
    /\ TakeWhile(Taking, list) = f[Len(list)].kept

LEMMA TakingRuns ==
    ASSUME NEW list \in Seq(Tracks)
    PROVE  \E f : TakesAlong(f, list)
<1> DEFINE n == Len(list)
           steps == [i \in 1..n |-> [acc \in Accs |-> Taking(acc, list[i])]]
           Fold(it) == it = [s \in SUBSET DOMAIN list |->
                                IF s = {} THEN TakeNone
                                ELSE Taking(it[s \ {Max(s)}], list[Max(s)])]
<1>1. n \in Nat /\ DOMAIN list = 1..n /\ \A i \in 1..n : list[i] \in Tracks
  OBVIOUS
<1>2. steps \in [1..n -> [Accs -> Accs]] /\ TakeNone \in Accs
  <2>1. \A i \in 1..n : [acc \in Accs |-> Taking(acc, list[i])] \in [Accs -> Accs]
    BY <1>1, TakingType
  <2>2. TakeNone \in Accs
    BY DEF TakeNone, Accs
  <2> QED BY <2>1, <2>2
<1>3. PICK F \in [SUBSET (1..n) -> Accs] : FoldsOver(F, n, TakeNone, steps)
  <2> HIDE DEF n, steps
  <2> QED BY <1>1, <1>2, FoldExists
<1>4. Fold(F)
  <2>1. ASSUME NEW s \in SUBSET (1..n), s # {}
        PROVE  steps[Max(s)][F[s \ {Max(s)}]] = Taking(F[s \ {Max(s)}], list[Max(s)])
    <3>1. F[s \ {Max(s)}] \in Accs
      OBVIOUS
    <3>2. Max(s) \in 1..n
      <4> HIDE DEF n
      <4> QED BY <1>1, <2>1, GreatestNumber
    <3> QED BY <3>1, <3>2
  <2> HIDE DEF steps
  <2> QED BY <1>1, <1>3, <2>1 DEF FoldsOver
<1> DEFINE it == CHOOSE g : Fold(g)
<1>5. Fold(it)
  <2> HIDE DEF Fold
  <2> QED BY <1>4
<1>6. TakeWhile(Taking, list) = it[DOMAIN list].kept
  BY Zenon DEF TakeWhile, FoldLeft, MapThenFoldSet, TakeNone
<1> HIDE DEF it
<1> DEFINE f == [i \in 0..n |-> it[1..i]]
<1>7. f[0] = TakeNone
  <2>1. 1..0 = {}
    OBVIOUS
  <2> QED BY <1>5, <2>1
<1>8. \A i \in 1..n : f[i] = Taking(f[i - 1], list[i])
  <2> SUFFICES ASSUME NEW i \in 1..n PROVE f[i] = Taking(f[i - 1], list[i])
    OBVIOUS
  <2>1. /\ Max(1..i) = i /\ (1..i) \ {i} = 1..i - 1
        /\ 1..i \in SUBSET DOMAIN list /\ 1..i # {}
    BY <1>1, FoldStep
  <2>2. it[1..i] = Taking(it[1..i - 1], list[i])
    <3>1. it[1..i] = Taking(it[(1..i) \ {Max(1..i)}], list[Max(1..i)])
      BY <1>5, <2>1
    <3> QED BY <2>1, <3>1
  <2>3. i \in 0..n /\ i - 1 \in 0..n
    BY <1>1
  <2> QED BY <2>2, <2>3
<1>9. f \in [0..n -> Accs]
  <2> DEFINE T == {i \in 0..n : f[i] \in Accs}
  <2>1. 0 \in T
    BY <1>1, <1>2, <1>7
  <2>2. \A i \in 0..n - 1 : i \in T => i + 1 \in T
    <3> HIDE DEF f
    <3> SUFFICES ASSUME NEW i \in 0..n - 1, f[i] \in Accs PROVE f[i + 1] \in Accs
      BY <1>1
    <3>1. i + 1 \in 1..n /\ (i + 1) - 1 = i
      BY <1>1
    <3>2. f[i + 1] = Taking(f[i], list[i + 1]) /\ list[i + 1] \in Tracks
      BY <1>1, <1>8, <3>1
    <3> QED BY <3>2, TakingType
  <2>3. 0..n \subseteq T
    <3> HIDE DEF T, n
    <3> QED BY <1>1, <2>1, <2>2, UpTo
  <2> QED BY <2>3
<1>10. TakeWhile(Taking, list) = f[n].kept
  BY <1>1, <1>6
<1> HIDE DEF f
<1> QED BY <1>7, <1>8, <1>9, <1>10 DEF TakesAlong

-----------------------------------------------------------------------------
(* Filtering keeps to the tracks. *)
LEMMA AdmissibleType ==
    ASSUME NEW list \in Seq(Tracks)
    PROVE  Admissible(list) \in Seq(Tracks)
<1> DEFINE n == Len(list)
           grown(acc, i) == IF OnlyMusic /\ list[i] \notin Music THEN acc
                            ELSE Append(acc, list[i])
           steps == [i \in 1..n |-> [acc \in Seq(Tracks) |-> grown(acc, i)]]
           Kept(k) == k = [i \in 0..n |-> IF i = 0 THEN <<>> ELSE grown(k[i - 1], i)]
<1>1. n \in Nat /\ \A i \in 1..n : list[i] \in Tracks
  OBVIOUS
<1>2. \A i \in 1..n, acc \in Seq(Tracks) : grown(acc, i) \in Seq(Tracks)
  BY <1>1
<1>3. steps \in [1..n -> [Seq(Tracks) -> Seq(Tracks)]]
  <2> HIDE DEF grown
  <2>1. \A i \in 1..n : [acc \in Seq(Tracks) |-> grown(acc, i)] \in [Seq(Tracks) -> Seq(Tracks)]
    BY <1>2
  <2> QED BY <2>1
<1>4. PICK f \in [0..n -> Seq(Tracks)] : Runs(f, n, <<>>, steps)
  <2> HIDE DEF n, steps
  <2>1. <<>> \in Seq(Tracks)
    OBVIOUS
  <2> QED BY <1>1, <1>3, <2>1, RecursionExists
<1>5. Kept(f)
  <2>1. ASSUME NEW i \in 0..n, i # 0 PROVE steps[i][f[i - 1]] = grown(f[i - 1], i)
    <3>1. i \in 1..n /\ f[i - 1] \in Seq(Tracks)
      BY <1>1, <2>1
    <3> HIDE DEF grown, n
    <3> QED BY <3>1
  <2> HIDE DEF steps, grown
  <2> QED BY <1>4, <2>1 DEF Runs
<1> DEFINE kept == CHOOSE k : Kept(k)
<1>6. Kept(kept)
  <2> HIDE DEF Kept
  <2> QED BY <1>5
<1>7. Admissible(list) = kept[n]
  BY Zenon DEF Admissible
<1> HIDE DEF kept
<1> DEFINE T == {i \in 0..n : kept[i] \in Seq(Tracks)}
<1>8. 0 \in T
  <2>1. 0 \in 0..n /\ kept[0] = <<>>
    BY <1>1, <1>6
  <2>2. <<>> \in Seq(Tracks)
    OBVIOUS
  <2> QED BY <2>1, <2>2
<1>9. \A i \in 0..n - 1 : i \in T => i + 1 \in T
  <2> SUFFICES ASSUME NEW i \in 0..n - 1, kept[i] \in Seq(Tracks)
               PROVE  i + 1 \in T
    OBVIOUS
  <2>1. i + 1 \in 1..n /\ i + 1 \in 0..n /\ i + 1 # 0 /\ (i + 1) - 1 = i
    BY <1>1
  <2> HIDE DEF grown, n
  <2>2. kept[i + 1] = grown(kept[i], i + 1)
    BY <1>6, <2>1
  <2>3. kept[i + 1] \in Seq(Tracks)
    BY <1>2, <2>1, <2>2
  <2> QED BY <2>1, <2>3
<1> HIDE DEF T, n
<1>10. 0..n \subseteq T
  BY <1>1, <1>8, <1>9, UpTo
<1>11. n \in T
  BY <1>1, <1>10
<1> QED BY <1>7, <1>11 DEF T

LEMMA FilterTracksType ==
    ASSUME NEW list \in Seq(Tracks)
    PROVE  FilterTracks(list) \in Seq(Tracks)
<1> DEFINE all == Admissible(list)
<1>1. all \in Seq(Tracks) /\ Len(all) \in 0..Len(all)
  BY AdmissibleType
<1>2. PICK f : TakesAlong(f, all)
  BY <1>1, TakingRuns
<1> HIDE DEF all
<1>3. f[Len(all)] \in Accs /\ TakeWhile(Taking, all) = f[Len(all)].kept
  BY <1>1, <1>2 DEF TakesAlong
<1> QED BY <1>3 DEF Accs, FilterTracks, all
-----------------------------------------------------------------------------
(* What is taken is the longest beginning within the duration. *)
TotalsAlong(g, list) ==
    /\ g \in [0..Len(list) -> Nat] /\ g[0] = 0
    /\ \A i \in 1..Len(list) : g[i] = g[i - 1] + Duration[list[i]]
    /\ TotalOf(list) = g[Len(list)]

LEMMA TotalRuns ==
    ASSUME NEW list \in Seq(Tracks)
    PROVE  \E g : TotalsAlong(g, list)
<1> DEFINE n == Len(list)
           steps == [i \in 1..n |-> [sum \in Nat |-> sum + Duration[list[i]]]]
           Fold(it) == it = [s \in SUBSET DOMAIN list |->
                                IF s = {} THEN 0
                                ELSE it[s \ {Max(s)}] + Duration[list[Max(s)]]]
<1>1. n \in Nat /\ DOMAIN list = 1..n /\ \A i \in 1..n : Duration[list[i]] \in Nat
  BY TrackListsAssumption
<1>2. steps \in [1..n -> [Nat -> Nat]]
  <2>1. \A i \in 1..n : [sum \in Nat |-> sum + Duration[list[i]]] \in [Nat -> Nat]
    BY <1>1
  <2> QED BY <2>1
<1>3. PICK F \in [SUBSET (1..n) -> Nat] : FoldsOver(F, n, 0, steps)
  <2> HIDE DEF n, steps
  <2> QED BY <1>1, <1>2, FoldExists
<1>4. Fold(F)
  <2>1. ASSUME NEW s \in SUBSET (1..n), s # {}
        PROVE  steps[Max(s)][F[s \ {Max(s)}]] = F[s \ {Max(s)}] + Duration[list[Max(s)]]
    <3>1. F[s \ {Max(s)}] \in Nat
      OBVIOUS
    <3>2. Max(s) \in 1..n
      <4> HIDE DEF n
      <4> QED BY <1>1, <2>1, GreatestNumber
    <3> QED BY <3>1, <3>2
  <2> HIDE DEF steps
  <2> QED BY <1>1, <1>3, <2>1 DEF FoldsOver
<1> DEFINE it == CHOOSE g : Fold(g)
<1>5. Fold(it)
  <2> HIDE DEF Fold
  <2> QED BY <1>4
<1>6. TotalOf(list) = it[DOMAIN list]
  BY Zenon DEF TotalOf, FoldLeft, MapThenFoldSet
<1> HIDE DEF it
<1> DEFINE g == [i \in 0..n |-> it[1..i]]
<1>7. g[0] = 0
  <2>1. 1..0 = {}
    OBVIOUS
  <2> QED BY <1>5, <2>1
<1>8. \A i \in 1..n : g[i] = g[i - 1] + Duration[list[i]]
  <2> SUFFICES ASSUME NEW i \in 1..n PROVE g[i] = g[i - 1] + Duration[list[i]]
    OBVIOUS
  <2>1. /\ Max(1..i) = i /\ (1..i) \ {i} = 1..i - 1
        /\ 1..i \in SUBSET DOMAIN list /\ 1..i # {}
    BY <1>1, FoldStep
  <2>2. it[1..i] = it[1..i - 1] + Duration[list[i]]
    <3>1. it[1..i] = it[(1..i) \ {Max(1..i)}] + Duration[list[Max(1..i)]]
      BY <1>5, <2>1
    <3> QED BY <2>1, <3>1
  <2>3. i \in 0..n /\ i - 1 \in 0..n
    BY <1>1
  <2> QED BY <2>2, <2>3
<1>9. g \in [0..n -> Nat]
  <2> DEFINE T == {i \in 0..n : g[i] \in Nat}
  <2>1. 0 \in T
    BY <1>1, <1>7
  <2>2. \A i \in 0..n - 1 : i \in T => i + 1 \in T
    <3> HIDE DEF g
    <3> SUFFICES ASSUME NEW i \in 0..n - 1, g[i] \in Nat PROVE g[i + 1] \in Nat
      BY <1>1
    <3>1. i + 1 \in 1..n /\ (i + 1) - 1 = i
      BY <1>1
    <3>2. g[i + 1] = g[i] + Duration[list[i + 1]] /\ Duration[list[i + 1]] \in Nat
      BY <1>1, <1>8, <3>1
    <3> QED BY <3>2
  <2>3. 0..n \subseteq T
    <3> HIDE DEF T, n
    <3> QED BY <1>1, <2>1, <2>2, UpTo
  <2> QED BY <2>3
<1>10. TotalOf(list) = g[n]
  BY <1>1, <1>6
<1> HIDE DEF g
<1> QED BY <1>7, <1>8, <1>9, <1>10 DEF TotalsAlong

LEMMA TakesOneMore ==
    ASSUME NEW list \in Seq(Tracks), NEW f, TakesAlong(f, list), NEW i \in 0..Len(list) - 1
    PROVE  /\ i \in 0..Len(list) /\ i + 1 \in 0..Len(list)
           /\ f[i].total \in Nat /\ f[i + 1].total \in Nat
           /\ f[i].total <= f[i + 1].total
           /\ f[i + 1].total = f[i].total + Duration[list[i + 1]]
           /\ f[i + 1].goes <=> f[i].goes /\ f[i + 1].total <= MaxDuration
           /\ f[i + 1].kept = IF f[i + 1].goes THEN Append(f[i].kept, list[i + 1])
                              ELSE f[i].kept
<1>1. i + 1 \in 1..Len(list) /\ i \in 0..Len(list) /\ (i + 1) - 1 = i
  OBVIOUS
<1>2. f[i + 1] = Taking(f[i], list[i + 1]) /\ f[i] \in Accs
  BY <1>1 DEF TakesAlong
<1>3. Duration[list[i + 1]] \in Nat
  BY <1>1, TrackListsAssumption
<1>4. f[i].total \in Nat /\ f[i].goes \in BOOLEAN
  BY <1>2 DEF Accs
<1>5. f[i].total + Duration[list[i + 1]] \in Nat
      /\ f[i].total <= f[i].total + Duration[list[i + 1]]
  BY <1>3, <1>4
<1> DEFINE next == f[i].total + Duration[list[i + 1]]
           goes == f[i].goes /\ next <= MaxDuration
<1>8. f[i + 1] = [total |-> next, goes |-> goes,
                  kept |-> IF goes THEN Append(f[i].kept, list[i + 1]) ELSE f[i].kept]
  BY <1>2, Zenon DEF Taking
<1>9. f[i + 1].total = next /\ f[i + 1].goes = goes
      /\ f[i + 1].kept = IF goes THEN Append(f[i].kept, list[i + 1]) ELSE f[i].kept
  <2> HIDE DEF next, goes
  <2> QED BY <1>8
<1>10. f[i + 1].kept = IF f[i + 1].goes THEN Append(f[i].kept, list[i + 1]) ELSE f[i].kept
  <2> HIDE DEF next, goes
  <2> QED BY <1>9, Zenon
<1>11. /\ f[i + 1].total \in Nat /\ f[i].total <= f[i + 1].total
       /\ f[i + 1].total = f[i].total + Duration[list[i + 1]]
  BY <1>5, <1>9
<1>12. f[i + 1].goes <=> f[i].goes /\ f[i + 1].total <= MaxDuration
  BY <1>9, Zenon
<1> QED BY <1>1, <1>4, <1>10, <1>11, <1>12
LEMMA TotalOfPrefix ==
    ASSUME NEW list \in Seq(Tracks), NEW f, TakesAlong(f, list), NEW l \in 0..Len(list)
    PROVE  TotalOf(SubSeq(list, 1, l)) = f[l].total
<1> DEFINE p == SubSeq(list, 1, l)
<1>1. p \in Seq(Tracks) /\ Len(p) = l /\ l \in Nat /\ \A i \in 1..l : p[i] = list[i]
  OBVIOUS
<1> HIDE DEF p
<1>2. PICK g : TotalsAlong(g, p)
  BY <1>1, TotalRuns
<1> DEFINE T == {i \in 0..l : g[i] = f[i].total}
<1>3. 0 \in T
  BY <1>1, <1>2 DEF TotalsAlong, TakesAlong, TakeNone
<1>4. \A i \in 0..l - 1 : i \in T => i + 1 \in T
  <2> SUFFICES ASSUME NEW i \in 0..l - 1, g[i] = f[i].total PROVE i + 1 \in T
    OBVIOUS
  <2>1. i \in 0..Len(list) - 1 /\ i + 1 \in 1..l /\ i + 1 \in 0..l /\ (i + 1) - 1 = i
    BY <1>1
  <2>2. f[i + 1].total = f[i].total + Duration[list[i + 1]]
    BY <2>1, TakesOneMore
  <2>3. g[i + 1] = g[i] + Duration[p[i + 1]]
    BY <1>1, <1>2, <2>1 DEF TotalsAlong
  <2> QED BY <1>1, <2>1, <2>2, <2>3
<1>5. l \in T
  <2> HIDE DEF T
  <2>1. 0..l \subseteq T
    BY <1>1, <1>3, <1>4, UpTo
  <2> QED BY <1>1, <2>1
<1> QED BY <1>1, <1>2, <1>5 DEF TotalsAlong, p

LEMMA TotalsGrow ==
    ASSUME NEW list \in Seq(Tracks), NEW f, TakesAlong(f, list)
    PROVE  \A j \in 0..Len(list) : f[j].total \in Nat
                                   /\ \A i \in 0..j : f[i].total <= f[j].total
<1> DEFINE n == Len(list)
           T == {j \in 0..n : f[j].total \in Nat /\ \A i \in 0..j : f[i].total <= f[j].total}
<1>1. n \in Nat
  OBVIOUS
<1>2. 0 \in T
  <2>1. f[0].total = 0
    BY DEF TakesAlong, TakeNone
  <2>2. \A i \in 0..0 : i = 0
    OBVIOUS
  <2> QED BY <1>1, <2>1, <2>2
<1>3. \A j \in 0..n - 1 : j \in T => j + 1 \in T
  <2> SUFFICES ASSUME NEW j \in 0..n - 1, j \in T PROVE j + 1 \in T
    OBVIOUS
  <2>1. /\ f[j].total \in Nat /\ f[j + 1].total \in Nat
        /\ f[j].total <= f[j + 1].total /\ j + 1 \in 0..n
    BY TakesOneMore
  <2>2. ASSUME NEW i \in 0..j + 1 PROVE f[i].total <= f[j + 1].total
    <3>1. CASE i = j + 1
      BY <2>1, <3>1
    <3>2. CASE i \in 0..j
      <4>1. f[i].total <= f[j].total
        BY <3>2
      <4>2. f[i].total \in Nat
        BY <3>2 DEF TakesAlong, Accs
      <4> QED BY <2>1, <4>1, <4>2
    <3> QED BY <3>1, <3>2
  <2> QED BY <2>1, <2>2
<1> HIDE DEF T, n
<1>4. 0..n \subseteq T
  BY <1>1, <1>2, <1>3, UpTo
<1> QED BY <1>4 DEF T, n

(* After i tracks, those kept are the first k, and if k is not i the next  *)
(* one has been too much.                                                  *)
KeptUpTo(f, list, i, k) ==
    /\ f[i].kept = SubSeq(list, 1, k) /\ f[k].total <= MaxDuration
    /\ IF f[i].goes THEN k = i ELSE k < i /\ ~(f[k + 1].total <= MaxDuration)

LEMMA KeepsBeginning ==
    ASSUME NEW list \in Seq(Tracks), NEW f, TakesAlong(f, list)
    PROVE  \A i \in 0..Len(list) : \E k \in 0..i : KeptUpTo(f, list, i, k)
<1> DEFINE n == Len(list)
           T == {i \in 0..n : \E k \in 0..i : KeptUpTo(f, list, i, k)}
<1>1. n \in Nat
  OBVIOUS
<1>2. 0 \in T
  <2>1. f[0].total = 0 /\ f[0].kept = <<>> /\ f[0].goes = TRUE
    BY DEF TakesAlong, TakeNone
  <2>2. SubSeq(list, 1, 0) = <<>>
    OBVIOUS
  <2>3. 0 <= MaxDuration
    BY TrackListsAssumption
  <2>4. KeptUpTo(f, list, 0, 0)
    BY <2>1, <2>2, <2>3 DEF KeptUpTo
  <2> QED BY <1>1, <2>4
<1>3. \A i \in 0..n - 1 : i \in T => i + 1 \in T
  <2> SUFFICES ASSUME NEW i \in 0..n - 1, NEW k \in 0..i, KeptUpTo(f, list, i, k)
               PROVE  i + 1 \in T
    OBVIOUS
  <2>1. /\ i + 1 \in 0..n
        /\ f[i + 1].goes <=> f[i].goes /\ f[i + 1].total <= MaxDuration
        /\ f[i + 1].kept = IF f[i + 1].goes THEN Append(f[i].kept, list[i + 1])
                           ELSE f[i].kept
    BY TakesOneMore
  <2>2. CASE f[i + 1].goes
    <3>1. k = i /\ f[i].kept = SubSeq(list, 1, i)
      BY <2>1, <2>2 DEF KeptUpTo
    <3>2. Append(SubSeq(list, 1, i), list[i + 1]) = SubSeq(list, 1, i + 1)
      OBVIOUS
    <3>3. KeptUpTo(f, list, i + 1, i + 1)
      BY <2>1, <2>2, <3>1, <3>2 DEF KeptUpTo
    <3>4. i + 1 \in 0..i + 1
      OBVIOUS
    <3> QED BY <2>1, <3>3, <3>4
  <2>3. CASE ~f[i + 1].goes
    <3>1. k < i + 1 /\ ~(f[k + 1].total <= MaxDuration)
      BY <2>1, <2>3 DEF KeptUpTo
    <3>2. KeptUpTo(f, list, i + 1, k)
      BY <2>1, <2>3, <3>1 DEF KeptUpTo
    <3>3. k \in 0..i + 1
      OBVIOUS
    <3> QED BY <2>1, <3>2, <3>3
  <2> QED BY <2>2, <2>3
<1> HIDE DEF T, n
<1>4. 0..n \subseteq T
  BY <1>1, <1>2, <1>3, UpTo
<1> QED BY <1>4 DEF T, n

LEMMA TakesLongest ==
    ASSUME NEW list \in Seq(Tracks)
    PROVE  TakeWhile(Taking, list) = LongestWithin(list)
<1> DEFINE n == Len(list)
           Longest(p) == /\ TotalOf(p) <= MaxDuration
                         /\ \A q \in Prefixes(list) : TotalOf(q) <= MaxDuration => Len(q) <= Len(p)
<1>1. PICK f : TakesAlong(f, list)
  BY TakingRuns
<1>2. n \in Nat /\ n \in 0..n
  OBVIOUS
<1>3. PICK k \in 0..n : KeptUpTo(f, list, n, k)
  BY <1>1, <1>2, KeepsBeginning
<1>4. \A l \in 0..n : /\ SubSeq(list, 1, l) \in Prefixes(list)
                      /\ Len(SubSeq(list, 1, l)) = l
                      /\ TotalOf(SubSeq(list, 1, l)) = f[l].total
  <2>1. \A l \in 0..n : Len(SubSeq(list, 1, l)) = l
    OBVIOUS
  <2> QED BY <1>1, <2>1, TotalOfPrefix DEF Prefixes
<1>5. ASSUME NEW l \in 0..n, f[l].total <= MaxDuration PROVE l <= k
  <2> SUFFICES ASSUME k < l PROVE FALSE
    OBVIOUS
  <2>1. k # n /\ k + 1 \in 0..l
    OBVIOUS
  <2>2. ~(f[k + 1].total <= MaxDuration)
    BY <1>3, <2>1 DEF KeptUpTo
  <2>3. f[l].total \in Nat /\ f[k + 1].total <= f[l].total
    BY <1>1, <2>1, TotalsGrow
  <2>4. f[k + 1].total \in Nat
    BY <1>1, <2>1, TotalsGrow
  <2> QED BY <1>5, <2>2, <2>3, <2>4, TrackListsAssumption
<1>6. Longest(SubSeq(list, 1, k))
  <2>1. f[k].total <= MaxDuration
    BY <1>3 DEF KeptUpTo
  <2> HIDE DEF n
  <2>2. ASSUME NEW q \in Prefixes(list), TotalOf(q) <= MaxDuration
        PROVE  Len(q) <= Len(SubSeq(list, 1, k))
    <3>1. PICK l \in 0..n : q = SubSeq(list, 1, l)
      BY DEF Prefixes, n
    <3> QED BY <1>4, <1>5, <2>2, <3>1
  <2> QED BY <1>4, <2>1, <2>2
<1>7. ASSUME NEW p \in Prefixes(list), Longest(p) PROVE p = SubSeq(list, 1, k)
  <2>1. PICK l \in 0..n : p = SubSeq(list, 1, l)
    BY DEF Prefixes
  <2>2. l <= k
    BY <1>4, <1>5, <1>7, <2>1
  <2>3. k <= l
    <3> HIDE DEF n
    <3>1. f[k].total <= MaxDuration
      BY <1>3 DEF KeptUpTo
    <3> QED BY <1>4, <1>7, <2>1, <3>1
  <2>4. l = k
    BY <2>2, <2>3
  <2> QED BY <2>1, <2>4
<1>8. LongestWithin(list) = CHOOSE p \in Prefixes(list) : Longest(p)
  BY DEF LongestWithin
<1>9. LongestWithin(list) = SubSeq(list, 1, k)
  <2> HIDE DEF Longest, n
  <2> QED BY <1>4, <1>6, <1>7, <1>8
<1>10. TakeWhile(Taking, list) = SubSeq(list, 1, k)
  BY <1>1, <1>3 DEF TakesAlong, KeptUpTo
<1> QED BY <1>9, <1>10
-----------------------------------------------------------------------------
(* What has been written after each track. *)
Texts == [header: BOOLEAN, tracks: Seq(Tracks)]
Writings == [count: Nat, texts: Seq(Texts), text: Texts]
NothingWritten(header) == [count |-> 0, texts |-> <<>>, text |-> Text(header, <<>>)]
Extended(acc, t) == [acc.text EXCEPT !.tracks = Append(@, t)]
Full(acc) == (acc.count + 1) % TracksInMessage = 0

LEMMA WritingResult ==
    ASSUME NEW acc \in Writings, NEW t \in Tracks
    PROVE  /\ Writing(acc, t) \in Writings
           /\ Writing(acc, t).count = acc.count + 1
           /\ Full(acc) => /\ Writing(acc, t).texts = Append(acc.texts, Extended(acc, t))
                           /\ Writing(acc, t).text = Text(FALSE, <<>>)
           /\ ~Full(acc) => /\ Writing(acc, t).texts = acc.texts
                            /\ Writing(acc, t).text = Extended(acc, t)
           /\ Extended(acc, t) \in Texts
           /\ Extended(acc, t).tracks = Append(acc.text.tracks, t)
           /\ Extended(acc, t).header = acc.text.header
<1>1. acc.text \in Texts /\ acc.text.tracks \in Seq(Tracks) /\ acc.texts \in Seq(Texts)
  BY DEF Writings, Texts
<1>2. Append(acc.text.tracks, t) \in Seq(Tracks)
  BY <1>1
<1>3. /\ Extended(acc, t) \in Texts
      /\ Extended(acc, t).tracks = Append(acc.text.tracks, t)
      /\ Extended(acc, t).header = acc.text.header
  BY <1>1, <1>2 DEF Extended, Texts
<1>4. Text(FALSE, <<>>) \in Texts
  BY DEF Text, Texts
<1>5. acc.count + 1 \in Nat /\ Append(acc.texts, Extended(acc, t)) \in Seq(Texts)
  BY <1>1, <1>3 DEF Writings
<1> DEFINE more == acc.count + 1
           put == IF Full(acc) THEN Append(acc.texts, Extended(acc, t)) ELSE acc.texts
           left == IF Full(acc) THEN Text(FALSE, <<>>) ELSE Extended(acc, t)
<1>6. Writing(acc, t) = [count |-> more, texts |-> put, text |-> left]
  BY Zenon DEF Writing, Full, Extended
<1>7. more \in Nat /\ put \in Seq(Texts) /\ left \in Texts
  <2> HIDE DEF Text, Extended, Full
  <2>1. put \in Seq(Texts)
    BY <1>1, <1>5, Zenon
  <2>2. left \in Texts
    BY <1>3, <1>4, Zenon
  <2> QED BY <1>5, <2>1, <2>2
<1>8. /\ Writing(acc, t) \in Writings
      /\ Writing(acc, t).count = more /\ Writing(acc, t).texts = put
      /\ Writing(acc, t).text = left
  <2> HIDE DEF more, put, left
  <2> QED BY <1>6, <1>7 DEF Writings
<1> QED BY <1>3, <1>8, Zenon

WritesAlong(f, header, list) ==
    /\ f \in [0..Len(list) -> Writings] /\ f[0] = NothingWritten(header)
    /\ \A i \in 1..Len(list) : f[i] = Writing(f[i - 1], list[i])
    /\ Written(header, list) = f[Len(list)]

LEMMA WritingRuns ==
    ASSUME NEW list \in Seq(Tracks), NEW header \in BOOLEAN
    PROVE  \E f : WritesAlong(f, header, list)
<1> DEFINE n == Len(list)
           base == NothingWritten(header)
           steps == [i \in 1..n |-> [acc \in Writings |-> Writing(acc, list[i])]]
           Fold(it) == it = [s \in SUBSET DOMAIN list |->
                                IF s = {} THEN base
                                ELSE Writing(it[s \ {Max(s)}], list[Max(s)])]
<1>1. n \in Nat /\ DOMAIN list = 1..n /\ \A i \in 1..n : list[i] \in Tracks
  OBVIOUS
<1>2. steps \in [1..n -> [Writings -> Writings]] /\ base \in Writings
  <2>1. \A i \in 1..n : [acc \in Writings |-> Writing(acc, list[i])] \in [Writings -> Writings]
    BY <1>1, WritingResult
  <2>2. base \in Writings
    BY DEF NothingWritten, Text, Writings, Texts
  <2> QED BY <2>1, <2>2
<1>3. PICK F \in [SUBSET (1..n) -> Writings] : FoldsOver(F, n, base, steps)
  <2> HIDE DEF n, steps, base
  <2> QED BY <1>1, <1>2, FoldExists
<1>4. Fold(F)
  <2>1. ASSUME NEW s \in SUBSET (1..n), s # {}
        PROVE  steps[Max(s)][F[s \ {Max(s)}]] = Writing(F[s \ {Max(s)}], list[Max(s)])
    <3>1. F[s \ {Max(s)}] \in Writings
      OBVIOUS
    <3>2. Max(s) \in 1..n
      <4> HIDE DEF n
      <4> QED BY <1>1, <2>1, GreatestNumber
    <3> QED BY <3>1, <3>2
  <2> HIDE DEF steps, base
  <2> QED BY <1>1, <1>3, <2>1 DEF FoldsOver
<1> DEFINE it == CHOOSE g : Fold(g)
<1>5. Fold(it)
  <2> HIDE DEF Fold
  <2> QED BY <1>4
<1>6. Written(header, list) = it[DOMAIN list]
  BY Zenon DEF Written, FoldLeft, MapThenFoldSet, NothingWritten
<1> HIDE DEF it, base
<1> DEFINE f == [i \in 0..n |-> it[1..i]]
<1>7. f[0] = base
  <2>1. 1..0 = {}
    OBVIOUS
  <2> QED BY <1>5, <2>1
<1>8. \A i \in 1..n : f[i] = Writing(f[i - 1], list[i])
  <2> SUFFICES ASSUME NEW i \in 1..n PROVE f[i] = Writing(f[i - 1], list[i])
    OBVIOUS
  <2>1. /\ Max(1..i) = i /\ (1..i) \ {i} = 1..i - 1
        /\ 1..i \in SUBSET DOMAIN list /\ 1..i # {}
    BY <1>1, FoldStep
  <2>2. it[1..i] = Writing(it[1..i - 1], list[i])
    <3>1. it[1..i] = Writing(it[(1..i) \ {Max(1..i)}], list[Max(1..i)])
      BY <1>5, <2>1
    <3> QED BY <2>1, <3>1
  <2>3. i \in 0..n /\ i - 1 \in 0..n
    BY <1>1
  <2> QED BY <2>2, <2>3
<1>9. f \in [0..n -> Writings]
  <2> DEFINE T == {i \in 0..n : f[i] \in Writings}
  <2>1. 0 \in T
    BY <1>1, <1>2, <1>7
  <2>2. \A i \in 0..n - 1 : i \in T => i + 1 \in T
    <3> HIDE DEF f
    <3> SUFFICES ASSUME NEW i \in 0..n - 1, f[i] \in Writings PROVE f[i + 1] \in Writings
      BY <1>1
    <3>1. i + 1 \in 1..n /\ (i + 1) - 1 = i
      BY <1>1
    <3>2. f[i + 1] = Writing(f[i], list[i + 1]) /\ list[i + 1] \in Tracks
      BY <1>1, <1>8, <3>1
    <3> QED BY <3>2, WritingResult
  <2>3. 0..n \subseteq T
    <3> HIDE DEF T, n
    <3> QED BY <1>1, <2>1, <2>2, UpTo
  <2> QED BY <2>3
<1>10. Written(header, list) = f[n]
  BY <1>1, <1>6
<1> HIDE DEF f
<1> QED BY <1>7, <1>8, <1>9, <1>10 DEF WritesAlong, base
-----------------------------------------------------------------------------
(* After i tracks, the texts put away are full and together with the one   *)
(* begun hold the first i tracks; only the first has the headline.         *)
TracksIn(texts) == [j \in DOMAIN texts |-> texts[j].tracks]

LEMMA TracksInAppend ==
    ASSUME NEW texts \in Seq(Texts), NEW text \in Texts
    PROVE  /\ TracksIn(texts) \in Seq(Seq(Tracks)) /\ text.tracks \in Seq(Tracks)
           /\ TracksIn(Append(texts, text)) = Append(TracksIn(texts), text.tracks)
           /\ FlattenSeq(TracksIn(texts)) \in Seq(Tracks)
           /\ FlattenSeq(TracksIn(Append(texts, text)))
              = FlattenSeq(TracksIn(texts)) \o text.tracks
<1>1. text.tracks \in Seq(Tracks)
  BY DEF Texts
<1>2. TracksIn(texts) \in Seq(Seq(Tracks))
  <2>1. \A j \in 1..Len(texts) : texts[j].tracks \in Seq(Tracks)
    <3>1. \A j \in 1..Len(texts) : texts[j] \in Texts
      OBVIOUS
    <3> QED BY <3>1 DEF Texts
  <2> QED BY <2>1 DEF TracksIn
<1>3. TracksIn(Append(texts, text)) = Append(TracksIn(texts), text.tracks)
  BY DEF TracksIn
<1> QED BY <1>1, <1>2, <1>3, FlattenAppend

SplitUpTo(a, header, list, i) ==
    /\ a.count = i /\ i % TracksInMessage = Len(a.text.tracks)
    /\ FlattenSeq(TracksIn(a.texts)) \o a.text.tracks = SubSeq(list, 1, i)
    /\ \A j \in DOMAIN a.texts :
          Len(a.texts[j].tracks) = TracksInMessage /\ a.texts[j].header = (header /\ j = 1)
    /\ a.text.header = (header /\ a.texts = <<>>)

LEMMA ConcatAppend ==
    ASSUME NEW S, NEW p \in Seq(S), NEW q \in Seq(S), NEW t \in S
    PROVE  p \o Append(q, t) = Append(p \o q, t)
OBVIOUS

LEMMA SplitStarts ==
    ASSUME NEW list \in Seq(Tracks), NEW header \in BOOLEAN
    PROVE  SplitUpTo(NothingWritten(header), header, list, 0)
<1> DEFINE a == NothingWritten(header)
<1>1. a.count = 0 /\ a.texts = <<>> /\ a.text.header = header /\ a.text.tracks = <<>>
  BY DEF NothingWritten, Text
<1>2. 0 % TracksInMessage = 0
  BY TrackListsAssumption
<1>3. TracksIn(<<>>) = <<>>
  BY DEF TracksIn
<1>4. FlattenSeq(<<>>) = <<>>
  BY DEF FlattenSeq
<1>5. <<>> \o <<>> = SubSeq(list, 1, 0)
  OBVIOUS
<1>6. a.text.header = (header /\ a.texts = <<>>)
  BY <1>1, Zenon
<1>7. 0 % TracksInMessage = Len(a.text.tracks) /\ DOMAIN a.texts = {}
  BY <1>1, <1>2
<1>8. FlattenSeq(TracksIn(a.texts)) \o a.text.tracks = SubSeq(list, 1, 0)
  BY <1>1, <1>3, <1>4, <1>5
<1> HIDE DEF a
<1>9. SplitUpTo(a, header, list, 0)
  BY <1>1, <1>6, <1>7, <1>8, Zenon DEF SplitUpTo
<1> QED BY <1>9 DEF a

LEMMA SplitContinues ==
    ASSUME NEW list \in Seq(Tracks), NEW header \in BOOLEAN, NEW i \in 0..Len(list) - 1,
           NEW acc \in Writings, SplitUpTo(acc, header, list, i)
    PROVE  SplitUpTo(Writing(acc, list[i + 1]), header, list, i + 1)
<1> DEFINE t == list[i + 1]
           a == Writing(acc, t)
           x == Extended(acc, t)
<1>1. t \in Tracks /\ i \in Nat
  OBVIOUS
<1>2. /\ a.count = acc.count + 1
      /\ Full(acc) => a.texts = Append(acc.texts, x) /\ a.text = Text(FALSE, <<>>)
      /\ ~Full(acc) => a.texts = acc.texts /\ a.text = x
      /\ x \in Texts /\ x.tracks = Append(acc.text.tracks, t) /\ x.header = acc.text.header
  BY <1>1, WritingResult
<1>3. acc.texts \in Seq(Texts) /\ acc.text \in Texts /\ acc.text.tracks \in Seq(Tracks)
  BY DEF Writings, Texts
<1>4. FlattenSeq(TracksIn(acc.texts)) \in Seq(Tracks)
  BY <1>3, TracksInAppend
<1>5. FlattenSeq(TracksIn(acc.texts)) \o x.tracks = SubSeq(list, 1, i + 1)
  <2> DEFINE flat == FlattenSeq(TracksIn(acc.texts))
  <2>1. flat \o Append(acc.text.tracks, t) = Append(flat \o acc.text.tracks, t)
    <3> DEFINE rest == acc.text.tracks
    <3>1. flat \in Seq(Tracks) /\ rest \in Seq(Tracks) /\ t \in Tracks
      BY <1>1, <1>3, <1>4
    <3> HIDE DEF flat, t, rest
    <3>2. flat \o Append(rest, t) = Append(flat \o rest, t)
      BY <3>1, ConcatAppend
    <3> QED BY <3>2 DEF rest
  <2>2. flat \o acc.text.tracks = SubSeq(list, 1, i)
    BY DEF SplitUpTo
  <2>3. Append(SubSeq(list, 1, i), t) = SubSeq(list, 1, i + 1)
    OBVIOUS
  <2> QED BY <1>2, <2>1, <2>2, <2>3
<1>6. Len(x.tracks) = Len(acc.text.tracks) + 1
  BY <1>1, <1>2, <1>3
<1>7. i % TracksInMessage \in 0..TracksInMessage - 1
      /\ (i + 1) % TracksInMessage
         = IF (i % TracksInMessage) + 1 = TracksInMessage THEN 0 ELSE (i % TracksInMessage) + 1
  BY <1>1, TrackListsAssumption, RemainderNext
<1>8. acc.count = i /\ i % TracksInMessage = Len(acc.text.tracks)
  BY DEF SplitUpTo
<1>9. Full(acc) <=> Len(x.tracks) = TracksInMessage
  BY <1>6, <1>7, <1>8, TrackListsAssumption DEF Full
<1>10. x.header = (header /\ acc.texts = <<>>)
  BY <1>2 DEF SplitUpTo
<1> HIDE DEF t, a, x
<1>11. CASE Full(acc)
  <2>1. a.texts = Append(acc.texts, x) /\ a.text.header = FALSE /\ a.text.tracks = <<>>
    BY <1>2, <1>11 DEF Text
  <2>2. (i + 1) % TracksInMessage = Len(a.text.tracks)
    BY <1>6, <1>7, <1>8, <1>9, <1>11, <2>1
  <2>3. FlattenSeq(TracksIn(a.texts)) \o a.text.tracks = SubSeq(list, 1, i + 1)
    <3>1. FlattenSeq(TracksIn(a.texts)) = SubSeq(list, 1, i + 1)
      BY <1>2, <1>3, <1>5, <2>1, TracksInAppend
    <3>2. SubSeq(list, 1, i + 1) \o <<>> = SubSeq(list, 1, i + 1)
      OBVIOUS
    <3> QED BY <2>1, <3>1, <3>2
  <2>4. ASSUME NEW j \in DOMAIN a.texts
        PROVE  Len(a.texts[j].tracks) = TracksInMessage /\ a.texts[j].header = (header /\ j = 1)
    <3>1. CASE j \in DOMAIN acc.texts
      <4>1. a.texts[j] = acc.texts[j]
        BY <1>2, <1>3, <2>1, <3>1
      <4> QED BY <3>1, <4>1 DEF SplitUpTo
    <3>2. CASE j \notin DOMAIN acc.texts
      <4>1. j = Len(acc.texts) + 1 /\ a.texts[j] = x
        BY <1>2, <1>3, <2>1, <2>4, <3>2
      <4>2. acc.texts = <<>> <=> j = 1
        BY <1>3, <4>1
      <4>3. x.header = (header /\ j = 1)
        BY <1>10, <4>2, Zenon
      <4> QED BY <1>9, <1>11, <4>1, <4>3
    <3> QED BY <3>1, <3>2
  <2>5. a.text.header = (header /\ a.texts = <<>>)
    <3>1. Len(a.texts) = Len(acc.texts) + 1 /\ Len(acc.texts) \in Nat
      BY <1>2, <1>3, <2>1
    <3>2. a.texts # <<>>
      BY <3>1
    <3> QED BY <2>1, <3>2, Zenon
  <2> QED BY <1>2, <1>8, <2>2, <2>3, <2>4, <2>5 DEF SplitUpTo, a, t
<1>12. CASE ~Full(acc)
  <2>1. a.texts = acc.texts /\ a.text = x
    BY <1>2, <1>12
  <2>2. (i + 1) % TracksInMessage = Len(a.text.tracks)
    BY <1>6, <1>7, <1>8, <1>9, <1>12, <2>1
  <2>3. \A j \in DOMAIN a.texts :
           Len(a.texts[j].tracks) = TracksInMessage /\ a.texts[j].header = (header /\ j = 1)
    BY <2>1 DEF SplitUpTo
  <2> QED BY <1>2, <1>5, <1>8, <1>10, <2>1, <2>2, <2>3 DEF SplitUpTo, a, t
<1> QED BY <1>11, <1>12
LEMMA SplitsUpTo ==
    ASSUME NEW list \in Seq(Tracks), NEW header \in BOOLEAN, NEW f, WritesAlong(f, header, list)
    PROVE  SplitUpTo(f[Len(list)], header, list, Len(list))
<1> DEFINE n == Len(list)
           T == {i \in 0..n : SplitUpTo(f[i], header, list, i)}
<1>1. n \in Nat
  OBVIOUS
<1>2. 0 \in T
  BY <1>1, SplitStarts DEF WritesAlong
<1>3. \A i \in 0..n - 1 : i \in T => i + 1 \in T
  <2> SUFFICES ASSUME NEW i \in 0..n - 1, SplitUpTo(f[i], header, list, i)
               PROVE  i + 1 \in T
    OBVIOUS
  <2>1. i \in 0..n /\ i + 1 \in 0..n /\ i + 1 \in 1..n /\ (i + 1) - 1 = i
    BY <1>1
  <2>2. f[i] \in Writings /\ f[i + 1] = Writing(f[i], list[i + 1])
    BY <2>1 DEF WritesAlong
  <2>3. SplitUpTo(f[i + 1], header, list, i + 1)
    BY <2>2, SplitContinues
  <2> QED BY <2>1, <2>3
<1> HIDE DEF T, n
<1>4. 0..n \subseteq T
  BY <1>1, <1>2, <1>3, UpTo
<1>5. n \in T
  BY <1>1, <1>4
<1> QED BY <1>5 DEF T, n

LEMMA MessagesSplitWell ==
    ASSUME NEW list \in Seq(Tracks), NEW header \in BOOLEAN
    PROVE  SplitsWell(Messages(header, list), header, list)
<1> DEFINE n == Len(list)
           end == Written(header, list)
           texts == Messages(header, list)
<1>1. PICK f : WritesAlong(f, header, list)
  BY WritingRuns
<1>2. n \in Nat /\ n \in 0..n /\ SubSeq(list, 1, n) = list
  OBVIOUS
<1>3. end \in Writings /\ SplitUpTo(end, header, list, n)
  <2>1. f[n] \in Writings /\ end = f[n]
    BY <1>1, <1>2 DEF WritesAlong
  <2>2. SplitUpTo(f[n], header, list, n)
    BY <1>1, SplitsUpTo
  <2> QED BY <2>1, <2>2
<1>4. texts = IF HasText(end.text) THEN Append(end.texts, end.text) ELSE end.texts
  BY DEF Messages
<1> HIDE DEF end, texts, n
<1>5. end.texts \in Seq(Texts) /\ end.text \in Texts /\ end.text.tracks \in Seq(Tracks)
  BY <1>3 DEF Writings, Texts
<1>6. TracksInMessage \in Nat \ {0} /\ Len(end.text.tracks) <= TracksInMessage
  <2>1. n % TracksInMessage \in 0..TracksInMessage - 1
        /\ n % TracksInMessage = Len(end.text.tracks)
    BY <1>2, <1>3, TrackListsAssumption, RemainderNext DEF SplitUpTo
  <2> QED BY <2>1, TrackListsAssumption
<1>7. ASSUME NEW i \in DOMAIN end.texts
      PROVE  /\ HasText(end.texts[i])
             /\ end.texts[i].header = (header /\ i = 1)
             /\ Len(end.texts[i].tracks) <= TracksInMessage
             /\ Len(end.texts[i].tracks) = TracksInMessage
  <2>1. Len(end.texts[i].tracks) = TracksInMessage /\ end.texts[i].header = (header /\ i = 1)
    BY <1>3, <1>7 DEF SplitUpTo
  <2>2. end.texts[i].tracks # <<>> /\ Len(end.texts[i].tracks) <= TracksInMessage
    BY <1>6, <2>1
  <2> QED BY <2>1, <2>2 DEF HasText
<1>8. FlattenSeq(TracksIn(end.texts)) \o end.text.tracks = list
      /\ FlattenSeq(TracksIn(end.texts)) \in Seq(Tracks)
  BY <1>2, <1>3, <1>5, TracksInAppend DEF SplitUpTo, n
<1>9. CASE HasText(end.text)
  <2>1. texts = Append(end.texts, end.text)
    BY <1>4, <1>9
  <2>2. FlattenSeq(TracksIn(texts)) = list
    BY <1>5, <1>8, <2>1, TracksInAppend
  <2>3. ASSUME NEW i \in DOMAIN texts
        PROVE  /\ HasText(texts[i])
               /\ texts[i].header = (header /\ i = 1)
               /\ Len(texts[i].tracks) <= TracksInMessage
               /\ i < Len(texts) => Len(texts[i].tracks) = TracksInMessage
    <3>1. CASE i \in DOMAIN end.texts
      <4>1. texts[i] = end.texts[i]
        BY <1>5, <2>1, <3>1
      <4> QED BY <1>7, <3>1, <4>1
    <3>2. CASE i \notin DOMAIN end.texts
      <4>1. i = Len(end.texts) + 1 /\ i = Len(texts) /\ texts[i] = end.text
        BY <1>5, <2>1, <2>3, <3>2
      <4>2. end.texts = <<>> <=> i = 1
        BY <1>5, <4>1
      <4>3. end.text.header = (header /\ end.texts = <<>>)
        BY <1>3 DEF SplitUpTo
      <4>4. texts[i].header = (header /\ i = 1)
        BY <4>1, <4>2, <4>3, Zenon
      <4>5. ~(i < Len(texts))
        BY <1>5, <4>1
      <4> QED BY <1>6, <1>9, <4>1, <4>4, <4>5
    <3> QED BY <3>1, <3>2
  <2> QED BY <2>2, <2>3, Zenon DEF SplitsWell, TracksIn, texts
<1>10. CASE ~HasText(end.text)
  <2>1. texts = end.texts /\ end.text.tracks = <<>>
    BY <1>4, <1>10 DEF HasText
  <2>2. FlattenSeq(TracksIn(texts)) = list
    BY <1>8, <2>1
  <2> QED BY <1>7, <2>1, <2>2, Zenon DEF SplitsWell, TracksIn, texts
<1> QED BY <1>9, <1>10
-----------------------------------------------------------------------------
(* Who holds the dialogue of a chat: between two commands it agrees with   *)
(* the set, during one it is still the old one, and a request to the       *)
(* player is at most one for each chat, which waits for it.                *)
AtPlayer(m) == m \notin Queues /\ step[m] \in {"ask", "register"}
ChatsAgree ==
    \A c \in Chats :
        /\ update[c] = "subscribing" => dialogue[c] = "Start"
        /\ update[c] = "unsubscribing" => dialogue[c] = "Run"
        /\ update[c] = "started" => c \in chats
        /\ update[c] = "stopped" => c \notin chats
        /\ update[c] \notin {"started", "stopped"} => (c \in chats <=> dialogue[c] = "Run")
PlayerAsked ==
    /\ \A m \in Requests :
          /\ AtPlayer(m) => update[ChatOf[m]] = "request"
          /\ step[m] = "ask" => m \notin Queues
          /\ step[m] \in {"resolve", "tell"} => m \in Queues
    /\ \A k, m \in Requests :
          AtPlayer(k) /\ AtPlayer(m) /\ ChatOf[k] = ChatOf[m] => k = m
DialogueAgrees == ChatsAgree /\ PlayerAsked

(* Where a request is that may still be answered: registered after it has  *)
(* been made, then in the channel, the store or the hands of the handler,  *)
(* in one of them and there once, and until then without a reply.          *)
Once(s) == \A i, j \in DOMAIN s : s[i] = s[j] => i = j
Pending(m) == Contains(regs, m) \/ Contains(store, m)
RepliesAgree ==
    /\ replies \in [Requests -> 0..1]
    /\ Once(regs) /\ Once(store)
    /\ \A m \in Requests :
          /\ Pending(m) => step[m] = "done" /\ reply # m /\ replies[m] = 0
          /\ Contains(regs, m) => ~Contains(store, m)
          /\ reply = m => step[m] = "done" /\ replies[m] = 0
          /\ replies[m] # 0 => step[m] = "done"

(* How far the walk over the set is: the chats left in the shard entered   *)
(* are kept in the set by its guard, and a chat that is due is in a shard  *)
(* still to enter, left in the one entered, or not meant.                  *)
Meant(c) == ShardOf[c] \in shardsLeft \/ c \in chatsLeft
WalkAgrees ==
    /\ chatsLeft \subseteq chats /\ due \subseteq chats
    /\ \A c \in chatsLeft : guard = ShardOf[c]
    /\ handler = "sending" =>
          /\ reply # Nobody => event.type = "DownloadError" /\ event.origin = reply
          /\ reply = Nobody => \A c \in due : Meant(c)

(* What a request has found until it is announced. *)
FoundAgrees ==
    \A m \in Requests :
        step[m] = "tell" => accepted[m] = FilterTracks(found[m]) /\ accepted[m] # <<>>

Inductive == BotTypeOK /\ DialogueAgrees /\ RepliesAgree /\ WalkAgrees /\ FoundAgrees
-----------------------------------------------------------------------------
(* The store: an entry taken out is gone, and the others stay.             *)
LEMMA ConcatResult ==
    ASSUME NEW S, NEW p \in Seq(S), NEW q \in Seq(S)
    PROVE  p \o q \in Seq(S) /\ Len(p \o q) = Len(p) + Len(q)
OBVIOUS

LEMMA RemoveFirstResult ==
    ASSUME NEW S, NEW s \in Seq(S), NEW e
    PROVE  /\ RemoveFirst(s, e) \in Seq(S)
           /\ Len(RemoveFirst(s, e)) <= Len(s)
           /\ Contains(s, e) => Len(RemoveFirst(s, e)) = Len(s) - 1
           /\ \A x : Contains(RemoveFirst(s, e), x) => Contains(s, x)
           /\ Once(s) => Once(RemoveFirst(s, e)) /\ ~Contains(RemoveFirst(s, e), e)
<1>1. CASE ~Contains(s, e)
  <2>1. RemoveFirst(s, e) = s
    BY <1>1 DEF RemoveFirst, Contains
  <2> QED BY <1>1, <2>1
<1>2. CASE Contains(s, e)
  <2> DEFINE I == {j \in 1..Len(s) : s[j] = e}
             i == SelectInSeq(s, LAMBDA v : v = e)
             r == RemoveFirst(s, e)
  <2>1. I \in SUBSET Nat /\ I # {}
    BY <1>2 DEF Contains
  <2>2. PICK k \in I : \A j \in I : k <= j
    <3> HIDE DEF I
    <3> QED BY <2>1, LeastNumber
  <2>3. i = Min(I)
    BY <2>1 DEF SelectInSeq
  <2>4. \A x \in I : (\A j \in I : x <= j) => x = k
    BY <2>2
  <2>5. i = k
    <3> HIDE DEF I, i
    <3> QED BY <2>2, <2>3, <2>4 DEF Min
  <2>6. i \in 1..Len(s) /\ s[i] = e
    BY <2>2, <2>5
  <2>7. r = SubSeq(s, 1, i - 1) \o SubSeq(s, i + 1, Len(s))
    BY <1>2 DEF RemoveFirst, RemoveAt, Contains
  <2> HIDE DEF i, r
  <2>8. /\ r \in Seq(S) /\ Len(r) = Len(s) - 1
        /\ \A j \in 1..Len(r) : r[j] = IF j < i THEN s[j] ELSE s[j + 1]
    <3> DEFINE p == SubSeq(s, 1, i - 1)
               q == SubSeq(s, i + 1, Len(s))
    <3>1. /\ p \in Seq(S) /\ Len(p) = i - 1 /\ q \in Seq(S) /\ Len(q) = Len(s) - i
          /\ \A j \in 1..i - 1 : p[j] = s[j]
          /\ \A j \in 1..Len(s) - i : q[j] = s[i + j]
      BY <2>6
    <3> HIDE DEF p, q
    <3>2. r = p \o q
      BY <2>7 DEF p, q
    <3>3. r \in Seq(S) /\ Len(r) = Len(s) - 1
      <4>1. p \o q \in Seq(S) /\ Len(p \o q) = Len(p) + Len(q)
        BY <3>1, ConcatResult
      <4>2. i \in Int /\ Len(s) \in Int
        BY <2>6
      <4> QED BY <3>1, <3>2, <4>1, <4>2
    <3>4. ASSUME NEW j \in 1..Len(r) PROVE r[j] = IF j < i THEN s[j] ELSE s[j + 1]
      <4>1. CASE j < i
        <5>1. j \in 1..i - 1 /\ r[j] = p[j]
          BY <2>6, <3>1, <3>2, <3>3, <4>1
        <5> QED BY <3>1, <4>1, <5>1
      <4>2. CASE ~(j < i)
        <5>1. /\ j - i + 1 \in 1..Len(s) - i /\ i + (j - i + 1) = j + 1
              /\ r[j] = q[j - i + 1]
          BY <2>6, <3>1, <3>2, <3>3, <4>2
        <5>2. q[j - i + 1] = s[i + (j - i + 1)]
          BY <3>1, <5>1
        <5> QED BY <4>2, <5>1, <5>2
      <4> QED BY <4>1, <4>2
    <3> QED BY <3>3, <3>4
  <2>9. \A x : Contains(r, x) => Contains(s, x)
    <3> SUFFICES ASSUME NEW j \in 1..Len(r) PROVE \E l \in 1..Len(s) : s[l] = r[j]
      BY DEF Contains
    <3>1. j \in 1..Len(s) /\ j + 1 \in 1..Len(s)
      BY <2>8
    <3> QED BY <2>8, <3>1
  <2>10. ASSUME Once(s) PROVE Once(r) /\ ~Contains(r, e)
    <3>1. ASSUME NEW j \in 1..Len(r), NEW l \in 1..Len(r), r[j] = r[l] PROVE j = l
      <4>1. j \in 1..Len(s) /\ j + 1 \in 1..Len(s) /\ l \in 1..Len(s) /\ l + 1 \in 1..Len(s)
        BY <2>8
      <4> DEFINE J == IF j < i THEN j ELSE j + 1
                 L == IF l < i THEN l ELSE l + 1
      <4>2. J \in DOMAIN s /\ L \in DOMAIN s /\ s[J] = s[L]
        BY <2>8, <3>1, <4>1
      <4>3. J = L
        <5> HIDE DEF J, L
        <5> QED BY <2>10, <4>2 DEF Once
      <4> QED BY <2>6, <4>3
    <3>2. ASSUME NEW j \in 1..Len(r), r[j] = e PROVE FALSE
      <4>1. j \in 1..Len(s) /\ j + 1 \in 1..Len(s)
        BY <2>8
      <4>2. i \in DOMAIN s /\ j \in DOMAIN s /\ j + 1 \in DOMAIN s /\ i \in Int /\ j \in Int
        BY <2>6, <4>1
      <4>3. \A l \in DOMAIN s : s[l] = e => l = i
        BY <2>6, <2>10, <4>2, Zenon DEF Once
      <4>4. CASE j < i
        <5>1. s[j] = e
          BY <2>8, <3>2, <4>4
        <5> QED BY <4>2, <4>3, <4>4, <5>1
      <4>5. CASE ~(j < i)
        <5>1. s[j + 1] = e
          BY <2>8, <3>2, <4>5
        <5>2. j + 1 = i
          BY <4>2, <4>3, <5>1
        <5> QED BY <4>2, <4>5, <5>2
      <4> QED BY <4>4, <4>5
    <3>3. DOMAIN r = 1..Len(r)
      BY <2>8
    <3> QED BY <3>1, <3>2, <3>3, Zenon DEF Once, Contains
  <2>11. Len(s) \in Nat
    OBVIOUS
  <2> QED BY <2>8, <2>9, <2>10, <2>11 DEF r
<1> QED BY <1>1, <1>2

LEMMA AppendResult ==
    ASSUME NEW S, NEW s \in Seq(S), NEW e \in S
    PROVE  /\ Append(s, e) \in Seq(S) /\ Len(Append(s, e)) = Len(s) + 1 /\ Len(s) \in Nat
           /\ \A x : Contains(Append(s, e), x) <=> x = e \/ Contains(s, x)
           /\ Once(s) /\ ~Contains(s, e) => Once(Append(s, e))
<1> DEFINE r == Append(s, e)
<1>1. r \in Seq(S) /\ Len(r) = Len(s) + 1 /\ Len(s) \in Nat
  OBVIOUS
<1>2. r[Len(s) + 1] = e /\ \A i \in 1..Len(s) : r[i] = s[i]
  OBVIOUS
<1> HIDE DEF r
<1>3. \A i \in 1..Len(r) : i \in 1..Len(s) \/ i = Len(s) + 1
  BY <1>1
<1>4. \A i \in 1..Len(s) : i \in 1..Len(r)
  BY <1>1
<1>5. Len(s) + 1 \in 1..Len(r)
  BY <1>1
<1>6. \A x : Contains(r, x) <=> x = e \/ Contains(s, x)
  BY <1>2, <1>3, <1>4, <1>5, Zenon DEF Contains
<1>7. ASSUME Once(s), ~Contains(s, e) PROVE Once(r)
  <2>1. DOMAIN r = 1..Len(r) /\ DOMAIN s = 1..Len(s)
    BY <1>1
  <2> QED BY <1>2, <1>3, <1>7, <2>1, Zenon DEF Once, Contains
<1> QED BY <1>1, <1>6, <1>7 DEF r

LEMMA TailResult ==
    ASSUME NEW S, NEW s \in Seq(S), s # <<>>
    PROVE  /\ Head(s) \in S /\ Tail(s) \in Seq(S) /\ Len(Tail(s)) = Len(s) - 1 /\ Len(s) > 0
           /\ Contains(s, Head(s))
           /\ \A x : Contains(Tail(s), x) => Contains(s, x)
           /\ Once(s) => Once(Tail(s)) /\ ~Contains(Tail(s), Head(s))
<1>1. Head(s) \in S /\ Tail(s) \in Seq(S) /\ Len(Tail(s)) = Len(s) - 1 /\ Len(s) > 0
  OBVIOUS
<1>2. Head(s) = s[1] /\ 1 \in 1..Len(s)
  OBVIOUS
<1>3. \A i \in 1..Len(Tail(s)) : Tail(s)[i] = s[i + 1] /\ i + 1 \in 1..Len(s) /\ i + 1 # 1
  OBVIOUS
<1>4. \A x : Contains(Tail(s), x) => Contains(s, x)
  BY <1>3 DEF Contains
<1>5. ASSUME Once(s) PROVE Once(Tail(s)) /\ ~Contains(Tail(s), Head(s))
  <2>1. DOMAIN Tail(s) = 1..Len(Tail(s)) /\ DOMAIN s = 1..Len(s)
    BY <1>1
  <2>2. ~Contains(Tail(s), Head(s))
    BY <1>2, <1>3, <1>5, <2>1 DEF Once, Contains
  <2>3. ASSUME NEW i \in 1..Len(Tail(s)), NEW j \in 1..Len(Tail(s)), Tail(s)[i] = Tail(s)[j]
        PROVE  i = j
    <3>1. i + 1 = j + 1
      BY <1>3, <1>5, <2>1, <2>3 DEF Once
    <3> QED BY <3>1
  <2> QED BY <2>1, <2>2, <2>3 DEF Once
<1> QED BY <1>1, <1>2, <1>4, <1>5 DEF Contains

LEMMA InsertedResult ==
    ASSUME store \in Seq(Requests), Len(store) <= StoreCapacity, NEW m \in Requests
    PROVE  /\ Inserted(m) \in Seq(Requests) /\ Len(Inserted(m)) <= StoreCapacity
           /\ \A x : Contains(Inserted(m), x) => x = m \/ Contains(store, x)
           /\ Once(store) => Once(Inserted(m))
<1> DEFINE r == Without(store, m)
           s == Append(r, m)
<1>1. /\ r \in Seq(Requests) /\ Len(r) <= Len(store)
      /\ Contains(store, m) => Len(r) = Len(store) - 1
      /\ \A x : Contains(r, x) => Contains(store, x)
      /\ Once(store) => Once(r) /\ ~Contains(r, m)
  BY RemoveFirstResult DEF Without
<1> HIDE DEF r
<1>2. /\ s \in Seq(Requests) /\ Len(s) = Len(r) + 1 /\ Len(r) \in Nat
      /\ \A x : Contains(s, x) => x = m \/ Contains(store, x)
      /\ Once(store) => Once(s)
  BY <1>1, AppendResult
<1>3. Len(store) \in Nat /\ StoreCapacity \in Nat \ {0}
  BY BotAssumption
<1>4. Inserted(m) = IF Len(s) > StoreCapacity THEN Tail(s) ELSE s
  BY DEF Inserted, r
<1> HIDE DEF s
<1>5. CASE Len(s) > StoreCapacity
  <2>1. s # <<>>
    BY <1>2
  <2>2. Len(Tail(s)) <= StoreCapacity
    BY <1>1, <1>2, <1>3, <2>1, TailResult
  <2> QED BY <1>2, <1>4, <1>5, <2>1, <2>2, TailResult
<1>6. CASE ~(Len(s) > StoreCapacity)
  <2>1. Len(s) <= StoreCapacity
    BY <1>2, <1>3, <1>6
  <2> QED BY <1>2, <1>4, <1>6, <2>1
<1> QED BY <1>5, <1>6
-----------------------------------------------------------------------------
Events == [type: EventTypes, origin: Requests \cup {Nobody}]
UpdateStates == {"none", "subscribing", "started", "unsubscribing", "stopped", "request"}
StepStates == {"new", "ask", "resolve", "tell", "register", "done", "refused"}

LEMMA BroadcastsTypes ==
    ASSUME BotTypeOK, NEW e \in Events, Broadcasts(e)
    PROVE  /\ tail' \in Nat /\ cursor \in [Receivers -> 0..tail']
           /\ log' \in Seq(Events) /\ Len(log') = tail' - Overwritten'
<1>1. tail' = tail + 1 /\ tail \in Nat /\ RingSize \in Nat \ {0}
  BY BroadcastAssumption DEF Broadcasts, Publish, BotTypeOK, BTypeOK
<1>2. log \in Seq(Events) /\ Len(log) = tail - Overwritten
  BY DEF BotTypeOK, Events
<1>3. cursor \in [Receivers -> 0..tail']
  BY <1>1 DEF BotTypeOK, BTypeOK
<1>4. CASE Len(log) = RingSize
  <2>1. log' = Append(Tail(log), e) /\ log # <<>>
    BY <1>1, <1>2, <1>4 DEF Broadcasts
  <2>2. Tail(log) \in Seq(Events) /\ Len(Tail(log)) = RingSize - 1
    BY <1>2, <1>4, <2>1, TailResult
  <2>3. log' \in Seq(Events) /\ Len(log') = RingSize
    BY <1>1, <2>1, <2>2, AppendResult
  <2>4. tail' - Overwritten' = RingSize
    BY <1>1, <1>2, <1>4 DEF Overwritten
  <2> QED BY <1>1, <1>3, <2>3, <2>4
<1>5. CASE Len(log) # RingSize
  <2>1. log' = Append(log, e)
    BY <1>5 DEF Broadcasts
  <2>2. log' \in Seq(Events) /\ Len(log') = Len(log) + 1
    BY <1>2, <2>1, AppendResult
  <2>3. tail' - Overwritten' = (tail - Overwritten) + 1
    BY <1>1, <1>2, <1>5 DEF Overwritten
  <2> QED BY <1>1, <1>2, <1>3, <2>2, <2>3
<1> QED BY <1>4, <1>5

LEMMA TypesInit == Init => BotTypeOK
<1> SUFFICES ASSUME Init PROVE BotTypeOK
  OBVIOUS
<1>1. Bot \in Receivers /\ RingSize \in Nat \ {0} /\ StoreCapacity \in Nat
  BY BotAssumption, BroadcastAssumption
<1>2. BTypeOK /\ tail = 0 /\ Overwritten = 0
  BY <1>1 DEF Init, BInit, BTypeOK, Overwritten
<1>3. /\ log \in Seq(Events) /\ Len(log) = 0
      /\ regs \in Seq(Requests) /\ store \in Seq(Requests) /\ Len(store) = 0
  BY DEF Init
<1>4. /\ found \in [Requests -> Lists \cup {<<>>}]
      /\ accepted \in [Requests -> Seq(Tracks)]
  BY DEF Init
<1> QED BY <1>1, <1>2, <1>3, <1>4 DEF Init, BotTypeOK, Events

LEMMA CommandTypes ==
    ASSUME BotTypeOK, NEW c \in Chats, Command(c)
    PROVE  BotTypeOK'
<1>1. ASSUME UNCHANGED <<bvars, requestVars, log, regs, handlerVars>>,
             dialogue' \in [Chats -> {"Start", "Run"}], chats' \subseteq Chats,
             update' \in [Chats -> UpdateStates], due' \subseteq Chats
      PROVE  BotTypeOK'
  BY <1>1 DEF BotTypeOK, BTypeOK, bvars, requestVars, handlerVars, walkVars, Overwritten,
              UpdateStates
<1>2. \A u \in UpdateStates : GotoUpdate(c, u) => update' \in [Chats -> UpdateStates]
  BY DEF BotTypeOK, GotoUpdate, UpdateStates
<1>3. {"none", "subscribing", "started", "unsubscribing", "stopped"} \subseteq UpdateStates
  BY DEF UpdateStates
<1>4. CASE ReceiveStart(c)
  BY <1>1, <1>2, <1>3, <1>4 DEF ReceiveStart, BotTypeOK
<1>5. CASE ReceiveStop(c)
  BY <1>1, <1>2, <1>3, <1>5 DEF ReceiveStop, BotTypeOK
<1>6. CASE SubscribeChat(c)
  BY <1>1, <1>2, <1>3, <1>6 DEF SubscribeChat, BotTypeOK
<1>7. CASE UnsubscribeChat(c)
  BY <1>1, <1>2, <1>3, <1>7 DEF UnsubscribeChat, BotTypeOK
<1>8. CASE UpdateDialogue(c)
  BY <1>1, <1>2, <1>3, <1>8 DEF UpdateDialogue, BotTypeOK
<1> QED BY <1>4, <1>5, <1>6, <1>7, <1>8 DEF Command

LEMMA RequestTypes ==
    ASSUME BotTypeOK, NEW m \in Requests, ReceiveRequest(m) \/ RequestTask(m)
    PROVE  BotTypeOK'
<1>1. ASSUME UNCHANGED <<cursor, rx, dialogue, chats, handlerVars, due>>,
             tail' \in Nat, cursor \in [Receivers -> 0..tail'],
             log' \in Seq(Events), Len(log') = tail' - Overwritten',
             update' \in [Chats -> UpdateStates], step' \in [Requests -> StepStates],
             found' \in [Requests -> Lists \cup {<<>>}],
             accepted' \in [Requests -> Seq(Tracks)], regs' \in Seq(Requests)
      PROVE  BotTypeOK'
  BY <1>1 DEF BotTypeOK, BTypeOK, handlerVars, walkVars, UpdateStates, StepStates, Events
<1>2. /\ tail \in Nat /\ cursor \in [Receivers -> 0..tail]
      /\ log \in Seq(Events) /\ Len(log) = tail - Overwritten
  BY DEF BotTypeOK, BTypeOK, Events
<1>3. UNCHANGED <<bvars, log>> =>
          /\ UNCHANGED <<cursor, rx>> /\ tail' \in Nat /\ cursor \in [Receivers -> 0..tail']
          /\ log' \in Seq(Events) /\ Len(log') = tail' - Overwritten'
  BY <1>2 DEF bvars, Overwritten
<1>4. /\ \A s \in StepStates : GotoStep(m, s) => step' \in [Requests -> StepStates]
      /\ \A u \in UpdateStates : GotoUpdate(ChatOf[m], u) => update' \in [Chats -> UpdateStates]
      /\ {"none", "request"} \subseteq UpdateStates
      /\ {"ask", "resolve", "tell", "register", "done", "refused"} \subseteq StepStates
      /\ update \in [Chats -> UpdateStates]
  BY DEF BotTypeOK, GotoStep, GotoUpdate, StepStates, UpdateStates
<1>5. /\ found \in [Requests -> Lists \cup {<<>>}] /\ accepted \in [Requests -> Seq(Tracks)]
      /\ regs \in Seq(Requests) /\ Append(regs, m) \in Seq(Requests)
  BY AppendResult DEF BotTypeOK
<1>6. CASE ReceiveRequest(m)
  BY <1>1, <1>3, <1>4, <1>5, <1>6 DEF ReceiveRequest
<1>7. CASE AskPlayer(m)
  BY <1>1, <1>3, <1>4, <1>5, <1>7 DEF AskPlayer
<1>8. CASE Resolve(m)
  <2>1. \A list \in Lists : FilterTracks(list) \in Seq(Tracks)
    BY BotAssumption, FilterTracksType
  <2>2. found' \in [Requests -> Lists \cup {<<>>}] /\ accepted' \in [Requests -> Seq(Tracks)]
    BY <1>5, <1>8, <2>1 DEF Resolve
  <2> QED BY <1>1, <1>3, <1>4, <1>5, <1>8, <2>2 DEF Resolve, dialogueVars
<1>9. CASE TellQueued(m)
  <2>1. found' \in [Requests -> Lists \cup {<<>>}] /\ accepted' \in [Requests -> Seq(Tracks)]
    <3>1. <<>> \in Seq(Tracks)
      OBVIOUS
    <3> QED BY <1>5, <1>9, <3>1 DEF TellQueued
  <2>2. EventOf("TracksQueued", m) \in Events
    BY DEF EventOf, Events, EventTypes
  <2>3. /\ tail' \in Nat /\ cursor \in [Receivers -> 0..tail']
        /\ log' \in Seq(Events) /\ Len(log') = tail' - Overwritten'
    <3>1. CASE Broadcasts(EventOf("TracksQueued", m))
      BY <2>2, <3>1, BroadcastsTypes
    <3>2. CASE UNCHANGED <<tail, log>>
      BY <1>2, <3>2 DEF Overwritten
    <3> QED BY <1>9, <3>1, <3>2 DEF TellQueued
  <2> QED BY <1>1, <1>4, <1>5, <1>9, <2>1, <2>3 DEF TellQueued, dialogueVars
<1>10. CASE Register(m)
  BY <1>1, <1>3, <1>4, <1>5, <1>10 DEF Register
<1> QED BY <1>6, <1>7, <1>8, <1>9, <1>10 DEF RequestTask
LEMMA ReceiverTypes ==
    ASSUME BTypeOK
    PROVE  /\ TakeEvent(Bot) \/ FallAsleep(Bot) =>
                 cursor' \in [Receivers -> 0..tail]
                 /\ rx' \in [Receivers -> {"off", "waiting", "holding", "asleep"}]
           /\ PollAgain(Bot) \/ Drop(Bot) =>
                 rx' \in [Receivers -> {"off", "waiting", "holding", "asleep"}]
<1>1. Bot \in Receivers /\ RingSize \in Nat \ {0} /\ tail \in Nat
  BY BotAssumption, BroadcastAssumption DEF BTypeOK
<1>2. Overwritten \in 0..tail
  BY <1>1 DEF Overwritten
<1>3. CASE TakeEvent(Bot)
  <2>1. cursor[Bot] + 1 \in 0..tail
    BY <1>1, <1>3 DEF TakeEvent, BTypeOK
  <2> QED BY <1>3, <2>1 DEF TakeEvent, BTypeOK, PollAgain, Drop
<1>4. CASE FallAsleep(Bot)
  BY <1>2, <1>4 DEF FallAsleep, BTypeOK, PollAgain, Drop
<1> QED BY <1>3, <1>4 DEF BTypeOK, PollAgain, Drop

LEMMA HandlerTypes ==
    ASSUME BotTypeOK, HandlerTask \/ SendFails \/ Cancel
    PROVE  BotTypeOK'
<1>1. ASSUME UNCHANGED <<tail, dialogueVars, requestVars, log>>,
             cursor' \in [Receivers -> 0..tail],
             rx' \in [Receivers -> {"off", "waiting", "holding", "asleep"}],
             regs' \in Seq(Requests), store' \in Seq(Requests), Len(store') <= StoreCapacity,
             handler' \in {"idle", "sending", "done", "failed"},
             reply' \in Requests \cup {Nobody}, shardsLeft' \subseteq Shards,
             guard' \in Shards \cup {Nobody}, chatsLeft' \subseteq Chats, due' \subseteq Chats
      PROVE  BotTypeOK'
  BY <1>1 DEF BotTypeOK, BTypeOK, dialogueVars, requestVars, Overwritten
<1>2. /\ BTypeOK /\ cursor \in [Receivers -> 0..tail]
      /\ rx \in [Receivers -> {"off", "waiting", "holding", "asleep"}]
      /\ regs \in Seq(Requests) /\ store \in Seq(Requests) /\ Len(store) <= StoreCapacity
      /\ handler \in {"idle", "sending", "done", "failed"}
      /\ reply \in Requests \cup {Nobody} /\ shardsLeft \subseteq Shards
      /\ guard \in Shards \cup {Nobody} /\ chatsLeft \subseteq Chats /\ due \subseteq Chats
      /\ chats \subseteq Chats
  BY DEF BotTypeOK, BTypeOK
<1>3. CASE TakeRequest
  <2>1. Head(regs) \in Requests /\ Tail(regs) \in Seq(Requests)
    BY <1>2, <1>3, TailResult DEF TakeRequest
  <2>2. store' \in Seq(Requests) /\ Len(store') <= StoreCapacity
    BY <1>2, <1>3, <2>1, InsertedResult DEF TakeRequest
  <2>3. rx' \in [Receivers -> {"off", "waiting", "holding", "asleep"}]
    BY <1>2, <1>3, ReceiverTypes DEF TakeRequest
  <2> QED BY <1>1, <1>2, <1>3, <2>1, <2>2, <2>3 DEF TakeRequest, walkVars
<1>4. CASE Lag
  BY <1>1, <1>2, <1>4, ReceiverTypes DEF Lag, handlerVars, walkVars
<1>5. CASE TakeBroadcast
  <2> DEFINE e == log[cursor[Bot] + 1 - Overwritten]
  <2>1. Answers(e) => e.origin \in Requests
    BY <1>2 DEF Answers, Stored, Contains
  <2>2. TakenFrom(e) \in Seq(Requests) /\ Len(TakenFrom(e)) <= StoreCapacity
    <3>1. /\ TakenFrom(e) \in Seq(Requests) /\ Len(TakenFrom(e)) <= Len(store)
      BY <1>2, RemoveFirstResult DEF TakenFrom, Without
    <3>2. Len(TakenFrom(e)) \in Nat /\ Len(store) \in Nat /\ StoreCapacity \in Nat
      BY <1>2, <3>1, BotAssumption
    <3> QED BY <1>2, <3>1, <3>2
  <2> HIDE DEF e
  <2>3. /\ store' = TakenFrom(e) /\ TakeEvent(Bot) /\ handler' = "sending" /\ due' = chats
        /\ reply' = IF Answers(e) THEN e.origin ELSE Nobody
        /\ shardsLeft' = IF Answers(e) THEN {} ELSE Shards
        /\ UNCHANGED <<tail, dialogueVars, requestVars, log, regs, guard, chatsLeft, replies>>
    BY <1>5 DEF TakeBroadcast, e
  <2>4. reply' \in Requests \cup {Nobody} /\ shardsLeft' \subseteq Shards
    BY <2>1, <2>3
  <2> QED BY <1>1, <1>2, <2>2, <2>3, <2>4, ReceiverTypes
<1>6. CASE EnterShard
  BY <1>1, <1>2, <1>6 DEF EnterShard, bvars
<1>7. ASSUME NEW c \in Chats, SendTo(c) PROVE BotTypeOK'
  BY <1>1, <1>2, <1>7 DEF SendTo, bvars
<1>8. CASE SendReply
  BY <1>1, <1>2, <1>8 DEF SendReply, bvars, walkVars
<1>9. CASE Finish
  BY <1>1, <1>2, <1>9, ReceiverTypes DEF Finish
<1>10. ASSUME NEW how \in {"done", "failed"}, HandlerEnds(how) PROVE BotTypeOK'
  <2>1. <<>> \in Seq(Requests)
    OBVIOUS
  <2> QED BY <1>1, <1>2, <1>10, <2>1, ReceiverTypes DEF HandlerEnds
<1>11. CASE SendFails
  BY <1>10, <1>11 DEF SendFails
<1>12. CASE Cancel
  BY <1>10, <1>12 DEF Cancel
<1> QED BY <1>3, <1>4, <1>5, <1>6, <1>7, <1>8, <1>9, <1>11, <1>12 DEF HandlerTask

LEMMA TypesStep ==
    ASSUME BotTypeOK, [Next]_vars
    PROVE  BotTypeOK'
<1>1. CASE ControllerEvent
  <2>1. PICK e \in Events : Broadcasts(e)
    <3>1. \A type \in EventTypes, m \in Requests : EventOf(type, m) \in Events
      BY DEF EventOf, Events
    <3>2. {"Other", "DownloadError"} \subseteq EventTypes /\ Queues \subseteq Requests
      BY BotAssumption DEF EventTypes
    <3> QED BY <1>1, <3>1, <3>2 DEF ControllerEvent
  <2>2. /\ tail' \in Nat /\ cursor \in [Receivers -> 0..tail']
        /\ log' \in Seq(Events) /\ Len(log') = tail' - Overwritten'
    BY <2>1, BroadcastsTypes
  <2> QED BY <1>1, <2>2 DEF ControllerEvent, BotTypeOK, BTypeOK, dialogueVars, requestVars,
                              handlerVars, walkVars, Events
<1>2. CASE UNCHANGED vars
  BY <1>2 DEF vars, BotTypeOK, BTypeOK, bvars, dialogueVars, requestVars, handlerVars,
              walkVars, Overwritten
<1>3. ASSUME NEW c \in Chats, Command(c) PROVE BotTypeOK'
  BY <1>3, CommandTypes
<1>4. ASSUME NEW m \in Requests, ReceiveRequest(m) \/ RequestTask(m) PROVE BotTypeOK'
  BY <1>4, RequestTypes
<1>5. CASE HandlerTask \/ SendFails \/ Cancel
  BY <1>5, HandlerTypes
<1> QED BY <1>1, <1>2, <1>3, <1>4, <1>5 DEF Next
-----------------------------------------------------------------------------
(* Steps that neither a chat nor a request takes leave both as they are.   *)
LEMMA OthersKeep ==
    ASSUME ControllerEvent \/ HandlerTask \/ SendFails \/ Cancel \/ UNCHANGED vars
    PROVE  UNCHANGED <<dialogueVars, requestVars>>
BY DEF ControllerEvent, HandlerTask, TakeRequest, Lag, TakeBroadcast, EnterShard, SendTo,
       SendReply, Finish, SendFails, Cancel, HandlerEnds, vars

LEMMA ChatOfType == \A m \in Requests : ChatOf[m] \in Chats
BY BotAssumption

LEMMA DialogueInit == Init => DialogueAgrees
BY ChatOfType DEF Init, DialogueAgrees, ChatsAgree, PlayerAsked, AtPlayer

LEMMA DialogueByCommand ==
    ASSUME BotTypeOK, DialogueAgrees, NEW c \in Chats, Command(c)
    PROVE  DialogueAgrees'
<1>1. step' = step /\ update' \in [Chats -> UpdateStates]
      /\ update \in [Chats -> UpdateStates] /\ dialogue \in [Chats -> {"Start", "Run"}]
  BY CommandTypes DEF Command, ReceiveStart, ReceiveStop, SubscribeChat, UnsubscribeChat,
     UpdateDialogue, requestVars, BotTypeOK, UpdateStates
<1>2. PlayerAsked'
  <2>1. \A d \in Chats : update[d] = "request" => update'[d] = "request"
    BY <1>1 DEF Command, ReceiveStart, ReceiveStop, SubscribeChat, UnsubscribeChat,
       UpdateDialogue, GotoUpdate
  <2> QED BY <1>1, <2>1, ChatOfType DEF DialogueAgrees, PlayerAsked, AtPlayer
<1>3. CASE ReceiveStart(c)
  BY <1>1, <1>2, <1>3 DEF ReceiveStart, GotoUpdate, DialogueAgrees, ChatsAgree
<1>4. CASE ReceiveStop(c)
  BY <1>1, <1>2, <1>4 DEF ReceiveStop, GotoUpdate, DialogueAgrees, ChatsAgree
<1>5. CASE SubscribeChat(c)
  BY <1>1, <1>2, <1>5 DEF SubscribeChat, GotoUpdate, DialogueAgrees, ChatsAgree
<1>6. CASE UnsubscribeChat(c)
  BY <1>1, <1>2, <1>6 DEF UnsubscribeChat, GotoUpdate, DialogueAgrees, ChatsAgree
<1>7. CASE UpdateDialogue(c)
  BY <1>1, <1>2, <1>7 DEF UpdateDialogue, GotoUpdate, DialogueAgrees, ChatsAgree
<1> QED BY <1>3, <1>4, <1>5, <1>6, <1>7 DEF Command

LEMMA DialogueByRequest ==
    ASSUME BotTypeOK, DialogueAgrees, NEW m \in Requests, ReceiveRequest(m) \/ RequestTask(m)
    PROVE  DialogueAgrees'
<1> USE ChatOfType
<1>1. /\ dialogue' = dialogue /\ chats' = chats
      /\ update \in [Chats -> UpdateStates] /\ step \in [Requests -> StepStates]
  BY DEF ReceiveRequest, RequestTask, AskPlayer, Resolve, TellQueued, Register, dialogueVars,
         BotTypeOK, UpdateStates, StepStates
<1>2. ASSUME \A c \in Chats : update'[c] = update[c] \/ (/\ update[c] \in {"none", "request"}
                                                         /\ update'[c] \in {"none", "request"})
      PROVE  ChatsAgree'
  BY <1>1, <1>2 DEF DialogueAgrees, ChatsAgree
<1>3. CASE ReceiveRequest(m)
  <2>1. ChatsAgree'
    BY <1>1, <1>2, <1>3 DEF ReceiveRequest, GotoUpdate
  <2>2. PlayerAsked'
    BY <1>1, <1>3 DEF ReceiveRequest, GotoUpdate, GotoStep, DialogueAgrees, PlayerAsked, AtPlayer
  <2> QED BY <2>1, <2>2 DEF DialogueAgrees
<1>4. CASE AskPlayer(m)
  <2>1. AtPlayer(m)
    BY <1>4 DEF AskPlayer, AtPlayer, DialogueAgrees, PlayerAsked
  <2>2. ChatsAgree'
    BY <1>1, <1>2, <1>4, <2>1 DEF AskPlayer, GotoUpdate, DialogueAgrees, PlayerAsked
  <2>3. PlayerAsked'
    BY <1>1, <1>4, <2>1 DEF AskPlayer, GotoUpdate, GotoStep, DialogueAgrees, PlayerAsked, AtPlayer
  <2> QED BY <2>2, <2>3 DEF DialogueAgrees
<1>5. CASE Resolve(m)
  <2>1. ChatsAgree' /\ update' = update
    BY <1>1, <1>2, <1>5 DEF Resolve, dialogueVars
  <2>2. PlayerAsked'
    BY <1>1, <1>5, <2>1 DEF Resolve, GotoStep, DialogueAgrees, PlayerAsked, AtPlayer
  <2> QED BY <2>1, <2>2 DEF DialogueAgrees
<1>6. CASE TellQueued(m)
  <2>1. ChatsAgree' /\ update' = update
    BY <1>1, <1>2, <1>6 DEF TellQueued, dialogueVars
  <2>2. PlayerAsked'
    BY <1>1, <1>6, <2>1 DEF TellQueued, GotoStep, DialogueAgrees, PlayerAsked, AtPlayer
  <2> QED BY <2>1, <2>2 DEF DialogueAgrees
<1>7. CASE Register(m)
  <2>1. m \notin Queues => AtPlayer(m) /\ update[ChatOf[m]] = "request"
    BY <1>7 DEF Register, AtPlayer, DialogueAgrees, PlayerAsked
  <2>2. ChatsAgree'
    BY <1>1, <1>2, <1>7, <2>1 DEF Register, GotoUpdate
  <2>3. PlayerAsked'
    BY <1>1, <1>7, <2>1 DEF Register, GotoUpdate, GotoStep, DialogueAgrees, PlayerAsked, AtPlayer
  <2> QED BY <2>2, <2>3 DEF DialogueAgrees
<1> QED BY <1>3, <1>4, <1>5, <1>6, <1>7 DEF RequestTask

LEMMA DialogueStep ==
    ASSUME BotTypeOK, DialogueAgrees, [Next]_vars
    PROVE  DialogueAgrees'
<1>1. ASSUME UNCHANGED <<dialogueVars, requestVars>> PROVE DialogueAgrees'
  BY <1>1 DEF dialogueVars, requestVars, DialogueAgrees, ChatsAgree, PlayerAsked, AtPlayer
<1> QED BY <1>1, OthersKeep, DialogueByCommand, DialogueByRequest DEF Next

-----------------------------------------------------------------------------
LEMMA FoundInit == Init => FoundAgrees
BY DEF Init, FoundAgrees

LEMMA FoundStep ==
    ASSUME BotTypeOK, FoundAgrees, [Next]_vars
    PROVE  FoundAgrees'
<1>1. ASSUME UNCHANGED requestVars PROVE FoundAgrees'
  BY <1>1 DEF requestVars, FoundAgrees
<1>2. ASSUME NEW c \in Chats, Command(c) PROVE UNCHANGED requestVars
  BY <1>2 DEF Command, ReceiveStart, ReceiveStop, SubscribeChat, UnsubscribeChat, UpdateDialogue
<1>3. ASSUME NEW m \in Requests, ReceiveRequest(m) \/ RequestTask(m) PROVE FoundAgrees'
  <2>1. /\ step \in [Requests -> StepStates] /\ found \in [Requests -> Lists \cup {<<>>}]
        /\ accepted \in [Requests -> Seq(Tracks)]
    BY DEF BotTypeOK, StepStates
  <2>2. CASE Resolve(m)
    BY <2>1, <2>2 DEF Resolve, GotoStep, FoundAgrees
  <2>3. CASE TellQueued(m)
    BY <2>1, <2>3 DEF TellQueued, GotoStep, FoundAgrees
  <2>4. CASE ReceiveRequest(m) \/ AskPlayer(m) \/ Register(m)
    BY <2>1, <2>4 DEF ReceiveRequest, AskPlayer, Register, GotoStep, FoundAgrees
  <2> QED BY <1>3, <2>2, <2>3, <2>4 DEF RequestTask
<1> QED BY <1>1, <1>2, <1>3, OthersKeep DEF Next
-----------------------------------------------------------------------------
LEMMA RepliesInit == Init => RepliesAgree
<1>1. Once(<<>>) /\ \A x : ~Contains(<<>>, x)
  BY DEF Once, Contains
<1>2. Nobody \notin Requests
  BY BotAssumption
<1> QED BY <1>1, <1>2 DEF Init, RepliesAgree, Pending

(* A request on its way is not done, so nothing of it is about yet.        *)
LEMMA RepliesByRequest ==
    ASSUME BotTypeOK, RepliesAgree, NEW m \in Requests, ReceiveRequest(m) \/ RequestTask(m)
    PROVE  RepliesAgree'
<1>1. /\ step[m] # "done" /\ step \in [Requests -> StepStates]
      /\ \A k \in Requests : k # m => step'[k] = step[k]
      /\ UNCHANGED <<store, reply, replies>>
  BY DEF ReceiveRequest, RequestTask, AskPlayer, Resolve, TellQueued, Register, GotoStep,
         BotTypeOK, StepStates, handlerVars
<1>2. ~Contains(regs, m) /\ ~Contains(store, m) /\ reply # m /\ replies[m] = 0
  BY <1>1 DEF RepliesAgree, Pending
<1>3. CASE regs' = regs
  BY <1>1, <1>2, <1>3 DEF RepliesAgree, Pending
<1>4. CASE Register(m) /\ regs' = Append(regs, m)
  <2>1. regs \in Seq(Requests) /\ step'[m] = "done"
    BY <1>1, <1>4 DEF Register, GotoStep, BotTypeOK
  <2>2. Once(regs') /\ \A k : Contains(regs', k) <=> k = m \/ Contains(regs, k)
    BY <1>2, <1>4, <2>1, AppendResult DEF RepliesAgree
  <2> QED BY <1>1, <1>2, <2>1, <2>2 DEF RepliesAgree, Pending
<1> QED BY <1>3, <1>4
        DEF ReceiveRequest, RequestTask, AskPlayer, Resolve, TellQueued, Register

LEMMA RepliesByHandler ==
    ASSUME BotTypeOK, RepliesAgree, HandlerTask \/ SendFails \/ Cancel
    PROVE  RepliesAgree'
<1>1. /\ regs \in Seq(Requests) /\ store \in Seq(Requests) /\ Len(store) <= StoreCapacity
      /\ reply \in Requests \cup {Nobody}
      /\ step' = step /\ Nobody \notin Requests
  BY OthersKeep, BotAssumption DEF BotTypeOK, requestVars
<1>2. CASE TakeRequest
  <2> DEFINE m == Head(regs)
  <2>1. /\ m \in Requests /\ Contains(regs, m) /\ regs' = Tail(regs)
        /\ \A k : Contains(regs', k) => Contains(regs, k)
        /\ Once(regs') /\ ~Contains(regs', m)
    BY <1>1, <1>2, TailResult DEF TakeRequest, RepliesAgree
  <2> HIDE DEF m
  <2>2. store' = Inserted(m) /\ UNCHANGED <<reply, replies>>
    BY <1>2 DEF TakeRequest, m
  <2>3. Once(store') /\ \A k : Contains(store', k) => k = m \/ Contains(store, k)
    BY <1>1, <2>1, <2>2, InsertedResult DEF RepliesAgree
  <2> QED BY <1>1, <2>1, <2>2, <2>3 DEF RepliesAgree, Pending
<1>3. CASE TakeBroadcast
  <2> DEFINE e == log[cursor[Bot] + 1 - Overwritten]
  <2>1. /\ store' = TakenFrom(e) /\ UNCHANGED <<regs, replies>>
        /\ reply' = IF Answers(e) THEN e.origin ELSE Nobody
    BY <1>3 DEF TakeBroadcast
  <2> HIDE DEF e
  <2>2. /\ Once(store') /\ ~Contains(store', e.origin)
        /\ \A k : Contains(store', k) => Contains(store, k)
    BY <1>1, <2>1, RemoveFirstResult DEF TakenFrom, Without, RepliesAgree
  <2>3. \A k \in Requests : reply' = k => k = e.origin /\ Contains(store, k)
    BY <1>1, <2>1 DEF Answers, Stored
  <2> QED BY <1>1, <2>1, <2>2, <2>3 DEF RepliesAgree, Pending
<1>4. CASE SendReply
  <2>1. reply \in Requests /\ reply' = Nobody /\ UNCHANGED <<regs, store>>
        /\ replies' = [replies EXCEPT ![reply] = @ + 1]
    BY <1>1, <1>4 DEF SendReply
  <2>2. ~Pending(reply) /\ step[reply] = "done" /\ replies[reply] = 0
        /\ replies \in [Requests -> 0..1]
    BY <2>1 DEF RepliesAgree
  <2>3. replies' \in [Requests -> 0..1] /\ \A k \in Requests : k # reply => replies'[k] = replies[k]
    BY <2>1, <2>2
  <2> QED BY <1>1, <2>1, <2>2, <2>3 DEF RepliesAgree, Pending
<1>5. ASSUME NEW how, HandlerEnds(how) PROVE RepliesAgree'
  <2>1. regs' = <<>> /\ reply' = Nobody /\ UNCHANGED <<store, replies>>
    BY <1>5 DEF HandlerEnds
  <2>2. Once(<<>>) /\ \A x : ~Contains(<<>>, x)
    BY DEF Once, Contains
  <2> QED BY <1>1, <2>1, <2>2 DEF RepliesAgree, Pending
<1>6. CASE UNCHANGED <<regs, store, reply, replies>>
  BY <1>1, <1>6 DEF RepliesAgree, Pending
<1>7. CASE Lag \/ EnterShard \/ (\E c \in Chats : SendTo(c)) \/ Finish
  BY <1>6, <1>7 DEF Lag, EnterShard, SendTo, Finish, handlerVars
<1> QED BY <1>2, <1>3, <1>4, <1>5, <1>7 DEF HandlerTask, SendFails, Cancel

LEMMA RepliesStep ==
    ASSUME BotTypeOK, RepliesAgree, [Next]_vars
    PROVE  RepliesAgree'
<1>1. ASSUME UNCHANGED <<step, regs, store, reply, replies>> PROVE RepliesAgree'
  BY <1>1 DEF RepliesAgree, Pending
<1>2. ASSUME NEW c \in Chats, Command(c) PROVE UNCHANGED <<step, regs, store, reply, replies>>
  BY <1>2 DEF Command, ReceiveStart, ReceiveStop, SubscribeChat, UnsubscribeChat,
              UpdateDialogue, requestVars, handlerVars
<1>3. ControllerEvent => UNCHANGED <<step, regs, store, reply, replies>>
  BY DEF ControllerEvent, requestVars, handlerVars
<1>4. UNCHANGED vars => UNCHANGED <<step, regs, store, reply, replies>>
  BY DEF vars, requestVars, handlerVars
<1> QED BY <1>1, <1>2, <1>3, <1>4, RepliesByRequest, RepliesByHandler DEF Next

-----------------------------------------------------------------------------
LEMMA WalkInit == Init => WalkAgrees
BY DEF Init, WalkAgrees

LEMMA WalkByCommand ==
    ASSUME BotTypeOK, WalkAgrees, NEW c \in Chats, Command(c)
    PROVE  WalkAgrees'
<1>1. UNCHANGED <<handler, event, reply, shardsLeft, guard, chatsLeft>>
  BY DEF Command, ReceiveStart, ReceiveStop, SubscribeChat, UnsubscribeChat,
         UpdateDialogue, handlerVars, walkVars
<1>2. CASE UNCHANGED <<chats, due>>
  BY <1>1, <1>2 DEF WalkAgrees, Meant
<1>3. CASE SubscribeChat(c)
  BY <1>1, <1>3 DEF SubscribeChat, WalkAgrees, Meant
<1>4. CASE UnsubscribeChat(c)
  BY <1>1, <1>4 DEF UnsubscribeChat, Guarded, WalkAgrees, Meant
<1> QED BY <1>2, <1>3, <1>4
        DEF Command, ReceiveStart, ReceiveStop, UpdateDialogue

LEMMA WalkByHandler ==
    ASSUME BotTypeOK, WalkAgrees, HandlerTask \/ SendFails \/ Cancel
    PROVE  WalkAgrees'
<1>1. /\ chats' = chats /\ chats \subseteq Chats /\ ShardOf \in [Chats -> Shards]
      /\ reply \in Requests \cup {Nobody} /\ Nobody \notin Requests
  BY OthersKeep, BotAssumption DEF BotTypeOK, dialogueVars
<1>2. CASE TakeRequest \/ Lag
  BY <1>1, <1>2 DEF TakeRequest, Lag, handlerVars, walkVars, WalkAgrees, Meant
<1>3. CASE TakeBroadcast
  <2>1. /\ due' = chats /\ UNCHANGED <<guard, chatsLeft>>
        /\ \/ reply' = Nobody /\ shardsLeft' = Shards
           \/ /\ event'.type = "DownloadError" /\ reply' = event'.origin
              /\ Contains(store, reply')
    BY <1>3 DEF TakeBroadcast, Answers, Stored
  <2>2. Contains(store, reply') => reply' # Nobody
    BY <1>1 DEF Contains, BotTypeOK
  <2> QED BY <1>1, <2>1, <2>2 DEF WalkAgrees, Meant
<1>4. CASE EnterShard
  BY <1>1, <1>4 DEF EnterShard, WalkAgrees, Meant
<1>5. ASSUME NEW c \in Chats, SendTo(c) PROVE WalkAgrees'
  BY <1>1, <1>5 DEF SendTo, WalkAgrees, Meant
<1>6. CASE SendReply
  BY <1>1, <1>6 DEF SendReply, walkVars, WalkAgrees, Meant
<1>7. CASE Finish
  BY <1>1, <1>7 DEF Finish, Delivered, WalkAgrees
<1>8. ASSUME NEW how \in {"done", "failed"}, HandlerEnds(how) PROVE WalkAgrees'
  BY <1>1, <1>8 DEF HandlerEnds, WalkAgrees
<1> QED BY <1>2, <1>3, <1>4, <1>5, <1>6, <1>7, <1>8 DEF HandlerTask, SendFails, Cancel

LEMMA WalkStep ==
    ASSUME BotTypeOK, WalkAgrees, [Next]_vars
    PROVE  WalkAgrees'
<1>1. ASSUME UNCHANGED <<chats, handler, event, reply, shardsLeft, guard, chatsLeft, due>>
      PROVE  WalkAgrees'
  BY <1>1 DEF WalkAgrees, Meant
<1>2. ASSUME NEW m \in Requests, ReceiveRequest(m) \/ RequestTask(m) PROVE WalkAgrees'
  BY <1>1, <1>2 DEF ReceiveRequest, RequestTask, AskPlayer, Resolve, TellQueued, Register,
                    dialogueVars, handlerVars, walkVars
<1>3. CASE ControllerEvent \/ UNCHANGED vars
  BY <1>1, <1>3 DEF ControllerEvent, vars, dialogueVars, handlerVars, walkVars
<1> QED BY <1>2, <1>3, WalkByCommand, WalkByHandler DEF Next
-----------------------------------------------------------------------------
LEMMA BotInvariant == Spec => []Inductive
<1>1. Init => Inductive
  BY TypesInit, DialogueInit, RepliesInit, WalkInit, FoundInit DEF Inductive
<1>2. Inductive /\ [Next]_vars => Inductive'
  BY TypesStep, DialogueStep, RepliesStep, WalkStep, FoundStep DEF Inductive
<1> QED BY <1>1, <1>2, PTL DEF Spec

(* The state has its types, and the store keeps to its capacity.           *)
THEOREM BotTypes == Spec => []BotTypeOK
BY BotInvariant, PTL DEF Inductive

(* What a /queue adds is the longest beginning of the admissible tracks    *)
(* within the duration, whatever the search has found (filter_tracks).     *)
THEOREM LongestPrefixAccepted == Spec => []AcceptsLongestPrefix
<1>1. ASSUME Inductive PROVE AcceptsLongestPrefix
  <2> SUFFICES ASSUME NEW m \in Queues, step[m] = "tell"
               PROVE  accepted[m] = LongestWithin(Admissible(found[m])) /\ accepted[m] # <<>>
    BY DEF AcceptsLongestPrefix
  <2>1. m \in Requests /\ found[m] \in Seq(Tracks)
    <3>1. m \in Requests /\ Lists \subseteq Seq(Tracks) /\ <<>> \in Seq(Tracks)
      BY BotAssumption
    <3> QED BY <1>1, <3>1 DEF Inductive, BotTypeOK
  <2>2. accepted[m] = FilterTracks(found[m]) /\ accepted[m] # <<>>
    BY <1>1, <2>1 DEF Inductive, FoundAgrees
  <2>3. FilterTracks(found[m]) = LongestWithin(Admissible(found[m]))
    BY <2>1, AdmissibleType, TakesLongest DEF FilterTracks
  <2> QED BY <2>2, <2>3
<1> QED BY <1>1, BotInvariant, PTL

(* The messages about what was found and what was accepted hold each track *)
(* once and in order, and none is empty or over the limit, for lists of    *)
(* any length (state.rs, dispatch.rs).                                     *)
THEOREM AllTracksAnnounced == Spec => []AnnouncesAllTracks
<1>1. ASSUME Inductive PROVE AnnouncesAllTracks
  <2> SUFFICES ASSUME NEW m \in Queues, NEW headline \in BOOLEAN,
                      NEW list \in {found[m], accepted[m]}
               PROVE  SplitsWell(Messages(headline, list), headline, list)
    BY DEF AnnouncesAllTracks
  <2>1. list \in Seq(Tracks)
    <3>1. m \in Requests /\ Lists \subseteq Seq(Tracks) /\ <<>> \in Seq(Tracks)
      BY BotAssumption
    <3> QED BY <1>1, <3>1 DEF Inductive, BotTypeOK
  <2> QED BY <2>1, MessagesSplitWell
<1> QED BY <1>1, BotInvariant, PTL

(* Between two commands a chat is subscribed exactly if its dialogue runs. *)
THEOREM DialoguesMatch == Spec => []DialogueMatches
<1>1. Inductive => DialogueMatches
  BY DEF Inductive, DialogueAgrees, ChatsAgree, DialogueMatches
<1> QED BY <1>1, BotInvariant, PTL

(* A request has one reply at most, however many of its downloads fail.    *)
THEOREM OneReplyEach == Spec => []OneReply
<1>1. Inductive => OneReply
  BY DEF Inductive, RepliesAgree, OneReply
<1> QED BY <1>1, BotInvariant, PTL

(* Of all messages only one kind can reach a chat that has left the set:   *)
(* the reply to a request of its own whose download has failed.  What goes *)
(* to all does not, for the handler holds the guard of the shard it walks  *)
(* over, and no other event is answered to a request.                      *)
THEOREM StopIsObeyed == Spec => NothingAfterStop
<1>1. Inductive /\ [Next]_vars =>
          [/\ \A c \in Chats : SendTo(c) => c \in chats
           /\ SendReply => \/ ChatOf[reply] \in chats
                           \/ event.type = "DownloadError" /\ event.origin = reply]_vars
  BY DEF Inductive, WalkAgrees, SendTo, SendReply
<1> QED BY <1>1, BotInvariant, PTL DEF Spec, NothingAfterStop

(* When an event has been passed on, every chat that was subscribed all    *)
(* the time has been served: told with the others, or, only when an error  *)
(* has been answered to its request, left to that answer.                  *)
THEOREM NobodyLeftOut == Spec => NoChatLeftOut
<1>1. ASSUME Inductive, Finish PROVE due = {}
  <2>1. handler = "sending" /\ reply = Nobody /\ shardsLeft = {} /\ chatsLeft = {}
    BY <1>1 DEF Finish, Delivered
  <2> QED BY <1>1, <2>1 DEF Inductive, WalkAgrees, Meant
<1>2. Inductive /\ [Next]_vars => [Finish => due = {}]_vars
  BY <1>1
<1> QED BY <1>2, BotInvariant, PTL DEF Spec, NoChatLeftOut
=============================================================================
