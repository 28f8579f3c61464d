---------------------------- MODULE RestoreProofs ----------------------------
(***************************************************************************)
(* Proofs about Bundle and Restore: the order in which activities are      *)
(* restored, for every bundle; and what a restore keeps to, for every set  *)
(* of bundles and hubs and any number of edits by the app.                 *)
(***************************************************************************)
EXTENDS Restore, SequenceTheorems, WellFoundedInduction, TLAPS, FiniteSetTheorems

-----------------------------------------------------------------------------
(* Sequences.                                                               *)

\* What Append does to the elements of a sequence.
LEMMA AppendRange ==
  ASSUME NEW S, NEW s \in Seq(S), NEW e \in S
  PROVE  /\ Range(Append(s, e)) = Range(s) \cup {e}
         /\ IsInjective(s) /\ e \notin Range(s) => IsInjective(Append(s, e))
<1> DEFINE a == Append(s, e)
<1>1. /\ Len(s) \in Nat /\ DOMAIN s = 1 .. Len(s) /\ DOMAIN a = 1 .. Len(s) + 1
      /\ a[Len(s) + 1] = e /\ \A i \in 1 .. Len(s) : a[i] = s[i]
  BY AppendProperties
<1> HIDE DEF a
<1>2. \A i \in DOMAIN a : i = Len(s) + 1 \/ i \in DOMAIN s
  BY <1>1
<1>3. Range(a) = Range(s) \cup {e}
  BY <1>1, <1>2 DEF Range
<1>4. IsInjective(s) /\ e \notin Range(s) => IsInjective(a)
  BY <1>1, <1>2 DEF Range, IsInjective
<1> QED
  BY <1>3, <1>4 DEF a

-----------------------------------------------------------------------------
(* Natural numbers.  Induction is stated over a set of numbers, not over a  *)
(* predicate.                                                               *)

LEMMA LeastOf ==
  ASSUME NEW S \in SUBSET Nat, S # {}
  PROVE  \E n \in S : \A m \in S : n <= m
<1> DEFINE R == OpToRel(<, Nat)
<1>1. IsWellFoundedOn(R, Nat)
  BY NatLessThanWellFounded
<1>2. \A a, b \in Nat : << a, b >> \in R <=> a < b
  BY DEF OpToRel
<1> HIDE DEF R
<1>3. \E n \in S : \A m \in S : ~ (<< m, n >> \in R)
  BY <1>1, WFMin
<1>4. \A n, m \in S : n \in Nat /\ m \in Nat /\ (n <= m <=> ~ (m < n))
  OBVIOUS
<1> QED
  BY <1>2, <1>3, <1>4, Zenon

LEMMA GreatestOf ==
  ASSUME NEW N \in Nat, NEW S \in SUBSET (0 .. N), S # {}
  PROVE  \E n \in S : \A m \in S : n >= m
<1> DEFINE T == {k \in 0 .. N : N - k \in S}
<1>1. PICK s \in S : s \in 0 .. N
  OBVIOUS
<1>2. N - s \in T
  <2>1. N - (N - s) = s /\ N - s \in 0 .. N
    BY <1>1
  <2> QED
    BY <1>1, <2>1
<1>3. T \in SUBSET Nat /\ T # {}
  BY <1>2
<1>4. \A k \in T : k \in 0 .. N /\ N - k \in S
  OBVIOUS
<1>5. \A m \in S : m \in 0 .. N /\ N - m \in T
  <2> SUFFICES ASSUME NEW m \in S PROVE m \in 0 .. N /\ N - m \in T
    OBVIOUS
  <2>1. m \in 0 .. N /\ N - (N - m) = m /\ N - m \in 0 .. N
    OBVIOUS
  <2> QED
    BY <2>1
<1> HIDE DEF T
<1>6. PICK k \in T : \A m \in T : k <= m
  BY <1>3, LeastOf
<1>7. N - k \in S /\ k \in 0 .. N
  BY <1>4, <1>6
<1>8. ASSUME NEW m \in S PROVE N - k >= m
  <2>1. m \in 0 .. N /\ k <= N - m
    BY <1>5, <1>6
  <2> QED
    BY <1>7, <2>1
<1> QED
  BY <1>7, <1>8

LEMMA InductUpTo ==
  ASSUME NEW N \in Nat, NEW S \in SUBSET (0 .. N), 0 \in S,
         \A n \in 1 .. N : n - 1 \in S => n \in S
  PROVE  S = 0 .. N
<1> SUFFICES ASSUME S # 0 .. N PROVE FALSE
  OBVIOUS
<1> DEFINE T == (0 .. N) \ S
<1>0. S \subseteq 0 .. N
  OBVIOUS
<1>1. T \in SUBSET Nat /\ T # {}
  <2>1. \E x \in 0 .. N : x \notin S
    BY <1>0, Zenon
  <2> QED
    BY <2>1
<1> HIDE DEF T
<1>2. PICK n \in T : \A m \in T : n <= m
  BY <1>1, LeastOf
<1>3. n \in 1 .. N /\ n - 1 \in 0 .. N /\ ~(n <= n - 1)
  BY DEF T
<1>4. n - 1 \in S
  BY <1>2, <1>3 DEF T
<1> QED
  BY <1>3, <1>4 DEF T

\* A step repeated N times from base, and the function of its results.
IsStep(st, N, V) == st \in [1 .. N -> [V -> V]]
IsIterate(g, N, V, base, st) ==
  g \in [0 .. N -> V] /\ g[0] = base /\ \A n \in 1 .. N : g[n] = st[n][g[n - 1]]

LEMMA Iterates ==
  ASSUME NEW N \in Nat, NEW V, NEW base \in V, NEW st, IsStep(st, N, V)
  PROVE  \E g : IsIterate(g, N, V, base, st)
<1> DEFINE Upto(g, n) == /\ g \in [0 .. n -> V] /\ g[0] = base
                         /\ \A m \in 1 .. n : g[m] = st[m][g[m - 1]]
           S == {n \in 0 .. N : \E g : Upto(g, n)}
<1>1. 0 \in S
  <2>1. Upto([m \in 0 .. 0 |-> base], 0) /\ 0 \in 0 .. N
    OBVIOUS
  <2> HIDE DEF Upto
  <2> QED
    BY <2>1
<1>2. ASSUME NEW n \in 1 .. N, n - 1 \in S PROVE n \in S
  <2>1. PICK g : Upto(g, n - 1)
    BY <1>2
  <2> DEFINE e == st[n][g[n - 1]]
             h == [m \in 0 .. n |-> IF m = n THEN e ELSE g[m]]
  <2>2. g[n - 1] \in V /\ \A m \in 0 .. n - 1 : g[m] \in V
    BY <2>1
  <2>3. e \in V
    BY <2>2 DEF IsStep
  <2>4. \A m \in 0 .. n : m = n \/ m \in 0 .. n - 1
    OBVIOUS
  <2> HIDE DEF e
  <2>5. h \in [0 .. n -> V] /\ h[n] = e /\ (\A m \in 0 .. n - 1 : h[m] = g[m])
    BY <2>2, <2>3, <2>4
  <2> HIDE DEF h
  <2>6. h[0] = base
    BY <2>1, <2>5
  <2>7. ASSUME NEW m \in 1 .. n PROVE h[m] = st[m][h[m - 1]]
    <3>1. m - 1 \in 0 .. n - 1 /\ h[m - 1] = g[m - 1]
      BY <2>5
    <3>2. CASE m = n
      BY <2>5, <3>1, <3>2 DEF e
    <3>3. CASE m # n
      <4>1. m \in 1 .. n - 1 /\ m \in 0 .. n - 1
        BY <3>3
      <4> QED
        BY <2>1, <2>5, <3>1, <4>1
    <3> QED
      BY <3>2, <3>3
  <2>8. Upto(h, n)
    BY <2>5, <2>6, <2>7
  <2> QED
    BY <2>8
<1> HIDE DEF Upto
<1>3. S = 0 .. N
  <2>1. S \in SUBSET (0 .. N)
    OBVIOUS
  <2> HIDE DEF S
  <2> QED
    BY <1>1, <1>2, <2>1, InductUpTo
<1>4. N \in 0 .. N
  OBVIOUS
<1>5. \E g : Upto(g, N)
  BY <1>3, <1>4
<1> QED
  BY <1>5 DEF Upto, IsIterate

-----------------------------------------------------------------------------
(* _sort_bundle_activities_for_restore, for every bundle.                  *)

Count(b)   == Len(b.activities)
Listed(b)  == Count(b) \in Nat /\ Activities(b) = 1 .. Count(b)

\* An order in which nothing comes twice or before what it refers to.
Earlier(o, k) == { o[j] : j \in 1 .. k - 1 }
Sorted(b, o) ==
  /\ o \in Seq(Activities(b)) /\ IsInjective(o)
  /\ \A k \in DOMAIN o : DependsOn(b, o[k]) \subseteq Earlier(o, k)
Orders(b) == { o \in Seq(Activities(b)) : Sorted(b, o) }

LEMMA PlaceOneSorted ==
  ASSUME NEW b, NEW o \in Orders(b), NEW i \in Activities(b)
  PROVE  /\ PlaceOne(b, o, i) \in Orders(b)
         /\ Range(o) \subseteq Range(PlaceOne(b, o, i))
         /\ DependsOn(b, i) \subseteq Range(o) => i \in Range(PlaceOne(b, o, i))
         /\ PlaceOne(b, o, i) = o \/ Len(PlaceOne(b, o, i)) = Len(o) + 1
<1> DEFINE p == Append(o, i)
<1>1. o \in Seq(Activities(b)) /\ Sorted(b, o) /\ Len(o) \in Nat /\ DOMAIN o = 1 .. Len(o)
  BY DEF Orders
<1>2. CASE i \notin Range(o) /\ DependsOn(b, i) \subseteq Range(o)
  <2>1. /\ p \in Seq(Activities(b)) /\ Len(p) = Len(o) + 1 /\ DOMAIN p = 1 .. Len(o) + 1
        /\ p[Len(o) + 1] = i /\ \A k \in 1 .. Len(o) : p[k] = o[k]
    BY <1>1
  <2>2. Range(p) = Range(o) \cup {i} /\ IsInjective(p)
    BY <1>1, <1>2, AppendRange DEF Sorted
  <2> HIDE DEF p
  <2>3. ASSUME NEW k \in 1 .. Len(o) + 1 PROVE DependsOn(b, p[k]) \subseteq Earlier(p, k)
    <3>1. CASE k = Len(o) + 1
      <4>1. Range(o) \subseteq Earlier(p, k)
        BY <1>1, <2>1, <3>1 DEF Earlier, Range
      <4> QED
        BY <1>2, <2>1, <3>1, <4>1
    <3>2. CASE k # Len(o) + 1
      <4>1. k \in 1 .. Len(o) /\ \A j \in 1 .. k - 1 : j \in 1 .. Len(o)
        BY <1>1, <3>2
      <4>2. Earlier(p, k) = Earlier(o, k)
        BY <2>1, <4>1 DEF Earlier
      <4> QED
        BY <1>1, <2>1, <4>1, <4>2 DEF Sorted
    <3> QED
      BY <3>1, <3>2
  <2>4. p \in Orders(b)
    BY <2>1, <2>2, <2>3 DEF Orders, Sorted
  <2>5. PlaceOne(b, o, i) = p
    BY <1>2 DEF PlaceOne, p
  <2> QED
    BY <2>1, <2>2, <2>4, <2>5
<1>3. CASE ~(i \notin Range(o) /\ DependsOn(b, i) \subseteq Range(o))
  BY <1>3 DEF PlaceOne
<1> QED
  BY <1>2, <1>3

\* What one pass does, place by place.
LEMMA OnePass ==
  ASSUME NEW b, Listed(b), NEW o \in Orders(b)
  PROVE  \E f \in [0 .. Count(b) -> Orders(b)] :
           /\ f[0] = o /\ SortPass(b, o) = f[Count(b)]
           /\ \A i \in 1 .. Count(b) : f[i] = PlaceOne(b, f[i - 1], i)
<1> DEFINE N == Count(b)
           V == Orders(b)
           upTo[i \in 0 .. N] == IF i = 0 THEN o ELSE PlaceOne(b, upTo[i - 1], i)
           Eq(g) == g = [i \in 0 .. N |-> IF i = 0 THEN o ELSE PlaceOne(b, g[i - 1], i)]
           st == [i \in 1 .. N |-> [x \in V |-> PlaceOne(b, x, i)]]
<1>1. SortPass(b, o) = upTo[N]
  BY DEF SortPass, Count
<1>2. upTo = CHOOSE g : Eq(g)
  OBVIOUS
<1>3. \A x \in V, i \in 1 .. N : PlaceOne(b, x, i) \in V
  BY PlaceOneSorted DEF Listed
<1>4. N \in Nat /\ o \in V
  BY DEF Listed
<1>5. IsStep(st, N, V) /\ \A i \in 1 .. N, x \in V : st[i][x] = PlaceOne(b, x, i)
  BY <1>3 DEF IsStep
<1> HIDE DEF upTo, st, N, V
<1>15. PICK f : IsIterate(f, N, V, o, st)
  BY <1>4, <1>5, Iterates
<1>6. f \in [0 .. N -> V] /\ f[0] = o /\ \A n \in 1 .. N : f[n] = st[n][f[n - 1]]
  BY <1>15 DEF IsIterate
<1>7. \A i \in 1 .. N : i - 1 \in 0 .. N /\ f[i - 1] \in V
  BY <1>4, <1>6
<1>8. \A i \in 1 .. N : f[i] = PlaceOne(b, f[i - 1], i)
  BY <1>5, <1>6, <1>7
<1>9. Eq(f)
  BY <1>4, <1>6, <1>8
<1>10. Eq(upTo)
  BY <1>2, <1>9
<1>11. \A i \in 0 .. N : upTo[i] = IF i = 0 THEN o ELSE PlaceOne(b, upTo[i - 1], i)
  BY <1>10
<1>12. upTo[0] = o /\ \A i \in 1 .. N : upTo[i] = PlaceOne(b, upTo[i - 1], i)
  BY <1>4, <1>11
<1> DEFINE S == {i \in 0 .. N : upTo[i] = f[i]}
<1>13. S = 0 .. N
  <2>1. 0 \in S
    BY <1>4, <1>6, <1>12
  <2>2. ASSUME NEW i \in 1 .. N, i - 1 \in S PROVE i \in S
    BY <1>4, <1>8, <1>12, <2>2
  <2>3. S \in SUBSET (0 .. N)
    OBVIOUS
  <2> HIDE DEF S
  <2> QED
    BY <1>4, <2>1, <2>2, <2>3, InductUpTo
<1>14. upTo[N] = f[N]
  BY <1>4, <1>13
<1> QED
  BY <1>1, <1>6, <1>8, <1>14 DEF N, V

\* A pass keeps the order, places whatever waits for nothing, and gets on unless it
\* leaves all as it is.
LEMMA SortPassSorted ==
  ASSUME NEW b, Listed(b), NEW o \in Orders(b)
  PROVE  /\ SortPass(b, o) \in Orders(b)
         /\ \A i \in Activities(b) :
              DependsOn(b, i) \subseteq Range(o) => i \in Range(SortPass(b, o))
         /\ SortPass(b, o) = o \/ Len(SortPass(b, o)) > Len(o)
<1> DEFINE N == Count(b)
           V == Orders(b)
<1>1. N \in Nat /\ Activities(b) = 1 .. N
  BY DEF Listed
<1>2. PICK f \in [0 .. N -> V] : /\ f[0] = o /\ SortPass(b, o) = f[N]
                                 /\ \A i \in 1 .. N : f[i] = PlaceOne(b, f[i - 1], i)
  BY OnePass
<1>3. \A i \in 1 .. N : i - 1 \in 0 .. N /\ f[i - 1] \in Orders(b) /\ f[i] \in Orders(b)
  BY <1>1, <1>2
<1>4. \A i \in 0 .. N : Len(f[i]) \in Nat
  BY <1>2 DEF Orders
<1>5. Len(o) \in Nat
  BY DEF Orders
<1> HIDE DEF N, V
<1>6. ASSUME NEW i \in 1 .. N
      PROVE  /\ Range(f[i - 1]) \subseteq Range(f[i])
             /\ DependsOn(b, i) \subseteq Range(f[i - 1]) => i \in Range(f[i])
             /\ f[i] = f[i - 1] \/ Len(f[i]) = Len(f[i - 1]) + 1
  <2>1. f[i - 1] \in Orders(b) /\ i \in Activities(b) /\ f[i] = PlaceOne(b, f[i - 1], i)
    BY <1>1, <1>2, <1>3
  <2> QED
    BY <2>1, PlaceOneSorted
<1> DEFINE S == {i \in 0 .. N : /\ Range(o) \subseteq Range(f[i])
                                /\ f[i] = o \/ Len(f[i]) > Len(o)
                                /\ \A j \in 1 .. i : DependsOn(b, j) \subseteq Range(o) => j \in Range(f[i])}
<1>7. S = 0 .. N
  <2>1. 0 \in S
    BY <1>1, <1>2
  <2>2. ASSUME NEW i \in 1 .. N, i - 1 \in S PROVE i \in S
    <3>1. Range(o) \subseteq Range(f[i])
      BY <1>6, <2>2
    <3>2. f[i] = o \/ Len(f[i]) > Len(o)
      <4>1. Len(f[i - 1]) \in Nat
        BY <1>3, <1>4
      <4> QED
        BY <1>5, <1>6, <2>2, <4>1
    <3>3. ASSUME NEW j \in 1 .. i, DependsOn(b, j) \subseteq Range(o) PROVE j \in Range(f[i])
      <4>1. CASE j = i
        BY <1>6, <2>2, <3>3, <4>1
      <4>2. CASE j # i
        <5>1. j \in 1 .. i - 1
          BY <4>2
        <5> QED
          BY <1>6, <2>2, <3>3, <5>1
      <4> QED
        BY <4>1, <4>2
    <3>4. i \in 0 .. N
      BY <1>1
    <3> QED
      BY <3>1, <3>2, <3>3, <3>4
  <2>3. S \in SUBSET (0 .. N)
    OBVIOUS
  <2> HIDE DEF S
  <2> QED
    BY <1>1, <2>1, <2>2, <2>3, InductUpTo
<1>8. N \in S
  BY <1>1, <1>7
<1>9. SortPass(b, o) \in Orders(b)
  BY <1>1, <1>2 DEF V
<1> QED
  BY <1>1, <1>2, <1>8, <1>9

\* All passes, one after the other.
LEMMA AllPasses ==
  ASSUME NEW b, Listed(b)
  PROVE  \E f \in [0 .. Count(b) -> Orders(b)] :
           /\ f[0] = << >> /\ RestoreOrder(b) = f[Count(b)]
           /\ \A n \in 1 .. Count(b) : f[n] = SortPass(b, f[n - 1])
<1> DEFINE N == Count(b)
           V == Orders(b)
           passes[n \in 0 .. N] == IF n = 0 THEN << >> ELSE SortPass(b, passes[n - 1])
           Eq(g) == g = [n \in 0 .. N |-> IF n = 0 THEN << >> ELSE SortPass(b, g[n - 1])]
           st == [n \in 1 .. N |-> [x \in V |-> SortPass(b, x)]]
<1>1. RestoreOrder(b) = passes[N]
  BY DEF RestoreOrder, Count
<1>2. passes = CHOOSE g : Eq(g)
  OBVIOUS
<1>3. \A x \in V : SortPass(b, x) \in V
  BY SortPassSorted
<1>4. N \in Nat /\ << >> \in V
  BY DEF Listed, Orders, Sorted, IsInjective
<1>5. IsStep(st, N, V) /\ \A n \in 1 .. N, x \in V : st[n][x] = SortPass(b, x)
  BY <1>3 DEF IsStep
<1> HIDE DEF passes, st, N, V
<1>6. PICK f : IsIterate(f, N, V, << >>, st)
  BY <1>4, <1>5, Iterates
<1>7. f \in [0 .. N -> V] /\ f[0] = << >> /\ \A n \in 1 .. N : f[n] = st[n][f[n - 1]]
  BY <1>6 DEF IsIterate
<1>8. \A n \in 1 .. N : n - 1 \in 0 .. N /\ f[n - 1] \in V
  BY <1>4, <1>7
<1>9. \A n \in 1 .. N : f[n] = SortPass(b, f[n - 1])
  BY <1>5, <1>7, <1>8
<1>10. Eq(f)
  BY <1>4, <1>7, <1>9
<1>11. Eq(passes)
  BY <1>2, <1>10
<1>12. \A n \in 0 .. N : passes[n] = IF n = 0 THEN << >> ELSE SortPass(b, passes[n - 1])
  BY <1>11
<1>13. passes[0] = << >> /\ \A n \in 1 .. N : passes[n] = SortPass(b, passes[n - 1])
  BY <1>4, <1>12
<1> DEFINE S == {n \in 0 .. N : passes[n] = f[n]}
<1>14. S = 0 .. N
  <2>1. 0 \in S
    BY <1>4, <1>7, <1>13
  <2>2. ASSUME NEW n \in 1 .. N, n - 1 \in S PROVE n \in S
    BY <1>4, <1>9, <1>13, <2>2
  <2>3. S \in SUBSET (0 .. N)
    OBVIOUS
  <2> HIDE DEF S
  <2> QED
    BY <1>4, <2>1, <2>2, <2>3, InductUpTo
<1>15. passes[N] = f[N]
  BY <1>4, <1>14
<1> QED
  BY <1>1, <1>7, <1>9, <1>15 DEF N, V

\* An order is as long as the bundle just when it has all activities.
LEMMA FullOrder ==
  ASSUME NEW b, Listed(b), NEW o \in Orders(b)
  PROVE  /\ Len(o) \in 0 .. Count(b)
         /\ Len(o) = Count(b) <=> Range(o) = Activities(b)
<1>1. /\ Count(b) \in Nat /\ Activities(b) = 1 .. Count(b)
      /\ o \in Seq(Activities(b)) /\ IsInjective(o)
  BY DEF Listed, Orders, Sorted
<1>2. Len(o) \in Nat /\ o \in [1 .. Len(o) -> Activities(b)]
  BY <1>1
<1>3. o \in Injection(1 .. Len(o), Activities(b))
  BY <1>1, <1>2 DEF Injection
<1>4. /\ IsFiniteSet(Activities(b)) /\ Cardinality(Activities(b)) = Count(b)
      /\ Cardinality(1 .. Len(o)) = Len(o)
  <2>1. 1 \in Int /\ Count(b) \in Int /\ Len(o) \in Int
    BY <1>1, <1>2
  <2>2. /\ IsFiniteSet(1 .. Count(b))
        /\ Cardinality(1 .. Count(b)) = IF 1 > Count(b) THEN 0 ELSE Count(b) - 1 + 1
    BY <2>1, FS_Interval
  <2>3. Cardinality(1 .. Len(o)) = IF 1 > Len(o) THEN 0 ELSE Len(o) - 1 + 1
    BY <2>1, FS_Interval
  <2> QED
    BY <1>1, <1>2, <2>2, <2>3
<1>5. /\ Cardinality(1 .. Len(o)) <= Cardinality(Activities(b))
      /\ Cardinality(1 .. Len(o)) = Cardinality(Activities(b))
            <=> o \in Surjection(1 .. Len(o), Activities(b))
  BY <1>3, <1>4, FS_Injection
<1>6. o \in Surjection(1 .. Len(o), Activities(b)) <=> Range(o) = Activities(b)
  BY <1>2 DEF Surjection, Range
<1> QED
  BY <1>1, <1>2, <1>4, <1>5, <1>6

LEMMA DependsOnActivities ==
  ASSUME NEW b, Listed(b), NEW i
  PROVE  DependsOn(b, i) \subseteq Activities(b)
<1> SUFFICES ASSUME NEW s, NEW j \in Activities(b), b.activities[j].src = s
             PROVE  IndexOf(b, s) \in Activities(b)
  BY DEF DependsOn
<1> DEFINE S == { k \in Activities(b) : b.activities[k].src = s }
<1>1. Count(b) \in Nat /\ S \in SUBSET (0 .. Count(b)) /\ S # {}
  BY DEF Listed
<1>2. S \subseteq Activities(b)
  OBVIOUS
<1>3. IndexOf(b, s) = Max(S)
  BY DEF IndexOf
<1> HIDE DEF S
<1>4. \E n \in S : \A m \in S : n >= m
  BY <1>1, GreatestOf
<1>5. Max(S) \in S
  BY <1>4 DEF Max
<1> QED
  BY <1>2, <1>3, <1>5

\* Activities each of which refers to another of them.
Cycle(b, S) ==
  S \subseteq Activities(b) /\ S # {} /\ \A i \in S : DependsOn(b, i) \cap S # {}

\* The sort restores every activity after those it refers to, and it gives a bundle up
\* just when some of its activities refer to each other in a circle.
THEOREM SortIsRight ==
  ASSUME NEW b, Listed(b)
  PROVE  /\ RestoreOrder(b) \in Orders(b)
         /\ Circular(b) <=> \E S : Cycle(b, S)
         /\ ~Circular(b) => Range(RestoreOrder(b)) = Activities(b)
<1> DEFINE N == Count(b)
           o == RestoreOrder(b)
<1>1. PICK f \in [0 .. N -> Orders(b)] : /\ f[0] = << >> /\ o = f[N]
                                          /\ \A n \in 1 .. N : f[n] = SortPass(b, f[n - 1])
  BY AllPasses
<1>2. N \in Nat /\ \A n \in 1 .. N : n - 1 \in 0 .. N
  BY DEF Listed
<1>3. o \in Orders(b)
  BY <1>1, <1>2
<1> HIDE DEF N, o
<1> DEFINE T == {n \in 0 .. N : Len(f[n]) >= n \/ SortPass(b, f[n]) = f[n]}
<1>4. T = 0 .. N
  <2>1. 0 \in T
    BY <1>1, <1>2
  <2>2. ASSUME NEW n \in 1 .. N, n - 1 \in T PROVE n \in T
    <3>1. /\ f[n - 1] \in Orders(b) /\ f[n] = SortPass(b, f[n - 1]) /\ f[n] \in Orders(b)
          /\ n \in 0 .. N
      BY <1>1, <1>2
    <3>2. Len(f[n - 1]) \in Nat /\ Len(f[n]) \in Nat
      BY <3>1 DEF Orders
    <3>3. f[n] = f[n - 1] \/ Len(f[n]) > Len(f[n - 1])
      BY <3>1, SortPassSorted
    <3>4. CASE f[n] = f[n - 1]
      BY <3>1, <3>4
    <3>5. CASE f[n] # f[n - 1]
      <4>1. Len(f[n - 1]) >= n - 1
        BY <2>2, <3>1, <3>5
      <4> QED
        BY <3>1, <3>2, <3>3, <3>5, <4>1
    <3> QED
      BY <3>4, <3>5
  <2>3. T \in SUBSET (0 .. N)
    OBVIOUS
  <2> HIDE DEF T
  <2> QED
    BY <1>2, <2>1, <2>2, <2>3, InductUpTo
<1>5. Len(o) >= N \/ SortPass(b, o) = o
  <2>1. N \in T
    BY <1>2, <1>4
  <2> QED
    BY <1>1, <2>1
<1>6. /\ Len(o) \in 0 .. N /\ Activities(b) = 1 .. N
      /\ Len(o) = N <=> Range(o) = Activities(b)
  BY <1>3, FullOrder DEF N, Listed
<1>7. Circular(b) <=> Range(o) # Activities(b)
  BY <1>2, <1>6 DEF Circular, N, o, Count
<1>8. ASSUME Circular(b) PROVE \E S : Cycle(b, S)
  <2> DEFINE S == Activities(b) \ Range(o)
  <2>1. S # {}
    <3>1. Range(o) \subseteq Activities(b)
      BY <1>3 DEF Orders, Range
    <3> QED
      BY <1>7, <1>8, <3>1
  <2>2. SortPass(b, o) = o
    BY <1>2, <1>5, <1>6, <1>7, <1>8
  <2>3. ASSUME NEW i \in S PROVE DependsOn(b, i) \cap S # {}
    <3>1. ~(DependsOn(b, i) \subseteq Range(o))
      BY <1>3, <2>2, SortPassSorted
    <3> QED
      BY <3>1, DependsOnActivities
  <2> QED
    BY <2>1, <2>3 DEF Cycle
<1>9. ASSUME NEW S, Cycle(b, S) PROVE Circular(b)
  <2> SUFFICES ASSUME Range(o) = Activities(b) PROVE FALSE
    BY <1>7
  <2>1. o \in Seq(Activities(b)) /\ Sorted(b, o) /\ DOMAIN o = 1 .. Len(o)
    BY <1>3 DEF Orders
  <2> DEFINE K == {k \in 1 .. Len(o) : o[k] \in S}
  <2>2. K \in SUBSET Nat /\ K # {}
    BY <1>9, <2>1 DEF Cycle, Range
  <2>3. \A k \in K : k \in 1 .. Len(o) /\ o[k] \in S
    OBVIOUS
  <2>4. \A k \in 1 .. Len(o) : o[k] \in S => k \in K
    OBVIOUS
  <2> HIDE DEF K
  <2>5. PICK k \in K : \A m \in K : k <= m
    BY <2>2, LeastOf
  <2>6. PICK j \in DependsOn(b, o[k]) \cap S : TRUE
    BY <1>9, <2>3 DEF Cycle
  <2>7. PICK m \in 1 .. k - 1 : o[m] = j
    BY <2>1, <2>3, <2>5, <2>6 DEF Sorted, Earlier
  <2>8. k \in 1 .. Len(o) /\ Len(o) \in Nat
    BY <2>1, <2>3, <2>5
  <2>9. m \in 1 .. Len(o) /\ ~(k <= m)
    BY <2>7, <2>8
  <2> QED
    BY <2>4, <2>5, <2>6, <2>7, <2>9
<1> QED
  BY <1>3, <1>7, <1>8, <1>9 DEF o

(***************************************************************************)
(* The invariant.                                                          *)
(***************************************************************************)
Order == RestoreOrder(bundle)

DevicePhases   == {"device", "create", "fill", "rollback"}
ActivityPhases == {"activity", "make", "wire", "favorites"}

\* While a copy is being filled, new is its id.
Filling == phase \in {"fill", "rollback", "wire", "favorites"}
Current == IF phase \in {"fill", "rollback"} THEN << "device", pos >> ELSE << "activity", Place >>

\* What the proofs need to know of the types.
Shape ==
  /\ bundle \in Bundles /\ before \subseteq Ids /\ lost \subseteq Ids
  /\ Taken \subseteq Ids /\ hub = [id \in Taken |-> hub[id]]
  /\ \A id \in Taken : hub[id] = [of |-> hub[id].of, rows |-> hub[id].rows]
  /\ phase \in {"idle", "done"} \cup DevicePhases \cup ActivityPhases
  /\ pos \in Nat \ {0} /\ fav \in Nat /\ slot \in Nat
  /\ phase = "create" /\ ~x1 => target \in DeviceIds
  /\ Filling => new \in Ids

\* Where the loop is: what is copied, and that it never waits for what is not.
Course ==
  /\ verdict = "running" <=> phase # "done"
  /\ phase \notin {"idle", "done"} => ~Circular(bundle)
  /\ phase = "idle" => copies = << >> /\ pos = 1
  /\ phase \in {"create", "fill", "rollback"} => pos \in Devices(bundle)
  /\ phase \in {"make", "wire", "favorites"} =>
       /\ pos \in 1 .. Len(Order)
       /\ \A s \in Refers(Activity) : KeyOf(s) \in DOMAIN idOf
  /\ phase \in DevicePhases =>
       DOMAIN copies = {"device"} \X { i \in Devices(bundle) : i < pos }
  /\ phase \in ActivityPhases =>
       DOMAIN copies = ({"device"} \X Devices(bundle))
                          \cup ({"activity"} \X { Order[j] : j \in { k \in 1 .. Len(Order) : k < pos } })
  /\ verdict = "success" => DOMAIN copies = Entities(bundle)

\* The id map names copies that were made.
MapNamesCopies ==
  \A key \in DOMAIN idOf : \E e \in DOMAIN copies :
    key[2] = Source(bundle, e) /\ idOf[key] = copies[e]

\* A copy is there, and a copy of what it should be, unless the app has deleted it.
CopiesStand ==
  /\ DOMAIN copies \subseteq Entities(bundle)
  /\ before \subseteq Taken \cup lost
  /\ \A e \in DOMAIN copies :
       copies[e] \in lost \/ (copies[e] \in Taken /\ hub[copies[e]].of = e)
  /\ Filling =>
       /\ new \in before \cup Range(copies) => new \in lost
       /\ new \in lost \/ new \in Made
       /\ new \in Made => hub[new].of = Current

\* No copy but those listed and the one under way.
Strays ==
  /\ phase # "done" /\ ~Filling => Made \subseteq Range(copies)
  /\ Filling => Made \subseteq Range(copies) \cup {new}
  /\ \E x \in Ids \cup {0} : Made \subseteq Range(copies) \cup {x}
  /\ verdict = "success" => Made \subseteq Range(copies)

\* How many keys up to n are left beside those of the rows.
Left(rows, n) == Cardinality({ j \in 1 .. n : j \notin rows })

\* The keys up to slot that are left for favorites are those of the favorites done.
SlotsCounted ==
  /\ phase # "done" /\ phase # "favorites" => fav = 0 /\ slot = 0
  /\ phase = "favorites" =>
       fav = Left(DOMAIN Activity.rows, slot)

IInv ==
  /\ Shape /\ Course /\ MapNamesCopies /\ CopiesStand /\ Strays /\ SlotsCounted
  /\ ReferencesKept

(***************************************************************************)
(* The order of the restore.                                               *)
(***************************************************************************)
LEMMA OrderFacts ==
  ASSUME bundle \in Bundles
  PROVE  /\ Len(Order) \in Nat /\ DOMAIN Order = 1 .. Len(Order)
         /\ \A j \in 1 .. Len(Order) : Order[j] \in Activities(bundle)
         /\ \A j, k \in 1 .. Len(Order) : Order[j] = Order[k] => j = k
         /\ ~Circular(bundle) =>
              Activities(bundle) = { Order[j] : j \in 1 .. Len(Order) }
<1>1. Listed(bundle)
  BY BundlesAreLists DEF Listed, Count, Activities
<1>2. /\ Order \in Orders(bundle)
      /\ ~Circular(bundle) => Range(Order) = Activities(bundle)
  BY <1>1, SortIsRight DEF Order
<1>3. Order \in Seq(Activities(bundle)) /\ IsInjective(Order)
  BY <1>2 DEF Orders, Sorted
<1>4. /\ Len(Order) \in Nat /\ DOMAIN Order = 1 .. Len(Order)
      /\ \A j \in 1 .. Len(Order) : Order[j] \in Activities(bundle)
  BY <1>3
<1>5. \A j, k \in 1 .. Len(Order) : Order[j] = Order[k] => j = k
  BY <1>3, <1>4 DEF IsInjective
<1>6. Range(Order) = { Order[j] : j \in 1 .. Len(Order) }
  BY <1>4 DEF Range
<1> QED
  BY <1>2, <1>4, <1>5, <1>6

(***************************************************************************)
(* What the steps do to the hub.                                           *)
(***************************************************************************)
LEMMA AfterCreate ==
  ASSUME Shape, NEW id \in Ids, id \notin Taken, NEW e, Create(id, e)
  PROVE  /\ Taken' = Taken \cup {id} /\ hub' = [x \in Taken' |-> hub'[x]]
         /\ \A x \in Taken : hub'[x] = hub[x]
         /\ hub'[id] = [of |-> e, rows |-> << >>]
<1> DEFINE r == [of |-> e, rows |-> << >>]
<1>1. hub' = Put(hub, id, r)
  BY DEF Create
<1> HIDE DEF r
<1>2. hub' = [x \in Taken \cup {id} |-> IF x = id THEN r ELSE hub[x]]
  <2>1. DOMAIN [x \in {id} |-> r] = {id} /\ [x \in {id} |-> r][id] = r
    OBVIOUS
  <2> QED
    BY <1>1, <2>1 DEF Taken, Put, Over
<1>3. Taken' = Taken \cup {id} /\ hub' = [x \in Taken' |-> hub'[x]]
  BY <1>2 DEF Taken
<1>4. hub'[id] = r
  BY <1>2
<1> QED
  BY <1>2, <1>3, <1>4 DEF r

LEMMA AfterDelete ==
  ASSUME Shape, NEW id, hub' = Deleted(id)
  PROVE  /\ Taken' = Taken \ {id} /\ hub' = [x \in Taken' |-> hub'[x]]
         /\ \A x \in Taken' :
              /\ hub'[x] = [of |-> hub[x].of, rows |-> hub'[x].rows]
              /\ DOMAIN hub'[x].rows \subseteq DOMAIN hub[x].rows
              /\ \A k \in DOMAIN hub'[x].rows :
                   hub'[x].rows[k] = hub[x].rows[k] /\ hub'[x].rows[k] # id
<1>1. Taken' = Taken \ {id} /\ hub' = [x \in Taken' |-> hub'[x]]
  BY DEF Taken, Deleted
<1>2. ASSUME NEW x \in Taken'
      PROVE  hub'[x] = [of |-> hub[x].of, rows |-> Without(hub[x].rows, id)]
  <2>1. hub'[x] = [hub[x] EXCEPT !.rows = Without(@, id)]
    BY <1>1, <1>2 DEF Taken, Deleted
  <2>2. hub[x] = [of |-> hub[x].of, rows |-> hub[x].rows]
    BY <1>1, <1>2 DEF Shape
  <2> QED
    BY <2>1, <2>2
<1>3. ASSUME NEW x \in Taken'
      PROVE  /\ hub'[x] = [of |-> hub[x].of, rows |-> hub'[x].rows]
             /\ DOMAIN hub'[x].rows \subseteq DOMAIN hub[x].rows
             /\ \A k \in DOMAIN hub'[x].rows :
                  hub'[x].rows[k] = hub[x].rows[k] /\ hub'[x].rows[k] # id
  <2>1. hub'[x] = [of |-> hub[x].of, rows |-> Without(hub[x].rows, id)]
    BY <1>2, <1>3
  <2> DEFINE rows == hub[x].rows
             S    == { j \in DOMAIN rows : rows[j] # id }
  <2>2. Without(rows, id) = [k \in S |-> rows[k]]
    BY DEF Without, Restrict
  <2>3. S \subseteq DOMAIN rows /\ \A k \in S : rows[k] # id
    OBVIOUS
  <2> HIDE DEF S
  <2>4. hub'[x].rows = [k \in S |-> rows[k]]
    BY <2>1, <2>2
  <2>5. hub'[x] = [of |-> hub[x].of, rows |-> hub'[x].rows]
    BY <2>1
  <2> QED
    BY <2>3, <2>4, <2>5
<1> QED
  BY <1>1, <1>3

LEMMA AfterRows ==
  ASSUME Shape, new \in Taken, NEW f, hub' = [hub EXCEPT ![new].rows = Over(f, @)]
  PROVE  /\ Taken' = Taken /\ hub' = [x \in Taken' |-> hub'[x]]
         /\ \A x \in Taken : hub'[x] = [of |-> hub[x].of, rows |-> hub'[x].rows]
         /\ \A x \in Taken \ {new} : hub'[x] = hub[x]
         /\ DOMAIN hub'[new].rows = DOMAIN f \cup DOMAIN hub[new].rows
         /\ \A k \in DOMAIN hub'[new].rows :
              hub'[new].rows[k] = IF k \in DOMAIN f THEN f[k] ELSE hub[new].rows[k]
<1>1. Taken' = Taken /\ hub' = [x \in Taken' |-> hub'[x]]
  BY DEF Taken, Shape
<1>2. \A x \in Taken \ {new} : hub'[x] = hub[x]
  BY DEF Taken
<1>3. hub'[new] = [hub[new] EXCEPT !.rows = Over(f, @)]
  BY DEF Taken
<1>4. \A x \in Taken : hub[x] = [of |-> hub[x].of, rows |-> hub[x].rows]
  BY DEF Shape
<1>5. hub'[new] = [of |-> hub[new].of, rows |-> Over(f, hub[new].rows)]
  BY ZenonT(60), <1>3, <1>4
<1>6. \A x \in Taken : hub'[x] = [of |-> hub[x].of, rows |-> hub'[x].rows]
  BY <1>2, <1>4, <1>5
<1>7. hub'[new].rows = [k \in DOMAIN f \cup DOMAIN hub[new].rows |->
                          IF k \in DOMAIN f THEN f[k] ELSE hub[new].rows[k]]
  BY <1>5 DEF Over
<1> QED
  BY <1>1, <1>2, <1>6, <1>7

(***************************************************************************)
(* Each part of the invariant is kept by each step.                        *)
(***************************************************************************)
\* A call that ends without success leaves the lists and the map as they are.
GivesUp ==
  phase' = "done" /\ verdict' \in {"failed", "raised"} /\ UNCHANGED << pos, copies, idOf >>

LEMMA CourseKept ==
  ASSUME Shape, Course, Next
  PROVE  Course'
<1>1. /\ bundle' = bundle /\ Order' = Order /\ pos \in Nat \ {0}
      /\ Len(Order) \in Nat /\ \A j \in 1 .. Len(Order) : Order[j] \in Activities(bundle)
  <2>1. bundle' = bundle
    BY DEF Next, Begin, SkipDevice, BeginDevice, DevicesDone, CreateDevice, ImportDevice,
           Created, FillDevice, FinishImport, Filled, Rollback, BeginActivity, CreateActivity,
           WireActivity, NextFavorite, FavoritesDone, ActivitiesDone, App, AppComesOrGoes,
           AppAdds, AppDeletes, fixed
  <2> QED
    BY <2>1, OrderFacts DEF Shape, Order
<1>2. CASE GivesUp
  BY <1>1, <1>2 DEF GivesUp, Course, DevicePhases, ActivityPhases
<1>3. CASE UNCHANGED << phase, pos, copies, idOf, verdict >>
  BY <1>1, <1>3 DEF Course, Activity, Place, Order
<1>4. CASE Begin
  <2>1. GivesUp \/ (phase = "idle" /\ ~Circular(bundle) /\ Go("device") /\ UNCHANGED made)
    BY <1>4 DEF Begin, End, GivesUp, made
  <2>2. CASE phase = "idle" /\ ~Circular(bundle) /\ Go("device") /\ UNCHANGED made
    <3>1. DOMAIN copies = {} /\ pos = 1 /\ \A i \in Devices(bundle) : ~(i < 1)
      BY <1>1, <2>2, BundlesAreLists DEF Course, Devices, Shape
    <3> QED
      BY <1>1, <2>2, <3>1 DEF Course, Go, made, DevicePhases, ActivityPhases
  <2> QED
    BY <1>2, <2>1, <2>2
<1>5. CASE SkipDevice
  <2>1. \A i : i \in Devices(bundle) /\ i < pos <=> i \in Devices(bundle) /\ i < pos + 1
    BY <1>1, <1>5, BundlesAreLists DEF Shape, SkipDevice, Device, Devices
  <2> QED
    BY <1>1, <1>5, <2>1 DEF SkipDevice, Course, DevicePhases, ActivityPhases, made
<1>6. CASE DevicesDone
  <2>1. \A i : i \in Devices(bundle) /\ i < pos <=> i \in Devices(bundle)
    BY <1>1, <1>6, BundlesAreLists DEF Shape, DevicesDone, Devices
  <2>2. { Order[j] : j \in { k \in 1 .. Len(Order) : k < 1 } } = {}
    BY <1>1
  <2> QED
    BY <1>1, <1>6, <2>1, <2>2 DEF DevicesDone, Course, DevicePhases, ActivityPhases, made
<1>7. CASE BeginDevice
  <2>1. GivesUp \/ (Go("create") /\ UNCHANGED made)
    BY <1>7 DEF BeginDevice, End, GivesUp, made
  <2>2. phase = "device" /\ pos \in Devices(bundle)
    BY <1>1, <1>7, BundlesAreLists DEF BeginDevice, Device, Devices, Shape
  <2> QED
    BY <1>1, <1>2, <2>1, <2>2 DEF Go, Course, DevicePhases, ActivityPhases, made
<1>8. CASE CreateDevice \/ ImportDevice
  <2>1. GivesUp \/ (phase = "create" /\ Go("fill") /\ UNCHANGED made)
    BY <1>8 DEF CreateDevice, ImportDevice, Created, End, GivesUp, made
  <2> QED
    BY <1>1, <1>2, <2>1 DEF Go, Course, DevicePhases, ActivityPhases, made
<1>9. CASE FillDevice \/ FinishImport
  <2>1. CASE phase = "fill" /\ Go("rollback") /\ UNCHANGED made
    BY <1>1, <2>1 DEF Go, Course, DevicePhases, ActivityPhases, made
  <2>2. CASE phase = "fill" /\ Restored(<< "device", pos >>) /\ phase' = "device" /\ verdict' = verdict
    <3>1. DOMAIN copies' = DOMAIN copies \cup {<< "device", pos >>}
      BY <2>2 DEF Restored, Put, Over
    <3>2. /\ pos \in Devices(bundle) /\ pos' = pos + 1
          /\ DOMAIN copies = {"device"} \X { i \in Devices(bundle) : i < pos }
      BY <2>2 DEF Course, DevicePhases, Restored
    <3>3. \A i \in Devices(bundle) : i < pos + 1 <=> i < pos \/ i = pos
      BY <1>1, BundlesAreLists DEF Devices, Shape
    <3>4. DOMAIN copies' = {"device"} \X { i \in Devices(bundle) : i < pos + 1 }
      BY <3>1, <3>2, <3>3
    <3> QED
      BY <1>1, <2>2, <3>2, <3>4 DEF Course, DevicePhases, ActivityPhases
  <2> QED
    BY <1>9, <2>1, <2>2 DEF FillDevice, FinishImport, Filled, made
<1>10. CASE Rollback
  BY <1>2, <1>10 DEF Rollback, End, GivesUp, made
<1>11. CASE BeginActivity
  <2>1. GivesUp \/ (/\ Go("make") /\ UNCHANGED made
                    /\ \A s \in Refers(Activity) : KeyOf(s) \in DOMAIN idOf)
    BY <1>11 DEF BeginActivity, End, GivesUp, made
  <2>2. phase = "activity" /\ pos \in 1 .. Len(Order)
    BY <1>1, <1>11 DEF BeginActivity, Order
  <2>3. CASE /\ Go("make") /\ UNCHANGED made
             /\ \A s \in Refers(Activity) : KeyOf(s) \in DOMAIN idOf
    <3>1. pos' = pos /\ Activity' = Activity /\ phase' = "make" /\ verdict' = verdict
      BY <1>1, <2>3 DEF Activity, Place, Go
    <3> QED
      BY <1>1, <2>2, <2>3, <3>1 DEF Course, DevicePhases, ActivityPhases, made
  <2> QED
    BY <1>2, <2>1, <2>3
<1>12. CASE CreateActivity \/ WireActivity
  <2>1. GivesUp \/ (phase \in {"make", "wire"} /\ (Go("wire") \/ Go("favorites")) /\ UNCHANGED made)
    BY <1>12 DEF CreateActivity, WireActivity, End, GivesUp, made
  <2>2. CASE phase \in {"make", "wire"} /\ (Go("wire") \/ Go("favorites")) /\ UNCHANGED made
    <3>1. /\ pos' = pos /\ Activity' = Activity /\ phase' \in {"wire", "favorites"}
          /\ verdict' = verdict
      BY <1>1, <2>2 DEF Activity, Place, Go
    <3> QED
      BY <1>1, <2>2, <3>1 DEF Course, DevicePhases, ActivityPhases, made
  <2> QED
    BY <1>2, <2>1, <2>2
<1>13. CASE FavoritesDone
  <2>1. /\ phase = "favorites" /\ phase' = "activity" /\ pos' = pos + 1 /\ verdict' = verdict
        /\ DOMAIN copies' = DOMAIN copies \cup {<< "activity", Order[pos] >>}
    BY <1>13 DEF FavoritesDone, Restored, Put, Over, Place, Order
  <2>2. /\ pos \in 1 .. Len(Order)
        /\ DOMAIN copies = ({"device"} \X Devices(bundle))
             \cup ({"activity"} \X { Order[j] : j \in { k \in 1 .. Len(Order) : k < pos } })
    BY <2>1 DEF Course, ActivityPhases
  <2>3. \A k \in 1 .. Len(Order) : k < pos + 1 <=> k < pos \/ k = pos
    BY <1>1, <2>2
  <2>4. { Order[j] : j \in { k \in 1 .. Len(Order) : k < pos + 1 } }
          = { Order[j] : j \in { k \in 1 .. Len(Order) : k < pos } } \cup {Order[pos]}
    BY <2>2, <2>3
  <2>5. DOMAIN copies' = ({"device"} \X Devices(bundle))
             \cup ({"activity"} \X { Order[j] : j \in { k \in 1 .. Len(Order) : k < pos + 1 } })
    BY <2>1, <2>2, <2>4
  <2> QED
    BY <1>1, <2>1, <2>5 DEF Course, DevicePhases, ActivityPhases
<1>14. CASE ActivitiesDone
  <2>1. /\ phase = "activity" /\ pos > Len(Order) /\ phase' = "done" /\ verdict' = "success"
        /\ UNCHANGED << pos, copies, idOf >>
    BY <1>14 DEF ActivitiesDone, End, made, Order
  <2>2. ~Circular(bundle)
    BY <2>1 DEF Course
  <2>3. { k \in 1 .. Len(Order) : k < pos } = 1 .. Len(Order)
    BY <1>1, <2>1
  <2>4. Activities(bundle) = { Order[j] : j \in 1 .. Len(Order) }
    BY <2>2, OrderFacts DEF Shape
  <2>5. DOMAIN copies = Entities(bundle)
    BY <2>1, <2>3, <2>4 DEF Course, ActivityPhases, Entities
  <2> QED
    BY <1>1, <2>1, <2>5 DEF Course, DevicePhases, ActivityPhases
<1>15. CASE NextFavorite \/ App
  BY <1>3, <1>15 DEF NextFavorite, App, AppComesOrGoes, AppAdds, AppDeletes, made, call
<1> QED
  BY <1>4, <1>5, <1>6, <1>7, <1>8, <1>9, <1>10, <1>11, <1>12, <1>13, <1>14, <1>15 DEF Next

LEMMA HubMoves ==
  ASSUME Shape, Next
  PROVE  \/ hub' = hub
         \/ \E id \in Ids \ Taken : \E e : Create(id, e)
         \/ \E id : hub' = Deleted(id)
         \/ new \in Taken /\ \E f : hub' = [hub EXCEPT ![new].rows = Over(f, @)]
<1>1. CASE CreateDevice \/ ImportDevice
  <2>1. PICK ids \in SUBSET (DeviceIds \ Taken) : Created(ids)
    BY <1>1 DEF CreateDevice, ImportDevice, Created, Shape
  <2> QED
    BY <2>1 DEF Created, Ids
<1>2. CASE CreateActivity
  BY <1>2 DEF CreateActivity, Ids
<1>3. CASE WireActivity
  <2>1. PICK ks : Write(ks)
    BY <1>3 DEF WireActivity
  <2> QED
    BY <2>1 DEF Write
<1>4. CASE NextFavorite
  <2>1. hub' = hub \/ \E k, d : hub' = [hub EXCEPT ![new].rows = Put(@, k, d)] /\ new \in Taken
    BY <1>4 DEF NextFavorite
  <2> QED
    BY <2>1 DEF Put
<1>5. CASE App
  BY <1>5 DEF App, AppComesOrGoes, AppAdds, AppDeletes
<1>6. CASE Rollback
  BY <1>6 DEF Rollback
<1> QED
  BY <1>1, <1>2, <1>3, <1>4, <1>5, <1>6
     DEF Next, Begin, SkipDevice, BeginDevice, DevicesDone, FillDevice, FinishImport, Filled,
         BeginActivity, FavoritesDone, ActivitiesDone

\* A step keeps the hub's entities records, and takes no id from outside.
LEMMA HubShapeKept ==
  ASSUME Shape, Next
  PROVE  /\ Taken' \subseteq Ids /\ hub' = [id \in Taken' |-> hub'[id]]
         /\ \A id \in Taken' : hub'[id] = [of |-> hub'[id].of, rows |-> hub'[id].rows]
<1>1. /\ Taken \subseteq Ids /\ hub = [id \in Taken |-> hub[id]]
      /\ \A id \in Taken : hub[id] = [of |-> hub[id].of, rows |-> hub[id].rows]
  BY DEF Shape
<1>2. CASE hub' = hub
  BY <1>1, <1>2 DEF Taken
<1>3. ASSUME NEW id \in Ids \ Taken, NEW e, Create(id, e)
      PROVE  /\ Taken' \subseteq Ids /\ hub' = [x \in Taken' |-> hub'[x]]
             /\ \A x \in Taken' : hub'[x] = [of |-> hub'[x].of, rows |-> hub'[x].rows]
  <2>1. /\ Taken' = Taken \cup {id} /\ hub' = [x \in Taken' |-> hub'[x]]
        /\ \A x \in Taken : hub'[x] = hub[x]
        /\ hub'[id] = [of |-> e, rows |-> << >>]
    BY <1>3, AfterCreate
  <2> QED
    BY <1>1, <2>1
<1>4. ASSUME NEW id, hub' = Deleted(id)
      PROVE  /\ Taken' \subseteq Ids /\ hub' = [x \in Taken' |-> hub'[x]]
             /\ \A x \in Taken' : hub'[x] = [of |-> hub'[x].of, rows |-> hub'[x].rows]
  <2>1. /\ Taken' = Taken \ {id} /\ hub' = [x \in Taken' |-> hub'[x]]
        /\ \A x \in Taken' : hub'[x] = [of |-> hub[x].of, rows |-> hub'[x].rows]
    BY <1>4, AfterDelete
  <2>2. \A x \in Taken' : hub'[x].of = hub[x].of
    BY <2>1
  <2> QED
    BY <1>1, <2>1, <2>2
<1>5. ASSUME new \in Taken, NEW f, hub' = [hub EXCEPT ![new].rows = Over(f, @)]
      PROVE  /\ Taken' \subseteq Ids /\ hub' = [x \in Taken' |-> hub'[x]]
             /\ \A x \in Taken' : hub'[x] = [of |-> hub'[x].of, rows |-> hub'[x].rows]
  <2>1. /\ Taken' = Taken /\ hub' = [x \in Taken' |-> hub'[x]]
        /\ \A x \in Taken : hub'[x] = [of |-> hub[x].of, rows |-> hub'[x].rows]
    BY <1>5, AfterRows
  <2>2. \A x \in Taken : hub'[x].of = hub[x].of
    BY <2>1
  <2> QED
    BY <1>1, <2>1, <2>2
<1> QED
  BY <1>2, <1>3, <1>4, <1>5, HubMoves

\* Among one more keys than there are rows, one is not a row's.
LEMMA FreeSlot ==
  ASSUME NEW rows, IsFiniteSet(rows), NEW n \in Nat, NEW S,
         S = { k \in (n + 1) .. (n + 1 + Cardinality(rows)) : k \notin rows }
  PROVE  /\ Min(S) \in S /\ Min(S) \in Nat /\ Min(S) >= n + 1
         /\ \A k \in (n + 1) .. (Min(S) - 1) : k \in rows
<1> DEFINE m == Cardinality(rows)
           I == (n + 1) .. (n + 1 + m)
<1>1. m \in Nat
  BY FS_CardinalityType
<1>2. IsFiniteSet(I) /\ Cardinality(I) = m + 1
  <2>1. n + 1 \in Int /\ n + 1 + m \in Int /\ ~(n + 1 > n + 1 + m)
    BY <1>1
  <2>2. /\ IsFiniteSet(I)
        /\ Cardinality(I) = IF n + 1 > n + 1 + m THEN 0 ELSE (n + 1 + m) - (n + 1) + 1
    BY <2>1, FS_Interval
  <2> QED
    BY <1>1, <2>1, <2>2
<1>3. S # {}
  <2> SUFFICES ASSUME I \subseteq rows PROVE FALSE
    BY DEF I
  <2>1. Cardinality(I) <= m
    BY FS_Subset
  <2> QED
    BY <1>1, <1>2, <2>1
<1>4. S \in SUBSET Nat
  BY <1>1
<1>5. \E k \in S : \A j \in S : k <= j
  BY <1>3, <1>4, LeastOf
<1>6. Min(S) \in S /\ \A j \in S : Min(S) <= j
  BY <1>5 DEF Min
<1> QED
  BY <1>1, <1>6

LEMMA ShapeKept ==
  ASSUME Shape, Course, Next
  PROVE  Shape'
<1>1. /\ Taken' \subseteq Ids /\ hub' = [id \in Taken' |-> hub'[id]]
      /\ \A id \in Taken' : hub'[id] = [of |-> hub'[id].of, rows |-> hub'[id].rows]
  BY HubShapeKept
<1>2. /\ bundle' = bundle /\ before' = before /\ x1' = x1
      /\ lost' \subseteq Ids
  BY DEF Next, Begin, SkipDevice, BeginDevice, DevicesDone, CreateDevice, ImportDevice,
         Created, FillDevice, FinishImport, Filled, Rollback, BeginActivity, CreateActivity,
         WireActivity, NextFavorite, FavoritesDone, ActivitiesDone, App, AppComesOrGoes,
         AppAdds, AppDeletes, fixed, world, Shape
<1> DEFINE Rest ==
      /\ phase \in {"idle", "done"} \cup DevicePhases \cup ActivityPhases
      /\ pos \in Nat \ {0} /\ fav \in Nat /\ slot \in Nat
      /\ phase = "create" /\ ~x1 => target \in DeviceIds
      /\ Filling => new \in Ids
<1>3. Rest
  BY DEF Shape
<1> SUFFICES Rest'
  BY <1>1, <1>2 DEF Shape
<1>4. CASE UNCHANGED << phase, pos, fav, slot, target, new >>
  BY <1>2, <1>3, <1>4 DEF DevicePhases, ActivityPhases, Filling
<1>5. CASE phase' = "done" /\ UNCHANGED << pos, fav, slot >>
  BY <1>3, <1>5 DEF Filling
<1>6. CASE /\ phase' \in {"device", "activity", "make", "favorites"} /\ pos' \in Nat \ {0}
           /\ fav' \in {0, fav} /\ slot' \in {0, slot}
           /\ Filling' => Filling /\ new' = new
  BY <1>3, <1>6 DEF DevicePhases, ActivityPhases, Filling
<1>7. CASE SkipDevice \/ DevicesDone \/ BeginActivity \/ WireActivity \/ ActivitiesDone
  BY <1>3, <1>5, <1>6, <1>7
     DEF SkipDevice, DevicesDone, BeginActivity, WireActivity, ActivitiesDone, End, Go, Filling
<1>8. CASE Begin
  BY <1>3, <1>5, <1>6, <1>8 DEF Begin, End, Go, Filling
<1>9. CASE BeginDevice
  <2>1. ASSUME ~(DeviceIds \subseteq known') PROVE Allocated(Device.src, known') \in DeviceIds
    <3> DEFINE S == DeviceIds \ known'
    <3>1. S \in SUBSET Nat /\ S # {}
      BY <2>1, RestoreIds
    <3>2. \E n \in S : \A m \in S : n <= m
      BY <3>1, LeastOf
    <3>3. Min(S) \in S
      BY <3>2 DEF Min
    <3> QED
      BY <3>3 DEF Allocated
  <2>2. \/ phase' = "done" /\ UNCHANGED << pos, fav, slot >>
        \/ phase' = "create" /\ UNCHANGED << pos, fav, slot >> /\ (x1 \/ target' \in DeviceIds)
    BY <1>9, <2>1 DEF BeginDevice, End, Go
  <2> QED
    BY <1>2, <1>3, <1>5, <2>2 DEF DevicePhases, ActivityPhases, Filling
<1>10. CASE CreateDevice \/ ImportDevice \/ CreateActivity
  <2>1. PICK ids \in SUBSET (DeviceIds \ Taken) : Created(ids) \/ CreateActivity
    BY <1>10 DEF CreateDevice, ImportDevice, Created, Shape
  <2>2. \/ phase' = "done" /\ UNCHANGED << pos, fav, slot >>
        \/ phase' \in {"fill", "wire"} /\ UNCHANGED << pos, fav, slot >> /\ new' \in Ids
    BY <2>1 DEF Created, CreateActivity, End, Go, Ids
  <2> QED
    BY <1>2, <1>3, <1>5, <2>2 DEF DevicePhases, ActivityPhases, Filling
<1>11. CASE FillDevice \/ FinishImport
  BY <1>3, <1>6, <1>11
     DEF FillDevice, FinishImport, Filled, Restored, Go, Filling, DevicePhases, ActivityPhases
<1>12. CASE Rollback
  BY <1>5, <1>12 DEF Rollback, End
<1>13. CASE NextFavorite
  <2>1. slot' \in Nat
    <3> DEFINE rows == DOMAIN Activity.rows
               S == { k \in (slot + 1) .. (slot + 1 + Cardinality(rows)) : k \notin rows }
    <3>1. IsFiniteSet(rows)
      <4>1. phase = "favorites"
        BY <1>13 DEF NextFavorite
      <4>2. pos \in 1 .. Len(Order)
        BY <4>1 DEF Course
      <4>3. Place \in Activities(bundle)
        BY <4>2, OrderFacts DEF Shape, Place, Order
      <4> QED
        BY <4>3, BundlesAreLists DEF Shape, Activity
    <3>2. NextFreeSlot = Min(S)
      BY DEF NextFreeSlot
    <3>3. S = { k \in (slot + 1) .. (slot + 1 + Cardinality(rows)) : k \notin rows }
      OBVIOUS
    <3> HIDE DEF S, rows
    <3>4. slot \in Nat
      BY <1>3
    <3>5. Min(S) \in Nat
      BY <3>1, <3>3, <3>4, FreeSlot
    <3> QED
      BY <1>13, <3>2, <3>5 DEF NextFavorite
  <2> QED
    BY <1>2, <1>3, <1>13, <2>1 DEF NextFavorite, DevicePhases, ActivityPhases, Filling
<1>14. CASE FavoritesDone
  BY <1>3, <1>6, <1>14 DEF FavoritesDone, Restored, Filling
<1>15. CASE App
  BY <1>4, <1>15 DEF App, AppComesOrGoes, AppAdds, AppDeletes, call
<1> QED
  BY <1>7, <1>8, <1>9, <1>10, <1>11, <1>12, <1>13, <1>14, <1>15 DEF Next

\* The entity under way is one of the bundle and has no copy yet.
LEMMA CurrentIsNext ==
  ASSUME Shape, Course, Filling \/ phase \in {"create", "make"}
  PROVE  /\ phase \in {"create", "fill", "rollback"} =>
              << "device", pos >> \in Entities(bundle) \ DOMAIN copies
         /\ phase \in {"make", "wire", "favorites"} =>
              << "activity", Place >> \in Entities(bundle) \ DOMAIN copies
<1>1. ASSUME phase \in {"create", "fill", "rollback"}
      PROVE  << "device", pos >> \in Entities(bundle) \ DOMAIN copies
  <2>1. /\ pos \in Devices(bundle)
        /\ DOMAIN copies = {"device"} \X { i \in Devices(bundle) : i < pos }
    BY <1>1 DEF Course, DevicePhases
  <2>2. ~(pos < pos)
    BY DEF Shape
  <2> QED
    BY <2>1, <2>2 DEF Entities
<1>2. ASSUME phase \in {"make", "wire", "favorites"}
      PROVE  << "activity", Place >> \in Entities(bundle) \ DOMAIN copies
  <2>1. /\ pos \in 1 .. Len(Order)
        /\ DOMAIN copies = ({"device"} \X Devices(bundle))
             \cup ({"activity"} \X { Order[j] : j \in { k \in 1 .. Len(Order) : k < pos } })
    BY <1>2 DEF Course, ActivityPhases
  <2>2. /\ Len(Order) \in Nat /\ Order[pos] \in Activities(bundle)
        /\ \A j \in 1 .. Len(Order) : Order[j] = Order[pos] => j = pos
    BY <2>1, OrderFacts DEF Shape
  <2>3. Order[pos] \notin { Order[j] : j \in { k \in 1 .. Len(Order) : k < pos } }
    BY <2>1, <2>2
  <2>4. Place = Order[pos]
    BY DEF Place, Order
  <2> QED
    BY <2>1, <2>2, <2>3, <2>4 DEF Entities
<1> QED
  BY <1>1, <1>2

\* What the end of a turn adds.
LEMMA TurnEnds ==
  ASSUME NEW e, e \notin DOMAIN copies, Restored(e)
  PROVE  /\ DOMAIN copies' = DOMAIN copies \cup {e}
         /\ copies'[e] = new /\ \A f \in DOMAIN copies : copies'[f] = copies[f]
         /\ copies' = [f \in DOMAIN copies \cup {e} |-> IF f = e THEN new ELSE copies[f]]
         /\ Range(copies') = Range(copies) \cup {new}
<1>1. DOMAIN [y \in {e} |-> new] = {e} /\ [y \in {e} |-> new][e] = new
  OBVIOUS
<1>2. copies' = [f \in DOMAIN copies \cup {e} |-> IF f = e THEN new ELSE copies[f]]
  BY <1>1 DEF Restored, Put, Over
<1> QED
  BY <1>2 DEF Range

LEMMA MapKept ==
  ASSUME Shape, Course, MapNamesCopies, Next
  PROVE  MapNamesCopies'
<1>1. bundle' = bundle
  BY DEF Next, Begin, SkipDevice, BeginDevice, DevicesDone, CreateDevice, ImportDevice,
         Created, FillDevice, FinishImport, Filled, Rollback, BeginActivity, CreateActivity,
         WireActivity, NextFavorite, FavoritesDone, ActivitiesDone, App, AppComesOrGoes,
         AppAdds, AppDeletes, fixed
<1>2. CASE UNCHANGED made
  BY <1>1, <1>2 DEF MapNamesCopies, made
<1>3. ASSUME NEW e, e \notin DOMAIN copies, Restored(e)
      PROVE  MapNamesCopies'
  <2>1. /\ DOMAIN copies' = DOMAIN copies \cup {e}
        /\ copies'[e] = new /\ \A f \in DOMAIN copies : copies'[f] = copies[f]
    BY <1>3, TurnEnds
  <2> DEFINE k == << e[1], Source(bundle, e) >>
  <2>2. \A key \in DOMAIN idOf' :
          \/ key = k /\ idOf'[key] = new
          \/ key \in DOMAIN idOf /\ idOf'[key] = idOf[key]
    BY <1>3 DEF Restored, Put, Over
  <2>3. \A key \in DOMAIN idOf' : \E f \in DOMAIN copies' :
          key[2] = Source(bundle, f) /\ idOf'[key] = copies'[f]
    BY <2>1, <2>2 DEF MapNamesCopies
  <2> QED
    BY <1>1, <2>3 DEF MapNamesCopies
<1>4. CASE FillDevice \/ FinishImport
  <2>1. phase = "fill" /\ (UNCHANGED made \/ Restored(<< "device", pos >>))
    BY <1>4 DEF FillDevice, FinishImport, Filled
  <2> QED
    BY <1>2, <1>3, <2>1, CurrentIsNext DEF Filling
<1>5. CASE FavoritesDone
  <2>1. phase = "favorites" /\ Restored(<< "activity", Place >>)
    BY <1>5 DEF FavoritesDone
  <2> QED
    BY <1>3, <2>1, CurrentIsNext DEF Filling
<1> QED
  BY <1>2, <1>4, <1>5
     DEF Next, Begin, SkipDevice, BeginDevice, DevicesDone, CreateDevice, ImportDevice,
         Created, Rollback, BeginActivity, CreateActivity, WireActivity, NextFavorite,
         ActivitiesDone, App, AppComesOrGoes, AppAdds, AppDeletes

LEMMA CopiesKept ==
  ASSUME Shape, Course, CopiesStand, Strays, Next
  PROVE  CopiesStand' /\ Strays'
<1>1. bundle' = bundle /\ before' = before /\ phase # "done"
  BY DEF Next, Begin, SkipDevice, BeginDevice, DevicesDone, CreateDevice, ImportDevice,
         Created, FillDevice, FinishImport, Filled, Rollback, BeginActivity, CreateActivity,
         WireActivity, NextFavorite, FavoritesDone, ActivitiesDone, App, AppComesOrGoes,
         AppAdds, AppDeletes, fixed
<1> DEFINE Quiet ==
      /\ Taken' = Taken /\ \A x \in Taken : hub'[x].of = hub[x].of
      /\ lost' = lost /\ copies' = copies
      /\ Filling' => Filling /\ new' = new /\ Current' = Current
      /\ Filling => Filling' \/ (phase' = "done" /\ verdict' # "success")
\* Nothing is created or deleted.
<1>2. ASSUME Quiet PROVE CopiesStand' /\ Strays'
  <2>1. Made' = Made
    BY <1>2 DEF Made
  <2>2. CopiesStand'
    BY <1>1, <1>2, <2>1 DEF CopiesStand, Made
  <2>3. CASE Filling
    <3>1. Made \subseteq Range(copies) \cup {new} /\ new \in Ids
      BY <2>3 DEF Strays, Shape
    <3>2. verdict' # "success" \/ Filling'
      BY <1>2, <2>3
    <3>3. verdict' = "success" => Made \subseteq Range(copies)
      BY <1>1, <1>2, <2>3, <3>2, CourseKept DEF Course, Filling
    <3> QED
      BY <1>1, <1>2, <2>1, <2>2, <2>3, <3>1, <3>3 DEF Strays
  <2>4. CASE ~Filling
    BY <1>1, <1>2, <2>1, <2>2, <2>4 DEF Strays
  <2> QED
    BY <2>2, <2>3, <2>4
\* An entity is created, and the call goes on with it or ends.
<1>3. ASSUME NEW id \in Ids \ Taken, NEW e, Create(id, e), e # Other, ~Filling,
             lost' = lost, copies' = copies,
             \/ phase' = "done" /\ verdict' # "success"
             \/ Filling' /\ new' = id /\ Current' = e
      PROVE  CopiesStand' /\ Strays'
  <2>1. /\ Taken' = Taken \cup {id} /\ \A x \in Taken : hub'[x] = hub[x]
        /\ hub'[id] = [of |-> e, rows |-> << >>]
    BY <1>3, AfterCreate
  <2>2. Made' = Made \cup {id} /\ hub'[id].of = e
    BY <1>3, <2>1 DEF Made
  <2>3. Made \subseteq Range(copies)
    BY <1>1, <1>3 DEF Strays
  <2>4. id \in before \cup Range(copies) => id \in lost
    BY <1>3 DEF CopiesStand, Range
  <2>5. CopiesStand'
    BY <1>1, <1>3, <2>1, <2>2, <2>4 DEF CopiesStand, Filling
  <2>6. Strays'
    <3>1. Filling' => verdict' # "success"
      BY CourseKept DEF Course, Filling
    <3>2. Filling' => phase' # "done"
      BY DEF Filling
    <3> QED
      BY <1>3, <2>2, <2>3, <3>1, <3>2 DEF Strays
  <2> QED
    BY <2>5, <2>6
\* A turn ends.
<1>4. ASSUME NEW e, e \in Entities(bundle) \ DOMAIN copies, Restored(e), Filling, Current = e,
             UNCHANGED << hub, lost >>, ~Filling', verdict' # "success"
      PROVE  CopiesStand' /\ Strays'
  <2>1. /\ DOMAIN copies' = DOMAIN copies \cup {e}
        /\ copies'[e] = new /\ \A f \in DOMAIN copies : copies'[f] = copies[f]
        /\ Range(copies') = Range(copies) \cup {new}
    BY <1>4, TurnEnds
  <2>2. Made' = Made /\ Taken' = Taken
    BY <1>4 DEF Made, Taken
  <2>3. CopiesStand'
    BY <1>1, <1>4, <2>1, <2>2 DEF CopiesStand, Made
  <2>4. Made' \subseteq Range(copies')
    BY <1>4, <2>1, <2>2 DEF Strays
  <2> QED
    BY <1>4, <2>3, <2>4 DEF Strays
\* An entity is deleted, by the restore or by the app.
<1>5. ASSUME NEW id, hub' = Deleted(id), copies' = copies,
             \/ lost' = lost \cup {id} /\ UNCHANGED << phase, pos, new, verdict >>
             \/ lost' = lost /\ id = new /\ Filling /\ phase' = "done" /\ verdict' # "success"
      PROVE  CopiesStand' /\ Strays'
  <2>1. Taken' = Taken \ {id} /\ \A x \in Taken' : hub'[x].of = hub[x].of
    <3>1. /\ Taken' = Taken \ {id}
          /\ \A x \in Taken' : hub'[x] = [of |-> hub[x].of, rows |-> hub'[x].rows]
      BY <1>5, AfterDelete
    <3>2. ASSUME NEW x \in Taken' PROVE hub'[x].of = hub[x].of
      <4>1. hub'[x] = [of |-> hub[x].of, rows |-> hub'[x].rows]
        BY <3>1
      <4> QED
        BY <4>1
    <3> QED
      BY <3>1, <3>2
  <2>2. Made' = Made \ {id}
    BY <2>1 DEF Made
  <2>3. CASE lost' = lost \cup {id} /\ UNCHANGED << phase, pos, new, verdict >>
    <3>1. (Filling' <=> Filling) /\ Current' = Current
      BY <1>1, <2>3 DEF Filling, Current, Place
    <3>2. CopiesStand'
      BY <1>1, <1>5, <2>1, <2>2, <2>3, <3>1 DEF CopiesStand, Made
    <3>3. Strays'
      BY <1>5, <2>2, <2>3, <3>1 DEF Strays
    <3> QED
      BY <3>2, <3>3
  <2>4. CASE lost' = lost /\ id = new /\ Filling /\ phase' = "done" /\ verdict' # "success"
    <3>1. \A x \in before \cup Range(copies) : x = id => x \in lost
      BY <2>4 DEF CopiesStand
    <3>2. \A e \in DOMAIN copies : copies[e] \in Range(copies)
      BY DEF Range
    <3>3. ~Filling'
      BY <2>4 DEF Filling
    <3>4. CopiesStand'
      BY <1>1, <1>5, <2>1, <2>4, <3>1, <3>2, <3>3 DEF CopiesStand
    <3>5. Strays'
      BY <1>5, <2>2, <2>4, <3>3 DEF Strays, Shape
    <3> QED
      BY <3>4, <3>5
  <2> QED
    BY <1>5, <2>3, <2>4
\* The steps that leave the hub alone.
<1>6. ASSUME UNCHANGED << hub, lost, copies >>,
             Filling' => Filling /\ new' = new /\ Current' = Current,
             Filling => Filling' \/ (phase' = "done" /\ verdict' # "success")
      PROVE  CopiesStand' /\ Strays'
  BY <1>2, <1>6 DEF Taken
<1>7. CASE Begin \/ SkipDevice \/ BeginDevice \/ DevicesDone \/ BeginActivity \/ ActivitiesDone
  <2>1. /\ UNCHANGED << hub, lost, copies >> /\ ~Filling /\ ~Filling'
    BY <1>7 DEF Begin, SkipDevice, BeginDevice, DevicesDone, BeginActivity, ActivitiesDone,
                End, Go, Filling, world, made
  <2> QED
    BY <1>6, <2>1
<1>8. CASE CreateDevice \/ ImportDevice
  <2>1. PICK ids \in SUBSET (DeviceIds \ Taken) : Created(ids)
    BY <1>8 DEF CreateDevice, ImportDevice, Created, Shape
  <2>2. phase = "create" /\ ~Filling /\ lost' = lost /\ copies' = copies
    BY <2>1 DEF Created, Filling, world, made
  <2>3. CASE UNCHANGED hub /\ End("failed")
    BY <1>6, <2>2, <2>3 DEF End, Filling
  <2>4. ASSUME NEW id \in ids, Create(id, << "device", pos >>),
               \/ phase' = "done" /\ verdict' # "success"
               \/ Go("fill") /\ new' = id
        PROVE  CopiesStand' /\ Strays'
    <3>1. id \in Ids \ Taken /\ << "device", pos >> # Other
      BY DEF Ids, Other
    <3>2. \/ phase' = "done" /\ verdict' # "success"
          \/ Filling' /\ new' = id /\ Current' = << "device", pos >>
      BY <2>4 DEF Go, Filling, Current
    <3> QED
      BY <1>3, <2>2, <2>4, <3>1, <3>2
  <2> QED
    BY <2>1, <2>3, <2>4 DEF Created, End
<1>9. CASE CreateActivity
  <2>1. phase = "make" /\ ~Filling /\ lost' = lost /\ copies' = copies
    BY <1>9 DEF CreateActivity, Filling, world, made
  <2>2. CASE UNCHANGED hub /\ End("failed")
    BY <1>6, <2>1, <2>2 DEF End, Filling
  <2>3. ASSUME NEW id \in ActivityIds \ Taken, Create(id, << "activity", Place >>),
               \/ phase' = "done" /\ verdict' # "success"
               \/ Go("wire") /\ new' = id
        PROVE  CopiesStand' /\ Strays'
    <3>1. id \in Ids \ Taken /\ << "activity", Place >> # Other
      BY DEF Ids, Other
    <3>2. \/ phase' = "done" /\ verdict' # "success"
          \/ Filling' /\ new' = id /\ Current' = << "activity", Place >>
      BY <1>1, <2>3 DEF Go, Filling, Current, Place
    <3> QED
      BY <1>3, <2>1, <2>3, <3>1, <3>2
  <2> QED
    BY <1>9, <2>2, <2>3 DEF CreateActivity, End
<1>10. CASE FillDevice \/ FinishImport
  <2>1. phase = "fill" /\ Filling /\ UNCHANGED << hub, lost >>
    BY <1>10 DEF FillDevice, FinishImport, Filled, Filling, world
  <2>2. CASE Go("rollback") /\ UNCHANGED << target, new, known, made >>
    BY <1>1, <1>6, <2>1, <2>2 DEF Go, Filling, Current, made
  <2>3. CASE Restored(<< "device", pos >>) /\ phase' = "device" /\ UNCHANGED << skipped, verdict >>
    <3>1. /\ << "device", pos >> \in Entities(bundle) \ DOMAIN copies
          /\ Current = << "device", pos >>
      BY <2>1, CurrentIsNext DEF Current
    <3>2. ~Filling' /\ verdict' # "success"
      BY <1>1, <2>3 DEF Filling, Course
    <3> QED
      BY <1>4, <2>1, <2>3, <3>1, <3>2
  <2> QED
    BY <1>10, <2>2, <2>3 DEF FillDevice, FinishImport, Filled
<1>11. CASE Rollback
  <2>1. /\ Filling /\ lost' = lost /\ copies' = copies /\ phase' = "done" /\ verdict' # "success"
        /\ hub' = hub \/ hub' = Deleted(new)
    BY <1>11 DEF Rollback, End, Filling, world, made
  <2>2. ~Filling'
    BY <2>1 DEF Filling
  <2> QED
    BY <1>5, <1>6, <2>1, <2>2
<1>12. CASE WireActivity \/ NextFavorite
  <2>1. /\ Filling /\ lost' = lost /\ copies' = copies
        /\ \/ Filling' /\ new' = new /\ Current' = Current
           \/ ~Filling' /\ phase' = "done" /\ verdict' # "success"
    BY <1>1, <1>12
       DEF WireActivity, NextFavorite, End, Go, Filling, Current, Place, world, made
  <2>2. hub' = hub \/ (new \in Taken /\ \E f : hub' = [hub EXCEPT ![new].rows = Over(f, @)])
    BY <1>12 DEF WireActivity, Write, NextFavorite, Put
  <2>3. CASE hub' = hub
    BY <1>6, <2>1, <2>3
  <2>4. ASSUME new \in Taken, NEW f, hub' = [hub EXCEPT ![new].rows = Over(f, @)]
        PROVE  Taken' = Taken /\ \A x \in Taken : hub'[x].of = hub[x].of
    <3>1. /\ Taken' = Taken
          /\ \A x \in Taken : hub'[x] = [of |-> hub[x].of, rows |-> hub'[x].rows]
      BY <2>4, AfterRows
    <3>2. ASSUME NEW x \in Taken PROVE hub'[x].of = hub[x].of
      <4>1. hub'[x] = [of |-> hub[x].of, rows |-> hub'[x].rows]
        BY <3>1
      <4> QED
        BY <4>1
    <3> QED
      BY <3>1, <3>2
  <2> QED
    BY <1>2, <2>1, <2>2, <2>3, <2>4
<1>13. CASE FavoritesDone
  <2>1. /\ phase = "favorites" /\ Filling /\ UNCHANGED << hub, lost >>
        /\ Restored(<< "activity", Place >>) /\ ~Filling' /\ verdict' = verdict
    BY <1>13 DEF FavoritesDone, Filling, world
  <2>2. /\ << "activity", Place >> \in Entities(bundle) \ DOMAIN copies
        /\ Current = << "activity", Place >>
    BY <2>1, CurrentIsNext DEF Current
  <2>3. verdict' # "success"
    BY <1>1, <2>1 DEF Course
  <2> QED
    BY <1>4, <2>1, <2>2, <2>3
<1>14. CASE AppComesOrGoes
  BY <1>1, <1>6, <1>14 DEF AppComesOrGoes, call, made, Filling, Current, Place
<1>15. ASSUME NEW id \in Ids, AppAdds(id) PROVE CopiesStand' /\ Strays'
  <2>1. /\ id \notin Taken /\ Create(id, Other) /\ lost' = lost /\ copies' = copies
        /\ UNCHANGED << phase, pos, new, verdict >>
    BY <1>15 DEF AppAdds, call, made
  <2>2. /\ Taken' = Taken \cup {id} /\ \A x \in Taken : hub'[x] = hub[x]
        /\ hub'[id] = [of |-> Other, rows |-> << >>]
    BY <2>1, AfterCreate
  <2>3. hub'[id].of = Other
    BY <2>2
  <2>4. Made' = Made
    BY <2>1, <2>2, <2>3 DEF Made
  <2>5. (Filling' <=> Filling) /\ Current' = Current
    BY <1>1, <2>1 DEF Filling, Current, Place
  <2>6. CopiesStand'
    BY <1>1, <2>1, <2>2, <2>4, <2>5 DEF CopiesStand, Made
  <2> QED
    BY <2>1, <2>4, <2>5, <2>6 DEF Strays
<1>16. ASSUME NEW id \in Ids, AppDeletes(id) PROVE CopiesStand' /\ Strays'
  BY <1>5, <1>16 DEF AppDeletes, call, made
<1> QED
  BY <1>7, <1>8, <1>9, <1>10, <1>11, <1>12, <1>13, <1>14, <1>15, <1>16 DEF Next, App

(***************************************************************************)
(* The keys of the favorites.                                              *)
(***************************************************************************)
\* The slot that is chosen next is the next key that is left.
LEMMA SlotCounts ==
  ASSUME NEW rows, IsFiniteSet(rows), NEW n \in Nat, NEW S,
         S = { k \in (n + 1) .. (n + 1 + Cardinality(rows)) : k \notin rows }
  PROVE  Left(rows, Min(S)) = Left(rows, n) + 1
<1> DEFINE m == Min(S)
           T == { j \in 1 .. n : j \notin rows }
<1>1. /\ m \in S /\ m \in Nat /\ m >= n + 1
      /\ \A k \in (n + 1) .. (m - 1) : k \in rows
  BY FreeSlot
<1>2. m \notin rows
  BY <1>1
<1> HIDE DEF m
<1>3. { j \in 1 .. m : j \notin rows } = T \cup {m}
  BY <1>1, <1>2
<1>4. m \notin T
  BY <1>1
<1>5. IsFiniteSet(T)
  <2>1. IsFiniteSet(1 .. n)
    BY FS_Interval
  <2>2. T \in SUBSET (1 .. n)
    OBVIOUS
  <2> QED
    BY <2>1, <2>2, FS_Subset
<1>6. Cardinality(T \cup {m}) = Cardinality(T) + 1
  BY <1>4, <1>5, FS_AddElement
<1> QED
  BY <1>3, <1>6 DEF m, Left

LEMMA RowsAreFinite ==
  ASSUME Shape, Course, phase \in {"make", "wire", "favorites"}
  PROVE  Place \in Activities(bundle) /\ IsFiniteSet(DOMAIN Activity.rows)
<1>1. pos \in 1 .. Len(Order)
  BY DEF Course
<1>2. Place \in Activities(bundle)
  BY <1>1, OrderFacts DEF Shape, Place, Order
<1> QED
  BY <1>2, BundlesAreLists DEF Shape, Activity

LEMMA SlotIsNext ==
  ASSUME Shape, Course, SlotsCounted, NextFavorite
  PROVE  /\ slot' = NextFreeSlot /\ slot' \notin DOMAIN Activity.rows /\ fav' = fav + 1
         /\ Left(DOMAIN Activity.rows, slot') = fav + 1
<1> DEFINE rows == DOMAIN Activity.rows
           S    == { k \in (slot + 1) .. (slot + 1 + Cardinality(rows)) : k \notin rows }
<1>1. phase = "favorites" /\ slot' = Min(S) /\ slot' = NextFreeSlot /\ fav' = fav + 1
  BY DEF NextFavorite, NextFreeSlot
<1>2. IsFiniteSet(rows) /\ slot \in Nat
  BY <1>1, RowsAreFinite DEF Shape
<1>3. fav = Left(rows, slot)
  BY <1>1 DEF SlotsCounted
<1>4. S = { k \in (slot + 1) .. (slot + 1 + Cardinality(rows)) : k \notin rows }
  OBVIOUS
<1>5. \A k \in S : k \notin rows
  OBVIOUS
<1> HIDE DEF S, rows
<1>6. Min(S) \in S
  BY <1>2, <1>4, FreeSlot
<1>7. Left(rows, Min(S)) = Left(rows, slot) + 1
  BY <1>2, <1>4, SlotCounts
<1> QED
  BY <1>1, <1>3, <1>5, <1>6, <1>7 DEF rows

LEMMA SlotsKept ==
  ASSUME Shape, Course, SlotsCounted, Next
  PROVE  SlotsCounted'
<1>1. bundle' = bundle /\ phase # "done"
  BY DEF Next, Begin, SkipDevice, BeginDevice, DevicesDone, CreateDevice, ImportDevice,
         Created, FillDevice, FinishImport, Filled, Rollback, BeginActivity, CreateActivity,
         WireActivity, NextFavorite, FavoritesDone, ActivitiesDone, App, AppComesOrGoes,
         AppAdds, AppDeletes, fixed
<1>2. CASE phase' = "done"
  BY <1>2 DEF SlotsCounted
<1>3. CASE fav' = 0 /\ slot' = 0 /\ phase' # "favorites"
  BY <1>3 DEF SlotsCounted
<1>4. CASE phase # "favorites" /\ UNCHANGED << fav, slot >> /\ phase' # "favorites"
  BY <1>1, <1>3, <1>4 DEF SlotsCounted
<1>5. CASE UNCHANGED << phase, pos, fav, slot >>
  BY <1>1, <1>5 DEF SlotsCounted, Activity, Place
<1>6. CASE WireActivity
  <2>1. fav = 0 /\ slot = 0
    BY <1>6 DEF WireActivity, SlotsCounted
  <2>2. \/ phase' = "done"
        \/ phase' = "favorites" /\ fav' = 0 /\ slot' = 0
    BY <1>6, <2>1 DEF WireActivity, Go, End
  <2>3. \A rows : { j \in 1 .. 0 : j \notin rows } = {}
    OBVIOUS
  <2>4. Cardinality({}) = 0
    BY FS_EmptySet
  <2>5. \A rows : Left(rows, 0) = 0
    BY <2>3, <2>4 DEF Left
  <2> QED
    BY <1>2, <2>2, <2>5 DEF SlotsCounted
<1>7. CASE NextFavorite
  <2>1. phase' = "favorites" /\ Activity' = Activity
    BY <1>1, <1>7 DEF NextFavorite, Activity, Place
  <2>2. /\ fav' = fav + 1
        /\ Left(DOMAIN Activity.rows, slot') = fav + 1
    BY <1>7, SlotIsNext
  <2> QED
    BY <2>1, <2>2 DEF SlotsCounted
<1>8. CASE App
  BY <1>5, <1>8 DEF App, AppComesOrGoes, AppAdds, AppDeletes, call
<1> QED
  BY <1>1, <1>2, <1>3, <1>4, <1>6, <1>7, <1>8
     DEF Next, Begin, SkipDevice, BeginDevice, DevicesDone, CreateDevice, ImportDevice,
         Created, FillDevice, FinishImport, Filled, Restored, Rollback, BeginActivity,
         CreateActivity, FavoritesDone, ActivitiesDone, Go, End

(***************************************************************************)
(* The references.                                                         *)
(***************************************************************************)
\* Id d stands for source id s: the copy of an entity of that id, or one that is gone.
StandsFor(d, s) == d \in lost \/ (d \in Made /\ Source(bundle, hub[d].of) = s)

\* The rows of activity id, a copy of activity i, say what those of the original did.
RowsRight(id, i) ==
  \A k \in DOMAIN hub[id].rows :
    StandsFor(hub[id].rows[k], Meant(bundle.activities[i], k))

LEMMA ReferencesByRows ==
  ReferencesKept <=> \A id \in Made : hub[id].of[1] = "activity" => RowsRight(id, hub[id].of[2])
BY DEF ReferencesKept, RowsRight, StandsFor

\* What a source id is mapped to stands for it.
LEMMA MappedRight ==
  ASSUME Shape, MapNamesCopies, CopiesStand, phase \in {"wire", "favorites"}, new \in Made,
         NEW s, Mapped(s) # 0
  PROVE  StandsFor(Mapped(s), s)
<1>1. hub[new].of = << "activity", Place >>
  BY DEF CopiesStand, Filling, Current
<1>2. CASE s = Activity.src /\ s # 0
  <2>1. Mapped(s) = new
    BY <1>2 DEF Mapped
  <2>2. Source(bundle, hub[new].of) = s
    BY <1>1, <1>2 DEF Source, Activity
  <2> QED
    BY <2>1, <2>2 DEF StandsFor
<1>3. CASE s # Activity.src /\ s # 0
  <2>1. KeyOf(s) \in DOMAIN idOf /\ Mapped(s) = idOf[KeyOf(s)]
    BY <1>3 DEF Mapped
  <2>2. PICK e \in DOMAIN copies : KeyOf(s)[2] = Source(bundle, e) /\ Mapped(s) = copies[e]
    BY <2>1 DEF MapNamesCopies
  <2>3. KeyOf(s)[2] = s
    BY DEF KeyOf
  <2>4. copies[e] \in lost \/ (copies[e] \in Taken /\ hub[copies[e]].of = e)
    BY DEF CopiesStand
  <2>5. e # Other
    BY DEF CopiesStand, Entities, Other
  <2> QED
    BY <2>2, <2>3, <2>4, <2>5 DEF StandsFor, Made
<1> QED
  BY <1>2, <1>3 DEF Mapped

\* The rows stay right when what they name stays, or is taken out of them.
LEMMA RowsStay ==
  ASSUME bundle' = bundle, NEW id, NEW i, RowsRight(id, i),
         \A k \in DOMAIN hub'[id].rows :
           /\ k \in DOMAIN hub[id].rows /\ hub'[id].rows[k] = hub[id].rows[k]
           /\ LET d == hub[id].rows[k] IN
              \/ d \in lost' \/ (d \in Made => d \in Made' /\ hub'[d].of = hub[d].of),
         lost \subseteq lost'
  PROVE  RowsRight(id, i)'
<1> SUFFICES ASSUME NEW k \in DOMAIN hub'[id].rows
             PROVE  LET d == hub'[id].rows[k] IN
                    \/ d \in lost'
                    \/ /\ d \in Made'
                       /\ Source(bundle, hub'[d].of) = Meant(bundle.activities[i], k)
  BY DEF RowsRight, StandsFor
<1> DEFINE d == hub[id].rows[k]
<1>1. hub'[id].rows[k] = d /\ k \in DOMAIN hub[id].rows
  OBVIOUS
<1>2. d \in lost \/ (d \in Made /\ Source(bundle, hub[d].of) = Meant(bundle.activities[i], k))
  BY <1>1 DEF RowsRight, StandsFor
<1>3. d \in lost' \/ (d \in Made => d \in Made' /\ hub'[d].of = hub[d].of)
  OBVIOUS
<1> HIDE DEF d
<1> QED
  BY <1>1, <1>2, <1>3

LEMMA ReferencesStay ==
  ASSUME Shape, Course, MapNamesCopies, CopiesStand, SlotsCounted, ReferencesKept, Next
  PROVE  ReferencesKept'
<1>1. bundle' = bundle /\ lost \subseteq lost'
  BY DEF Next, Begin, SkipDevice, BeginDevice, DevicesDone, CreateDevice, ImportDevice,
         Created, FillDevice, FinishImport, Filled, Rollback, BeginActivity, CreateActivity,
         WireActivity, NextFavorite, FavoritesDone, ActivitiesDone, App, AppComesOrGoes,
         AppAdds, AppDeletes, fixed, world
<1>2. \A id \in Made : hub[id].of[1] = "activity" => RowsRight(id, hub[id].of[2])
  BY ReferencesByRows
<1>3. SUFFICES ASSUME NEW id \in Made', NEW i, hub'[id].of[1] = "activity", i = hub'[id].of[2]
               PROVE  RowsRight(id, i)'
  <2>1. ASSUME NEW id \in Made', hub'[id].of[1] = "activity", NEW k \in DOMAIN hub'[id].rows
        PROVE  LET d == hub'[id].rows[k] IN
               \/ d \in lost'
               \/ /\ d \in Made'
                  /\ Source(bundle', hub'[d].of) = Meant(bundle'.activities[hub'[id].of[2]], k)
    <3>1. PICK i : i = hub'[id].of[2]
      OBVIOUS
    <3>2. RowsRight(id, i)'
      BY <1>3, <2>1, <3>1
    <3> QED
      BY <2>1, <3>1, <3>2 DEF RowsRight, StandsFor
  <2> QED
    BY <2>1 DEF ReferencesKept
<1>4. CASE hub' = hub
  <2>1. id \in Made /\ Made' = Made /\ RowsRight(id, i)
    BY <1>2, <1>3, <1>4 DEF Made, Taken
  <2> QED
    BY <1>1, <1>4, <2>1, RowsStay
<1>5. ASSUME NEW x \in Ids \ Taken, NEW e, Create(x, e)
      PROVE  RowsRight(id, i)'
  <2>1. /\ Taken' = Taken \cup {x} /\ \A y \in Taken : hub'[y] = hub[y]
        /\ hub'[x] = [of |-> e, rows |-> << >>]
    BY <1>5, AfterCreate
  <2>2. CASE id = x
    <3>1. DOMAIN hub'[id].rows = {}
      BY <2>1, <2>2
    <3> QED
      BY <3>1 DEF RowsRight
  <2>3. CASE id # x
    <3>1. id \in Made /\ hub'[id] = hub[id] /\ \A d \in Made : d \in Made' /\ hub'[d] = hub[d]
      BY <1>3, <2>1, <2>3 DEF Made
    <3>2. RowsRight(id, i)
      BY <1>2, <1>3, <3>1
    <3> QED
      BY <1>1, <3>1, <3>2, RowsStay
  <2> QED
    BY <2>2, <2>3
<1>6. ASSUME NEW x, hub' = Deleted(x)
      PROVE  RowsRight(id, i)'
  <2>1. /\ Taken' = Taken \ {x}
        /\ \A y \in Taken' :
              /\ hub'[y] = [of |-> hub[y].of, rows |-> hub'[y].rows]
              /\ DOMAIN hub'[y].rows \subseteq DOMAIN hub[y].rows
              /\ \A k \in DOMAIN hub'[y].rows :
                   hub'[y].rows[k] = hub[y].rows[k] /\ hub'[y].rows[k] # x
    BY <1>6, AfterDelete
  <2>2. ASSUME NEW y \in Taken' PROVE hub'[y].of = hub[y].of
    <3>1. hub'[y] = [of |-> hub[y].of, rows |-> hub'[y].rows]
      BY <2>1
    <3> QED
      BY <3>1
  <2>3. Made' = Made \ {x}
    BY <2>1, <2>2 DEF Made
  <2>4. id \in Made /\ id \in Taken' /\ hub'[id].of = hub[id].of
    BY <1>3, <2>2, <2>3 DEF Made
  <2>5. RowsRight(id, i)
    BY <1>2, <1>3, <2>4
  <2>6. \A d \in Made : d # x => d \in Made' /\ hub'[d].of = hub[d].of
    BY <2>2, <2>3 DEF Made
  <2>7. ASSUME NEW k \in DOMAIN hub'[id].rows
        PROVE  /\ k \in DOMAIN hub[id].rows /\ hub'[id].rows[k] = hub[id].rows[k]
               /\ hub[id].rows[k] # x
    BY <2>1, <2>4
  <2>8. ASSUME NEW k \in DOMAIN hub'[id].rows
        PROVE  LET d == hub[id].rows[k] IN d \in Made => d \in Made' /\ hub'[d].of = hub[d].of
    BY <2>6, <2>7
  <2> QED
    BY <1>1, <2>5, <2>7, <2>8, RowsStay
\* Rows are written into the copy under way.
<1>7. ASSUME phase \in {"wire", "favorites"}, new \in Taken, lost' = lost,
             NEW f, hub' = [hub EXCEPT ![new].rows = Over(f, @)],
             new \in Made => \A k \in DOMAIN f : StandsFor(f[k], Meant(Activity, k))
      PROVE  RowsRight(id, i)'
  <2>1. /\ Taken' = Taken
        /\ \A y \in Taken : hub'[y] = [of |-> hub[y].of, rows |-> hub'[y].rows]
        /\ \A y \in Taken \ {new} : hub'[y] = hub[y]
        /\ DOMAIN hub'[new].rows = DOMAIN f \cup DOMAIN hub[new].rows
        /\ \A k \in DOMAIN hub'[new].rows :
             hub'[new].rows[k] = IF k \in DOMAIN f THEN f[k] ELSE hub[new].rows[k]
    BY <1>7, AfterRows
  <2>2. ASSUME NEW y \in Taken PROVE hub'[y].of = hub[y].of
    <3>1. hub'[y] = [of |-> hub[y].of, rows |-> hub'[y].rows]
      BY <2>1
    <3> QED
      BY <3>1
  <2>3. Made' = Made
    BY <2>1, <2>2 DEF Made
  <2>4. id \in Made /\ id \in Taken /\ hub'[id].of = hub[id].of
    BY <1>3, <2>2, <2>3 DEF Made
  <2>5. RowsRight(id, i)
    BY <1>2, <1>3, <2>4
  <2>6. \A d \in Made : d \in Made' /\ hub'[d].of = hub[d].of
    BY <2>2, <2>3 DEF Made
  <2>7. CASE id # new
    BY <1>1, <2>1, <2>4, <2>5, <2>6, <2>7, RowsStay
  <2>8. CASE id = new
    <3>1. bundle.activities[i] = Activity
      BY <1>3, <1>7, <2>4, <2>8 DEF CopiesStand, Filling, Current, Activity
    <3>2. ASSUME NEW k \in DOMAIN hub'[id].rows
          PROVE  StandsFor(hub'[id].rows[k], Meant(Activity, k))
      BY <1>7, <2>1, <2>4, <2>5, <2>8, <3>1 DEF RowsRight
    <3>3. ASSUME NEW d, NEW s, StandsFor(d, s)
          PROVE  d \in lost' \/ (d \in Made' /\ Source(bundle, hub'[d].of) = s)
      BY <1>1, <2>3, <2>6, <3>3 DEF StandsFor
    <3> QED
      BY <1>1, <2>4, <3>1, <3>2, <3>3 DEF RowsRight, StandsFor
  <2> QED
    BY <2>7, <2>8
<1>8. CASE CreateDevice \/ ImportDevice
  <2>1. PICK ids \in SUBSET (DeviceIds \ Taken) : Created(ids)
    BY <1>8 DEF CreateDevice, ImportDevice, Created, Shape
  <2> QED
    BY <1>4, <1>5, <2>1 DEF Created, Ids
<1>9. CASE CreateActivity
  BY <1>4, <1>5, <1>9 DEF CreateActivity, Ids
<1>10. CASE WireActivity
  <2>1. PICK ks \in SUBSET DOMAIN Activity.rows : Write(ks)
    BY <1>10 DEF WireActivity
  <2>2. phase = "wire" /\ lost' = lost
    BY <1>10 DEF WireActivity, world
  <2>3. CASE new \in Taken
    <3> DEFINE S == { j \in ks : Mapped(Activity.rows[j]) # 0 }
               f == [k \in S |-> Mapped(Activity.rows[k])]
    <3>1. hub' = [hub EXCEPT ![new].rows = Over(f, @)]
      BY <2>1, <2>3 DEF Write
    <3>2. ASSUME new \in Made, NEW k \in S
          PROVE  StandsFor(f[k], Meant(Activity, k))
      <4>1. /\ Mapped(Activity.rows[k]) # 0 /\ f[k] = Mapped(Activity.rows[k])
            /\ Meant(Activity, k) = Activity.rows[k]
        BY <3>2, <2>1 DEF Meant
      <4> QED
        BY <2>2, <3>2, <4>1, MappedRight
    <3>3. DOMAIN f = S
      OBVIOUS
    <3> HIDE DEF f
    <3> QED
      BY <1>7, <2>2, <2>3, <3>1, <3>2, <3>3
  <2>4. CASE new \notin Taken
    BY <1>4, <2>1, <2>4 DEF Write
  <2> QED
    BY <2>3, <2>4
<1>11. CASE NextFavorite
  <2> DEFINE d == Mapped(Activity.favs[fav + 1])
             f == [y \in {NextFreeSlot} |-> d]
  <2>1. phase = "favorites" /\ lost' = lost
    BY <1>11 DEF NextFavorite, world
  <2>2. CASE hub' # hub
    <3>1. new \in Taken /\ d # 0 /\ hub' = [hub EXCEPT ![new].rows = Over(f, @)]
      BY <1>11, <2>2 DEF NextFavorite, Put
    <3>2. Meant(Activity, NextFreeSlot) = Activity.favs[fav + 1]
      BY <1>11, SlotIsNext DEF Meant, Left
    <3>3. DOMAIN f = {NextFreeSlot} /\ f[NextFreeSlot] = d
      OBVIOUS
    <3>4. ASSUME new \in Made PROVE StandsFor(d, Activity.favs[fav + 1])
      BY <2>1, <3>1, <3>4, MappedRight
    <3> HIDE DEF f, d
    <3>5. new \in Made => \A k \in DOMAIN f : StandsFor(f[k], Meant(Activity, k))
      BY <3>2, <3>3, <3>4
    <3> QED
      BY <1>7, <2>1, <3>1, <3>5
  <2> QED
    BY <1>4, <2>2
<1>12. CASE Rollback
  BY <1>4, <1>6, <1>12 DEF Rollback
<1>13. CASE App
  BY <1>4, <1>5, <1>6, <1>13 DEF App, AppComesOrGoes, AppAdds, AppDeletes
<1> QED
  BY <1>4, <1>8, <1>9, <1>10, <1>11, <1>12, <1>13
     DEF Next, Begin, SkipDevice, BeginDevice, DevicesDone, FillDevice, FinishImport, Filled,
         BeginActivity, FavoritesDone, ActivitiesDone

(***************************************************************************)
(* The theorems.                                                           *)
(***************************************************************************)
LEMMA InitInvariant ==
  ASSUME Init
  PROVE  IInv
<1>1. /\ Taken = before /\ hub = [id \in before |-> [of |-> Other, rows |-> << >>]]
      /\ phase = "idle" /\ pos = 1 /\ fav = 0 /\ slot = 0
      /\ idOf = << >> /\ copies = << >> /\ verdict = "running" /\ lost = {}
  BY DEF Init, Taken
<1>2. /\ \A id \in Taken : hub[id] = [of |-> Other, rows |-> << >>]
      /\ hub = [id \in Taken |-> hub[id]]
  BY <1>1
<1>3. Made = {}
  BY <1>2 DEF Made
<1>4. before \subseteq Ids
  BY RestoreIds DEF Init, Ids
<1>5. Shape
  BY <1>1, <1>2, <1>4 DEF Shape, Init, Filling
<1>6. DOMAIN copies = {} /\ DOMAIN idOf = {}
  BY <1>1
<1>7. Course
  BY <1>1 DEF Course, DevicePhases, ActivityPhases
<1>8. MapNamesCopies /\ CopiesStand
  BY <1>1, <1>6 DEF MapNamesCopies, CopiesStand, Filling
<1>9. Strays /\ SlotsCounted /\ ReferencesKept
  BY <1>1, <1>3 DEF Strays, SlotsCounted, ReferencesKept, Filling
<1> QED
  BY <1>5, <1>7, <1>8, <1>9 DEF IInv

LEMMA StepInvariant ==
  ASSUME IInv, [Next]_vars
  PROVE  IInv'
<1>1. CASE Next
  BY <1>1, ShapeKept, CourseKept, MapKept, CopiesKept, SlotsKept, ReferencesStay DEF IInv
<1>2. CASE UNCHANGED vars
  <2>1. UNCHANGED << bundle, x1, before, hub, known, phase, pos, target, new, fav, slot,
                     skipped, idOf, copies, verdict, app, lost, edits >>
    BY <1>2 DEF vars, fixed, call, made, world
  <2>2. Taken' = Taken /\ Made' = Made /\ Place' = Place /\ Activity' = Activity
        /\ Order' = Order /\ Current' = Current /\ Filling' = Filling
    BY <2>1 DEF Taken, Made, Place, Activity, Order, Current, Filling
  <2>3. Shape' /\ Course'
    BY <2>1, <2>2 DEF IInv, Shape, Course
  <2>4. MapNamesCopies' /\ CopiesStand'
    BY <2>1, <2>2 DEF IInv, MapNamesCopies, CopiesStand
  <2>5. Strays' /\ SlotsCounted' /\ ReferencesKept'
    BY <2>1, <2>2 DEF IInv, Strays, SlotsCounted, ReferencesKept
  <2> QED
    BY <2>3, <2>4, <2>5 DEF IInv
<1> QED
  BY <1>1, <1>2

\* The inductive invariant of the restore.
THEOREM RestoreInvariant == Spec => []IInv
<1>1. Init => IInv
  BY InitInvariant
<1>2. IInv /\ [Next]_vars => IInv'
  BY StepInvariant
<1> QED
  BY <1>1, <1>2, PTL DEF Spec

\* For every bundle, every hub and however many edits by the app: each reference of a
\* copied activity names the copy of what the original named.
THEOREM ReferencesNameCopies == Spec => []ReferencesKept
<1>1. IInv => ReferencesKept
  BY DEF IInv
<1> QED
  BY <1>1, RestoreInvariant, PTL

\* At most one copy on the hub is not in the lists of the result, none after a success.
THEOREM StraysAreOne == Spec => []OneStrayAtMost
<1>1. ASSUME IInv PROVE OneStrayAtMost
  <2> DEFINE stray == Made \ Range(copies)
  <2>1. PICK x \in Ids \cup {0} : stray \subseteq {x}
    BY <1>1 DEF IInv, Strays
  <2>2. stray = {} \/ stray = {x}
    BY <2>1
  <2>3. Cardinality({}) = 0 /\ Cardinality({x}) = 1
    BY FS_EmptySet, FS_Singleton
  <2>4. verdict = "success" => stray = {}
    BY <1>1 DEF IInv, Strays
  <2> HIDE DEF stray
  <2>5. Cardinality(stray) <= 1
    BY <2>2, <2>3
  <2> QED
    BY <2>4, <2>5 DEF stray, OneStrayAtMost
<1> QED
  BY <1>1, RestoreInvariant, PTL

(***************************************************************************)
(* The refinement.  BundleCopy brings the operators on bundles with it     *)
(* under names of its own.                                                 *)
(***************************************************************************)
LEMMA SameBundle ==
  ASSUME NEW b, NEW e
  PROVE  /\ Promise!Entities(b) = Entities(b) /\ Promise!Devices(b) = Devices(b)
         /\ Promise!Source(b, e) = Source(b, e) /\ Promise!Needs(b, e) = Needs(b, e)
<1>1. Promise!Devices(b) = Devices(b) /\ Promise!Activities(b) = Activities(b)
  BY DEF Promise!Devices, Devices, Promise!Activities, Activities
<1>2. ASSUME NEW a PROVE Promise!Refers(a) = Refers(a)
  BY DEF Promise!Refers, Refers, Promise!Range, Range
<1> QED
  BY <1>1, <1>2 DEF Promise!Entities, Entities, Promise!Source, Source, Promise!Needs, Needs

\* The end of a turn is a copy of the promise's.
LEMMA TurnIsCopy ==
  ASSUME IInv, NEW e, e = Current, Filling, phase # "rollback", Restored(e),
         UNCHANGED << bundle, before, lost, verdict >>
  PROVE  Promise!Next
<1>1. /\ e \in Entities(bundle) \ DOMAIN copies /\ new \in Ids
      /\ (new \in before \cup Range(copies) => new \in lost)
      /\ verdict = "running"
  BY CurrentIsNext DEF IInv, CopiesStand, Course, Shape, Filling, Current
<1>2. copies' = [f \in DOMAIN copies \cup {e} |-> IF f = e THEN new ELSE copies[f]]
  BY <1>1, TurnEnds
<1>3. Promise!Before(bundle, e) \subseteq DOMAIN copies
  <2>1. CASE phase = "fill"
    BY <2>1, SameBundle DEF IInv, Course, DevicePhases, Promise!Before, Current
  <2>2. CASE phase \in {"wire", "favorites"}
    BY <2>2, SameBundle DEF IInv, Course, ActivityPhases, Promise!Before, Current
  <2> QED
    BY <2>1, <2>2 DEF Filling
<1>4. Needs(bundle, e) \subseteq { Source(bundle, f) : f \in DOMAIN copies }
  <2>1. CASE phase = "fill"
    BY <2>1 DEF Needs, Current
  <2>2. CASE phase \in {"wire", "favorites"}
    <3>1. Needs(bundle, e) = Refers(Activity)
      BY <2>2 DEF Needs, Current, Activity
    <3>2. \A s \in Refers(Activity) : KeyOf(s) \in DOMAIN idOf /\ KeyOf(s)[2] = s
      BY <2>2 DEF IInv, Course, KeyOf
    <3>3. \A key \in DOMAIN idOf : \E f \in DOMAIN copies : key[2] = Source(bundle, f)
      BY DEF IInv, MapNamesCopies
    <3> QED
      BY <3>1, <3>2, <3>3
  <2> QED
    BY <2>1, <2>2 DEF Filling
<1>5. Promise!Needs(bundle, e) \subseteq { Promise!Source(bundle, f) : f \in DOMAIN copies }
  BY <1>4, SameBundle
<1>6. Promise!Range(copies) = Range(copies)
  BY DEF Promise!Range, Range
<1>7. Promise!Copy(e, new)
  BY <1>1, <1>2, <1>3, <1>5, <1>6, SameBundle DEF Promise!Copy
<1> QED
  BY <1>1, <1>7, SameBundle DEF Promise!Next

\* The restore is a series of copies as BundleCopy promises them.
THEOREM RestoreKeepsPromise == Spec => CopiesBundle
<1>1. Init => Promise!Init
  BY RestoreIds DEF Init, Promise!Init, Ids
<1>2. ASSUME IInv, IInv', [Next]_vars PROVE [Promise!Next]_(Promise!vars)
  <2>1. CASE UNCHANGED << bundle, copies, before, lost, verdict >>
    BY <2>1 DEF Promise!vars
  <2>2. ASSUME verdict' \in {"success", "failed", "raised"},
               UNCHANGED << bundle, copies, before, lost >>, phase # "done"
        PROVE  Promise!Next
    <3>1. verdict' = "success" => DOMAIN copies = Promise!Entities(bundle)
      BY <1>2, <2>2, SameBundle DEF IInv, Course
    <3>2. verdict = "running"
      BY <1>2, <2>2 DEF IInv, Course
    <3> QED
      BY <2>2, <3>1, <3>2 DEF Promise!Next, Promise!Finish
  <2>3. CASE Begin \/ SkipDevice \/ BeginDevice \/ DevicesDone \/ BeginActivity \/ ActivitiesDone
    BY <2>1, <2>2, <2>3
       DEF Begin, SkipDevice, BeginDevice, DevicesDone, BeginActivity, ActivitiesDone,
           End, Go, fixed, made, world
  <2>4. CASE CreateDevice \/ ImportDevice \/ CreateActivity \/ WireActivity \/ Rollback
    BY <2>1, <2>2, <2>4
       DEF CreateDevice, ImportDevice, Created, CreateActivity, WireActivity, Rollback,
           End, Go, fixed, made, world
  <2>5. CASE FillDevice \/ FinishImport
    <3>1. CASE Restored(<< "device", pos >>) /\ UNCHANGED << skipped, verdict >>
      BY <1>2, <2>5, <3>1, TurnIsCopy
         DEF FillDevice, FinishImport, Filled, Filling, Current, fixed, world
    <3>2. CASE Go("rollback") /\ UNCHANGED << target, new, known, made >>
      BY <2>1, <2>5, <3>2 DEF FillDevice, FinishImport, Filled, Go, fixed, made, world
    <3> QED
      BY <2>5, <3>1, <3>2 DEF FillDevice, FinishImport, Filled
  <2>6. CASE FavoritesDone
    BY <1>2, <2>6, TurnIsCopy DEF FavoritesDone, Filling, Current, fixed, world
  <2>7. CASE NextFavorite
    BY <2>1, <2>7 DEF NextFavorite, fixed, made, world
  <2>8. CASE App
    <3>1. /\ lost' \in SUBSET Ids /\ lost \subseteq lost'
          /\ UNCHANGED << bundle, copies, before, verdict >>
      BY <1>2, <2>8 DEF App, AppComesOrGoes, AppAdds, AppDeletes, IInv, Shape, fixed, made
    <3> QED
      BY <3>1 DEF Promise!Next, Promise!Delete
  <2>9. CASE UNCHANGED vars
    BY <2>1, <2>9 DEF vars, fixed, made, world
  <2> QED
    BY <1>2, <2>3, <2>4, <2>5, <2>6, <2>7, <2>8, <2>9 DEF Next
<1> QED
  BY <1>1, <1>2, RestoreInvariant, PTL DEF Spec, CopiesBundle, Promise!Spec

(***************************************************************************)
(* What others have on the hub.                                            *)
(***************************************************************************)
\* What is not a copy has none of the rows the model speaks of, and the edits are counted.
Bare ==
  /\ edits \in Nat
  /\ \A id \in Taken : hub[id].of = Other /\ id \notin lost => hub[id].rows = << >>

LEMMA NothingWithout == \A id : Without(<< >>, id) = << >>
<1> SUFFICES ASSUME NEW id PROVE Without(<< >>, id) = << >>
  OBVIOUS
<1> DEFINE S == { k \in DOMAIN << >> : << >>[k] # id }
<1>1. S = {}
  OBVIOUS
<1>2. Without(<< >>, id) = [x \in S |-> << >>[x]]
  BY DEF Without, Restrict
<1> HIDE DEF S
<1> QED
  BY <1>1, <1>2

\* A step of the restore leaves alone what others have on the hub.
LEMMA OthersStay ==
  ASSUME IInv, Bare, Next, NEW id \in Taken, hub[id].of = Other, id \notin lost, edits' = edits
  PROVE  id \in Taken' /\ hub'[id] = hub[id]
<1>1. CASE hub' = hub
  BY <1>1 DEF Taken
<1>2. ASSUME NEW x \in Ids \ Taken, NEW e, Create(x, e) PROVE id \in Taken' /\ hub'[id] = hub[id]
  BY <1>2, AfterCreate DEF IInv
<1>3. ASSUME Filling PROVE id # new
  BY <1>3 DEF IInv, CopiesStand, Made
<1>4. ASSUME Filling, hub' = Deleted(new) PROVE id \in Taken' /\ hub'[id] = hub[id]
  <2>1. id \in Taken' /\ hub'[id] = [hub[id] EXCEPT !.rows = Without(@, new)]
    BY <1>3, <1>4 DEF Deleted, Taken
  <2>2. hub[id] = [of |-> hub[id].of, rows |-> hub[id].rows]
    BY DEF IInv, Shape
  <2>3. hub[id].rows = << >> /\ Without(hub[id].rows, new) = << >>
    BY NothingWithout DEF Bare
  <2> QED
    BY <2>1, <2>2, <2>3
<1>5. ASSUME Filling, new \in Taken, NEW f, hub' = [hub EXCEPT ![new].rows = Over(f, @)]
      PROVE  id \in Taken' /\ hub'[id] = hub[id]
  <2>1. Taken' = Taken /\ \A x \in Taken \ {new} : hub'[x] = hub[x]
    BY <1>5, AfterRows DEF IInv
  <2> QED
    BY <1>3, <1>5, <2>1
<1>6. CASE CreateDevice \/ ImportDevice
  <2>1. PICK ids \in SUBSET (DeviceIds \ Taken) : Created(ids)
    BY <1>6 DEF CreateDevice, ImportDevice, Created, IInv, Shape
  <2> QED
    BY <1>1, <1>2, <2>1 DEF Created, Ids
<1>7. CASE CreateActivity
  BY <1>1, <1>2, <1>7 DEF CreateActivity, Ids
<1>8. CASE WireActivity \/ NextFavorite
  <2>1. /\ Filling
        /\ hub' = hub \/ (new \in Taken /\ \E f : hub' = [hub EXCEPT ![new].rows = Over(f, @)])
    BY <1>8 DEF WireActivity, Write, NextFavorite, Put, Filling
  <2> QED
    BY <1>1, <1>5, <2>1
<1>9. CASE Rollback
  <2>1. Filling /\ (hub' = hub \/ hub' = Deleted(new))
    BY <1>9 DEF Rollback, Filling
  <2> QED
    BY <1>1, <1>4, <2>1
<1>10. CASE App
  BY <1>1, <1>10 DEF App, AppComesOrGoes, AppAdds, AppDeletes, Bare
<1> QED
  BY <1>1, <1>6, <1>7, <1>8, <1>9, <1>10
     DEF Next, Begin, SkipDevice, BeginDevice, DevicesDone, FillDevice, FinishImport, Filled,
         BeginActivity, FavoritesDone, ActivitiesDone

LEMMA BareKept ==
  ASSUME IInv, Bare, Next
  PROVE  Bare'
<1>1. edits' \in Nat
  BY DEF Bare, Next, Begin, SkipDevice, BeginDevice, DevicesDone, CreateDevice, ImportDevice,
         Created, FillDevice, FinishImport, Filled, Rollback, BeginActivity, CreateActivity,
         WireActivity, NextFavorite, FavoritesDone, ActivitiesDone, App, AppComesOrGoes,
         AppAdds, AppDeletes, world
<1>2. SUFFICES ASSUME NEW id \in Taken', hub'[id].of = Other, id \notin lost'
               PROVE  hub'[id].rows = << >>
  BY <1>1 DEF Bare
<1>3. lost \subseteq lost'
  BY DEF Next, Begin, SkipDevice, BeginDevice, DevicesDone, CreateDevice, ImportDevice,
         Created, FillDevice, FinishImport, Filled, Rollback, BeginActivity, CreateActivity,
         WireActivity, NextFavorite, FavoritesDone, ActivitiesDone, App, AppComesOrGoes,
         AppAdds, AppDeletes, world
<1>4. CASE id \in Taken /\ hub[id].of = Other
  <2>1. hub[id].rows = << >> /\ id \notin lost
    BY <1>2, <1>3, <1>4 DEF Bare
  <2>2. CASE edits' = edits
    <3>1. hub'[id] = hub[id]
      BY <1>4, <2>1, <2>2, OthersStay
    <3> QED
      BY <2>1, <3>1
  <2>3. CASE edits' # edits
    <3>1. PICK x \in Ids : AppAdds(x) \/ AppDeletes(x)
      BY <2>3
         DEF Next, Begin, SkipDevice, BeginDevice, DevicesDone, CreateDevice, ImportDevice,
             Created, FillDevice, FinishImport, Filled, Rollback, BeginActivity, CreateActivity,
             WireActivity, NextFavorite, FavoritesDone, ActivitiesDone, App, AppComesOrGoes, world
    <3>2. CASE AppAdds(x)
      <4>1. hub'[id] = hub[id]
        BY <1>4, <3>2, AfterCreate DEF AppAdds, IInv
      <4> QED
        BY <2>1, <4>1
    <3>3. CASE AppDeletes(x)
      <4>1. id # x /\ hub'[id] = [hub[id] EXCEPT !.rows = Without(@, x)]
        BY <1>2, <1>4, <3>3 DEF AppDeletes, Deleted, Taken
      <4>2. hub[id] = [of |-> hub[id].of, rows |-> hub[id].rows]
        BY <1>4 DEF IInv, Shape
      <4>3. Without(hub[id].rows, x) = << >>
        BY <2>1, NothingWithout
      <4> QED
        BY <4>1, <4>2, <4>3
    <3> QED
      BY <3>1, <3>2, <3>3
  <2> QED
    BY <2>2, <2>3
<1>5. CASE id \notin Taken
  <2>1. hub' # hub
    BY <1>2, <1>5 DEF Taken
  <2>2. ASSUME NEW x, hub' = Deleted(x) PROVE FALSE
    <3>1. Taken' = Taken \ {x}
      BY <2>2, AfterDelete DEF IInv
    <3> QED
      BY <1>2, <1>5, <3>1
  <2>3. ASSUME new \in Taken, NEW f, hub' = [hub EXCEPT ![new].rows = Over(f, @)] PROVE FALSE
    <3>1. Taken' = Taken
      BY <2>3, AfterRows DEF IInv
    <3> QED
      BY <1>2, <1>5, <3>1
  <2>4. PICK x \in Ids \ Taken : \E e : Create(x, e)
    BY <2>1, <2>2, <2>3, HubMoves DEF IInv
  <2>5. Taken' = Taken \cup {x} /\ \E e : hub'[x] = [of |-> e, rows |-> << >>]
    BY <2>4, AfterCreate DEF IInv
  <2>6. id = x
    BY <1>2, <1>5, <2>5
  <2> QED
    BY <2>5, <2>6
<1>6. CASE id \in Taken /\ hub[id].of # Other
  <2>1. hub'[id].of = hub[id].of
    <3>1. CASE hub' = hub
      BY <3>1
    <3>2. ASSUME NEW x \in Ids \ Taken, NEW e, Create(x, e) PROVE hub'[id].of = hub[id].of
      BY <1>6, <3>2, AfterCreate DEF IInv
    <3>3. ASSUME NEW x, hub' = Deleted(x) PROVE hub'[id].of = hub[id].of
      <4>1. hub'[id] = [of |-> hub[id].of, rows |-> hub'[id].rows]
        BY <1>2, <3>3, AfterDelete DEF IInv
      <4> QED
        BY <4>1
    <3>4. ASSUME new \in Taken, NEW f, hub' = [hub EXCEPT ![new].rows = Over(f, @)]
          PROVE  hub'[id].of = hub[id].of
      <4>1. hub'[id] = [of |-> hub[id].of, rows |-> hub'[id].rows]
        BY <1>6, <3>4, AfterRows DEF IInv
      <4> QED
        BY <4>1
    <3> QED
      BY <3>1, <3>2, <3>3, <3>4, HubMoves DEF IInv
  <2> QED
    BY <1>2, <1>6, <2>1
<1> QED
  BY <1>4, <1>5, <1>6

\* The restore never changes or deletes what was on the hub before or what the app adds,
\* unless the app has deleted the copy whose id that then got.
THEOREM OthersAreUntouched == Spec => OthersUntouched
<1>1. Init => Bare
  <2>1. ASSUME Init PROVE \A id \in Taken : hub[id] = [of |-> Other, rows |-> << >>]
    BY <2>1 DEF Init, Taken
  <2>2. ASSUME Init, NEW id \in Taken PROVE hub[id].rows = << >>
    <3>1. hub[id] = [of |-> Other, rows |-> << >>]
      BY <2>1, <2>2
    <3> QED
      BY <3>1
  <2> QED
    BY <2>2 DEF Init, Bare
<1>2. ASSUME IInv, Bare, [Next]_vars PROVE Bare'
  <2>1. CASE Next
    BY <1>2, <2>1, BareKept
  <2>2. CASE UNCHANGED vars
    BY <1>2, <2>2 DEF vars, Bare, Taken, world
  <2> QED
    BY <1>2, <2>1, <2>2
<1>3. ASSUME IInv, Bare, [Next]_vars
      PROVE  [\A id \in Taken :
                hub[id].of = Other /\ edits' = edits /\ id \notin lost =>
                  id \in DOMAIN hub' /\ hub'[id] = hub[id]]_vars
  BY <1>3, OthersStay DEF Taken
<1> QED
  BY <1>1, <1>2, <1>3, RestoreInvariant, PTL DEF Spec, OthersUntouched
=============================================================================
