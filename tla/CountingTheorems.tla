-------------------------- MODULE CountingTheorems --------------------------
(***************************************************************************)
(* Facts about numbers that the proofs of several components need: a set   *)
(* of numbers has a least one, what holds of 0 and is passed on holds up to *)
(* N, a loop has a run, quotients, sums, and the ranking of a finite set.   *)
(* They are about sets and functions, not about predicates: a theorem with  *)
(* an operator parameter could not be used.                                 *)
(***************************************************************************)
EXTENDS Integers, Sequences, FiniteSetTheorems, TLAPS

(* A set of numbers that is not empty has a least one. *)
LEMMA LeastOne ==
  ASSUME NEW T, T \subseteq Nat, T # {}
  PROVE  \E x \in T : \A y \in T : x <= y
<1>1. IsWellFoundedOn(OpToRel(<, Nat), Nat)
  BY NatLessThanWellFounded
<1>2. PICK x \in T : \A y \in T : ~ (<<y, x>> \in OpToRel(<, Nat))
  BY Zenon, <1>1, WFMin
<1>3. \A y \in T : ~ (y < x)
  BY <1>2 DEF OpToRel
<1> QED  BY <1>3

(* Induction up to N, over a set and not over a predicate. *)
LEMMA UpTo ==
  ASSUME NEW N \in Nat, NEW T, 0 \in T, \A n \in 1 .. N : n - 1 \in T => n \in T
  PROVE  0 .. N \subseteq T
<1> DEFINE missing == (0 .. N) \ T
<1> SUFFICES ASSUME missing # {} PROVE FALSE
  OBVIOUS
<1>1. missing \subseteq Nat
  OBVIOUS
<1>2. PICK n \in missing : \A m \in missing : n <= m
  BY <1>1, LeastOne
<1>3. n # 0 /\ n \in 0 .. N /\ n \notin T
  BY <1>2
<1>4. n \in 1 .. N /\ n - 1 \in 0 .. N
  BY <1>3
<1>5. n - 1 \in missing
  BY <1>3, <1>4
<1>6. n <= n - 1
  BY <1>2, <1>5
<1> QED  BY <1>4, <1>6

(* A loop of N turns, the i-th taking v to next[i][v], has a run. *)
HasRun(V, N, start, next) ==
  \E f \in [0 .. N -> V] : f[0] = start /\ \A i \in 1 .. N : f[i] = next[i][f[i - 1]]

LEMMA LoopRuns ==
  ASSUME NEW V, NEW N \in Nat, NEW start \in V, NEW next \in [1 .. N -> [V -> V]]
  PROVE  HasRun(V, N, start, next)
<1> DEFINE runs(n) == \E f \in [0 .. n -> V] :
             f[0] = start /\ \A i \in 1 .. n : f[i] = next[i][f[i - 1]]
           T == {n \in 0 .. N : runs(n)}
<1>1. 0 \in T
  <2> DEFINE f == [i \in 0 .. 0 |-> start]
  <2>1. f \in [0 .. 0 -> V] /\ f[0] = start /\ 1 .. 0 = {}
    OBVIOUS
  <2>2. runs(0)
    BY <2>1
  <2>3. 0 \in 0 .. N
    OBVIOUS
  <2> HIDE DEF runs
  <2> QED  BY <2>2, <2>3
<1>2. ASSUME NEW n \in 1 .. N, n - 1 \in T
      PROVE  n \in T
  <2>1. n \in Nat /\ n - 1 \in Nat /\ n \in 0 .. N /\ n \in 0 .. n
        /\ n - 1 \in 0 .. n - 1 /\ n \notin 0 .. n - 1
    OBVIOUS
  <2>2. PICK g \in [0 .. n - 1 -> V] :
          g[0] = start /\ \A i \in 1 .. n - 1 : g[i] = next[i][g[i - 1]]
    BY <1>2
  <2> DEFINE f == [i \in 0 .. n |-> IF i = n THEN next[n][g[n - 1]] ELSE g[i]]
  <2>3. next[n][g[n - 1]] \in V
    BY <2>1, <2>2
  <2>4. \A i \in 0 .. n : i # n => i \in 0 .. n - 1 /\ f[i] = g[i]
    BY <2>1
  <2>5. f \in [0 .. n -> V]
    BY <2>2, <2>3, <2>4
  <2>6. f[0] = start
    BY <2>1, <2>2, <2>4
  <2>7. f[n] = next[n][f[n - 1]]
    BY <2>1, <2>4
  <2>8. \A i \in 1 .. n : f[i] = next[i][f[i - 1]]
    <3> SUFFICES ASSUME NEW i \in 1 .. n PROVE f[i] = next[i][f[i - 1]]
      OBVIOUS
    <3>1. CASE i = n
      BY <2>7, <3>1
    <3>2. CASE i # n
      <4>1. i \in 1 .. n - 1 /\ i \in 0 .. n /\ i - 1 \in 0 .. n /\ i - 1 # n
        BY <2>1, <3>2
      <4> QED  BY <2>2, <2>4, <3>2, <4>1
    <3> QED  BY <3>1, <3>2
  <2> HIDE DEF f
  <2>9. runs(n)
    BY <2>5, <2>6, <2>8
  <2> HIDE DEF runs
  <2> QED  BY <2>1, <2>9
<1>3. 0 .. N \subseteq T
  <2> HIDE DEF T
  <2> QED  BY <1>1, <1>2, UpTo
<1>4. N \in T
  BY <1>3
<1> QED  BY <1>4 DEF HasRun

(* What a sequence of numbers adds up to, turn by turn. *)
PartialSums(g) ==
  LET sum[i \in 0 .. Len(g)] == IF i = 0 THEN 0 ELSE sum[i - 1] + g[i] IN sum

LEMMA SumsAdd ==
  ASSUME NEW N \in Nat, NEW g \in [1 .. N -> Int]
  PROVE  /\ Len(g) = N /\ PartialSums(g) \in [0 .. N -> Int] /\ PartialSums(g)[0] = 0
         /\ \A i \in 1 .. N : PartialSums(g)[i] = PartialSums(g)[i - 1] + g[i]
<1> DEFINE turn(f, i) == IF i = 0 THEN 0 ELSE f[i - 1] + g[i]
           sum == CHOOSE f : f = [i \in 0 .. N |-> turn(f, i)]
           next == [i \in 1 .. N |-> [v \in Int |-> v + g[i]]]
<1>1. Len(g) = N
  OBVIOUS
<1>2. PartialSums(g) = sum
  BY <1>1 DEF PartialSums
<1>3. next \in [1 .. N -> [Int -> Int]]
  OBVIOUS
<1>4. \A i \in 1 .. N : \A v \in Int : next[i][v] = v + g[i]
  OBVIOUS
<1> HIDE DEF next
<1>5. PICK f \in [0 .. N -> Int] : f[0] = 0 /\ \A i \in 1 .. N : f[i] = next[i][f[i - 1]]
  <2> DEFINE V == Int
  <2>1. 0 \in V /\ N \in Nat /\ next \in [1 .. N -> [V -> V]]
    BY <1>3
  <2> HIDE DEF V
  <2>2. HasRun(V, N, 0, next)
    BY <2>1, LoopRuns
  <2> QED  BY <2>2 DEF HasRun, V
<1>6. \A i \in 1 .. N : f[i] = f[i - 1] + g[i]
  <2> SUFFICES ASSUME NEW i \in 1 .. N PROVE f[i] = f[i - 1] + g[i]
    OBVIOUS
  <2>1. i - 1 \in 0 .. N
    OBVIOUS
  <2> QED  BY <1>4, <1>5, <2>1
<1>7. f = [i \in 0 .. N |-> turn(f, i)]
  <2>1. ASSUME NEW i \in 0 .. N PROVE f[i] = turn(f, i)
    BY <1>5, <1>6
  <2> HIDE DEF turn
  <2> QED  BY <1>5, <2>1
<1>8. sum = [i \in 0 .. N |-> turn(sum, i)]
  <2> HIDE DEF turn
  <2> QED  BY <1>7
<1> HIDE DEF sum
<1>9. sum[0] = 0 /\ \A i \in 1 .. N : sum[i] = sum[i - 1] + g[i]
  BY <1>8
<1> DEFINE T == {i \in 0 .. N : sum[i] \in Int}
<1>10. 0 \in T
  BY <1>9
<1>11. ASSUME NEW i \in 1 .. N, i - 1 \in T PROVE i \in T
  BY <1>9, <1>11
<1>12. 0 .. N \subseteq T
  <2> HIDE DEF T
  <2> QED  BY <1>10, <1>11, UpTo
<1>13. sum \in [0 .. N -> Int]
  <2>1. \A i \in 0 .. N : sum[i] \in Int
    BY <1>12
  <2>2. DOMAIN sum = 0 .. N /\ sum = [i \in 0 .. N |-> sum[i]]
    BY <1>8
  <2> QED  BY <2>1, <2>2
<1> QED  BY <1>1, <1>2, <1>9, <1>13

-----------------------------------------------------------------------------
(* Totals over some of the places of a sequence of numbers. *)
Masked(v, ks) == [k \in 1 .. Len(v) |-> IF k \in ks THEN v[k] ELSE 0]
TotalAt(v, ks) == PartialSums(Masked(v, ks))[Len(v)]

MaskedRun(s, v, ks, N) ==
  /\ TotalAt(v, ks) = s[N] /\ s \in [0 .. N -> Int] /\ s[0] = 0
  /\ \A k \in 1 .. N : s[k] = s[k - 1] + (IF k \in ks THEN v[k] ELSE 0)

LEMMA MaskedSums ==
  ASSUME NEW N \in Nat, NEW v \in [1 .. N -> Int], NEW ks
  PROVE  MaskedRun(PartialSums(Masked(v, ks)), v, ks, N)
<1> DEFINE g == Masked(v, ks)
           s == PartialSums(g)
<1>1. Len(v) = N
  OBVIOUS
<1>2. g \in [1 .. N -> Int] /\ \A k \in 1 .. N : g[k] = IF k \in ks THEN v[k] ELSE 0
  BY <1>1 DEF Masked
<1>3. TotalAt(v, ks) = s[N]
  BY <1>1 DEF TotalAt
<1> HIDE DEF g
<1>4. /\ s \in [0 .. N -> Int] /\ s[0] = 0
      /\ \A k \in 1 .. N : s[k] = s[k - 1] + g[k]
  BY <1>2, SumsAdd
<1> HIDE DEF s
<1>5. MaskedRun(s, v, ks, N)
  BY <1>2, <1>3, <1>4 DEF MaskedRun
<1> QED  BY <1>5 DEF s, g

LEMMA TotalIsInt ==
  ASSUME NEW N \in Nat, NEW v \in [1 .. N -> Int], NEW ks
  PROVE  TotalAt(v, ks) \in Int
<1> DEFINE s == PartialSums(Masked(v, ks))
<1>1. MaskedRun(s, v, ks, N)
  BY MaskedSums
<1> HIDE DEF s
<1> QED  BY <1>1 DEF MaskedRun

(* The totals of two disjoint sets add up; what is no place of the sequence
   counts for nothing. *)
LEMMA TotalsOfTwo ==
  ASSUME NEW N \in Nat, NEW v \in [1 .. N -> Int], NEW A, NEW B, A \cap B = {}
  PROVE  TotalAt(v, A \cup B) = TotalAt(v, A) + TotalAt(v, B)
<1> DEFINE C == A \cup B
           a == PartialSums(Masked(v, A))
           b == PartialSums(Masked(v, B))
           c == PartialSums(Masked(v, C))
           T == {k \in 0 .. N : c[k] = a[k] + b[k]}
<1>1. MaskedRun(a, v, A, N) /\ MaskedRun(b, v, B, N) /\ MaskedRun(c, v, C, N)
  BY MaskedSums
<1> HIDE DEF a, b, c
<1>2. 0 \in T
  BY <1>1 DEF MaskedRun
<1>3. ASSUME NEW k \in 1 .. N, k - 1 \in T PROVE k \in T
  <2>1. k \in 0 .. N /\ k - 1 \in 0 .. N /\ c[k - 1] = a[k - 1] + b[k - 1]
    BY <1>3
  <2>2. a[k - 1] \in Int /\ b[k - 1] \in Int /\ v[k] \in Int
    BY <1>1, <2>1 DEF MaskedRun
  <2>3. /\ a[k] = a[k - 1] + (IF k \in A THEN v[k] ELSE 0)
        /\ b[k] = b[k - 1] + (IF k \in B THEN v[k] ELSE 0)
        /\ c[k] = c[k - 1] + (IF k \in C THEN v[k] ELSE 0)
    BY <1>1 DEF MaskedRun
  <2>4. (k \in C <=> k \in A \/ k \in B) /\ ~ (k \in A /\ k \in B)
    OBVIOUS
  <2>5. c[k] = a[k] + b[k]
    BY <2>1, <2>2, <2>3, <2>4
  <2> QED  BY <2>1, <2>5
<1>4. 0 .. N \subseteq T
  <2> HIDE DEF T
  <2> QED  BY <1>2, <1>3, UpTo
<1>5. c[N] = a[N] + b[N]
  BY <1>4
<1> QED  BY <1>1, <1>5 DEF MaskedRun

LEMMA TotalAtNone ==
  ASSUME NEW N \in Nat, NEW v \in [1 .. N -> Int], NEW ks, \A k \in 1 .. N : k \notin ks
  PROVE  TotalAt(v, ks) = 0
<1> DEFINE s == PartialSums(Masked(v, ks))
           T == {k \in 0 .. N : s[k] = 0}
<1>1. MaskedRun(s, v, ks, N)
  BY MaskedSums
<1> HIDE DEF s
<1>2. 0 \in T
  BY <1>1 DEF MaskedRun
<1>3. ASSUME NEW k \in 1 .. N, k - 1 \in T PROVE k \in T
  BY <1>1, <1>3 DEF MaskedRun
<1>4. 0 .. N \subseteq T
  <2> HIDE DEF T
  <2> QED  BY <1>2, <1>3, UpTo
<1> QED  BY <1>1, <1>4 DEF MaskedRun

(* A place more. *)
LEMMA TotalOfOneMore ==
  ASSUME NEW N \in Nat, NEW v \in [1 .. N -> Int], NEW w \in [1 .. N + 1 -> Int],
         \A k \in 1 .. N : w[k] = v[k], NEW A, NEW B,
         \A k \in 1 .. N : k \in A <=> k \in B, N + 1 \in B
  PROVE  TotalAt(w, B) = TotalAt(v, A) + w[N + 1]
<1> DEFINE M == N + 1
           a == PartialSums(Masked(v, A))
           b == PartialSums(Masked(w, B))
           T == {k \in 0 .. N : b[k] = a[k]}
<1>1. M \in Nat /\ M = N + 1 /\ M - 1 = N /\ M \in 1 .. M
  OBVIOUS
<1> HIDE DEF M
<1>2. MaskedRun(a, v, A, N) /\ MaskedRun(b, w, B, M)
  BY <1>1, MaskedSums
<1> HIDE DEF a, b
<1>3. 0 \in T
  BY <1>1, <1>2 DEF MaskedRun
<1>4. ASSUME NEW k \in 1 .. N, k - 1 \in T PROVE k \in T
  <2>1. k \in 0 .. N /\ k \in 1 .. M /\ b[k - 1] = a[k - 1] /\ w[k] = v[k]
    BY <1>1, <1>4
  <2>2. /\ a[k] = a[k - 1] + (IF k \in A THEN v[k] ELSE 0)
        /\ b[k] = b[k - 1] + (IF k \in B THEN w[k] ELSE 0)
    BY <1>2, <2>1 DEF MaskedRun
  <2> QED  BY <2>1, <2>2
<1>5. 0 .. N \subseteq T
  <2> HIDE DEF T
  <2> QED  BY <1>3, <1>4, UpTo
<1>6. b[N] = a[N]
  BY <1>5
<1>7. b[M] = b[M - 1] + w[M]
  BY <1>1, <1>2 DEF MaskedRun
<1> QED  BY <1>1, <1>2, <1>6, <1>7 DEF MaskedRun

(* The places from i to j: what the walk gained on the way. *)
LEMMA TotalOfStretch ==
  ASSUME NEW N \in Nat, NEW v \in [1 .. N -> Int], NEW i \in 1 .. N + 1, NEW j \in 0 .. N,
         i <= j + 1
  PROVE  TotalAt(v, i .. j) = PartialSums(v)[j] - PartialSums(v)[i - 1]
<1> DEFINE A == i .. j
           a == PartialSums(Masked(v, A))
           c == PartialSums(v)
           T == {k \in 0 .. N : a[k] = IF k < i THEN 0 ELSE IF k <= j THEN c[k] - c[i - 1]
                                       ELSE c[j] - c[i - 1]}
<1>1. /\ MaskedRun(a, v, A, N) /\ c \in [0 .. N -> Int]
      /\ \A k \in 1 .. N : c[k] = c[k - 1] + v[k]
  BY MaskedSums, SumsAdd
<1> HIDE DEF a, c
<1>2. 0 \in T
  BY <1>1 DEF MaskedRun
<1>3. ASSUME NEW k \in 1 .. N, k - 1 \in T PROVE k \in T
  <2>1. /\ k \in 0 .. N /\ k - 1 \in 0 .. N /\ i - 1 \in 0 .. N
        /\ a[k - 1] = IF k - 1 < i THEN 0 ELSE IF k - 1 <= j THEN c[k - 1] - c[i - 1]
                      ELSE c[j] - c[i - 1]
    BY <1>3
  <2>2. c[k] \in Int /\ c[k - 1] \in Int /\ c[i - 1] \in Int /\ c[j] \in Int /\ v[k] \in Int
    BY <1>1, <2>1
  <2>3. a[k] = a[k - 1] + (IF k \in A THEN v[k] ELSE 0) /\ c[k] = c[k - 1] + v[k]
    BY <1>1 DEF MaskedRun
  <2>4. k \in A <=> i <= k /\ k <= j
    OBVIOUS
  <2>5. a[k] = IF k < i THEN 0 ELSE IF k <= j THEN c[k] - c[i - 1] ELSE c[j] - c[i - 1]
    <3>1. CASE k < i
      BY <2>1, <2>3, <2>4, <3>1
    <3>2. CASE k = i /\ k <= j
      BY <2>1, <2>2, <2>3, <2>4, <3>2
    <3>3. CASE k > i /\ k <= j
      BY <2>1, <2>2, <2>3, <2>4, <3>3
    <3>4. CASE k >= i /\ k = j + 1
      <4>1. k - 1 = j /\ k \notin A
        BY <2>4, <3>4
      <4>2. a[k - 1] \in Int
        BY <1>1, <2>1 DEF MaskedRun
      <4>3. a[k] = a[k - 1]
        BY <2>3, <4>1, <4>2
      <4>4. a[k - 1] = c[j] - c[i - 1]
        <5>1. CASE k = i
          <6>1. i - 1 = j /\ a[k - 1] = 0
            BY <2>1, <4>1, <5>1
          <6> QED  BY <2>2, <6>1
        <5>2. CASE k # i
          BY <2>1, <2>2, <3>4, <4>1, <5>2
        <5> QED  BY <5>1, <5>2
      <4> QED  BY <3>4, <4>3, <4>4
    <3>5. CASE k >= i /\ k > j + 1
      BY <2>1, <2>2, <2>3, <2>4, <3>5
    <3> QED  BY <3>1, <3>2, <3>3, <3>4, <3>5
  <2> QED  BY <2>1, <2>5
<1>4. 0 .. N \subseteq T
  <2> HIDE DEF T
  <2> QED  BY <1>2, <1>3, UpTo
<1>5. a[N] = c[j] - c[i - 1]
  <2>1. i - 1 \in 0 .. N /\ c[j] \in Int /\ c[i - 1] \in Int
    BY <1>1
  <2>2. a[N] = IF N < i THEN 0 ELSE IF N <= j THEN c[N] - c[i - 1] ELSE c[j] - c[i - 1]
    BY <1>4
  <2>3. N < i => j = i - 1
    OBVIOUS
  <2>4. N <= j => N = j
    OBVIOUS
  <2>5. CASE N < i
    BY <2>1, <2>2, <2>3, <2>5
  <2>6. CASE ~ (N < i)
    BY <2>1, <2>2, <2>4, <2>6
  <2> QED  BY <2>5, <2>6
<1> QED  BY <1>1, <1>5 DEF MaskedRun, c

(* Sets that come one after another: parts[i] is what the i-th adds to those
   before. *)
Parting(M, parts, upto) ==
  /\ upto[0] = {}
  /\ \A i \in 1 .. M : upto[i] = upto[i - 1] \cup parts[i] /\ upto[i - 1] \cap parts[i] = {}

LEMMA PartsAddUp ==
  ASSUME NEW N \in Nat, NEW v \in [1 .. N -> Int], NEW M \in Nat, NEW parts, NEW upto,
         Parting(M, parts, upto), NEW f, f = [i \in 1 .. M |-> TotalAt(v, parts[i])]
  PROVE  PartialSums(f)[M] = TotalAt(v, upto[M])
<1> DEFINE s == PartialSums(f)
           T == {i \in 0 .. M : s[i] = TotalAt(v, upto[i])}
<1>1. f \in [1 .. M -> Int]
  BY TotalIsInt
<1>2. /\ s \in [0 .. M -> Int] /\ s[0] = 0
      /\ \A i \in 1 .. M : s[i] = s[i - 1] + f[i]
  BY <1>1, SumsAdd
<1> HIDE DEF s
<1>3. 0 \in T
  <2>1. TotalAt(v, upto[0]) = 0
    BY TotalAtNone DEF Parting
  <2> QED  BY <1>2, <2>1
<1>4. ASSUME NEW i \in 1 .. M, i - 1 \in T PROVE i \in T
  <2> DEFINE A == upto[i - 1]
             B == parts[i]
  <2>1. upto[i] = A \cup B /\ A \cap B = {}
    BY DEF Parting
  <2> HIDE DEF A, B
  <2>2. TotalAt(v, upto[i]) = TotalAt(v, A) + TotalAt(v, B)
    BY <2>1, TotalsOfTwo
  <2>3. f[i] = TotalAt(v, B) /\ s[i - 1] = TotalAt(v, A) /\ i \in 0 .. M
    BY <1>4 DEF A, B
  <2>4. s[i] = TotalAt(v, upto[i])
    BY <1>2, <2>2, <2>3
  <2> QED  BY <2>3, <2>4
<1>5. 0 .. M \subseteq T
  <2> HIDE DEF T
  <2> QED  BY <1>3, <1>4, UpTo
<1>6. M \in 0 .. M
  OBVIOUS
<1> QED  BY <1>5, <1>6 DEF s

LEMMA PartsCount ==
  ASSUME NEW S, IsFiniteSet(S), NEW M \in Nat, NEW parts, NEW upto, Parting(M, parts, upto),
         \A i \in 0 .. M : upto[i] \subseteq S, \A i \in 1 .. M : parts[i] \subseteq S,
         NEW f, f = [i \in 1 .. M |-> Cardinality(parts[i])]
  PROVE  PartialSums(f)[M] = Cardinality(upto[M])
<1> DEFINE s == PartialSums(f)
           T == {i \in 0 .. M : s[i] = Cardinality(upto[i])}
<1>1. \A i \in 0 .. M : IsFiniteSet(upto[i]) /\ Cardinality(upto[i]) \in Nat
  BY FS_Subset, FS_CardinalityType
<1>2. \A i \in 1 .. M : IsFiniteSet(parts[i]) /\ Cardinality(parts[i]) \in Nat
  BY FS_Subset, FS_CardinalityType
<1>3. f \in [1 .. M -> Int]
  BY <1>2
<1>4. /\ s \in [0 .. M -> Int] /\ s[0] = 0
      /\ \A i \in 1 .. M : s[i] = s[i - 1] + f[i]
  BY <1>3, SumsAdd
<1> HIDE DEF s
<1>6. 0 \in T
  <2>1. upto[0] = {}
    BY DEF Parting
  <2>2. Cardinality(upto[0]) = 0
    BY <2>1, FS_EmptySet
  <2> QED  BY <1>4, <2>2
<1>7. ASSUME NEW i \in 1 .. M, i - 1 \in T PROVE i \in T
  <2>1. upto[i] = upto[i - 1] \cup parts[i] /\ upto[i - 1] \cap parts[i] = {}
    BY DEF Parting
  <2>2. i - 1 \in 0 .. M /\ i \in 0 .. M
    OBVIOUS
  <2>3. IsFiniteSet(upto[i - 1]) /\ IsFiniteSet(parts[i])
    BY <1>1, <1>2, <2>2
  <2>4. Cardinality(upto[i - 1] \cup parts[i])
          = Cardinality(upto[i - 1]) + Cardinality(parts[i]) - Cardinality(upto[i - 1] \cap parts[i])
    BY <2>3, FS_Union
  <2>5. Cardinality(upto[i - 1] \cap parts[i]) = 0
    BY <2>1, FS_EmptySet
  <2>6. Cardinality(upto[i - 1]) \in Nat /\ Cardinality(parts[i]) \in Nat
    BY <1>1, <1>2, <2>2
  <2>7. Cardinality(upto[i]) = Cardinality(upto[i - 1]) + Cardinality(parts[i])
    BY <2>1, <2>4, <2>5, <2>6
  <2>8. s[i] = s[i - 1] + Cardinality(parts[i]) /\ s[i - 1] = Cardinality(upto[i - 1])
    BY <1>4, <1>7
  <2> QED  BY <2>2, <2>7, <2>8
<1>8. 0 .. M \subseteq T
  <2> HIDE DEF T
  <2> QED  BY <1>6, <1>7, UpTo
<1>9. M \in 0 .. M
  OBVIOUS
<1> QED  BY <1>8, <1>9 DEF s

-----------------------------------------------------------------------------
(* Quotients. *)
LEMMA Euclid ==
  ASSUME NEW x \in Nat, NEW d \in Nat \ {0}
  PROVE  /\ x \div d \in Int /\ x % d \in Int /\ 0 <= x % d /\ x % d < d
         /\ x = d * (x \div d) + (x % d)
OBVIOUS

LEMMA QuotientsGrow ==
  ASSUME NEW d \in Nat \ {0}, NEW s \in Int, NEW t \in Int, NEW a \in Int, NEW b \in Int,
         0 <= a, a < d, 0 <= b, b < d, d * s + a <= d * t + b
  PROVE  s < t \/ (s = t /\ a <= b)
<1>1. CASE s = t
  BY <1>1
<1>2. CASE s > t
  <2> DEFINE e == s - t - 1
  <2>1. e \in Nat
    BY <1>2
  <2>2. d * e \in Nat
    BY <2>1
  <2>3. d * s = d * t + d + d * e
    OBVIOUS
  <2> HIDE DEF e
  <2> QED  BY <2>2, <2>3
<1> QED  BY <1>1, <1>2

-----------------------------------------------------------------------------
(* Rankings: beaten[m] are those before m. *)
Order(S, beaten) ==
  /\ \A m \in S : m \notin beaten[m]
  /\ \A m \in S : \A o \in beaten[m] : beaten[o] \subseteq beaten[m]

TotalOrder(S, beaten) ==
  /\ Order(S, beaten)
  /\ \A m, n \in S : m # n => m \in beaten[n] \/ n \in beaten[m]

(* What comes before one that comes before m is less than what comes before m. *)
LEMMA BeforeIsLess ==
  ASSUME NEW S, IsFiniteSet(S), NEW beaten \in [S -> SUBSET S], Order(S, beaten),
         NEW m \in S, NEW o \in beaten[m]
  PROVE  /\ Cardinality(beaten[o]) \in Nat /\ Cardinality(beaten[m]) \in Nat
         /\ Cardinality(beaten[o]) < Cardinality(beaten[m])
<1>1. beaten[o] \subseteq beaten[m] /\ o \notin beaten[o] /\ o \in beaten[m] /\ o \in S
  BY DEF Order
<1>2. IsFiniteSet(beaten[m])
  BY FS_Subset
<1>3. /\ IsFiniteSet(beaten[o]) /\ Cardinality(beaten[o]) <= Cardinality(beaten[m])
      /\ Cardinality(beaten[m]) = Cardinality(beaten[o]) => beaten[m] = beaten[o]
  BY <1>1, <1>2, FS_Subset
<1>4. Cardinality(beaten[o]) \in Nat /\ Cardinality(beaten[m]) \in Nat
  BY <1>2, <1>3, FS_CardinalityType
<1>5. beaten[m] # beaten[o]
  BY <1>1
<1> QED  BY <1>3, <1>4, <1>5

(* Of finitely many there is one that none comes before. *)
LEMMA FirstOne ==
  ASSUME NEW S, IsFiniteSet(S), S # {}, NEW beaten \in [S -> SUBSET S], Order(S, beaten)
  PROVE  \E m \in S : beaten[m] = {}
<1> DEFINE counts == {Cardinality(beaten[m]) : m \in S}
<1>1. \A m \in S : Cardinality(beaten[m]) \in Nat
  BY FS_Subset, FS_CardinalityType
<1>2. PICK m \in S : \A n \in S : Cardinality(beaten[m]) <= Cardinality(beaten[n])
  <2>1. counts \subseteq Nat /\ counts # {}
    BY <1>1
  <2>2. PICK c \in counts : \A d \in counts : c <= d
    BY <2>1, LeastOne
  <2> QED  BY <2>2
<1>3. ASSUME NEW o \in beaten[m] PROVE FALSE
  <2>1. o \in S
    OBVIOUS
  <2>2. Cardinality(beaten[o]) < Cardinality(beaten[m])
    BY BeforeIsLess
  <2> QED  BY <1>1, <1>2, <2>1, <2>2
<1> QED  BY <1>3

(* In a ranking of finitely many, each place is taken by one. *)
LEMMA EachPlaceOnce ==
  ASSUME NEW S, IsFiniteSet(S), NEW beaten \in [S -> SUBSET S], TotalOrder(S, beaten)
  PROVE  /\ Cardinality(S) \in Nat
         /\ \A m \in S : Cardinality(beaten[m]) \in 0 .. Cardinality(S) - 1
         /\ \A m, n \in S : Cardinality(beaten[m]) = Cardinality(beaten[n]) => m = n
         /\ \A k \in 1 .. Cardinality(S) : \E m \in S : Cardinality(beaten[m]) = k - 1
<1> DEFINE N == Cardinality(S)
           place == [m \in S |-> Cardinality(beaten[m])]
<1>1. N \in Nat
  BY FS_CardinalityType
<1>2. Order(S, beaten)
  BY DEF TotalOrder
<1>3. ASSUME NEW m \in S PROVE Cardinality(beaten[m]) \in 0 .. N - 1
  <2>1. m \notin beaten[m] /\ beaten[m] \subseteq S
    BY <1>2 DEF Order
  <2>2. /\ IsFiniteSet(beaten[m]) /\ Cardinality(beaten[m]) <= N
        /\ N = Cardinality(beaten[m]) => S = beaten[m]
    BY <2>1, FS_Subset
  <2>3. Cardinality(beaten[m]) \in Nat
    BY <2>2, FS_CardinalityType
  <2> QED  BY <1>1, <2>1, <2>2, <2>3
<1>4. ASSUME NEW m \in S, NEW n \in S, Cardinality(beaten[m]) = Cardinality(beaten[n]) PROVE m = n
  <2>1. m # n => m \in beaten[n] \/ n \in beaten[m]
    BY DEF TotalOrder
  <2>2. m \in beaten[n] => FALSE
    BY <1>2, <1>4, BeforeIsLess
  <2>3. n \in beaten[m] => FALSE
    BY <1>2, <1>4, BeforeIsLess
  <2> QED  BY <2>1, <2>2, <2>3
<1>5. /\ place \in [S -> 0 .. N - 1]
      /\ \A m, n \in S : place[m] = place[n] => m = n
  BY <1>3, <1>4
<1>6. IsFiniteSet(0 .. N - 1) /\ Cardinality(0 .. N - 1) = N
  BY <1>1, FS_Interval
<1>7. place \in Injection(S, 0 .. N - 1)
  BY <1>5 DEF Injection, IsInjective
<1>8. place \in Surjection(S, 0 .. N - 1)
  <2> HIDE DEF place
  <2> QED  BY <1>6, <1>7, FS_Injection
<1>9. \A k \in 1 .. N : \E m \in S : Cardinality(beaten[m]) = k - 1
  <2> SUFFICES ASSUME NEW k \in 1 .. N PROVE \E m \in S : Cardinality(beaten[m]) = k - 1
    OBVIOUS
  <2>1. k - 1 \in 0 .. N - 1
    BY <1>1
  <2>2. \E m \in S : place[m] = k - 1
    BY <1>8, <2>1 DEF Surjection
  <2> QED  BY <2>2
<1> QED  BY <1>1, <1>3, <1>4, <1>9

(* The values of a function on a finite set are finitely many. *)
LEMMA FinitelyManyValues ==
  ASSUME NEW S, IsFiniteSet(S), NEW f, DOMAIN f = S, f \in [S -> {f[x] : x \in S}]
  PROVE  IsFiniteSet({f[x] : x \in S})
<1>1. f \in Surjection(S, {f[x] : x \in S})
  BY DEF Surjection
<1> QED  BY <1>1, FS_Surjection
=============================================================================
