-------------------------------- MODULE Sums --------------------------------
(***************************************************************************)
(* Sums over sequences and finite sets, selections from and joins of       *)
(* sequences, defined so that TLC evaluates them and proofs can reason     *)
(* about them, and what the proofs need to know of them, of sequences and  *)
(* of functions that are defined by recursion.                             *)
(***************************************************************************)
EXTENDS Integers, Sequences, FiniteSetsExt, SequencesExt, WellFoundedInduction, FiniteSetTheorems, TLAPS

(* f[1] + ... + f[n]. *)
SumTo(n, f) ==
    LET sum[k \in 0..n] == IF k = 0 THEN 0 ELSE sum[k - 1] + f[k]
    IN  sum[n]

(* The members of a finite set, each once, in some order. *)
Enumerates(e, S) ==
    /\ \A i, j \in 1..Cardinality(S) : e[i] = e[j] => i = j
    /\ \A x \in S : \E i \in 1..Cardinality(S) : e[i] = x

Enumeration(S) == CHOOSE e \in [1..Cardinality(S) -> S] : Enumerates(e, S)

(* The sum of f over a finite set. *)
SumOver(S, f) == SumTo(Cardinality(S), [k \in 1..Cardinality(S) |-> f[Enumeration(S)[k]]])

(* The elements of s at the positions K, in their order. *)
Selected(s, K) ==
    LET kept[k \in 0..Len(s)] ==
            IF k = 0 THEN <<>> ELSE IF k \in K THEN Append(kept[k - 1], s[k]) ELSE kept[k - 1]
    IN  kept[Len(s)]

(* g[1] \o ... \o g[n]. *)
Concat(n, g) ==
    LET joined[k \in 0..n] == IF k = 0 THEN <<>> ELSE joined[k - 1] \o g[k]
    IN  joined[n]

-----------------------------------------------------------------------------
(* Induction, and functions defined by recursion. *)

LEMMA SmallestOf ==
    ASSUME NEW T, T \subseteq Nat, T # {}
    PROVE  \E n \in T : \A m \in T : n <= m
<1> DEFINE R == OpToRel(<, Nat)
<1>1. IsWellFoundedOn(R, Nat)
  BY NatLessThanWellFounded
<1>2. \A x, y \in Nat : x < y => <<x, y>> \in R
  BY DEF OpToRel
<1> HIDE DEF R
<1>3. PICK n \in T : \A y \in T : ~(<<y, n>> \in R)
  BY <1>1, WFMin
<1>4. \A m \in T : n <= m
  <2> SUFFICES ASSUME NEW m \in T PROVE n <= m
    OBVIOUS
  <2>1. m \in Nat /\ n \in Nat /\ ~(m < n)
    BY <1>2, <1>3
  <2> QED BY <2>1
<1> QED BY <1>4

(* A set of numbers with 0 in it, and with every number up to N in it      *)
(* whose predecessor is, holds all of 0..N. *)
LEMMA UpTo ==
    ASSUME NEW N \in Nat, NEW T, 0 \in T, \A n \in 1..N : n - 1 \in T => n \in T
    PROVE  0..N \subseteq T
<1> SUFFICES ASSUME (0..N) \ T # {} PROVE FALSE
  OBVIOUS
<1>1. (0..N) \ T \subseteq Nat
  OBVIOUS
<1>2. PICK n \in (0..N) \ T : \A m \in (0..N) \ T : n <= m
  BY <1>1, SmallestOf
<1>3. n \in 1..N /\ n - 1 \in 0..N /\ ~(n <= n - 1)
  BY <1>2
<1>4. n - 1 \in T
  BY <1>2, <1>3
<1> QED BY <1>2, <1>3, <1>4

(* f starts with w0 and goes on as g says. *)
Iterated(f, N, w0, g) == \A n \in 0..N : f[n] = IF n = 0 THEN w0 ELSE g[<<n, f[n - 1]>>]

(* A function defined by recursion over 0..N exists. *)
LEMMA Iterates ==
    ASSUME NEW N \in Nat, NEW W, NEW w0 \in W, NEW g \in [(1..N) \X W -> W]
    PROVE  \E f \in [0..N -> W] : Iterated(f, N, w0, g)
<1> DEFINE Good(n, f) == f \in [0..n -> W] /\ f[0] = w0 /\ \A k \in 1..n : f[k] = g[<<k, f[k - 1]>>]
           T == {n \in 0..N : \E f \in [0..n -> W] : Good(n, f)}
<1>1. 0 \in T
  <2>1. Good(0, [k \in 0..0 |-> w0]) /\ [k \in 0..0 |-> w0] \in [0..0 -> W]
    OBVIOUS
  <2> HIDE DEF Good
  <2> QED BY <2>1
<1>2. ASSUME NEW m \in 1..N, m - 1 \in T PROVE m \in T
  <2> DEFINE n == m - 1
  <2>1. n \in Nat /\ m \in Nat /\ m = n + 1
    OBVIOUS
  <2>2. PICK f \in [0..n -> W] : Good(n, f)
    BY <1>2
  <2> HIDE DEF n
  <2> DEFINE h == [k \in 0..m |-> IF k = m THEN g[<<m, f[n]>>] ELSE f[k]]
  <2>3. g[<<m, f[n]>>] \in W
    BY <2>1
  <2>4. \A k \in 0..m : k # m => k \in 0..n
    BY <2>1
  <2>5. h \in [0..m -> W]
    BY <2>3, <2>4
  <2>6. h[0] = w0
    BY <2>1, <2>2
  <2>7. ASSUME NEW k \in 1..m PROVE h[k] = g[<<k, h[k - 1]>>]
    <3>1. k - 1 \in 0..n /\ k - 1 # m /\ k - 1 \in 0..m /\ k \in 0..m
      BY <2>1
    <3>2. h[k - 1] = f[k - 1]
      BY <3>1
    <3>3. CASE k = m
      BY <2>1, <3>1, <3>2, <3>3
    <3>4. CASE k # m
      <4>1. k \in 1..n /\ h[k] = f[k]
        BY <2>1, <3>1, <3>4
      <4> QED BY <2>2, <3>2, <4>1
    <3> QED BY <3>3, <3>4
  <2>8. Good(m, h)
    BY <2>5, <2>6, <2>7
  <2> HIDE DEF h, Good
  <2> QED BY <2>1, <2>5, <2>8
<1>3. N \in T
  <2> HIDE DEF T
  <2>1. 0..N \subseteq T
    BY <1>1, <1>2, UpTo
  <2> QED BY <2>1
<1>4. PICK f \in [0..N -> W] : Good(N, f)
  BY <1>3
<1>5. \A n \in 0..N : n # 0 => n \in 1..N
  OBVIOUS
<1>6. \A n \in 0..N : f[n] = IF n = 0 THEN w0 ELSE g[<<n, f[n - 1]>>]
  BY <1>4, <1>5
<1> QED BY <1>6 DEF Iterated

-----------------------------------------------------------------------------
(* Sums of numbers. *)

(* s is the sequence of the partial sums of f. *)
PartialSums(s, n, f) == s[0] = 0 /\ \A k \in 1..n : s[k] = s[k - 1] + f[k]

LEMMA SumToPartial ==
    ASSUME NEW n \in Nat, NEW f \in [1..n -> Int]
    PROVE  \E s \in [0..n -> Int] : PartialSums(s, n, f) /\ SumTo(n, f) = s[n]
<1> DEFINE g == [x \in (1..n) \X Int |-> x[2] + f[x[1]]]
           Sums(s) == s = [k \in 0..n |-> IF k = 0 THEN 0 ELSE s[k - 1] + f[k]]
           sum == CHOOSE s : Sums(s)
<1>1. g \in [(1..n) \X Int -> Int]
  OBVIOUS
<1>2. \A k \in 1..n, i \in Int : g[<<k, i>>] = i + f[k]
  OBVIOUS
<1> HIDE DEF g, Sums, sum
<1>3. PICK s \in [0..n -> Int] : Iterated(s, n, 0, g)
  <2>1. 0 \in Int
    OBVIOUS
  <2> QED BY <1>1, <2>1, Iterates
<1>4. \A k \in 0..n : k # 0 => k \in 1..n /\ k - 1 \in 0..n
  OBVIOUS
<1>5. \A k \in 0..n : s[k] = IF k = 0 THEN 0 ELSE s[k - 1] + f[k]
  BY <1>2, <1>3, <1>4 DEF Iterated
<1>6. Sums(s)
  BY <1>5 DEF Sums
<1>7. Sums(sum)
  BY <1>6 DEF sum
<1>8. SumTo(n, f) = sum[n]
  BY DEF SumTo, sum, Sums
<1>9. \A k \in 0..n : sum[k] = IF k = 0 THEN 0 ELSE sum[k - 1] + f[k]
  BY <1>7 DEF Sums
<1>10. sum = [k \in 0..n |-> sum[k]]
  BY <1>7 DEF Sums
<1>11. \A k \in 0..n : sum[k] \in Int
  <2> DEFINE T == {k \in 0..n : sum[k] \in Int}
  <2>1. 0 \in T
    BY <1>9
  <2>2. ASSUME NEW k \in 1..n, k - 1 \in T PROVE k \in T
    BY SMTT(60), <1>9, <2>2
  <2> HIDE DEF T
  <2>3. 0..n \subseteq T
    BY <2>1, <2>2, UpTo
  <2> QED BY <2>3 DEF T
<1>12. sum \in [0..n -> Int]
  BY <1>10, <1>11
<1>13. PartialSums(sum, n, f)
  <2>1. 0 \in 0..n /\ \A k \in 1..n : k \in 0..n /\ k # 0
    OBVIOUS
  <2> QED BY <1>9, <2>1 DEF PartialSums
<1> QED BY <1>8, <1>12, <1>13

LEMMA SumToType == ASSUME NEW n \in Nat, NEW f \in [1..n -> Int] PROVE SumTo(n, f) \in Int
<1>1. PICK s \in [0..n -> Int] : PartialSums(s, n, f) /\ SumTo(n, f) = s[n]
  BY SumToPartial
<1> QED BY <1>1

LEMMA SumToNone == ASSUME NEW n \in Nat, NEW f \in [1..n -> Int] PROVE n = 0 => SumTo(n, f) = 0
<1>1. PICK s \in [0..n -> Int] : PartialSums(s, n, f) /\ SumTo(n, f) = s[n]
  BY SumToPartial
<1> QED BY <1>1 DEF PartialSums

(* One more term. *)
LEMMA SumToAppend ==
    ASSUME NEW n \in Nat, NEW f \in [1..n -> Int], NEW g \in [1..(n + 1) -> Int], \A k \in 1..n : g[k] = f[k]
    PROVE  SumTo(n + 1, g) = SumTo(n, f) + g[n + 1]
<1>1. PICK s \in [0..n -> Int] : PartialSums(s, n, f) /\ SumTo(n, f) = s[n]
  BY SumToPartial
<1>2. PICK t \in [0..(n + 1) -> Int] : PartialSums(t, n + 1, g) /\ SumTo(n + 1, g) = t[n + 1]
  <2>1. n + 1 \in Nat
    OBVIOUS
  <2> QED BY <2>1, SumToPartial
<1> DEFINE T == {k \in 0..n : t[k] = s[k]}
<1>3. 0 \in T
  BY <1>1, <1>2 DEF PartialSums
<1>4. ASSUME NEW k \in 1..n, k - 1 \in T PROVE k \in T
  <2>1. k \in 1..(n + 1) /\ k - 1 \in 0..n
    OBVIOUS
  <2> QED BY <1>1, <1>2, <1>4, <2>1 DEF PartialSums
<1> HIDE DEF T
<1>5. 0..n \subseteq T
  BY <1>3, <1>4, UpTo
<1>6. t[n] = s[n]
  BY <1>5 DEF T
<1>7. t[n + 1] = t[(n + 1) - 1] + g[n + 1] /\ (n + 1) - 1 = n
  BY <1>2 DEF PartialSums
<1> QED BY <1>1, <1>2, <1>6, <1>7

(* One term is replaced. *)
LEMMA SumToReplace ==
    ASSUME NEW n \in Nat, NEW f \in [1..n -> Int], NEW g \in [1..n -> Int], NEW j \in 1..n,
           \A k \in 1..n : k # j => g[k] = f[k]
    PROVE  SumTo(n, g) = (SumTo(n, f) - f[j]) + g[j]
<1>1. PICK s \in [0..n -> Int] : PartialSums(s, n, f) /\ SumTo(n, f) = s[n]
  BY SumToPartial
<1>2. PICK t \in [0..n -> Int] : PartialSums(t, n, g) /\ SumTo(n, g) = t[n]
  BY SumToPartial
<1> DEFINE T == {k \in 0..n : t[k] = IF k < j THEN s[k] ELSE (s[k] - f[j]) + g[j]}
<1>3. 0 \in T
  BY <1>1, <1>2 DEF PartialSums
<1>4. ASSUME NEW k \in 1..n, k - 1 \in T PROVE k \in T
  <2>1. t[k] = t[k - 1] + g[k] /\ s[k] = s[k - 1] + f[k]
    BY <1>1, <1>2 DEF PartialSums
  <2>2. s[k - 1] \in Int /\ f[k] \in Int /\ f[j] \in Int /\ g[j] \in Int /\ g[k] \in Int /\ k - 1 \in 0..n /\ k \in 0..n
    OBVIOUS
  <2>3. CASE k < j
    BY <1>4, <2>1, <2>2, <2>3
  <2>4. CASE k = j
    BY <1>4, <2>1, <2>2, <2>4
  <2>5. CASE k > j
    BY SMTT(60), <1>4, <2>1, <2>2, <2>5
  <2> QED BY <2>3, <2>4, <2>5
<1> HIDE DEF T
<1>5. 0..n \subseteq T
  BY <1>3, <1>4, UpTo
<1>6. n \in T
  BY <1>5
<1>7. t[n] = (s[n] - f[j]) + g[j]
  BY <1>6 DEF T
<1> QED BY <1>1, <1>2, <1>7

LEMMA SumToNat == ASSUME NEW n \in Nat, NEW f \in [1..n -> Nat] PROVE SumTo(n, f) \in Nat
<1>1. f \in [1..n -> Int]
  OBVIOUS
<1>2. PICK s \in [0..n -> Int] : PartialSums(s, n, f) /\ SumTo(n, f) = s[n]
  BY <1>1, SumToPartial
<1> DEFINE T == {k \in 0..n : s[k] \in Nat}
<1>3. 0 \in T
  BY <1>2 DEF PartialSums
<1>4. ASSUME NEW k \in 1..n, k - 1 \in T PROVE k \in T
  BY <1>2, <1>4 DEF PartialSums
<1> HIDE DEF T
<1>5. 0..n \subseteq T
  BY <1>3, <1>4, UpTo
<1> QED BY <1>2, <1>5 DEF T

(* Sums term by term. *)
LEMMA SumToPlus ==
    ASSUME NEW n \in Nat, NEW f \in [1..n -> Int], NEW g \in [1..n -> Int], NEW h \in [1..n -> Int],
           \A k \in 1..n : h[k] = f[k] + g[k]
    PROVE  SumTo(n, h) = SumTo(n, f) + SumTo(n, g)
<1>1. PICK s \in [0..n -> Int] : PartialSums(s, n, f) /\ SumTo(n, f) = s[n]
  BY SumToPartial
<1>2. PICK t \in [0..n -> Int] : PartialSums(t, n, g) /\ SumTo(n, g) = t[n]
  BY SumToPartial
<1>3. PICK u \in [0..n -> Int] : PartialSums(u, n, h) /\ SumTo(n, h) = u[n]
  BY SumToPartial
<1> DEFINE T == {k \in 0..n : u[k] = s[k] + t[k]}
<1>4. 0 \in T
  BY <1>1, <1>2, <1>3 DEF PartialSums
<1>5. ASSUME NEW k \in 1..n, k - 1 \in T PROVE k \in T
  <2>1. k \in 0..n /\ k - 1 \in 0..n /\ u[k - 1] = s[k - 1] + t[k - 1]
    BY <1>5
  <2>2. s[k] = s[k - 1] + f[k] /\ t[k] = t[k - 1] + g[k] /\ u[k] = u[k - 1] + h[k] /\ h[k] = f[k] + g[k]
    BY <1>1, <1>2, <1>3 DEF PartialSums
  <2>3. s[k - 1] \in Int /\ t[k - 1] \in Int /\ f[k] \in Int /\ g[k] \in Int
    BY <2>1
  <2> QED BY <2>1, <2>2, <2>3
<1> HIDE DEF T
<1>6. 0..n \subseteq T
  BY <1>4, <1>5, UpTo
<1>7. n \in T
  BY <1>6
<1> QED BY <1>1, <1>2, <1>3, <1>7 DEF T

LEMMA SumToAtMost ==
    ASSUME NEW n \in Nat, NEW f \in [1..n -> Int], NEW g \in [1..n -> Int], \A k \in 1..n : f[k] <= g[k]
    PROVE  SumTo(n, f) <= SumTo(n, g)
<1> DEFINE d == [k \in 1..n |-> g[k] - f[k]]
<1>1. d \in [1..n -> Nat] /\ d \in [1..n -> Int] /\ \A k \in 1..n : g[k] = f[k] + d[k]
  <2>1. \A k \in 1..n : g[k] - f[k] \in Nat /\ g[k] = f[k] + (g[k] - f[k])
    OBVIOUS
  <2> QED BY <2>1
<1> HIDE DEF d
<1>2. SumTo(n, d) \in Nat
  BY <1>1, SumToNat
<1>3. SumTo(n, g) = SumTo(n, f) + SumTo(n, d)
  BY <1>1, SumToPlus
<1>4. SumTo(n, f) \in Int
  BY SumToType
<1> QED BY <1>2, <1>3, <1>4

LEMMA SumToConstant ==
    ASSUME NEW n \in Nat, NEW c \in Int, NEW f \in [1..n -> Int], \A k \in 1..n : f[k] = c
    PROVE  SumTo(n, f) = c * n
<1>1. PICK s \in [0..n -> Int] : PartialSums(s, n, f) /\ SumTo(n, f) = s[n]
  BY SumToPartial
<1> DEFINE T == {k \in 0..n : s[k] = c * k}
<1>3. 0 \in T
  <2>1. c * 0 = 0
    OBVIOUS
  <2> QED BY <1>1, <2>1 DEF PartialSums
<1>4. ASSUME NEW k \in 1..n, k - 1 \in T PROVE k \in T
  <2>1. c * k = c * (k - 1) + c
    OBVIOUS
  <2> QED BY <1>1, <1>4, <2>1 DEF PartialSums
<1> HIDE DEF T
<1>5. 0..n \subseteq T
  BY <1>3, <1>4, UpTo
<1> QED BY <1>1, <1>5 DEF T

LEMMA SumToAbove ==
    ASSUME NEW n \in Nat, NEW f \in [1..n -> Nat], NEW j \in 1..n
    PROVE  f[j] <= SumTo(n, f)
<1> DEFINE g == [k \in 1..n |-> IF k = j THEN 0 ELSE f[k]]
<1>1. g \in [1..n -> Nat] /\ g[j] = 0 /\ \A k \in 1..n : k # j => g[k] = f[k]
  OBVIOUS
<1>2. g \in [1..n -> Int] /\ f \in [1..n -> Int]
  BY <1>1
<1> HIDE DEF g
<1>3. SumTo(n, g) = (SumTo(n, f) - f[j]) + g[j]
  BY <1>1, <1>2, SumToReplace
<1>4. SumTo(n, g) \in Nat /\ SumTo(n, f) \in Nat /\ f[j] \in Nat
  BY <1>1, SumToNat
<1> QED BY <1>1, <1>3, <1>4

-----------------------------------------------------------------------------
(* Sums over finite sets. *)

LEMMA EnumerationOf ==
    ASSUME NEW S, IsFiniteSet(S)
    PROVE  /\ Cardinality(S) \in Nat /\ Enumeration(S) \in [1..Cardinality(S) -> S]
           /\ \A i, j \in 1..Cardinality(S) : Enumeration(S)[i] = Enumeration(S)[j] => i = j
           /\ \A x \in S : \E i \in 1..Cardinality(S) : Enumeration(S)[i] = x
<1> DEFINE n == Cardinality(S)
<1>1. n \in Nat /\ ExistsBijection(1..n, S)
  BY FS_CardinalityType
<1>2. PICK e \in Bijection(1..n, S) : TRUE
  BY <1>1 DEF ExistsBijection
<1>3. e \in [1..n -> S] /\ (\A x \in S : \E i \in 1..n : e[i] = x)
  BY <1>2 DEF Bijection, Injection, Surjection
<1>4. \A i, j \in 1..n : e[i] = e[j] => i = j
  BY <1>2 DEF Bijection, Injection, IsInjective
<1>5. Enumeration(S) \in [1..n -> S] /\ Enumerates(Enumeration(S), S)
  BY <1>3, <1>4 DEF Enumeration, Enumerates
<1> QED BY <1>1, <1>5 DEF Enumerates

(* f over the members in the order of the enumeration. *)
Listed(S, f) == [k \in 1..Cardinality(S) |-> f[Enumeration(S)[k]]]

LEMMA SumOverType ==
    ASSUME NEW S, IsFiniteSet(S), NEW f, \A x \in S : f[x] \in Int
    PROVE  SumOver(S, f) \in Int
<1>1. Cardinality(S) \in Nat /\ Listed(S, f) \in [1..Cardinality(S) -> Int]
  BY EnumerationOf DEF Listed
<1> QED BY <1>1, SumToType DEF SumOver, Listed

LEMMA SumOverNat ==
    ASSUME NEW S, IsFiniteSet(S), NEW f, \A x \in S : f[x] \in Nat
    PROVE  SumOver(S, f) \in Nat
<1>1. Cardinality(S) \in Nat /\ Listed(S, f) \in [1..Cardinality(S) -> Nat]
  BY EnumerationOf DEF Listed
<1> QED BY <1>1, SumToNat DEF SumOver, Listed

LEMMA SumOverConstant ==
    ASSUME NEW S, IsFiniteSet(S), NEW c \in Int, NEW f, \A x \in S : f[x] = c
    PROVE  SumOver(S, f) = c * Cardinality(S)
<1>1. Cardinality(S) \in Nat /\ Listed(S, f) \in [1..Cardinality(S) -> Int]
      /\ \A k \in 1..Cardinality(S) : Listed(S, f)[k] = c
  BY EnumerationOf DEF Listed
<1> QED BY <1>1, SumToConstant DEF SumOver, Listed

LEMMA SumOverSame ==
    ASSUME NEW S, IsFiniteSet(S), NEW f, NEW g, \A x \in S : f[x] = g[x]
    PROVE  SumOver(S, f) = SumOver(S, g)
<1>1. Listed(S, f) = Listed(S, g)
  BY EnumerationOf DEF Listed
<1> QED BY <1>1 DEF SumOver, Listed

LEMMA SumOverReplace ==
    ASSUME NEW S, IsFiniteSet(S), NEW f, NEW g, \A x \in S : f[x] \in Int /\ g[x] \in Int,
           NEW y \in S, \A x \in S : x # y => g[x] = f[x]
    PROVE  SumOver(S, g) = (SumOver(S, f) - f[y]) + g[y]
<1> DEFINE n == Cardinality(S)
           e == Enumeration(S)
<1>1. /\ n \in Nat /\ e \in [1..n -> S]
      /\ (\A i, j \in 1..n : e[i] = e[j] => i = j) /\ \A x \in S : \E i \in 1..n : e[i] = x
  BY EnumerationOf
<1>2. PICK j \in 1..n : e[j] = y
  BY <1>1
<1>3. \A h : (\A x \in S : h[x] \in Int) => Listed(S, h) \in [1..n -> Int]
  BY <1>1 DEF Listed
<1>4. \A h : \A k \in 1..n : Listed(S, h)[k] = h[e[k]]
  BY DEF Listed
<1> HIDE DEF e
<1>5. \A k \in 1..n : k # j => e[k] \in S /\ e[k] # y
  BY <1>1, <1>2
<1>6. \A k \in 1..n : k # j => Listed(S, g)[k] = Listed(S, f)[k]
  BY <1>4, <1>5
<1>7. Listed(S, g)[j] = g[y] /\ Listed(S, f)[j] = f[y]
  BY <1>2, <1>4
<1> HIDE DEF n
<1>8. Listed(S, f) \in [1..n -> Int] /\ Listed(S, g) \in [1..n -> Int]
  BY <1>3
<1>9. SumTo(n, Listed(S, g)) = (SumTo(n, Listed(S, f)) - Listed(S, f)[j]) + Listed(S, g)[j]
  BY ZenonT(60), <1>1, <1>6, <1>8, SumToReplace
<1> QED BY <1>7, <1>9 DEF SumOver, Listed, n

(* A term of a sum of natural numbers is at most the sum. *)
LEMMA SumOverAbove ==
    ASSUME NEW S, IsFiniteSet(S), NEW f, \A x \in S : f[x] \in Nat, NEW y \in S
    PROVE  f[y] <= SumOver(S, f)
<1> DEFINE g == [x \in S |-> IF x = y THEN 0 ELSE f[x]]
<1>1. g[y] = 0 /\ (\A x \in S : x # y => g[x] = f[x]) /\ \A x \in S : g[x] \in Nat
  OBVIOUS
<1> HIDE DEF g
<1>2. SumOver(S, g) = (SumOver(S, f) - f[y]) + g[y]
  BY <1>1, SumOverReplace
<1>3. SumOver(S, g) \in Nat /\ SumOver(S, f) \in Nat /\ f[y] \in Nat
  BY <1>1, SumOverNat
<1> QED BY <1>1, <1>2, <1>3

-----------------------------------------------------------------------------
(* Extreme elements of bounded sets of integers. *)

LEMMA LeastOf ==
    ASSUME NEW S, S # {}, NEW lo \in Int, \A x \in S : x \in Int /\ lo <= x
    PROVE  Min(S) \in S /\ \A y \in S : Min(S) <= y
<1> DEFINE T == {k \in Nat : lo + k \in S}
<1>1. T # {}
  <2>1. PICK x \in S : TRUE
    OBVIOUS
  <2>2. x - lo \in Nat /\ lo + (x - lo) = x
    BY <2>1
  <2> QED BY <2>1, <2>2
<1>2. PICK k \in T : \A l \in T : k <= l
  BY <1>1, SmallestOf
<1>3. \A y \in S : lo + k <= y
  <2> SUFFICES ASSUME NEW y \in S PROVE lo + k <= y
    OBVIOUS
  <2>1. y \in Int /\ y - lo \in Nat /\ lo + (y - lo) = y
    OBVIOUS
  <2>2. k <= y - lo /\ k \in Nat
    BY <1>2, <2>1
  <2> QED BY <2>1, <2>2
<1>4. lo + k \in S
  BY <1>2
<1> QED BY <1>3, <1>4 DEF Min

LEMMA GreatestOf ==
    ASSUME NEW S, S # {}, NEW hi \in Int, \A x \in S : x \in Int /\ x <= hi
    PROVE  Max(S) \in S /\ \A y \in S : y <= Max(S)
<1> DEFINE T == {k \in Nat : hi - k \in S}
<1>1. T # {}
  <2>1. PICK x \in S : TRUE
    OBVIOUS
  <2>2. hi - x \in Nat /\ hi - (hi - x) = x
    BY <2>1
  <2> QED BY <2>1, <2>2
<1>2. PICK k \in T : \A l \in T : k <= l
  BY <1>1, SmallestOf
<1>3. \A y \in S : y <= hi - k
  <2> SUFFICES ASSUME NEW y \in S PROVE y <= hi - k
    OBVIOUS
  <2>1. y \in Int /\ hi - y \in Nat /\ hi - (hi - y) = y
    OBVIOUS
  <2>2. k <= hi - y /\ k \in Nat
    BY <1>2, <2>1
  <2> QED BY <2>1, <2>2
<1>4. hi - k \in S
  BY <1>2
<1>5. \A y \in S : hi - k >= y
  BY <1>3, <1>4
<1> QED BY <1>4, <1>5 DEF Max

LEMMA MaxOfPair == \A a, b \in Int : Max({a, b}) = IF a >= b THEN a ELSE b
BY DEF Max

LEMMA MinOfPair == \A a, b \in Int : Min({a, b}) = IF a <= b THEN a ELSE b
BY DEF Min

-----------------------------------------------------------------------------
(* Selections from a sequence. *)

(* r holds the elements of s at the positions of K up to n, in their       *)
(* order: at is where each comes from. *)
SelectedBy(at, r, s, K, n) ==
    /\ at \in [1..Len(r) -> (1..n) \cap K]
    /\ \A a, b \in 1..Len(r) : a < b => at[a] < at[b]
    /\ \A i \in (1..n) \cap K : \E a \in 1..Len(r) : at[a] = i
    /\ \A a \in 1..Len(r) : r[a] = s[at[a]]

LEMMA SelectedStep ==
    ASSUME NEW T, NEW s \in Seq(T), NEW K, NEW n \in 1..Len(s), NEW r \in Seq(T), NEW at, SelectedBy(at, r, s, K, n - 1)
    PROVE  \E new : SelectedBy(new, IF n \in K THEN Append(r, s[n]) ELSE r, s, K, n)
<1>1. CASE n \notin K
  <2>1. (1..n) \cap K = (1..(n - 1)) \cap K
    BY <1>1
  <2> QED BY <1>1, <2>1 DEF SelectedBy
<1>2. CASE n \in K
  <2> DEFINE m == Len(r)
             q == Append(r, s[n])
             new == [a \in 1..(m + 1) |-> IF a = m + 1 THEN n ELSE at[a]]
  <2>1. m \in Nat /\ n \in Nat /\ s[n] \in T
    OBVIOUS
  <2>2. Len(q) = m + 1 /\ q[m + 1] = s[n] /\ \A a \in 1..m : q[a] = r[a]
    BY <2>1
  <2>3. \A a \in 1..m : at[a] \in (1..(n - 1)) \cap K /\ at[a] \in Nat /\ at[a] < n
    BY DEF SelectedBy
  <2> HIDE DEF q
  <2>4. \A a \in 1..(m + 1) : a # m + 1 => a \in 1..m
    BY <2>1
  <2>5. new[m + 1] = n /\ \A a \in 1..m : new[a] = at[a]
    BY <2>1
  <2> HIDE DEF new, m
  <2>6. new \in [1..(m + 1) -> (1..n) \cap K]
    <3>1. \A a \in 1..(m + 1) : new[a] \in (1..n) \cap K
      <4> SUFFICES ASSUME NEW a \in 1..(m + 1) PROVE new[a] \in (1..n) \cap K
        OBVIOUS
      <4>1. CASE a = m + 1
        BY <1>2, <2>1, <2>5, <4>1
      <4>2. CASE a # m + 1
        <5>1. a \in 1..m /\ new[a] = at[a] /\ at[a] \in (1..(n - 1)) \cap K
          BY <2>3, <2>4, <2>5, <4>2
        <5> QED BY <2>1, <5>1
      <4> QED BY <4>1, <4>2
    <3> QED BY <3>1 DEF new
  <2>7. \A a, b \in 1..(m + 1) : a < b => new[a] < new[b]
    <3> SUFFICES ASSUME NEW a \in 1..(m + 1), NEW b \in 1..(m + 1), a < b PROVE new[a] < new[b]
      OBVIOUS
    <3>1. a \in 1..m /\ new[a] = at[a] /\ at[a] < n
      BY <2>1, <2>3, <2>5
    <3>2. CASE b = m + 1
      BY <2>5, <3>1, <3>2
    <3>3. CASE b # m + 1
      <4>1. b \in 1..m /\ new[b] = at[b]
        BY <2>4, <2>5, <3>3
      <4>2. \A c, d \in 1..m : c < d => at[c] < at[d]
        BY DEF SelectedBy, m
      <4> QED BY <3>1, <4>1, <4>2
    <3> QED BY <3>2, <3>3
  <2>8. \A i \in (1..n) \cap K : \E a \in 1..(m + 1) : new[a] = i
    <3> SUFFICES ASSUME NEW i \in (1..n) \cap K PROVE \E a \in 1..(m + 1) : new[a] = i
      OBVIOUS
    <3>1. CASE i = n
      <4>1. m + 1 \in 1..(m + 1)
        BY <2>1
      <4> QED BY <2>5, <3>1, <4>1
    <3>2. CASE i # n
      <4>1. i \in (1..(n - 1)) \cap K
        BY <2>1, <3>2
      <4>2. PICK a \in 1..m : at[a] = i
        BY <4>1 DEF SelectedBy, m
      <4>3. a \in 1..(m + 1)
        BY <2>1
      <4> QED BY <2>5, <4>2, <4>3
    <3> QED BY <3>1, <3>2
  <2>9. \A a \in 1..(m + 1) : q[a] = s[new[a]]
    <3> SUFFICES ASSUME NEW a \in 1..(m + 1) PROVE q[a] = s[new[a]]
      OBVIOUS
    <3>1. CASE a = m + 1
      BY <2>2, <2>5, <3>1
    <3>2. CASE a # m + 1
      <4>1. a \in 1..m
        BY <2>4, <3>2
      <4>2. r[a] = s[at[a]]
        BY <4>1 DEF SelectedBy, m
      <4> QED BY <2>2, <2>5, <4>1, <4>2
    <3> QED BY <3>1, <3>2
  <2>10. SelectedBy(new, q, s, K, n)
    BY <2>2, <2>6, <2>7, <2>8, <2>9 DEF SelectedBy
  <2> QED BY <1>2, <2>10 DEF q
<1> QED BY <1>1, <1>2

(* Selected is such a sequence. *)
LEMMA SelectedIs ==
    ASSUME NEW T, NEW s \in Seq(T), NEW K
    PROVE  /\ Selected(s, K) \in Seq(T)
           /\ \E at : SelectedBy(at, Selected(s, K), s, K, Len(s))
<1> DEFINE N == Len(s)
           W == Seq(T)
           g == [x \in (1..N) \X W |-> IF x[1] \in K THEN Append(x[2], s[x[1]]) ELSE x[2]]
           Keeps(f) == f = [k \in 0..N |-> IF k = 0 THEN <<>> ELSE IF k \in K THEN Append(f[k - 1], s[k]) ELSE f[k - 1]]
           kept == CHOOSE f : Keeps(f)
<1>1. N \in Nat /\ <<>> \in W /\ \A k \in 1..N : s[k] \in T
  OBVIOUS
<1>2. Selected(s, K) = kept[N]
  BY DEF Selected
<1>3. \A k \in 1..N, w \in W : g[<<k, w>>] = IF k \in K THEN Append(w, s[k]) ELSE w
  OBVIOUS
<1>4. g \in [(1..N) \X W -> W]
  <2>1. \A k \in 1..N, w \in W : (IF k \in K THEN Append(w, s[k]) ELSE w) \in W
    BY <1>1
  <2> QED BY <2>1
<1> HIDE DEF N, W, g, Keeps, kept
<1>5. PICK f \in [0..N -> W] : Iterated(f, N, <<>>, g)
  BY <1>1, <1>4, Iterates
<1>6. \A k \in 0..N : k # 0 => k \in 1..N /\ k - 1 \in 0..N
  BY <1>1
<1>7. \A k \in 0..N : f[k] = IF k = 0 THEN <<>> ELSE IF k \in K THEN Append(f[k - 1], s[k]) ELSE f[k - 1]
  BY <1>3, <1>5, <1>6 DEF Iterated
<1>8. Keeps(f)
  BY <1>7 DEF Keeps
<1>9. Keeps(kept)
  BY <1>8 DEF kept
<1>10. \A k \in 0..N : kept[k] = IF k = 0 THEN <<>> ELSE IF k \in K THEN Append(kept[k - 1], s[k]) ELSE kept[k - 1]
  BY <1>9 DEF Keeps
<1>11. \A k \in 0..N : kept[k] \in W /\ \E at : SelectedBy(at, kept[k], s, K, k)
  <2> DEFINE G == {k \in 0..N : kept[k] \in W /\ \E at : SelectedBy(at, kept[k], s, K, k)}
  <2>1. 0 \in G
    <3>1. kept[0] = <<>> /\ 0 \in 0..N
      BY <1>1, <1>10
    <3>2. SelectedBy(<<>>, <<>>, s, K, 0)
      BY DEF SelectedBy
    <3> QED BY <1>1, <3>1, <3>2
  <2>2. ASSUME NEW k \in 1..N, k - 1 \in G PROVE k \in G
    <3>1. k \in 0..N /\ k # 0
      BY <1>1
    <3>2. kept[k] = IF k \in K THEN Append(kept[k - 1], s[k]) ELSE kept[k - 1]
      BY <1>10, <3>1
    <3>3. PICK at : SelectedBy(at, kept[k - 1], s, K, k - 1)
      BY <2>2
    <3>4. kept[k - 1] \in Seq(T) /\ k \in 1..Len(s)
      BY <2>2 DEF W, N
    <3>5. \E new : SelectedBy(new, IF k \in K THEN Append(kept[k - 1], s[k]) ELSE kept[k - 1], s, K, k)
      BY <3>3, <3>4, SelectedStep
    <3>6. kept[k] \in W
      BY <1>1, <3>2, <3>4 DEF W
    <3> QED BY <3>1, <3>2, <3>5, <3>6
  <2> HIDE DEF G
  <2>3. 0..N \subseteq G
    BY <1>1, <2>1, <2>2, UpTo
  <2> QED BY <2>3 DEF G
<1>12. N \in 0..N
  BY <1>1
<1> QED BY <1>2, <1>11, <1>12 DEF W, N

(* f is the sequence of the selections from the first elements of s. *)
Keeping(f, s, K, n) ==
    /\ f[0] = <<>>
    /\ \A k \in 1..n : f[k] = IF k \in K THEN Append(f[k - 1], s[k]) ELSE f[k - 1]

LEMMA SelectedFrom ==
    ASSUME NEW T, NEW s \in Seq(T), NEW K
    PROVE  \E f : Keeping(f, s, K, Len(s)) /\ Selected(s, K) = f[Len(s)]
<1> DEFINE N == Len(s)
           W == Seq(T)
           g == [x \in (1..N) \X W |-> IF x[1] \in K THEN Append(x[2], s[x[1]]) ELSE x[2]]
           Keeps(f) == f = [k \in 0..N |-> IF k = 0 THEN <<>> ELSE IF k \in K THEN Append(f[k - 1], s[k]) ELSE f[k - 1]]
           kept == CHOOSE f : Keeps(f)
<1>1. N \in Nat /\ <<>> \in W /\ \A k \in 1..N : s[k] \in T
  OBVIOUS
<1>2. Selected(s, K) = kept[N]
  BY DEF Selected
<1>3. \A k \in 1..N, w \in W : g[<<k, w>>] = IF k \in K THEN Append(w, s[k]) ELSE w
  OBVIOUS
<1>4. g \in [(1..N) \X W -> W]
  <2>1. \A k \in 1..N, w \in W : (IF k \in K THEN Append(w, s[k]) ELSE w) \in W
    BY <1>1
  <2> QED BY <2>1
<1> HIDE DEF N, W, g, Keeps, kept
<1>5. PICK f \in [0..N -> W] : Iterated(f, N, <<>>, g)
  BY <1>1, <1>4, Iterates
<1>6. \A k \in 0..N : k # 0 => k \in 1..N /\ k - 1 \in 0..N
  BY <1>1
<1>7. \A k \in 0..N : f[k] = IF k = 0 THEN <<>> ELSE IF k \in K THEN Append(f[k - 1], s[k]) ELSE f[k - 1]
  BY <1>3, <1>5, <1>6 DEF Iterated
<1>8. Keeps(f)
  BY <1>7 DEF Keeps
<1>9. Keeps(kept)
  BY <1>8 DEF kept
<1>10. \A k \in 0..N : kept[k] = IF k = 0 THEN <<>> ELSE IF k \in K THEN Append(kept[k - 1], s[k]) ELSE kept[k - 1]
  BY <1>9 DEF Keeps
<1>11. 0 \in 0..N /\ \A k \in 1..N : k \in 0..N /\ k # 0
  BY <1>1
<1>12. Keeping(kept, s, K, N)
  BY <1>10, <1>11 DEF Keeping
<1> QED BY <1>2, <1>12 DEF N

(* What one more element adds to a selection. *)
LEMMA SelectedNext ==
    ASSUME NEW T, NEW s \in Seq(T), NEW x \in T, NEW K, NEW L,
           \A i \in 1..Len(s) : i \in K <=> i \in L
    PROVE  Selected(Append(s, x), L) = IF Len(s) + 1 \in L THEN Append(Selected(s, K), x) ELSE Selected(s, K)
<1> DEFINE n == Len(s)
           q == Append(s, x)
<1>1. n \in Nat /\ q \in Seq(T) /\ Len(q) = n + 1 /\ q[n + 1] = x /\ \A i \in 1..n : q[i] = s[i]
  OBVIOUS
<1>2. PICK f : Keeping(f, s, K, n) /\ Selected(s, K) = f[n]
  BY SelectedFrom
<1> HIDE DEF q
<1>3. PICK h : Keeping(h, q, L, Len(q)) /\ Selected(q, L) = h[Len(q)]
  BY <1>1, SelectedFrom
<1>4. \A i \in 1..n : i \in K <=> i \in L
  OBVIOUS
<1> HIDE DEF n
<1>5. Keeping(h, q, L, n + 1) /\ Selected(q, L) = h[n + 1]
  BY <1>1, <1>3
<1>6. \A k \in 0..n : f[k] = h[k]
  <2> DEFINE G == {k \in 0..n : f[k] = h[k]}
  <2>1. 0 \in G
    BY <1>1, <1>2, <1>5 DEF Keeping
  <2>2. ASSUME NEW k \in 1..n, k - 1 \in G PROVE k \in G
    <3>1. k \in 0..n /\ k \in 1..(n + 1) /\ f[k - 1] = h[k - 1] /\ q[k] = s[k] /\ (k \in K <=> k \in L)
      BY <1>1, <1>4, <2>2
    <3>2. f[k] = IF k \in K THEN Append(f[k - 1], s[k]) ELSE f[k - 1]
      BY <1>2 DEF Keeping
    <3>3. h[k] = IF k \in L THEN Append(h[k - 1], q[k]) ELSE h[k - 1]
      BY <1>5, <3>1 DEF Keeping
    <3> QED BY <3>1, <3>2, <3>3
  <2> HIDE DEF G
  <2>3. 0..n \subseteq G
    BY <1>1, <2>1, <2>2, UpTo
  <2> QED BY <2>3 DEF G
<1>7. n \in 0..n /\ n + 1 \in 1..(n + 1) /\ (n + 1) - 1 = n
  BY <1>1
<1>8. h[n + 1] = IF n + 1 \in L THEN Append(h[n], q[n + 1]) ELSE h[n]
  BY <1>5, <1>7 DEF Keeping
<1>9. Selected(q, L) = IF n + 1 \in L THEN Append(Selected(s, K), x) ELSE Selected(s, K)
  BY <1>1, <1>2, <1>5, <1>6, <1>7, <1>8
<1> QED BY <1>9 DEF q, n

LEMMA SelectedNone == \A K : Selected(<<>>, K) = <<>>
<1> SUFFICES ASSUME NEW K PROVE Selected(<<>>, K) = <<>>
  OBVIOUS
<1> DEFINE E == <<>>
<1>1. E \in Seq({}) /\ Len(E) = 0
  OBVIOUS
<1> HIDE DEF E
<1>2. PICK f : Keeping(f, E, K, Len(E)) /\ Selected(E, K) = f[Len(E)]
  BY <1>1, SelectedFrom
<1>3. Selected(E, K) = <<>>
  BY <1>1, <1>2 DEF Keeping
<1> QED BY <1>3 DEF E

(* r is the selection of K from s; at is where its elements come from. *)
Selection(at, r, s, K) ==
    /\ at \in [1..Len(r) -> 1..Len(s)]
    /\ \A a, b \in 1..Len(r) : a < b => at[a] < at[b]
    /\ \A a, b \in 1..Len(r) : at[a] = at[b] => a = b
    /\ \A a \in 1..Len(r) : at[a] \in K /\ r[a] = s[at[a]]
    /\ \A i \in 1..Len(s) : i \in K => \E a \in 1..Len(r) : at[a] = i

LEMMA SelectionIs ==
    ASSUME NEW T, NEW s \in Seq(T), NEW K
    PROVE  /\ Selected(s, K) \in Seq(T)
           /\ \E at : Selection(at, Selected(s, K), s, K)
<1> DEFINE r == Selected(s, K)
           n == Len(s)
           k == Len(r)
<1>1. r \in Seq(T)
  BY SelectedIs
<1>2. PICK at : SelectedBy(at, r, s, K, Len(s))
  BY SelectedIs
<1>3. k \in Nat /\ n \in Nat
  BY <1>1
<1> HIDE DEF r
<1>4. /\ at \in [1..k -> (1..n) \cap K]
      /\ \A a, b \in 1..k : a < b => at[a] < at[b]
      /\ \A i \in (1..n) \cap K : \E a \in 1..k : at[a] = i
      /\ \A a \in 1..k : r[a] = s[at[a]]
  BY <1>2 DEF SelectedBy
<1> HIDE DEF n, k
<1>5. at \in [1..k -> 1..n] /\ \A a \in 1..k : at[a] \in K /\ at[a] \in Int
  <2>1. \A a \in 1..k : at[a] \in (1..n) \cap K
    BY <1>4
  <2>2. \A a \in 1..k : at[a] \in 1..n /\ at[a] \in K
    BY <2>1
  <2>3. at \in [1..k -> 1..n]
    BY <1>4, <2>2
  <2> QED BY <1>3, <2>2, <2>3
<1>6. \A a, b \in 1..k : at[a] = at[b] => a = b
  <2> SUFFICES ASSUME NEW a \in 1..k, NEW b \in 1..k, at[a] = at[b], a # b PROVE FALSE
    OBVIOUS
  <2>1. a < b \/ b < a
    BY <1>3
  <2>2. at[a] < at[b] \/ at[b] < at[a]
    BY <1>4, <2>1
  <2> QED BY <1>5, <2>2
<1>7. \A i \in 1..n : i \in K => \E a \in 1..k : at[a] = i
  BY <1>4
<1>8. Selection(at, r, s, K)
  BY <1>4, <1>5, <1>6, <1>7 DEF Selection, n, k
<1> QED BY <1>1, <1>8 DEF r

-----------------------------------------------------------------------------
(* Sequences: their elements, their last one, one after another. *)

LEMMA ToSetEmpty == ToSet(<<>>) = {}
BY DEF ToSet

LEMMA ToSetAppend ==
    ASSUME NEW T, NEW s \in Seq(T), NEW x \in T
    PROVE  ToSet(Append(s, x)) = ToSet(s) \cup {x}
<1> DEFINE n == Len(s)
           q == Append(s, x)
<1>1. n \in Nat /\ DOMAIN s = 1..n /\ DOMAIN q = 1..(n + 1) /\ q[n + 1] = x /\ \A i \in 1..n : q[i] = s[i]
  OBVIOUS
<1> HIDE DEF q, n
<1>2. \A i \in 1..(n + 1) : i = n + 1 \/ i \in 1..n
  BY <1>1
<1>3. n + 1 \in 1..(n + 1) /\ \A i \in 1..n : i \in 1..(n + 1)
  BY <1>1
<1>4. \A y \in ToSet(q) : y \in ToSet(s) \cup {x}
  BY <1>1, <1>2 DEF ToSet
<1>5. \A y \in ToSet(s) \cup {x} : y \in ToSet(q)
  BY <1>1, <1>3 DEF ToSet
<1>6. ToSet(q) = ToSet(s) \cup {x}
  BY <1>4, <1>5
<1> QED BY <1>6 DEF q

LEMMA ToSetTail ==
    ASSUME NEW T, NEW s \in Seq(T), s # <<>>
    PROVE  /\ Head(s) \in T /\ Tail(s) \in Seq(T)
           /\ ToSet(s) = {Head(s)} \cup ToSet(Tail(s))
<1> DEFINE n == Len(s)
           t == Tail(s)
<1>1. n \in Nat /\ n >= 1 /\ DOMAIN s = 1..n /\ t \in Seq(T) /\ DOMAIN t = 1..(n - 1) /\ Head(s) = s[1]
      /\ (\A i \in 1..(n - 1) : t[i] = s[i + 1]) /\ Head(s) \in T
  OBVIOUS
<1> HIDE DEF t, n
<1>2. \A i \in 1..n : i = 1 \/ (i - 1 \in 1..(n - 1) /\ (i - 1) + 1 = i)
  BY <1>1
<1>3. 1 \in 1..n /\ \A i \in 1..(n - 1) : i + 1 \in 1..n
  BY <1>1
<1>4. \A y \in ToSet(s) : y \in {Head(s)} \cup ToSet(t)
  <2> SUFFICES ASSUME NEW i \in 1..n PROVE s[i] \in {Head(s)} \cup ToSet(t)
    BY <1>1 DEF ToSet
  <2>1. CASE i = 1
    BY <1>1, <2>1
  <2>2. CASE i # 1
    <3>1. i - 1 \in 1..(n - 1) /\ t[i - 1] = s[i]
      BY <1>1, <1>2, <2>2
    <3> QED BY <1>1, <3>1 DEF ToSet
  <2> QED BY <2>1, <2>2
<1>5. \A y \in {Head(s)} \cup ToSet(t) : y \in ToSet(s)
  <2>1. Head(s) \in ToSet(s)
    BY <1>1, <1>3 DEF ToSet
  <2>2. ASSUME NEW i \in 1..(n - 1) PROVE t[i] \in ToSet(s)
    <3>1. t[i] = s[i + 1] /\ i + 1 \in DOMAIN s
      BY <1>1, <1>3
    <3> QED BY <3>1 DEF ToSet
  <2>3. \A y \in ToSet(t) : y \in ToSet(s)
    BY <1>1, <2>2 DEF ToSet
  <2> QED BY <2>1, <2>3
<1> QED BY <1>1, <1>4, <1>5 DEF t

(* The last element of a sequence taken off or replaced. *)
LEMMA FrontIs ==
    ASSUME NEW T, NEW s \in Seq(T), s # <<>>
    PROVE  /\ Len(s) \in Nat /\ Len(s) >= 1 /\ Len(s) \in 1..Len(s) /\ Last(s) = s[Len(s)] /\ Last(s) \in T
           /\ Front(s) \in Seq(T) /\ Len(Front(s)) = Len(s) - 1
           /\ \A i \in 1..(Len(s) - 1) : Front(s)[i] = s[i]
<1>1. Len(s) \in Nat /\ Len(s) >= 1 /\ Len(s) \in 1..Len(s)
  OBVIOUS
<1>2. Last(s) = s[Len(s)] /\ Last(s) \in T
  BY <1>1 DEF Last
<1>3. Front(s) \in Seq(T) /\ Len(Front(s)) = Len(s) - 1 /\ \A i \in 1..(Len(s) - 1) : Front(s)[i] = s[i]
  BY <1>1 DEF Front
<1> QED BY <1>1, <1>2, <1>3

LEMMA ReplaceLast ==
    ASSUME NEW T, NEW s \in Seq(T), s # <<>>, NEW x \in T
    PROVE  LET r == Append(Front(s), x)
           IN  /\ r \in Seq(T) /\ Len(r) = Len(s) /\ r[Len(s)] = x
               /\ \A i \in 1..Len(s) : i # Len(s) => r[i] = s[i]
<1> DEFINE f == Front(s)
           n == Len(s)
           r == Append(f, x)
<1>1. n \in Nat /\ n >= 1 /\ f \in Seq(T) /\ Len(f) = n - 1 /\ \A i \in 1..(n - 1) : f[i] = s[i]
  BY FrontIs
<1> HIDE DEF f, n
<1>2. r \in Seq(T) /\ Len(r) = (n - 1) + 1 /\ r[(n - 1) + 1] = x /\ \A i \in 1..(n - 1) : r[i] = f[i]
  BY <1>1
<1>3. (n - 1) + 1 = n /\ \A i \in 1..n : i # n => i \in 1..(n - 1)
  BY <1>1
<1> HIDE DEF r
<1>4. r \in Seq(T) /\ Len(r) = n /\ r[n] = x /\ \A i \in 1..n : i # n => r[i] = s[i]
  BY <1>1, <1>2, <1>3
<1> QED BY <1>4 DEF r, f, n

(* One sequence after another. *)
LEMMA JoinedIs ==
    ASSUME NEW T, NEW p \in Seq(T), NEW q \in Seq(T)
    PROVE  /\ p \o q \in Seq(T) /\ Len(p \o q) = Len(p) + Len(q)
           /\ \A a \in 1..Len(p) : (p \o q)[a] = p[a]
           /\ \A a \in 1..Len(q) : (p \o q)[Len(p) + a] = q[a]
<1>1. p \o q \in Seq(T) /\ Len(p \o q) = Len(p) + Len(q)
  OBVIOUS
<1>2. \A a \in 1..Len(p) : (p \o q)[a] = p[a]
  OBVIOUS
<1>3. \A a \in 1..Len(q) : (p \o q)[Len(p) + a] = q[a]
  OBVIOUS
<1> QED BY <1>1, <1>2, <1>3

-----------------------------------------------------------------------------
(* Sequences joined. *)

(* s is the sequence of what is joined so far. *)
Joining(s, n, g) == s[0] = <<>> /\ \A k \in 1..n : s[k] = s[k - 1] \o g[k]

LEMMA ConcatFrom ==
    ASSUME NEW T, NEW n \in Nat, NEW g, \A k \in 1..n : g[k] \in Seq(T)
    PROVE  \E s \in [0..n -> Seq(T)] : Joining(s, n, g) /\ Concat(n, g) = s[n]
<1> DEFINE W == Seq(T)
           step == [x \in (1..n) \X W |-> x[2] \o g[x[1]]]
           Joins(f) == f = [k \in 0..n |-> IF k = 0 THEN <<>> ELSE f[k - 1] \o g[k]]
           joined == CHOOSE f : Joins(f)
<1>1. <<>> \in W
  OBVIOUS
<1>2. Concat(n, g) = joined[n]
  BY DEF Concat
<1>3. \A k \in 1..n, w \in W : step[<<k, w>>] = w \o g[k]
  OBVIOUS
<1>4. step \in [(1..n) \X W -> W]
  <2>1. \A k \in 1..n, w \in W : w \o g[k] \in W
    OBVIOUS
  <2> QED BY <2>1
<1> HIDE DEF W, step, Joins, joined
<1>5. PICK f \in [0..n -> W] : Iterated(f, n, <<>>, step)
  BY <1>1, <1>4, Iterates
<1>6. \A k \in 0..n : k # 0 => k \in 1..n /\ k - 1 \in 0..n
  OBVIOUS
<1>7. \A k \in 0..n : f[k] = IF k = 0 THEN <<>> ELSE f[k - 1] \o g[k]
  BY <1>3, <1>5, <1>6 DEF Iterated
<1>8. Joins(f)
  BY <1>7 DEF Joins
<1>9. Joins(joined)
  BY <1>8 DEF joined
<1>10. \A k \in 0..n : joined[k] = IF k = 0 THEN <<>> ELSE joined[k - 1] \o g[k]
  BY <1>9 DEF Joins
<1>11. joined = [k \in 0..n |-> joined[k]]
  BY <1>9 DEF Joins
<1>12. \A k \in 0..n : joined[k] \in W
  <2> DEFINE G == {k \in 0..n : joined[k] \in W}
  <2>1. 0 \in G
    BY <1>1, <1>10
  <2>2. ASSUME NEW k \in 1..n, k - 1 \in G PROVE k \in G
    <3>1. k \in 0..n /\ k # 0 /\ joined[k - 1] \in Seq(T) /\ g[k] \in Seq(T)
      BY <2>2 DEF W
    <3>2. joined[k] = joined[k - 1] \o g[k]
      BY <1>10, <3>1
    <3>3. \A p, q \in Seq(T) : p \o q \in Seq(T)
      OBVIOUS
    <3> QED BY <3>1, <3>2, <3>3 DEF W
  <2> HIDE DEF G
  <2>3. 0..n \subseteq G
    BY <2>1, <2>2, UpTo
  <2> QED BY <2>3 DEF G
<1>13. joined \in [0..n -> W]
  BY <1>11, <1>12
<1>14. 0 \in 0..n /\ \A k \in 1..n : k \in 0..n /\ k # 0
  OBVIOUS
<1>15. Joining(joined, n, g)
  BY <1>10, <1>14 DEF Joining
<1> QED BY <1>2, <1>13, <1>15 DEF W

LEMMA ConcatBy ==
    ASSUME NEW T, NEW n \in Nat, NEW g, \A k \in 1..n : g[k] \in Seq(T), NEW s, Joining(s, n, g)
    PROVE  Concat(n, g) = s[n]
<1>1. PICK f \in [0..n -> Seq(T)] : Joining(f, n, g) /\ Concat(n, g) = f[n]
  BY ConcatFrom
<1> DEFINE G == {k \in 0..n : f[k] = s[k]}
<1>2. 0 \in G
  BY <1>1 DEF Joining
<1>3. ASSUME NEW k \in 1..n, k - 1 \in G PROVE k \in G
  <2>1. k \in 0..n /\ f[k - 1] = s[k - 1]
    BY <1>3
  <2>2. f[k] = f[k - 1] \o g[k] /\ s[k] = s[k - 1] \o g[k]
    BY <1>1 DEF Joining
  <2> QED BY <2>1, <2>2
<1> HIDE DEF G
<1>4. 0..n \subseteq G
  BY <1>2, <1>3, UpTo
<1>5. n \in G
  BY <1>4
<1> QED BY <1>1, <1>5 DEF G

LEMMA ConcatType ==
    ASSUME NEW T, NEW n \in Nat, NEW g, \A k \in 1..n : g[k] \in Seq(T)
    PROVE  Concat(n, g) \in Seq(T)
<1>1. PICK f \in [0..n -> Seq(T)] : Joining(f, n, g) /\ Concat(n, g) = f[n]
  BY ConcatFrom
<1>2. n \in 0..n
  OBVIOUS
<1> QED BY <1>1, <1>2

LEMMA ConcatNone == ASSUME NEW g PROVE Concat(0, g) = <<>>
<1>1. \A k \in 1..0 : g[k] \in Seq({})
  OBVIOUS
<1>2. PICK f \in [0..0 -> Seq({})] : Joining(f, 0, g) /\ Concat(0, g) = f[0]
  BY <1>1, ConcatFrom
<1> QED BY <1>2 DEF Joining

LEMMA ConcatNext ==
    ASSUME NEW T, NEW n \in Nat, NEW g, \A k \in 1..(n + 1) : g[k] \in Seq(T)
    PROVE  Concat(n + 1, g) = Concat(n, g) \o g[n + 1]
<1> DEFINE m == n + 1
<1>1. m \in Nat /\ n + 1 \in 1..m /\ (n + 1) - 1 = n /\ \A k \in 1..n : k \in 1..m
  OBVIOUS
<1>2. \A k \in 1..m : g[k] \in Seq(T)
  OBVIOUS
<1> HIDE DEF m
<1>3. PICK f \in [0..m -> Seq(T)] : Joining(f, m, g) /\ Concat(m, g) = f[m]
  BY <1>1, <1>2, ConcatFrom
<1>4. Joining(f, n, g) /\ \A k \in 1..n : g[k] \in Seq(T)
  BY <1>1, <1>2, <1>3 DEF Joining
<1>5. Concat(n, g) = f[n]
  BY <1>4, ConcatBy
<1>6. f[n + 1] = f[n] \o g[n + 1]
  BY <1>1, <1>3 DEF Joining
<1> QED BY <1>3, <1>5, <1>6 DEF m

(* The last of several replaced, and what is before it. *)
LEMMA ConcatLast ==
    ASSUME NEW T, NEW n \in Nat, n >= 1, NEW g, \A k \in 1..n : g[k] \in Seq(T)
    PROVE  Concat(n, g) = Concat(n - 1, g) \o g[n]
<1>1. n - 1 \in Nat /\ (n - 1) + 1 = n
  OBVIOUS
<1>2. Concat((n - 1) + 1, g) = Concat(n - 1, g) \o g[(n - 1) + 1]
  <2>1. \A k \in 1..((n - 1) + 1) : g[k] \in Seq(T)
    BY <1>1
  <2> QED BY <1>1, <2>1, ConcatNext
<1> QED BY <1>1, <1>2

LEMMA JoinAssociative ==
    ASSUME NEW T, NEW p \in Seq(T), NEW q \in Seq(T), NEW r \in Seq(T)
    PROVE  (p \o q) \o r = p \o (q \o r)
OBVIOUS

LEMMA JoinEmpty == ASSUME NEW T, NEW p \in Seq(T) PROVE p \o <<>> = p /\ <<>> \o p = p
OBVIOUS

LEMMA JoinOne == ASSUME NEW T, NEW p \in Seq(T), NEW x \in T PROVE p \o <<x>> = Append(p, x)
OBVIOUS

LEMMA ToSetJoin ==
    ASSUME NEW T, NEW p \in Seq(T), NEW q \in Seq(T)
    PROVE  ToSet(p \o q) = ToSet(p) \cup ToSet(q)
<1> DEFINE n == Len(p)
           m == Len(q)
           r == p \o q
<1>1. /\ n \in Nat /\ m \in Nat /\ DOMAIN p = 1..n /\ DOMAIN q = 1..m
      /\ r \in Seq(T) /\ Len(r) = n + m
      /\ \A a \in 1..n : r[a] = p[a]
      /\ \A a \in 1..m : r[n + a] = q[a]
  BY JoinedIs
<1>2. DOMAIN r = 1..(n + m)
  BY <1>1
<1> HIDE DEF r, n, m
<1>3. ASSUME NEW i \in 1..(n + m) PROVE r[i] \in ToSet(p) \cup ToSet(q)
  <2>1. CASE i <= n
    <3>1. i \in 1..n
      BY <1>1, <2>1
    <3> QED BY <1>1, <3>1 DEF ToSet
  <2>2. CASE ~(i <= n)
    <3>1. i - n \in 1..m /\ n + (i - n) = i
      BY <1>1, <2>2
    <3>2. r[i] = q[i - n]
      BY <1>1, <3>1
    <3> QED BY <1>1, <3>1, <3>2 DEF ToSet
  <2> QED BY <2>1, <2>2
<1>4. ASSUME NEW i \in 1..n PROVE p[i] \in ToSet(r)
  <2>1. i \in 1..(n + m) /\ r[i] = p[i]
    BY <1>1
  <2> QED BY <1>2, <2>1 DEF ToSet
<1>5. ASSUME NEW i \in 1..m PROVE q[i] \in ToSet(r)
  <2>1. n + i \in 1..(n + m) /\ r[n + i] = q[i]
    BY <1>1
  <2> QED BY <1>2, <2>1 DEF ToSet
<1>6. ToSet(r) \subseteq ToSet(p) \cup ToSet(q)
  BY <1>2, <1>3 DEF ToSet
<1>7. ToSet(p) \subseteq ToSet(r) /\ ToSet(q) \subseteq ToSet(r)
  BY <1>1, <1>4, <1>5 DEF ToSet
<1> QED BY <1>6, <1>7 DEF r

(* All of them are sequences over T; two families agree up to n. *)
Joinable(T, n, g) == \A k \in 1..n : g[k] \in Seq(T)
Alike(n, g, h) == \A k \in 1..n : g[k] = h[k]

(* The last of them is longer by x, the others are the same. *)
Longer(m, g, h, x) == Alike(m - 1, g, h) /\ h[m] = g[m] \o x

LEMMA ConcatAlike ==
    ASSUME NEW T, NEW n \in Nat, NEW g, NEW h, Joinable(T, n, g), Alike(n, g, h)
    PROVE  Concat(n, g) = Concat(n, h)
<1>1. \A k \in 1..n : g[k] \in Seq(T) /\ h[k] \in Seq(T) /\ g[k] = h[k]
  BY DEF Joinable, Alike
<1>2. PICK f \in [0..n -> Seq(T)] : Joining(f, n, g) /\ Concat(n, g) = f[n]
  BY <1>1, ConcatFrom
<1>3. Joining(f, n, h)
  BY <1>1, <1>2 DEF Joining
<1>4. \A k \in 1..n : h[k] \in Seq(T)
  BY <1>1
<1> QED BY <1>2, <1>3, <1>4, ConcatBy

LEMMA ConcatGrown ==
    ASSUME NEW T, NEW m \in Nat, m >= 1, NEW g, NEW h, NEW x \in Seq(T),
           Joinable(T, m, g), Joinable(T, m, h), Longer(m, g, h, x)
    PROVE  Concat(m, h) = Concat(m, g) \o x
<1>1. m - 1 \in Nat /\ (\A k \in 1..(m - 1) : k \in 1..m) /\ m \in 1..m
  OBVIOUS
<1>2. \A k \in 1..m : g[k] \in Seq(T) /\ h[k] \in Seq(T)
  BY DEF Joinable
<1>3. Concat(m, h) = Concat(m - 1, h) \o h[m]
  BY <1>2, ConcatLast
<1>4. Concat(m, g) = Concat(m - 1, g) \o g[m]
  BY <1>2, ConcatLast
<1>5. Joinable(T, m - 1, g)
  BY <1>1, <1>2 DEF Joinable
<1>6. Concat(m - 1, g) = Concat(m - 1, h)
  BY <1>1, <1>5, ConcatAlike DEF Longer
<1>7. Concat(m - 1, g) \in Seq(T)
  BY <1>1, <1>5, ConcatType, SMTT(30) DEF Joinable
<1> DEFINE p == Concat(m - 1, g)
           q == g[m]
<1>8. p \in Seq(T) /\ q \in Seq(T)
  BY <1>1, <1>2, <1>7
<1> HIDE DEF p, q
<1>9. (p \o q) \o x = p \o (q \o x)
  BY <1>8
<1> QED BY <1>3, <1>4, <1>6, <1>9 DEF p, q, Longer

LEMMA FrontLast == ASSUME NEW T, NEW s \in Seq(T), s # <<>> PROVE s = Append(Front(s), Last(s))
<1> DEFINE n == Len(s)
           r == Append(Front(s), Last(s))
<1>1. s[n] \in T /\ Last(s) = s[n] /\ n \in Nat
  BY FrontIs
<1>2. Last(s) \in T
  BY <1>1
<1>3. r \in Seq(T) /\ Len(r) = n /\ r[n] = Last(s) /\ \A i \in 1..n : i # n => r[i] = s[i]
  BY <1>2, ReplaceLast
<1> HIDE DEF r
<1>4. \A i \in 1..n : r[i] = s[i]
  BY <1>1, <1>3
<1>5. r = s
  BY <1>3, <1>4
<1> QED BY <1>5 DEF r

(* A longer last part makes the whole longer by as much. *)
NextJoined(a, b, c, x) == a \o (b \o (c \o <<x>>)) = Append(a \o (b \o c), x)

Associates(p, q, r) == (p \o q) \o r = p \o (q \o r)

LEMMA JoinAssociates ==
    ASSUME NEW T, NEW p \in Seq(T), NEW q \in Seq(T), NEW r \in Seq(T)
    PROVE  Associates(p, q, r)
<1>1. (p \o q) \o r = p \o (q \o r)
  OBVIOUS
<1> QED BY <1>1 DEF Associates

LEMMA JoinNext ==
    ASSUME NEW T, NEW a \in Seq(T), NEW b \in Seq(T), NEW c \in Seq(T), NEW x \in T
    PROVE  NextJoined(a, b, c, x)
<1> DEFINE w == <<x>>
           bc == b \o c
           abc == a \o bc
<1>1. w \in Seq(T)
  OBVIOUS
<1>2. bc \in Seq(T)
  BY JoinedIs
<1>3. abc \in Seq(T)
  BY <1>2, JoinedIs
<1>4. abc \o w = Append(abc, x)
  <2> HIDE DEF abc
  <2> QED BY <1>3
<1> HIDE DEF w
<1>5. Associates(b, c, w)
  BY <1>1, JoinAssociates
<1>6. Associates(a, bc, w)
  <2> HIDE DEF bc
  <2> QED BY <1>1, <1>2, JoinAssociates
<1> QED BY <1>4, <1>5, <1>6 DEF NextJoined, Associates, w

=============================================================================
