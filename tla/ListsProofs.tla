---------------------------- MODULE ListsProofs ----------------------------
(***************************************************************************)
(* What Keep returns, and sums over a finite set.  Induction is by the     *)
(* least number of a set, which needs no predicate as a parameter.         *)
(***************************************************************************)
EXTENDS Lists, Integers, Functions, FiniteSetsExt, FiniteSetTheorems,
        WellFoundedInduction, TLAPS

(* A non-empty set of natural numbers has a least member. *)
LEMMA LeastNumber ==
    ASSUME NEW T \in SUBSET Nat, T # {}
    PROVE  \E x \in T : \A y \in T : x <= y
<1> DEFINE R == OpToRel(<, Nat)
<1>1. IsWellFoundedOn(R, Nat)
  BY NatLessThanWellFounded
<1>2. \A a, b \in Nat : a < b => <<a, b>> \in R
  BY DEF OpToRel
<1> HIDE DEF R
<1>3. PICK x \in T : \A y \in T : ~(<<y, x>> \in R)
  BY <1>1, WFMin
<1>4. \A y \in T : ~(y < x)
  BY <1>2, <1>3
<1> QED BY <1>3, <1>4

(* Induction over the natural numbers, with a set for the predicate. *)
LEMMA SetInduction ==
    ASSUME NEW S \in SUBSET Nat, 0 \in S, \A n \in S : n + 1 \in S
    PROVE  S = Nat
<1> SUFFICES ASSUME Nat \ S # {} PROVE FALSE
  OBVIOUS
<1>1. PICK x \in Nat \ S : \A y \in Nat \ S : x <= y
  BY LeastNumber
<1>2. x # 0 /\ x - 1 \in Nat /\ x - 1 \in S
  BY <1>1
<1> QED BY <1>1, <1>2

(* Induction up to n *)
LEMMA UpTo ==
    ASSUME NEW n \in Nat, NEW T \in SUBSET (0..n), 0 \in T, \A k \in T : k < n => k + 1 \in T
    PROVE  n \in T
<1> DEFINE U == {k \in Nat : k <= n => k \in T}
<1>1. ASSUME NEW k \in U PROVE k + 1 \in U
  <2>1. CASE k + 1 <= n
    <3>1. k \in T /\ k < n
      BY <2>1
    <3> QED BY <3>1
  <2>2. CASE ~(k + 1 <= n)
    BY <2>2
  <2> QED BY <2>1, <2>2
<1>2. U \in SUBSET Nat /\ 0 \in U
  OBVIOUS
<1> HIDE DEF U
<1>3. U = Nat
  BY <1>1, <1>2, SetInduction
<1> QED BY <1>3 DEF U

-----------------------------------------------------------------------------
(* The recursion equation of Keep *)

KeptNext(g, q, S, n) ==
    IF n = 0 THEN <<>>
    ELSE IF q[n] \in S THEN Append(g[n - 1], q[n]) ELSE g[n - 1]

IsKept(g, q, S, m) == g = [n \in 0..m |-> KeptNext(g, q, S, n)]

(* A function that satisfies it exists for every length. *)
LEMMA KeptExists ==
    ASSUME NEW q, NEW S, NEW m \in Nat
    PROVE  \E g : IsKept(g, q, S, m)
<1> DEFINE T == {n \in Nat : \E g : IsKept(g, q, S, n)}
<1>1. 0 \in T
  <2> DEFINE g == [n \in 0..0 |-> <<>>]
  <2>1. IsKept(g, q, S, 0)
    BY DEF IsKept, KeptNext
  <2> QED BY <2>1
<1>2. ASSUME NEW n \in T PROVE n + 1 \in T
  <2>1. PICK g : IsKept(g, q, S, n)
    OBVIOUS
  <2> DEFINE h == [k \in 0..(n + 1) |-> IF k = n + 1 THEN KeptNext(g, q, S, k) ELSE g[k]]
  <2>2. \A k \in 0..n : g[k] = KeptNext(g, q, S, k)
    BY <2>1 DEF IsKept
  <2>3. \A k \in 0..n : h[k] = g[k]
    OBVIOUS
  <2>4. \A k \in 0..(n + 1) : h[k] = KeptNext(h, q, S, k)
    <3> TAKE k \in 0..(n + 1)
    <3>1. CASE k = n + 1
      <4>1. k - 1 \in 0..n /\ k # 0
        BY <3>1
      <4> QED BY <3>1, <4>1, <2>3 DEF KeptNext
    <3>2. CASE k # n + 1
      <4>1. k \in 0..n /\ (k # 0 => k - 1 \in 0..n)
        BY <3>2
      <4> QED BY <4>1, <2>2, <2>3 DEF KeptNext
    <3> QED BY <3>1, <3>2
  <2>5. h = [k \in 0..(n + 1) |-> h[k]]
    OBVIOUS
  <2> HIDE DEF h
  <2>6. IsKept(h, q, S, n + 1)
    BY <2>4, <2>5 DEF IsKept
  <2> QED BY <2>6
<1> HIDE DEF T
<1>3. T = Nat
  <2>1. T \subseteq Nat
    BY DEF T
  <2> QED BY <1>1, <1>2, <2>1, SetInduction
<1> QED BY <1>3 DEF T

(* Keep is the last value of such a function. *)
LEMMA KeepDef ==
    ASSUME NEW q, NEW S, Len(q) \in Nat
    PROVE  \E g : /\ \A n \in 0..Len(q) : g[n] = KeptNext(g, q, S, n)
                  /\ Keep(q, S) = g[Len(q)]
<1> DEFINE g == CHOOSE g : IsKept(g, q, S, Len(q))
<1>1. IsKept(g, q, S, Len(q))
  BY KeptExists
<1>2. Keep(q, S) = g[Len(q)]
  BY DEF Keep, IsKept, KeptNext
<1> HIDE DEF g
<1>3. \A n \in 0..Len(q) : g[n] = KeptNext(g, q, S, n)
  BY <1>1 DEF IsKept
<1> QED BY <1>2, <1>3

-----------------------------------------------------------------------------

(* k lists the members of the first n places of q that are in S: at[i] is the
   place of k[i] *)
Picks(k, q, S, n, at) ==
    /\ at \in [1..Len(k) -> 1..n]
    /\ \A i \in 1..Len(k) : k[i] = q[at[i]] /\ k[i] \in S
    /\ \A i, j \in 1..Len(k) : i < j => at[i] < at[j]
    /\ \A m \in 1..n : q[m] \in S => \E i \in 1..Len(k) : at[i] = m

(* Keep picks every member that is in S, once for each place, in order. *)
LEMMA KeepPicks ==
    ASSUME NEW A, NEW q \in Seq(A), NEW S
    PROVE  /\ Keep(q, S) \in Seq(A)
           /\ \E at : Picks(Keep(q, S), q, S, Len(q), at)
<1>1. PICK g : /\ \A n \in 0..Len(q) : g[n] = KeptNext(g, q, S, n)
               /\ Keep(q, S) = g[Len(q)]
  BY KeepDef
<1> DEFINE Good(n) == g[n] \in Seq(A) /\ \E at : Picks(g[n], q, S, n, at)
<1> DEFINE T == {n \in Nat : n <= Len(q) => Good(n)}
<1>2. 0 \in T
  <2>1. g[0] = <<>>
    BY <1>1 DEF KeptNext
  <2> DEFINE at == [i \in 1..0 |-> 0]
  <2>2. Picks(g[0], q, S, 0, at)
    BY <2>1 DEF Picks
  <2> HIDE DEF at
  <2>3. Good(0)
    BY <2>1, <2>2
  <2> QED BY <2>3
<1>3. ASSUME NEW n \in T PROVE n + 1 \in T
  <2> SUFFICES ASSUME n + 1 <= Len(q) PROVE Good(n + 1)
    OBVIOUS
  <2>1. n \in Nat /\ g[n] \in Seq(A)
    OBVIOUS
  <2>2. PICK at : Picks(g[n], q, S, n, at)
    OBVIOUS
  <2>3. g[n + 1] = IF q[n + 1] \in S THEN Append(g[n], q[n + 1]) ELSE g[n]
    BY <1>1, <2>1 DEF KeptNext
  <2>4. q[n + 1] \in A
    BY <2>1
  <2>5. CASE q[n + 1] \notin S
    <3>1. Picks(g[n + 1], q, S, n + 1, at)
      BY <2>1, <2>2, <2>3, <2>5 DEF Picks
    <3> QED BY <2>1, <2>3, <2>5, <3>1
  <2>6. CASE q[n + 1] \in S
    <3> DEFINE l == Len(g[n])
    <3> DEFINE at2 == [i \in 1..(l + 1) |-> IF i = l + 1 THEN n + 1 ELSE at[i]]
    <3>1. /\ g[n + 1] \in Seq(A) /\ Len(g[n + 1]) = l + 1 /\ l \in Nat
          /\ \A i \in 1..l : g[n + 1][i] = g[n][i]
          /\ g[n + 1][l + 1] = q[n + 1]
      BY <2>1, <2>3, <2>4, <2>6
    <3>2. at2 \in [1..(l + 1) -> 1..(n + 1)]
      BY <2>1, <2>2, <3>1 DEF Picks
    <3>7. l + 1 \in 1..(l + 1) /\ at2[l + 1] = n + 1
      BY <3>1
    <3>8. \A i \in 1..l : i \in 1..(l + 1) /\ at2[i] = at[i] /\ at[i] \in 1..n
      <4>1. at \in [1..l -> 1..n]
        BY <2>2 DEF Picks
      <4>2. \A i \in 1..l : i \in 1..(l + 1) /\ i # l + 1
        BY <3>1
      <4> QED BY <4>1, <4>2
    <3>9. \A i \in 1..(l + 1) : i \in 1..l \/ i = l + 1
      BY <3>1
    <3> HIDE DEF at2, T
    <3>3. \A i \in 1..(l + 1) : g[n + 1][i] = q[at2[i]] /\ g[n + 1][i] \in S
      <4> TAKE i \in 1..(l + 1)
      <4>1. CASE i = l + 1
        BY <2>6, <3>1, <3>7, <4>1
      <4>2. CASE i \in 1..l
        BY <2>2, <3>1, <3>8, <4>2 DEF Picks
      <4> QED BY <3>9, <4>1, <4>2
    <3>4. \A i, j \in 1..(l + 1) : i < j => at2[i] < at2[j]
      <4> TAKE i, j \in 1..(l + 1)
      <4> HAVE i < j
      <4>1. CASE j = l + 1
        BY <2>1, <3>1, <3>7, <3>8, <3>9, <4>1
      <4>2. CASE j \in 1..l
        <5>1. i \in 1..l
          BY <3>1, <4>2
        <5> QED BY <2>2, <3>8, <4>2, <5>1 DEF Picks
      <4> QED BY <3>9, <4>1, <4>2
    <3>5. \A m \in 1..(n + 1) : q[m] \in S => \E i \in 1..(l + 1) : at2[i] = m
      <4> TAKE m \in 1..(n + 1)
      <4>1. CASE m = n + 1
        BY <3>7, <4>1
      <4>2. CASE m # n + 1 /\ q[m] \in S
        <5>1. m \in 1..n
          BY <2>1, <4>2
        <5>2. PICK i \in 1..l : at[i] = m
          BY <2>2, <4>2, <5>1 DEF Picks
        <5>3. i \in 1..(l + 1) /\ at2[i] = m
          BY <3>8, <5>2
        <5> QED BY <5>3
      <4> QED BY <4>1, <4>2
    <3>6. Picks(g[n + 1], q, S, n + 1, at2)
      BY <3>1, <3>2, <3>3, <3>4, <3>5 DEF Picks
    <3> QED BY <3>1, <3>6
  <2> QED BY <2>5, <2>6
<1>4. T = Nat
  <2>1. T \subseteq Nat
    OBVIOUS
  <2> HIDE DEF T
  <2> QED BY <1>2, <1>3, <2>1, SetInduction
<1>5. Good(Len(q))
  BY <1>4
<1> QED BY <1>1, <1>5

(* The members of Keep(q, S) are those of q in S. *)
LEMMA KeepRange ==
    ASSUME NEW A, NEW q \in Seq(A), NEW S
    PROVE  /\ Keep(q, S) \in Seq(A)
           /\ Range(Keep(q, S)) = Range(q) \cap S
<1> DEFINE k == Keep(q, S)
<1>1. k \in Seq(A) /\ \E at : Picks(k, q, S, Len(q), at)
  BY KeepPicks
<1> HIDE DEF k
<1>2. PICK at : Picks(k, q, S, Len(q), at)
  BY <1>1
<1>3. ASSUME NEW x \in Range(k) PROVE x \in Range(q) \cap S
  <2>1. PICK i \in 1..Len(k) : x = k[i]
    BY <1>1 DEF Range
  <2> QED BY <1>2, <2>1 DEF Picks, Range
<1>4. ASSUME NEW x \in Range(q) \cap S PROVE x \in Range(k)
  <2>1. PICK m \in 1..Len(q) : x = q[m]
    BY DEF Range
  <2>2. PICK i \in 1..Len(k) : at[i] = m
    BY <1>2, <2>1 DEF Picks
  <2> QED BY <1>1, <1>2, <2>1, <2>2 DEF Picks, Range
<1>5. Range(k) = Range(q) \cap S
  BY <1>3, <1>4
<1> QED BY <1>1, <1>5 DEF k

(* Keep repeats nothing that q does not repeat. *)
LEMMA KeepInjective ==
    ASSUME NEW A, NEW q \in Seq(A), NEW S, IsInjective(q)
    PROVE  IsInjective(Keep(q, S))
<1> DEFINE k == Keep(q, S)
<1>1. k \in Seq(A) /\ \E at : Picks(k, q, S, Len(q), at)
  BY KeepPicks
<1> HIDE DEF k
<1>2. PICK at : Picks(k, q, S, Len(q), at)
  BY <1>1
<1>3. \A i, j \in 1..Len(k) : k[i] = k[j] => i = j
  <2> TAKE i, j \in 1..Len(k)
  <2> HAVE k[i] = k[j]
  <2>1. q[at[i]] = q[at[j]] /\ at[i] \in 1..Len(q) /\ at[j] \in 1..Len(q)
    BY <1>2 DEF Picks
  <2>2. at[i] = at[j]
    BY <2>1 DEF IsInjective
  <2> QED BY <1>2, <2>1, <2>2 DEF Picks
<1> QED BY <1>1, <1>3 DEF IsInjective, k

(* A list that holds members of S in its first n places and nowhere else. *)
LEMMA KeepPrefix ==
    ASSUME NEW A, NEW q \in Seq(A), NEW S, NEW n \in 0..Len(q),
           \A k \in 1..Len(q) : q[k] \in S <=> k <= n
    PROVE  Len(Keep(q, S)) = n /\ \A k \in 1..n : Keep(q, S)[k] = q[k]
<1> DEFINE k == Keep(q, S)
<1>1. k \in Seq(A) /\ \E at : Picks(k, q, S, Len(q), at)
  BY KeepPicks
<1> HIDE DEF k
<1>2. PICK at : Picks(k, q, S, Len(q), at)
  BY <1>1
<1>3. /\ Len(k) \in Nat /\ Len(q) \in Nat /\ n \in Nat
      /\ \A i \in 1..Len(k) : at[i] \in Nat /\ at[i] >= 1 /\ at[i] <= n
  <2>1. Len(k) \in Nat /\ Len(q) \in Nat /\ n \in Nat
    BY <1>1
  <2>2. ASSUME NEW i \in 1..Len(k) PROVE at[i] \in 1..Len(q) /\ q[at[i]] \in S
    BY <1>2 DEF Picks
  <2>3. ASSUME NEW i \in 1..Len(k) PROVE at[i] \in Nat /\ at[i] >= 1 /\ at[i] <= n
    BY <2>1, <2>2
  <2> QED BY <2>1, <2>3
<1>4. \A i \in 1..Len(k) : at[i] = i /\ i <= n
  <2> DEFINE T == {i \in Nat : i \in 1..Len(k) => at[i] = i /\ i <= n}
  <2>1. 0 \in T
    OBVIOUS
  <2>2. ASSUME NEW i \in T PROVE i + 1 \in T
    <3> SUFFICES ASSUME i + 1 \in 1..Len(k) PROVE at[i + 1] = i + 1 /\ i + 1 <= n
      OBVIOUS
    <3>1. at[i + 1] \in Nat /\ at[i + 1] >= 1 /\ at[i + 1] <= n
      BY <1>3
    <3>2. i \in Nat /\ (i = 0 \/ (i \in 1..Len(k) /\ at[i] = i))
      BY <1>3
    <3>3. at[i + 1] >= i + 1
      BY <1>2, <3>1, <3>2 DEF Picks
    <3>4. i + 1 <= n /\ i + 1 \in 1..Len(q)
      BY <1>3, <3>1, <3>2, <3>3
    <3>5. PICK j \in 1..Len(k) : at[j] = i + 1
      BY <1>2, <3>4 DEF Picks
    <3>6. ~(i + 1 < j)
      BY <1>2, <3>2, <3>3, <3>5, <1>3 DEF Picks
    <3>7. ~(j < i + 1)
      <4> SUFFICES ASSUME j < i + 1 PROVE FALSE
        OBVIOUS
      <4>1. j = i \/ j < i
        BY <1>3, <3>2
      <4>2. i \in 1..Len(k) /\ at[i] = i
        BY <3>2, <4>1, <1>3
      <4>3. at[j] <= at[i]
        BY <1>2, <1>3, <4>1, <4>2 DEF Picks
      <4> QED BY <3>5, <4>2, <4>3, <3>2
    <3>8. j = i + 1
      BY <3>2, <3>6, <3>7, <1>3
    <3> QED BY <3>5, <3>8, <3>4
  <2> HIDE DEF T
  <2>3. T = Nat
    <3>1. T \in SUBSET Nat
      BY DEF T
    <3> QED BY <2>1, <2>2, <3>1, SetInduction
  <2> QED BY <2>3, <1>3 DEF T
<1>5. Len(k) = n
  <2>1. Len(k) <= n
    BY <1>3, <1>4
  <2>2. n <= Len(k)
    <3> SUFFICES ASSUME n >= 1 PROVE n <= Len(k)
      BY <1>3
    <3>1. n \in 1..Len(q) /\ q[n] \in S
      BY <1>3
    <3>2. PICK i \in 1..Len(k) : at[i] = n
      BY <1>2, <3>1 DEF Picks
    <3> QED BY <1>3, <1>4, <3>2
  <2> QED BY <1>3, <2>1, <2>2
<1>6. \A i \in 1..n : k[i] = q[i]
  BY <1>2, <1>4, <1>5 DEF Picks
<1> QED BY <1>5, <1>6 DEF k

-----------------------------------------------------------------------------
(* The members of a list, and lists that repeat none *)

LEMMA EmptyList == Range(<<>>) = {} /\ IsInjective(<<>>)
BY DEF Range, IsInjective

LEMMA RangeOfList == ASSUME NEW A, NEW q \in Seq(A)
                     PROVE  Range(q) \subseteq A /\ (Range(q) = {} <=> q = <<>>)
BY DEF Range

LEMMA HeadTail ==
    ASSUME NEW A, NEW q \in Seq(A), q # <<>>
    PROVE  /\ Head(q) \in A /\ Tail(q) \in Seq(A)
           /\ Range(q) = Range(Tail(q)) \cup {Head(q)}
           /\ IsInjective(q) => IsInjective(Tail(q)) /\ Head(q) \notin Range(Tail(q))
<1>1. /\ Len(q) \in Nat /\ Len(q) >= 1 /\ DOMAIN q = 1..Len(q)
      /\ Head(q) = q[1] /\ Head(q) \in A /\ Tail(q) \in Seq(A)
      /\ DOMAIN Tail(q) = 1..(Len(q) - 1)
      /\ \A k \in 1..(Len(q) - 1) : Tail(q)[k] = q[k + 1] /\ k + 1 \in 1..Len(q)
  OBVIOUS
<1> DEFINE t == Tail(q)
           n == Len(q)
<1> HIDE DEF t, n
<1>2. /\ n \in Nat /\ n >= 1 /\ DOMAIN q = 1..n /\ DOMAIN t = 1..(n - 1)
      /\ \A k \in 1..(n - 1) : t[k] = q[k + 1] /\ k + 1 \in 1..n
  BY <1>1 DEF t, n
<1>3. Range(q) = Range(t) \cup {q[1]}
  <2>1. ASSUME NEW k \in 1..n PROVE q[k] \in Range(t) \cup {q[1]}
    <3>1. k = 1 \/ (k - 1 \in 1..(n - 1) /\ (k - 1) + 1 = k)
      BY <1>2
    <3>2. k = 1 \/ (k - 1 \in DOMAIN t /\ t[k - 1] = q[k])
      BY <1>2, <3>1
    <3> QED BY <3>2 DEF Range
  <2>2. ASSUME NEW k \in 1..(n - 1) PROVE t[k] \in Range(q)
    BY <1>2 DEF Range
  <2>3. q[1] \in Range(q)
    BY <1>2 DEF Range
  <2> QED BY <1>2, <2>1, <2>2, <2>3 DEF Range
<1>4. ASSUME IsInjective(q) PROVE IsInjective(t) /\ q[1] \notin Range(t)
  <2>0. \A a, b \in 1..n : q[a] = q[b] => a = b
    BY <1>2, <1>4 DEF IsInjective
  <2>1. \A a, b \in 1..(n - 1) : t[a] = t[b] => a = b
    <3>1. \A a, b \in 1..(n - 1) : t[a] = t[b] => a + 1 = b + 1
      BY <1>2, <2>0
    <3> QED BY <1>2, <3>1
  <2>2. \A k \in 1..(n - 1) : t[k] # q[1]
    <3>1. 1 \in 1..n /\ \A k \in 1..(n - 1) : k + 1 # 1
      BY <1>2
    <3> QED BY <1>2, <2>0, <3>1
  <2> QED BY <1>2, <2>1, <2>2 DEF IsInjective, Range
<1> QED BY <1>1, <1>3, <1>4 DEF t

LEMMA AppendList ==
    ASSUME NEW A, NEW q \in Seq(A), NEW x \in A
    PROVE  /\ Append(q, x) \in Seq(A) /\ Append(q, x) # <<>>
           /\ Range(Append(q, x)) = Range(q) \cup {x}
           /\ IsInjective(q) /\ x \notin Range(q) => IsInjective(Append(q, x))
<1> DEFINE a == Append(q, x)
           n == Len(q)
<1>1. /\ n \in Nat /\ DOMAIN q = 1..n /\ DOMAIN a = 1..(n + 1) /\ a \in Seq(A) /\ a # <<>>
      /\ \A k \in 1..n : a[k] = q[k]
      /\ a[n + 1] = x
  OBVIOUS
<1> HIDE DEF a, n
<1>2. \A k \in 1..(n + 1) : k \in 1..n \/ k = n + 1
  BY <1>1
<1>3. Range(a) = Range(q) \cup {x}
  <2>1. \A k \in 1..(n + 1) : a[k] \in Range(q) \cup {x}
    BY <1>1, <1>2 DEF Range
  <2>2. \A k \in 1..n : q[k] \in Range(a)
    <3> TAKE k \in 1..n
    <3>1. k \in 1..(n + 1)
      BY <1>1
    <3> QED BY <1>1, <3>1 DEF Range
  <2>3. x \in Range(a)
    <3>1. n + 1 \in 1..(n + 1)
      BY <1>1
    <3> QED BY <1>1, <3>1 DEF Range
  <2> QED BY <1>1, <2>1, <2>2, <2>3 DEF Range
<1>4. ASSUME IsInjective(q), x \notin Range(q) PROVE IsInjective(a)
  <2>1. \A k \in 1..n : q[k] # x
    BY <1>1, <1>4 DEF Range
  <2>2. \A k, l \in 1..n : q[k] = q[l] => k = l
    BY <1>1, <1>4 DEF IsInjective
  <2> QED BY <1>1, <1>2, <2>1, <2>2 DEF IsInjective
<1> QED BY <1>1, <1>3, <1>4 DEF a

LEMMA ConcatList ==
    ASSUME NEW A, NEW p \in Seq(A), NEW q \in Seq(A)
    PROVE  /\ p \o q \in Seq(A) /\ Len(p \o q) = Len(p) + Len(q)
           /\ \A k \in 1..Len(p) : (p \o q)[k] = p[k]
           /\ \A k \in 1..Len(q) : (p \o q)[Len(p) + k] = q[k]
<1>1. p \o q \in Seq(A) /\ Len(p \o q) = Len(p) + Len(q)
  OBVIOUS
<1>2. ASSUME NEW k \in 1..Len(p) PROVE (p \o q)[k] = p[k]
  OBVIOUS
<1>3. ASSUME NEW k \in 1..Len(q) PROVE (p \o q)[Len(p) + k] = q[k]
  OBVIOUS
<1> QED BY <1>1, <1>2, <1>3

LEMMA ConcatRange ==
    ASSUME NEW A, NEW p \in Seq(A), NEW q \in Seq(A)
    PROVE  /\ p \o q \in Seq(A) /\ Range(p \o q) = Range(p) \cup Range(q)
           /\ IsInjective(p) /\ IsInjective(q) /\ (\A x \in Range(p) : x \notin Range(q))
                => IsInjective(p \o q)
<1> DEFINE c == p \o q
           m == Len(p)
           n == Len(q)
<1>1. /\ m \in Nat /\ n \in Nat /\ c \in Seq(A) /\ Len(c) = m + n
      /\ \A k \in 1..m : c[k] = p[k]
      /\ \A k \in 1..n : c[m + k] = q[k]
  BY ConcatList
<1>2. DOMAIN p = 1..m /\ DOMAIN q = 1..n /\ DOMAIN c = 1..(m + n)
  BY <1>1
<1> HIDE DEF c, m, n
<1>3. \A k \in 1..(m + n) : k \in 1..m \/ \E j \in 1..n : k = m + j
  <2> TAKE k \in 1..(m + n)
  <2>1. CASE k <= m
    BY <1>1, <2>1
  <2>2. CASE ~(k <= m)
    <3>1. k - m \in 1..n /\ k = m + (k - m)
      BY <1>1, <2>2
    <3> QED BY <3>1
  <2> QED BY <2>1, <2>2
<1>4. \A k \in 1..m : k \in 1..(m + n)
  BY <1>1
<1>5. \A k \in 1..n : m + k \in 1..(m + n)
  BY <1>1
<1>6. Range(c) = Range(p) \cup Range(q)
  <2>1. ASSUME NEW x \in Range(c) PROVE x \in Range(p) \cup Range(q)
    <3>1. PICK k \in 1..(m + n) : x = c[k]
      BY <1>2 DEF Range
    <3>2. CASE k \in 1..m
      BY <1>1, <1>2, <3>1, <3>2 DEF Range
    <3>3. CASE k \notin 1..m
      <4>1. PICK j \in 1..n : k = m + j
        BY <1>3, <3>3
      <4> QED BY <1>1, <1>2, <3>1, <4>1 DEF Range
    <3> QED BY <3>2, <3>3
  <2>2. \A x \in Range(p) : x \in Range(c)
    BY <1>1, <1>2, <1>4 DEF Range
  <2>3. \A x \in Range(q) : x \in Range(c)
    BY <1>1, <1>2, <1>5 DEF Range
  <2> QED BY <2>1, <2>2, <2>3
<1>7. ASSUME IsInjective(p), IsInjective(q), \A x \in Range(p) : x \notin Range(q)
      PROVE  IsInjective(c)
  <2>1. ASSUME NEW i \in 1..(m + n), NEW j \in 1..(m + n), c[i] = c[j] PROVE i = j
    <3>1. CASE i \in 1..m /\ j \in 1..m
      BY <1>1, <1>2, <1>7, <2>1, <3>1 DEF IsInjective
    <3>2. CASE i \in 1..m /\ j \notin 1..m
      <4>1. PICK k \in 1..n : j = m + k
        BY <1>3, <3>2
      <4>2. c[i] \in Range(p) /\ c[j] \in Range(q)
        BY <1>1, <1>2, <3>2, <4>1 DEF Range
      <4> QED BY <1>7, <2>1, <4>2
    <3>3. CASE i \notin 1..m /\ j \in 1..m
      <4>1. PICK k \in 1..n : i = m + k
        BY <1>3, <3>3
      <4>2. c[j] \in Range(p) /\ c[i] \in Range(q)
        BY <1>1, <1>2, <3>3, <4>1 DEF Range
      <4> QED BY <1>7, <2>1, <4>2
    <3>4. CASE i \notin 1..m /\ j \notin 1..m
      <4>1. PICK k \in 1..n : i = m + k
        BY <1>3, <3>4
      <4>2. PICK l \in 1..n : j = m + l
        BY <1>3, <3>4
      <4>3. q[k] = q[l]
        BY <1>1, <2>1, <4>1, <4>2
      <4>4. k = l
        BY <1>2, <1>7, <4>3 DEF IsInjective
      <4> QED BY <4>1, <4>2, <4>4
    <3> QED BY <3>1, <3>2, <3>3, <3>4
  <2> QED BY <1>2, <2>1 DEF IsInjective
<1> QED BY <1>1, <1>6, <1>7 DEF c

-----------------------------------------------------------------------------
(* Sums of a function over a finite set, as MapThenSumSet of the community
   modules computes them: a recursive function over the subsets *)

(* The sum of f over S *)
Total(f, S) == MapThenSumSet(LAMBDA i : f[i], S)

(* The member the sum takes out of s first *)
Pick(s) == CHOOSE x \in s : TRUE

(* The recursion equation of Total *)
SumNext(g, f, s) == IF s = {} THEN 0 ELSE f[Pick(s)] + g[s \ {Pick(s)}]

IsTotal(g, f, D) == g = [s \in D |-> SumNext(g, f, s)]

(* The subsets of S with at most n members *)
Small(S, n) == {s \in SUBSET S : Cardinality(s) <= n}

(* Taking a member out of a small set leaves a smaller one. *)
LEMMA PickSmaller ==
    ASSUME NEW S, IsFiniteSet(S), NEW n \in Nat, NEW s \in Small(S, n + 1), s # {}
    PROVE  Pick(s) \in s /\ s \ {Pick(s)} \in Small(S, n)
<1>1. Pick(s) \in s
  BY DEF Pick
<1>2. IsFiniteSet(s) /\ s \in SUBSET S /\ Cardinality(s) <= n + 1
  BY FS_Subset DEF Small
<1>3. Cardinality(s \ {Pick(s)}) = Cardinality(s) - 1 /\ Cardinality(s) \in Nat
  BY <1>1, <1>2, FS_RemoveElement, FS_CardinalityType
<1> QED BY <1>1, <1>2, <1>3 DEF Small

LEMMA SmallEmpty == ASSUME NEW S, IsFiniteSet(S) PROVE Small(S, 0) = {{}}
<1>1. \A s \in SUBSET S : IsFiniteSet(s) /\ Cardinality(s) \in Nat /\ (Cardinality(s) = 0 <=> s = {})
  BY FS_Subset, FS_CardinalityType, FS_EmptySet
<1>2. \A s \in SUBSET S : Cardinality(s) <= 0 <=> s = {}
  BY <1>1
<1> QED BY <1>2 DEF Small

LEMMA SmallAll == ASSUME NEW S, IsFiniteSet(S)
                  PROVE  Cardinality(S) \in Nat /\ Small(S, Cardinality(S)) = SUBSET S
<1>1. Cardinality(S) \in Nat
  BY FS_CardinalityType
<1>2. \A s \in SUBSET S : Cardinality(s) <= Cardinality(S)
  BY FS_Subset
<1> QED BY <1>1, <1>2 DEF Small

LEMMA SmallGrows == ASSUME NEW S, IsFiniteSet(S), NEW n \in Nat PROVE Small(S, n) \subseteq Small(S, n + 1)
<1>1. \A s \in SUBSET S : Cardinality(s) \in Nat
  BY FS_Subset, FS_CardinalityType
<1> QED BY <1>1 DEF Small

(* A function that satisfies the recursion equation exists. *)
LEMMA TotalExists ==
    ASSUME NEW f, NEW S, IsFiniteSet(S)
    PROVE  \E g : IsTotal(g, f, SUBSET S)
<1> DEFINE T == {n \in Nat : \E g : IsTotal(g, f, Small(S, n))}
<1>1. 0 \in T
  <2> DEFINE g == [s \in {{}} |-> 0]
  <2>1. IsTotal(g, f, Small(S, 0))
    BY SmallEmpty DEF IsTotal, SumNext
  <2> QED BY <2>1
<1>2. ASSUME NEW n \in T PROVE n + 1 \in T
  <2>1. PICK g : IsTotal(g, f, Small(S, n))
    OBVIOUS
  <2> DEFINE h == [s \in Small(S, n + 1) |-> SumNext(g, f, s)]
  <2>2. \A s \in Small(S, n) : g[s] = SumNext(g, f, s) /\ s \in Small(S, n + 1)
    BY <2>1, SmallGrows DEF IsTotal
  <2>3. \A s \in Small(S, n) : h[s] = g[s]
    BY <2>2
  <2>4. ASSUME NEW s \in Small(S, n + 1) PROVE h[s] = SumNext(h, f, s)
    <3>1. s # {} => s \ {Pick(s)} \in Small(S, n)
      BY PickSmaller
    <3>2. s # {} => h[s \ {Pick(s)}] = g[s \ {Pick(s)}]
      BY <3>1, <2>3
    <3>3. h[s] = SumNext(g, f, s)
      OBVIOUS
    <3> HIDE DEF h
    <3> QED BY <3>2, <3>3 DEF SumNext
  <2>5. h = [s \in Small(S, n + 1) |-> h[s]]
    OBVIOUS
  <2> HIDE DEF h
  <2>6. IsTotal(h, f, Small(S, n + 1))
    BY <2>4, <2>5 DEF IsTotal
  <2> QED BY <2>6
<1> HIDE DEF T
<1>3. T = Nat
  <2>1. T \subseteq Nat
    BY DEF T
  <2> QED BY <1>1, <1>2, <2>1, SetInduction
<1>4. Cardinality(S) \in T /\ Small(S, Cardinality(S)) = SUBSET S
  BY <1>3, SmallAll
<1> QED BY <1>4 DEF T

(* Total is the last value of such a function. *)
LEMMA TotalDef ==
    ASSUME NEW f, NEW S, IsFiniteSet(S)
    PROVE  \E g : /\ \A s \in SUBSET S : g[s] = SumNext(g, f, s)
                  /\ Total(f, S) = g[S]
<1> DEFINE g == CHOOSE g : IsTotal(g, f, SUBSET S)
<1>1. IsTotal(g, f, SUBSET S)
  BY TotalExists
<1>2. Total(f, S) = g[S]
  BY DEF Total, MapThenSumSet, MapThenFoldSet, IsTotal, SumNext, Pick
<1> HIDE DEF g
<1>3. \A s \in SUBSET S : g[s] = SumNext(g, f, s)
  BY <1>1 DEF IsTotal
<1> QED BY <1>2, <1>3

Sums(g, f, S) == (\A s \in SUBSET S : g[s] = SumNext(g, f, s)) /\ Total(f, S) = g[S]

LEMMA TotalSums == ASSUME NEW f, NEW S, IsFiniteSet(S) PROVE \E g : Sums(g, f, S)
BY TotalDef DEF Sums

(* Two functions that differ at one place differ in their sums by as much;
   sums of natural numbers are natural numbers, and 0 if all of them are. *)
LEMMA TotalUpdate ==
    ASSUME NEW S, IsFiniteSet(S), NEW f \in [S -> Nat], NEW h \in [S -> Nat], NEW i \in S,
           \A j \in S : j # i => h[j] = f[j]
    PROVE  /\ Total(f, S) \in Nat /\ Total(h, S) \in Nat
           /\ Total(h, S) - h[i] = Total(f, S) - f[i]
           /\ f[i] <= Total(f, S)
<1>a. PICK g : Sums(g, f, S)
  BY TotalSums
<1>b. PICK k : Sums(k, h, S)
  BY TotalSums
<1>1. (\A s \in SUBSET S : g[s] = SumNext(g, f, s)) /\ Total(f, S) = g[S]
  BY <1>a DEF Sums
<1>2. (\A s \in SUBSET S : k[s] = SumNext(k, h, s)) /\ Total(h, S) = k[S]
  BY <1>b DEF Sums
<1> DEFINE Good(s) == /\ g[s] \in Nat /\ k[s] \in Nat
                      /\ i \notin s => k[s] = g[s]
                      /\ i \in s => k[s] - h[i] = g[s] - f[i] /\ f[i] <= g[s]
           T == {n \in Nat : \A s \in Small(S, n) : Good(s)}
<1>3. 0 \in T
  <2>1. g[{}] = 0 /\ k[{}] = 0
    BY <1>1, <1>2 DEF SumNext
  <2>2. Good({})
    BY <2>1
  <2> QED BY <2>2, SmallEmpty
<1>4. ASSUME NEW n \in T PROVE n + 1 \in T
  <2> SUFFICES ASSUME NEW s \in Small(S, n + 1) PROVE Good(s)
    OBVIOUS
  <2>1. CASE s = {}
    <3>1. g[{}] = 0 /\ k[{}] = 0
      BY <1>1, <1>2 DEF SumNext
    <3> QED BY <2>1, <3>1
  <2>2. CASE s # {}
    <3> DEFINE x == Pick(s)
               t == s \ {x}
    <3>1. x \in s /\ t \in Small(S, n) /\ s \in SUBSET S
      BY <2>2, PickSmaller DEF Small
    <3>2. Good(t)
      BY <3>1
    <3>3. g[s] = f[x] + g[t] /\ k[s] = h[x] + k[t]
      BY <1>1, <1>2, <2>2, <3>1 DEF SumNext
    <3>4. x \in S /\ (i \in t <=> i \in s /\ i # x) /\ f[x] \in Nat /\ h[x] \in Nat /\ f[i] \in Nat /\ h[i] \in Nat
      BY <3>1
    <3>5. x # i => h[x] = f[x]
      BY <3>4
    <3> DEFINE gs == g[s] gt == g[t] ks == k[s] kt == k[t] fx == f[x] hx == h[x] fi == f[i] hi == h[i]
    <3>6. /\ gs = fx + gt /\ ks = hx + kt /\ gt \in Nat /\ kt \in Nat /\ fx \in Nat /\ hx \in Nat
          /\ fi \in Nat /\ hi \in Nat
          /\ x # i => hx = fx
          /\ x = i => hx = hi /\ fx = fi
          /\ i \notin t => kt = gt
          /\ i \in t => kt - hi = gt - fi /\ fi <= gt
      BY <3>2, <3>3, <3>4, <3>5
    <3> HIDE DEF gs, gt, ks, kt, fx, hx, fi, hi, t, x
    <3>7. /\ gs \in Nat /\ ks \in Nat
          /\ i \notin s => ks = gs
          /\ i \in s => ks - hi = gs - fi /\ fi <= gs
      BY <3>1, <3>4, <3>6
    <3> QED BY <3>7 DEF gs, ks, fi, hi
  <2> QED BY <2>1, <2>2
<1> HIDE DEF T
<1>5. T = Nat
  <2>1. T \subseteq Nat
    BY DEF T
  <2> QED BY <1>3, <1>4, <2>1, SetInduction
<1>6. Good(S)
  BY <1>5, SmallAll DEF T
<1> QED BY <1>1, <1>2, <1>6

(* The recursion equation has one solution. *)
LEMMA TotalUnique ==
    ASSUME NEW f, NEW S, IsFiniteSet(S), NEW g, \A s \in SUBSET S : g[s] = SumNext(g, f, s)
    PROVE  Total(f, S) = g[S]
<1>1. PICK k : (\A s \in SUBSET S : k[s] = SumNext(k, f, s)) /\ Total(f, S) = k[S]
  BY TotalDef
<1> DEFINE T == {n \in Nat : \A s \in Small(S, n) : k[s] = g[s]}
<1>2. 0 \in T
  <2>1. Small(S, 0) = {{}}
    BY SmallEmpty
  <2>2. k[{}] = 0 /\ g[{}] = 0
    BY <1>1 DEF SumNext
  <2> QED BY <2>1, <2>2
<1>3. ASSUME NEW n \in T PROVE n + 1 \in T
  <2> SUFFICES ASSUME NEW s \in Small(S, n + 1) PROVE k[s] = g[s]
    OBVIOUS
  <2>1. s \in SUBSET S
    BY DEF Small
  <2>2. s # {} => s \ {Pick(s)} \in Small(S, n)
    BY PickSmaller
  <2>3. s # {} => k[s \ {Pick(s)}] = g[s \ {Pick(s)}]
    BY <2>2
  <2> QED BY <1>1, <2>1, <2>3 DEF SumNext
<1> HIDE DEF T
<1>4. T = Nat
  <2>1. T \subseteq Nat
    BY DEF T
  <2> QED BY <1>2, <1>3, <2>1, SetInduction
<1> QED BY <1>1, <1>4, SmallAll DEF T

(* The sum over a set is any member's share plus the sum over the others. *)
LEMMA TotalSplit ==
    ASSUME NEW S, IsFiniteSet(S), NEW f \in [S -> Nat], NEW x \in S
    PROVE  /\ Total(f, S) \in Nat /\ Total(f, S \ {x}) \in Nat
           /\ Total(f, S) = f[x] + Total(f, S \ {x})
<1>1. PICK g : (\A s \in SUBSET S : g[s] = SumNext(g, f, s)) /\ Total(f, S) = g[S]
  BY TotalDef
<1> DEFINE Good(s) == g[s] \in Nat /\ \A y \in s : g[s] = f[y] + g[s \ {y}]
           T == {n \in Nat : \A s \in Small(S, n) : Good(s)}
<1>0. Good({})
  BY <1>1 DEF SumNext
<1>2. 0 \in T
  BY <1>0, SmallEmpty
<1>3. ASSUME NEW n \in T PROVE n + 1 \in T
  <2> SUFFICES ASSUME NEW s \in Small(S, n + 1) PROVE Good(s)
    OBVIOUS
  <2> SUFFICES ASSUME s # {} PROVE Good(s)
    BY <1>0
  <2> DEFINE z == Pick(s)
  <2>1. z \in s /\ s \ {z} \in Small(S, n) /\ s \in SUBSET S
    BY PickSmaller DEF Small
  <2> HIDE DEF z
  <2>2. g[s] = f[z] + g[s \ {z}]
    BY <1>1, <2>1 DEF SumNext, z
  <2>3. Good(s \ {z}) /\ f[z] \in Nat
    BY <2>1
  <2>4. g[s] \in Nat
    BY <2>2, <2>3
  <2>5. ASSUME NEW y \in s PROVE g[s] = f[y] + g[s \ {y}]
    <3>1. CASE y = z
      BY <3>1, <2>2
    <3>2. CASE y # z
      <4>1. s \ {y} \in Small(S, n)
        <5>1. IsFiniteSet(s) /\ s \in SUBSET S /\ Cardinality(s) <= n + 1
          BY FS_Subset DEF Small
        <5>2. Cardinality(s \ {y}) = Cardinality(s) - 1 /\ Cardinality(s) \in Nat
          BY <5>1, FS_RemoveElement, FS_CardinalityType
        <5> QED BY <5>1, <5>2 DEF Small
      <4>2. g[s \ {z}] = f[y] + g[(s \ {z}) \ {y}]
        BY <2>3, <3>2
      <4>3. g[s \ {y}] = f[z] + g[(s \ {y}) \ {z}]
        BY <4>1, <2>1, <3>2
      <4>4. (s \ {z}) \ {y} = (s \ {y}) \ {z}
        OBVIOUS
      <4>5. (s \ {z}) \ {y} \in Small(S, n)
        <5>1. IsFiniteSet(s \ {z}) /\ Cardinality(s \ {z}) <= n /\ s \ {z} \in SUBSET S
          BY <2>1, FS_Subset DEF Small
        <5>2. Cardinality((s \ {z}) \ {y}) = Cardinality(s \ {z}) - 1 /\ Cardinality(s \ {z}) \in Nat
          BY <5>1, <3>2, FS_RemoveElement, FS_CardinalityType
        <5> QED BY <5>1, <5>2 DEF Small
      <4>6. g[(s \ {z}) \ {y}] \in Nat /\ f[y] \in Nat /\ f[z] \in Nat
        BY <4>5, <2>1
      <4> DEFINE a == g[(s \ {z}) \ {y}] b == f[y] c == f[z]
      <4>7. a \in Nat /\ b \in Nat /\ c \in Nat /\ g[s] = c + (b + a) /\ g[s \ {y}] = c + a
        BY <4>2, <4>3, <4>4, <4>6, <2>2
      <4> HIDE DEF a, b, c
      <4>8. c + (b + a) = b + (c + a)
        BY <4>7
      <4> QED BY <4>7, <4>8 DEF b
    <3> QED BY <3>1, <3>2
  <2> QED BY <2>4, <2>5
<1> HIDE DEF T
<1>4. T = Nat
  <2>1. T \subseteq Nat
    BY DEF T
  <2> QED BY <1>2, <1>3, <2>1, SetInduction
<1>5. Good(S)
  BY <1>4, SmallAll DEF T
<1>6. g[S \ {x}] = Total(f, S \ {x})
  <2>1. IsFiniteSet(S \ {x}) /\ \A s \in SUBSET (S \ {x}) : g[s] = SumNext(g, f, s)
    BY <1>1, FS_RemoveElement
  <2> QED BY <2>1, TotalUnique
<1>7. g[S \ {x}] \in Nat
  <2>1. S \ {x} \in Small(S, Cardinality(S)) /\ Cardinality(S) \in Nat
    BY SmallAll
  <2> QED BY <2>1, <1>4 DEF T
<1> QED BY <1>1, <1>5, <1>6, <1>7

(* A sum of natural numbers is a natural number. *)
LEMMA TotalType ==
    ASSUME NEW D, NEW f \in [D -> Nat], NEW S \in SUBSET D, IsFiniteSet(S)
    PROVE  Total(f, S) \in Nat
<1>1. PICK g : (\A s \in SUBSET S : g[s] = SumNext(g, f, s)) /\ Total(f, S) = g[S]
  BY TotalDef
<1> DEFINE T == {n \in Nat : \A s \in Small(S, n) : g[s] \in Nat}
<1>2. 0 \in T
  <2>1. Small(S, 0) = {{}}
    BY SmallEmpty
  <2>2. g[{}] = 0
    BY <1>1 DEF SumNext
  <2> QED BY <2>1, <2>2
<1>3. ASSUME NEW n \in T PROVE n + 1 \in T
  <2> SUFFICES ASSUME NEW s \in Small(S, n + 1) PROVE g[s] \in Nat
    OBVIOUS
  <2>1. s \in SUBSET S
    BY DEF Small
  <2>2. s # {} => Pick(s) \in s /\ g[s \ {Pick(s)}] \in Nat
    BY PickSmaller
  <2>3. s # {} => f[Pick(s)] \in Nat
    BY <2>1, <2>2
  <2>4. g[s] = IF s = {} THEN 0 ELSE f[Pick(s)] + g[s \ {Pick(s)}]
    BY <1>1, <2>1 DEF SumNext
  <2> QED BY <2>2, <2>3, <2>4
<1> HIDE DEF T
<1>4. T = Nat
  <2>1. T \subseteq Nat
    BY DEF T
  <2> QED BY <1>2, <1>3, <2>1, SetInduction
<1> QED BY <1>1, <1>4, SmallAll DEF T

(* The sum of zeros. *)
LEMMA TotalZero ==
    ASSUME NEW S, IsFiniteSet(S), NEW f, \A i \in S : f[i] = 0
    PROVE  Total(f, S) = 0
<1>1. PICK g : (\A s \in SUBSET S : g[s] = SumNext(g, f, s)) /\ Total(f, S) = g[S]
  BY TotalDef
<1> DEFINE T == {n \in Nat : \A s \in Small(S, n) : g[s] = 0}
<1>2. 0 \in T
  <2>1. Small(S, 0) = {{}}
    BY SmallEmpty
  <2>2. g[{}] = 0
    BY <1>1 DEF SumNext
  <2> QED BY <2>1, <2>2
<1>3. ASSUME NEW n \in T PROVE n + 1 \in T
  <2> SUFFICES ASSUME NEW s \in Small(S, n + 1) PROVE g[s] = 0
    OBVIOUS
  <2>1. s \in SUBSET S
    BY DEF Small
  <2>2. s # {} => Pick(s) \in s /\ g[s \ {Pick(s)}] = 0
    BY PickSmaller
  <2>3. s # {} => f[Pick(s)] = 0
    BY <2>1, <2>2
  <2>4. g[s] = IF s = {} THEN 0 ELSE f[Pick(s)] + g[s \ {Pick(s)}]
    BY <1>1, <2>1 DEF SumNext
  <2>5. s # {} => g[s] = 0 + 0
    BY <2>2, <2>3, <2>4
  <2> QED BY <2>4, <2>5
<1> HIDE DEF T
<1>4. T = Nat
  <2>1. T \subseteq Nat
    BY DEF T
  <2> QED BY <1>2, <1>3, <2>1, SetInduction
<1> QED BY <1>1, <1>4, SmallAll DEF T

(* A sum depends on the values over the set only. *)
LEMMA TotalSame ==
    ASSUME NEW S, IsFiniteSet(S), NEW f, NEW h, \A i \in S : h[i] = f[i]
    PROVE  Total(h, S) = Total(f, S)
<1>1. PICK g : (\A s \in SUBSET S : g[s] = SumNext(g, f, s)) /\ Total(f, S) = g[S]
  BY TotalDef
<1>2. ASSUME NEW s \in SUBSET S PROVE g[s] = SumNext(g, h, s)
  <2>1. s # {} => Pick(s) \in S
    BY DEF Pick
  <2> QED BY <1>1, <2>1 DEF SumNext
<1> QED BY <1>1, <1>2, TotalUnique

(* Adding a member, or taking one out. *)
LEMMA TotalWith ==
    ASSUME NEW D, NEW f \in [D -> Nat], NEW S \in SUBSET D, IsFiniteSet(S), NEW x \in S
    PROVE  /\ Total(f, S) \in Nat /\ Total(f, S \ {x}) \in Nat
           /\ Total(f, S) = f[x] + Total(f, S \ {x})
<1> DEFINE h == [i \in S |-> f[i]]
<1>1. h \in [S -> Nat] /\ \A i \in S : h[i] = f[i]
  OBVIOUS
<1>2. IsFiniteSet(S \ {x})
  BY FS_RemoveElement
<1> HIDE DEF h
<1>3. /\ Total(h, S) \in Nat /\ Total(h, S \ {x}) \in Nat
      /\ Total(h, S) = h[x] + Total(h, S \ {x})
  BY <1>1, TotalSplit
<1>4. Total(h, S) = Total(f, S)
  BY <1>1, TotalSame
<1>5. \A i \in S \ {x} : h[i] = f[i]
  BY <1>1
<1>6. Total(h, S \ {x}) = Total(f, S \ {x})
  BY <1>2, <1>5, TotalSame
<1> QED BY <1>1, <1>3, <1>4, <1>6

LEMMA TotalJoin ==
    ASSUME NEW D, NEW f \in [D -> Nat], NEW S \in SUBSET D, IsFiniteSet(S), NEW x \in D, x \notin S
    PROVE  Total(f, S \cup {x}) = f[x] + Total(f, S)
<1>1. IsFiniteSet(S \cup {x}) /\ S \cup {x} \in SUBSET D /\ x \in S \cup {x}
  BY FS_AddElement
<1>2. (S \cup {x}) \ {x} = S
  OBVIOUS
<1> QED BY <1>1, <1>2, TotalWith

(* A sum of natural numbers over fewer members is smaller. *)
LEMMA TotalSubset ==
    ASSUME NEW D, NEW f \in [D -> Nat], NEW S \in SUBSET D, IsFiniteSet(S), NEW R \in SUBSET S
    PROVE  Total(f, R) <= Total(f, S)
<1> DEFINE Good(s) == \A t \in SUBSET s : Total(f, t) <= Total(f, s)
           T == {n \in Nat : \A s \in Small(S, n) : Good(s)}
<1>1. 0 \in T
  <2>1. Good({})
    <3>1. Total(f, {}) \in Nat
      BY TotalType, FS_EmptySet
    <3> QED BY <3>1
  <2> QED BY <2>1, SmallEmpty
<1>2. ASSUME NEW n \in T PROVE n + 1 \in T
  <2> SUFFICES ASSUME NEW s \in Small(S, n + 1), NEW t \in SUBSET s PROVE Total(f, t) <= Total(f, s)
    OBVIOUS
  <2>1. s \in SUBSET S /\ IsFiniteSet(s) /\ IsFiniteSet(t)
    BY FS_Subset DEF Small
  <2>2. CASE s = {}
    <3>1. Total(f, {}) \in Nat
      BY TotalType, FS_EmptySet
    <3>2. t = {}
      BY <2>2
    <3> QED BY <2>2, <3>1, <3>2
  <2>3. CASE s # {}
    <3>1. PICK x : x = Pick(s) /\ x \in s /\ s \ {x} \in Small(S, n)
      BY <2>3, PickSmaller
    <3>2. Total(f, t \ {x}) <= Total(f, s \ {x})
      BY <3>1
    <3>3. /\ Total(f, s) \in Nat /\ Total(f, s \ {x}) \in Nat /\ f[x] \in Nat
          /\ Total(f, s) = f[x] + Total(f, s \ {x})
      BY <2>1, <3>1, TotalWith
    <3>4. CASE x \in t
      <4>1. /\ Total(f, t) \in Nat /\ Total(f, t \ {x}) \in Nat
            /\ Total(f, t) = f[x] + Total(f, t \ {x})
        BY <2>1, <3>4, TotalWith
      <4> QED BY <3>2, <3>3, <4>1
    <3>5. CASE x \notin t
      <4>1. t \ {x} = t
        BY <3>5
      <4>2. Total(f, t) \in Nat
        BY <2>1, TotalType
      <4>3. Total(f, t) <= Total(f, s \ {x})
        BY <3>2, <4>1
      <4> QED BY <3>3, <4>2, <4>3
    <3> QED BY <3>4, <3>5
  <2> QED BY <2>2, <2>3
<1> HIDE DEF T
<1>3. T = Nat
  <2>1. T \subseteq Nat
    BY DEF T
  <2> QED BY <1>1, <1>2, <2>1, SetInduction
<1>4. Good(S)
  BY <1>3, SmallAll DEF T
<1> QED BY <1>4

-----------------------------------------------------------------------------
(* Sums of lists *)

ListTotal(s) == Total(s, DOMAIN s)

LEMMA ListTotalEmpty == ListTotal(<<>>) = 0
<1>1. DOMAIN <<>> = {}
  OBVIOUS
<1> QED BY <1>1, FS_EmptySet, TotalZero DEF ListTotal

LEMMA ListTotalType == ASSUME NEW s \in Seq(Nat) PROVE ListTotal(s) \in Nat
<1>1. s \in [DOMAIN s -> Nat] /\ DOMAIN s = 1..Len(s) /\ Len(s) \in Nat
  OBVIOUS
<1>2. IsFiniteSet(DOMAIN s)
  <2>1. PICK n \in Int : n = Len(s)
    BY <1>1
  <2>2. IsFiniteSet(1..n)
    BY FS_Interval
  <2> QED BY <1>1, <2>1, <2>2
<1> QED BY <1>1, <1>2, TotalType DEF ListTotal

LEMMA ListTotalAppend ==
    ASSUME NEW s \in Seq(Nat), NEW x \in Nat
    PROVE  ListTotal(Append(s, x)) = ListTotal(s) + x
<1> DEFINE n == Len(s)
           t == Append(s, x)
<1>1. /\ n \in Nat /\ DOMAIN s = 1..n /\ t \in Seq(Nat) /\ DOMAIN t = 1..(n + 1) /\ t[n + 1] = x
      /\ \A i \in 1..n : t[i] = s[i]
  OBVIOUS
<1>2. IsFiniteSet(1..n) /\ IsFiniteSet(1..(n + 1))
  BY <1>1, FS_Interval
<1>3. (1..(n + 1)) \ {n + 1} = 1..n /\ n + 1 \in 1..(n + 1)
  BY <1>1
<1>4. t \in [1..(n + 1) -> Nat]
  <2>1. \A u \in Seq(Nat) : u \in [1..Len(u) -> Nat]
    OBVIOUS
  <2>2. Len(t) = n + 1
    OBVIOUS
  <2> QED BY <1>1, <2>1, <2>2
<1> HIDE DEF t, n
<1>5. Total(t, 1..(n + 1)) = t[n + 1] + Total(t, 1..n) /\ Total(t, 1..n) \in Nat
  <2>1. PICK S, m : S = 1..(n + 1) /\ m = n + 1
    OBVIOUS
  <2>2. IsFiniteSet(S) /\ t \in [S -> Nat] /\ m \in S /\ S \ {m} = 1..n
    BY <1>2, <1>3, <1>4, <2>1
  <2>3. Total(t, S \ {m}) \in Nat /\ Total(t, S) = t[m] + Total(t, S \ {m})
    BY <2>2, TotalSplit
  <2> QED BY <2>1, <2>2, <2>3
<1>6. Total(t, 1..n) = Total(s, 1..n)
  BY <1>1, <1>2, TotalSame
<1>7. ListTotal(t) = x + Total(s, 1..n) /\ Total(s, 1..n) \in Nat
  BY <1>1, <1>5, <1>6 DEF ListTotal
<1>8. ListTotal(t) = Total(s, 1..n) + x
  BY <1>7
<1> QED BY <1>1, <1>8 DEF ListTotal, t

FrontOf(f, s, n) ==
    /\ Len(f) = n /\ s = Append(f, s[n + 1])
    /\ \A i \in 1..n : f[i] = s[i]

(* A list that is not empty is its front and its last member. *)
LEMMA FrontAndLast ==
    ASSUME NEW A, NEW n \in Nat, NEW s \in Seq(A), Len(s) = n + 1
    PROVE  s[n + 1] \in A /\ \E f \in Seq(A) : FrontOf(f, s, n)
<1> DEFINE f == [i \in 1..n |-> s[i]]
<1>1. s[n + 1] \in A /\ \A i \in 1..n : s[i] \in A
  OBVIOUS
<1>2. f \in [1..n -> A]
  BY <1>1
<1>3. f \in Seq(A) /\ Len(f) = n
  BY <1>2
<1>4. \A i \in 1..n : f[i] = s[i]
  OBVIOUS
<1> HIDE DEF f
<1> DEFINE t == Append(f, s[n + 1])
<1>5. /\ t \in Seq(A) /\ Len(t) = n + 1 /\ t[n + 1] = s[n + 1] /\ \A i \in 1..n : t[i] = s[i]
  BY <1>1, <1>3, <1>4
<1>6. \A i \in 1..(n + 1) : i \in 1..n \/ i = n + 1
  OBVIOUS
<1> HIDE DEF t
<1>7. s = t
  BY <1>5, <1>6
<1> QED BY <1>1, <1>3, <1>4, <1>7 DEF t, FrontOf

LEMMA ConcatAppend ==
    ASSUME NEW A, NEW s \in Seq(A), NEW f \in Seq(A), NEW x \in A
    PROVE  s \o Append(f, x) = Append(s \o f, x) /\ s \o f \in Seq(A)
<1> DEFINE m == Len(s)
           n == Len(f)
           g == Append(f, x)
           c == s \o f
           p == s \o g
           q == Append(c, x)
<1>1. /\ m \in Nat /\ n \in Nat /\ g \in Seq(A) /\ Len(g) = n + 1 /\ g[n + 1] = x
      /\ \A i \in 1..n : g[i] = f[i]
  OBVIOUS
<1>2. /\ c \in Seq(A) /\ Len(c) = m + n
      /\ \A i \in 1..m : c[i] = s[i]
      /\ \A i \in 1..n : c[m + i] = f[i]
  BY ConcatList
<1> HIDE DEF c, g
<1>3. /\ p \in Seq(A) /\ Len(p) = m + (n + 1)
      /\ \A i \in 1..m : p[i] = s[i]
      /\ \A i \in 1..(n + 1) : p[m + i] = g[i]
  <2>0. g \in Seq(A)
    BY <1>1
  <2>1. /\ p \in Seq(A) /\ Len(p) = Len(s) + Len(g)
        /\ \A i \in 1..Len(s) : p[i] = s[i]
        /\ \A i \in 1..Len(g) : p[Len(s) + i] = g[i]
    BY <2>0, ConcatList
  <2> HIDE DEF p
  <2> QED BY <1>1, <2>1
<1>4. /\ q \in Seq(A) /\ Len(q) = m + n + 1 /\ q[m + n + 1] = x
      /\ \A i \in 1..(m + n) : q[i] = c[i]
  BY <1>1, <1>2
<1> HIDE DEF p, q, m, n
<1>5. ASSUME NEW i \in 1..(m + n + 1) PROVE p[i] = q[i]
  <2>1. CASE i <= m
    <3>1. i \in 1..m /\ i \in 1..(m + n)
      BY <1>1, <2>1
    <3> QED BY <1>2, <1>3, <1>4, <3>1
  <2>2. CASE i > m
    <3>1. PICK j \in 1..(n + 1) : i = m + j
      <4>1. i - m \in 1..(n + 1) /\ i = m + (i - m)
        BY <1>1, <2>2
      <4> QED BY <4>1
    <3>2. CASE j = n + 1
      <4>1. i = m + n + 1
        BY <1>1, <3>1, <3>2
      <4>2. p[i] = g[j]
        BY <1>3, <3>1
      <4> QED BY <1>1, <1>4, <3>2, <4>1, <4>2
    <3>3. CASE j # n + 1
      <4>1. j \in 1..n /\ i \in 1..(m + n)
        BY <1>1, <3>1, <3>3
      <4>2. p[i] = g[j] /\ g[j] = f[j]
        BY <1>1, <1>3, <3>1, <4>1
      <4>3. q[i] = c[i] /\ c[i] = f[j]
        BY <1>2, <1>4, <3>1, <4>1
      <4> QED BY <4>2, <4>3
    <3> QED BY <3>2, <3>3
  <2> QED BY <1>1, <2>1, <2>2
<1>6. Len(p) = m + n + 1
  BY <1>1, <1>3
<1>7. p = q
  BY <1>3, <1>4, <1>5, <1>6
<1> QED BY <1>2, <1>7 DEF p, q, c, g

LEMMA ListTotalConcat ==
    ASSUME NEW s \in Seq(Nat), NEW t \in Seq(Nat)
    PROVE  ListTotal(s \o t) = ListTotal(s) + ListTotal(t)
<1> DEFINE T == {n \in Nat : \A u \in Seq(Nat) : Len(u) = n => ListTotal(s \o u) = ListTotal(s) + ListTotal(u)}
<1>0. ListTotal(s) \in Nat
  BY ListTotalType
<1>1. 0 \in T
  <2> SUFFICES ASSUME NEW u \in Seq(Nat), Len(u) = 0
               PROVE  ListTotal(s \o u) = ListTotal(s) + ListTotal(u)
    OBVIOUS
  <2>1. u = <<>> /\ s \o u = s
    OBVIOUS
  <2> QED BY <1>0, <2>1, ListTotalEmpty
<1>2. ASSUME NEW n \in T PROVE n + 1 \in T
  <2> SUFFICES ASSUME NEW u \in Seq(Nat), Len(u) = n + 1
               PROVE  ListTotal(s \o u) = ListTotal(s) + ListTotal(u)
    OBVIOUS
  <2>1. PICK f \in Seq(Nat) : Len(f) = n /\ u[n + 1] \in Nat /\ u = Append(f, u[n + 1])
    <3>1. u[n + 1] \in Nat /\ \E f \in Seq(Nat) : FrontOf(f, u, n)
      BY FrontAndLast
    <3> QED BY <3>1 DEF FrontOf
  <2>2. PICK x \in Nat : x = u[n + 1]
    BY <2>1
  <2>3. u = Append(f, x)
    BY <2>1, <2>2
  <2>4. s \o Append(f, x) = Append(s \o f, x) /\ s \o f \in Seq(Nat)
    BY ConcatAppend
  <2>5. ListTotal(s \o f) = ListTotal(s) + ListTotal(f)
    BY <2>1
  <2>6. ListTotal(Append(s \o f, x)) = ListTotal(s \o f) + x
    BY <2>4, ListTotalAppend
  <2>7. ListTotal(u) = ListTotal(f) + x /\ ListTotal(f) \in Nat
    BY <2>3, ListTotalAppend, ListTotalType
  <2>8. ListTotal(s \o u) = ListTotal(s) + ListTotal(f) + x
    BY <2>3, <2>4, <2>5, <2>6
  <2> QED BY <1>0, <2>7, <2>8
<1> HIDE DEF T
<1>3. T = Nat
  <2>1. T \subseteq Nat
    BY DEF T
  <2> QED BY <1>1, <1>2, <2>1, SetInduction
<1> QED BY <1>3 DEF T

(* The sum of f along a list without duplicates is the sum over its members. *)
LEMMA ListTotalRange ==
    ASSUME NEW A, NEW f \in [A -> Nat], NEW s \in Seq(A), IsInjective(s)
    PROVE  /\ ListTotal([i \in DOMAIN s |-> f[s[i]]]) = Total(f, Range(s))
           /\ IsFiniteSet(Range(s))
<1>0. \A B \in SUBSET A : IsFiniteSet(B) =>
          \A y \in A : y \notin B => Total(f, B \cup {y}) = f[y] + Total(f, B)
  BY TotalJoin, Zenon
<1> DEFINE Along(u) == [i \in DOMAIN u |-> f[u[i]]]
           Good(u) == ListTotal(Along(u)) = Total(f, Range(u)) /\ IsFiniteSet(Range(u))
           T == {n \in Nat : \A u \in Seq(A) : Len(u) = n /\ IsInjective(u) => Good(u)}
<1>1. 0 \in T
  <2> SUFFICES ASSUME NEW u \in Seq(A), Len(u) = 0 PROVE Good(u)
    OBVIOUS
  <2>1. u = <<>> /\ Along(u) = <<>>
    OBVIOUS
  <2>2. Range(u) = {}
    BY <2>1, EmptyList
  <2> QED BY <2>1, <2>2, ListTotalEmpty, TotalZero, FS_EmptySet
<1>2. ASSUME NEW n \in T PROVE n + 1 \in T
  <2> SUFFICES ASSUME NEW u \in Seq(A), Len(u) = n + 1, IsInjective(u) PROVE Good(u)
    OBVIOUS
  <2>0. n \in Nat
    OBVIOUS
  <2>1. PICK v \in Seq(A) : /\ Len(v) = n /\ u[n + 1] \in A /\ u = Append(v, u[n + 1])
                            /\ \A i \in 1..n : v[i] = u[i]
    <3>1. u[n + 1] \in A /\ \E v \in Seq(A) : FrontOf(v, u, n)
      BY <2>0, FrontAndLast
    <3> QED BY <3>1 DEF FrontOf
  <2>2. PICK x \in A : x = u[n + 1]
    BY <2>1
  <2>3. DOMAIN v = 1..n /\ DOMAIN u = 1..(n + 1) /\ \A i \in 1..n : i \in 1..(n + 1) /\ i # n + 1
    BY <2>1
  <2>4. IsInjective(v)
    BY <2>1, <2>3 DEF IsInjective
  <2>5. x \notin Range(v)
    BY <2>1, <2>2, <2>3 DEF IsInjective, Range
  <2>6. Good(v)
    BY <2>1, <2>4
  <2>7. Range(u) = Range(v) \cup {x} /\ Range(v) \in SUBSET A
    <3>1. u = Append(v, x)
      BY <2>1, <2>2
    <3>2. Range(Append(v, x)) = Range(v) \cup {x} /\ Range(v) \subseteq A
      BY AppendList, RangeOfList
    <3> QED BY <3>1, <3>2
  <2>8. Total(f, Range(u)) = f[x] + Total(f, Range(v)) /\ IsFiniteSet(Range(u)) /\ Total(f, Range(v)) \in Nat
    <3>1. PICK R : R = Range(v)
      OBVIOUS
    <3>2. IsFiniteSet(R) /\ R \in SUBSET A /\ x \notin R
      BY <2>5, <2>6, <2>7, <3>1
    <3>3. Total(f, R \cup {x}) = f[x] + Total(f, R)
      BY <1>0, <3>2
    <3>4. IsFiniteSet(R \cup {x})
      BY <3>2, FS_AddElement
    <3>5. Total(f, R) \in Nat
      BY <3>2, TotalType
    <3> QED BY <2>7, <3>1, <3>3, <3>4, <3>5
  <2>9. Along(v) \in Seq(Nat) /\ Along(u) = Append(Along(v), f[x])
    <3>1. Along(v) \in [1..n -> Nat]
      BY <2>3
    <3>2. Along(v) \in Seq(Nat) /\ Len(Along(v)) = n
      BY <3>1
    <3>3. Along(u) \in [1..(n + 1) -> Nat]
      BY <2>3
    <3>4. Along(u) \in Seq(Nat) /\ Len(Along(u)) = n + 1
      BY <3>3
    <3>5. /\ \A i \in 1..n : Along(u)[i] = Along(v)[i]
          /\ Along(u)[n + 1] = f[x]
      BY <2>1, <2>2, <2>3
    <3>6. f[x] \in Nat
      OBVIOUS
    <3> HIDE DEF Along
    <3> DEFINE w == Append(Along(v), f[x])
    <3>7. w \in Seq(Nat) /\ Len(w) = n + 1 /\ w[n + 1] = f[x] /\ \A i \in 1..n : w[i] = Along(v)[i]
      BY <3>2, <3>6
    <3>8. \A i \in 1..(n + 1) : i \in 1..n \/ i = n + 1
      OBVIOUS
    <3> HIDE DEF w
    <3>9. Along(u) = w
      BY <3>4, <3>5, <3>7, <3>8
    <3> QED BY <3>2, <3>9 DEF w
  <2> HIDE DEF Along
  <2>10. ListTotal(Along(u)) = ListTotal(Along(v)) + f[x]
    BY <2>9, ListTotalAppend
  <2> QED BY <2>6, <2>8, <2>10
<1> HIDE DEF T
<1>3. T = Nat
  <2>1. T \subseteq Nat
    BY DEF T
  <2> QED BY <1>1, <1>2, <2>1, SetInduction
<1> QED BY <1>3 DEF T

=============================================================================
