----------------------------- MODULE Sums_proofs -----------------------------
(***************************************************************************)
(* What Total computes for every sequence.  FoldLeft is a recursive        *)
(* function on the subsets of the sequence's domain, which it takes apart  *)
(* at their greatest element; what it is on 1..k follows by induction on   *)
(* k.  The induction is that of SetInduction, which needs no operator as a *)
(* parameter: a set that holds 0 and with each number the next is Nat.     *)
(***************************************************************************)
EXTENDS Sums, FiniteSetTheorems, TLAPS

\* Induction: were k not in T, n |-> n + 1 would be an injection of the finite set
\* T \cap 0..k into itself that does not reach 0.
LEMMA SetInduction ==
  ASSUME NEW T \in SUBSET Nat, 0 \in T, \A n \in T : n + 1 \in T
  PROVE  T = Nat
<1> SUFFICES ASSUME NEW k \in Nat, k \notin T PROVE FALSE OBVIOUS
<1> DEFINE A == T \cap (0..k)
<1>1. IsFiniteSet(A) 
  <2>1. IsFiniteSet(0..k) BY FS_Interval
  <2> QED BY <2>1, FS_Subset
<1> DEFINE s == [x \in A |-> x + 1]
<1>2. s \in [A -> A] OBVIOUS
<1>3. s \in Injection(A, A) BY <1>2 DEF Injection, IsInjective
<1>4. s \in Surjection(A, A) 
  <2> HIDE DEF A, s
  <2> QED BY <1>1, <1>3, FS_Injection
<1>5. 0 \in A OBVIOUS
<1>6. PICK x \in A : s[x] = 0 BY <1>4, <1>5 DEF Surjection
<1> QED BY <1>6

\* A nonempty set of numbers has a least element.
LEMMA LeastOf ==
  ASSUME NEW s \in SUBSET Nat, s # {}
  PROVE  \E x \in s : \A y \in s : x <= y
<1> SUFFICES ASSUME \A x \in s : \E y \in s : ~(x <= y) PROVE FALSE OBVIOUS
<1> DEFINE T == {n \in Nat : \A y \in s : n <= y}
<1>1. 0 \in T OBVIOUS
<1>2. ASSUME NEW n \in T PROVE n + 1 \in T
  <2>1. n \notin s
    <3>1. \A y \in s : n <= y OBVIOUS
    <3> QED BY <3>1
  <2>2. ASSUME NEW y \in s PROVE n + 1 <= y
    <3>1. n <= y /\ y # n /\ y \in Nat /\ n \in Nat BY <2>1
    <3> QED BY <3>1
  <2> QED BY <2>2
<1>3. T = Nat
  <2> HIDE DEF T
  <2> QED BY <1>1, <1>2, SetInduction, T \subseteq Nat DEF T
<1>4. PICK y \in s : TRUE OBVIOUS
<1>5. y + 1 \in T BY <1>3
<1>6. y + 1 <= y BY <1>4, <1>5
<1> QED BY <1>6

\* A nonempty set of numbers up to n has a greatest element.
LEMMA MaxOf ==
  ASSUME NEW n \in Nat, NEW s \in SUBSET (1..n), s # {}
  PROVE  Max(s) \in s /\ \A y \in s : y <= Max(s)
<1>1. \E x \in s : \A y \in s : x >= y
  <2> SUFFICES ASSUME \A x \in s : \E y \in s : ~(x >= y) PROVE FALSE OBVIOUS
  <2> DEFINE T == {k \in Nat : \E y \in s : y >= k}
  <2>1. 0 \in T
    <3>1. PICK y \in s : TRUE OBVIOUS
    <3>2. y \in Nat OBVIOUS
    <3> QED BY <3>1, <3>2
  <2>2. \A k \in T : k + 1 \in T
    <3> SUFFICES ASSUME NEW k \in T PROVE k + 1 \in T OBVIOUS
    <3>1. PICK y \in s : y >= k OBVIOUS
    <3>2. PICK z \in s : ~(y >= z) OBVIOUS
    <3> QED BY <3>1, <3>2
  <2>3. T = Nat
    <3> HIDE DEF T
    <3> QED BY <2>1, <2>2, SetInduction, T \subseteq Nat DEF T
  <2>4. n + 1 \in T BY <2>3
  <2> QED BY <2>4
<1>2. \A x, y \in s : x >= y <=> y <= x OBVIOUS
<1> QED BY <1>1, <1>2 DEF Max

\* The recursion of FoldLeft, and the function it defines.
Body(q, g, s) == IF s = {} THEN 0 ELSE g[s \ {Max(s)}] + q[Max(s)]
Iter(q) ==
  CHOOSE g : g = [s \in SUBSET (DOMAIN q) |->
                    IF s = {} THEN 0 ELSE g[s \ {Max(s)}] + q[Max(s)]]

\* Total is the recursive function of FoldLeft, applied to the whole domain.
LEMMA TotalIsIter == ASSUME NEW q PROVE Total(q) = Iter(q)[DOMAIN q]
BY DEF Total, FoldLeft, MapThenFoldSet, Iter

\* There is a function that satisfies the recursion.
LEMMA IterExists ==
  ASSUME NEW q, NEW n \in Nat
  PROVE \E g : g = [s \in SUBSET (1..n) |-> Body(q, g, s)]
<1> DEFINE P(k) == \E g : g = [s \in SUBSET (1..k) |-> Body(q, g, s)]
           T == {k \in Nat : P(k)}
<1>1. 0 \in T
  <2> DEFINE g == [s \in SUBSET (1..0) |-> 0]
  <2>1. g = [s \in SUBSET (1..0) |-> Body(q, g, s)] BY DEF Body
  <2> QED BY <2>1
<1>2. ASSUME NEW k \in T PROVE k + 1 \in T
  <2>1. PICK g : g = [s \in SUBSET (1..k) |-> Body(q, g, s)] OBVIOUS
  <2> DEFINE h == [s \in SUBSET (1..(k+1)) |-> Body(q, g, s)]
  <2>2. ASSUME NEW t \in SUBSET (1..k) PROVE h[t] = g[t]
    <3>1. g[t] = Body(q, g, t) BY <2>1
    <3>2. t \in SUBSET (1..(k+1)) OBVIOUS
    <3> QED BY <3>1, <3>2
  <2>3. ASSUME NEW s \in SUBSET (1..(k+1)) PROVE Body(q, h, s) = Body(q, g, s)
    <3>1. CASE s = {} BY <3>1 DEF Body
    <3>2. CASE s # {}
      <4>1. Max(s) \in s /\ \A y \in s : y <= Max(s) BY <3>2, MaxOf, k + 1 \in Nat
      <4> DEFINE t == s \ {Max(s)}
      <4>2. t \in SUBSET (1..k)
        <5> SUFFICES ASSUME NEW y \in t PROVE y \in 1..k OBVIOUS
        <5>1. y \in 1..(k + 1) /\ Max(s) \in 1..(k + 1) BY <4>1
        <5>2. y # Max(s) /\ y <= Max(s) BY <4>1
        <5> HIDE DEF t
        <5> QED BY <5>1, <5>2
      <4>3. h[t] = g[t] BY <2>2, <4>2
      <4> QED BY <3>2, <4>3 DEF Body
    <3> QED BY <3>1, <3>2
  <2>4. h = [s \in SUBSET (1..(k+1)) |-> Body(q, h, s)] BY <2>3
  <2>5. P(k + 1)
    <3> HIDE DEF h
    <3> QED BY <2>4
  <2> QED BY <2>5
<1>3. T = Nat
  <2> HIDE DEF T
  <2> QED BY <1>1, <1>2, SetInduction, T \subseteq Nat DEF T
<1> QED BY <1>3

\* The recursion on the initial segments of the domain.
LEMMA IterStep ==
  ASSUME NEW q \in Seq(Int)
  PROVE  /\ Iter(q)[{}] = 0
         /\ \A k \in 1..Len(q) : Iter(q)[1..k] = Iter(q)[1..(k-1)] + q[k]
<1>1. \E g : g = [s \in SUBSET (DOMAIN q) |-> Body(q, g, s)]
  <2>1. Len(q) \in Nat /\ DOMAIN q = 1..Len(q) OBVIOUS
  <2>2. \E g : g = [s \in SUBSET (1..Len(q)) |-> Body(q, g, s)] BY <2>1, IterExists
  <2> QED BY <2>1, <2>2, Zenon
<1>2. Iter(q) = [s \in SUBSET (DOMAIN q) |-> Body(q, Iter(q), s)]
   BY <1>1 DEF Iter, Body
<1>3. Iter(q)[{}] = 0 BY <1>2 DEF Body
<1>4. ASSUME NEW k \in 1..Len(q) PROVE Iter(q)[1..k] = Iter(q)[1..(k-1)] + q[k]
  <2>1. 1..k \in SUBSET (1..Len(q)) /\ 1..k \in SUBSET (DOMAIN q) /\ 1..k # {}
    <3>1. k \in 1..k /\ 1..k \in SUBSET (1..Len(q)) OBVIOUS
    <3>2. DOMAIN q = 1..Len(q) OBVIOUS
    <3> QED BY <3>1, <3>2, Zenon
  <2>2. Max(1..k) \in 1..k /\ \A y \in 1..k : y <= Max(1..k) 
    <3>1. k \in Nat /\ 1..k \in SUBSET (1..k) OBVIOUS
    <3> QED BY <3>1, <2>1, MaxOf
  <2>3. Max(1..k) = k BY <2>2
  <2>4. (1..k) \ {k} = 1..(k-1) OBVIOUS
  <2>5. Iter(q)[1..k] = Body(q, Iter(q), 1..k) BY <1>2, <2>1
  <2> QED BY <2>1, <2>3, <2>4, <2>5 DEF Body
<1> QED BY <1>3, <1>4

\* The sums of the initial segments are integers.
LEMMA IterInt ==
  ASSUME NEW q \in Seq(Int)
  PROVE  \A k \in 0..Len(q) : Iter(q)[1..k] \in Int
<1> DEFINE T == {k \in Nat : k <= Len(q) => Iter(q)[1..k] \in Int}
<1>1. 0 \in T BY IterStep, 1..0 = {}
<1>2. ASSUME NEW k \in T PROVE k + 1 \in T
   <2> SUFFICES ASSUME k + 1 <= Len(q) PROVE Iter(q)[1..(k+1)] \in Int OBVIOUS
   <2>1. Iter(q)[1..(k+1)] = Iter(q)[1..((k+1)-1)] + q[k+1] BY IterStep, k + 1 \in 1..Len(q)
   <2>2. q[k+1] \in Int BY k + 1 \in 1..Len(q)
   <2> QED BY <2>1, <2>2
<1>3. T = Nat
  <2> HIDE DEF T
  <2> QED BY <1>1, <1>2, SetInduction, T \subseteq Nat DEF T
<1> QED BY <1>3

\* Nothing sums up to zero.
LEMMA TotalOfNothing == Total(<<>>) = 0
BY TotalIsIter, IterStep, <<>> \in Seq(Int), DOMAIN <<>> = {}

\* A sum of integers is an integer.
LEMMA TotalIsInt == ASSUME NEW q \in Seq(Int) PROVE Total(q) \in Int
BY TotalIsIter, IterInt, DOMAIN q = 1..Len(q), Len(q) \in 0..Len(q)

\* One more number adds to the sum.
LEMMA TotalAppend ==
  ASSUME NEW q \in Seq(Int), NEW x \in Int
  PROVE  Total(Append(q, x)) = Total(q) + x
<1> DEFINE r == Append(q, x)
<1>0. r \in Seq(Int) /\ Len(r) = Len(q) + 1 /\ r[Len(q) + 1] = x
      /\ \A k \in 1..Len(q) : r[k] = q[k]
  OBVIOUS
<1> DEFINE T == {k \in Nat : k <= Len(q) => Iter(r)[1..k] = Iter(q)[1..k]}
<1> HIDE DEF r
<1>1. 0 \in T BY IterStep, 1..0 = {}, <1>0
<1>2. ASSUME NEW k \in T PROVE k + 1 \in T
   <2> SUFFICES ASSUME k + 1 <= Len(q) PROVE Iter(r)[1..(k+1)] = Iter(q)[1..(k+1)] OBVIOUS
   <2>1. Iter(q)[1..(k+1)] = Iter(q)[1..((k+1)-1)] + q[k+1] BY IterStep, k + 1 \in 1..Len(q)
   <2>2. Iter(r)[1..(k+1)] = Iter(r)[1..((k+1)-1)] + r[k+1] 
     <3>1. k + 1 \in 1..Len(r) BY <1>0
     <3>2. \A j \in 1..Len(r) : Iter(r)[1..j] = Iter(r)[1..(j-1)] + r[j] BY <1>0, IterStep
     <3> QED BY <3>1, <3>2
   <2>3. r[k+1] = q[k+1] BY <1>0
   <2> QED BY <2>1, <2>2, <2>3
<1>3. T = Nat
  <2> HIDE DEF T
  <2> QED BY <1>1, <1>2, SetInduction, T \subseteq Nat DEF T
<1>4. Iter(r)[1..Len(q)] = Iter(q)[1..Len(q)] BY <1>3
<1>5. Iter(r)[1..Len(r)] = Iter(r)[1..(Len(r)-1)] + r[Len(r)]
  <2>1. Len(r) \in 1..Len(r) BY <1>0
  <2>2. \A j \in 1..Len(r) : Iter(r)[1..j] = Iter(r)[1..(j-1)] + r[j] BY <1>0, IterStep
  <2> QED BY <2>1, <2>2
<1>6. Len(r) - 1 = Len(q) BY <1>0
<1>7. Total(r) = Iter(r)[1..Len(r)] BY <1>0, TotalIsIter
<1>8. Total(q) = Iter(q)[1..Len(q)] BY TotalIsIter
<1>9. Total(r) = Total(q) + x BY <1>0, <1>4, <1>5, <1>6, <1>7, <1>8
<1> QED BY <1>9 DEF r

\* A number replaced changes the sum by the difference.
LEMMA TotalChange ==
  ASSUME NEW q \in Seq(Int), NEW r \in Seq(Int), NEW n, NEW c \in 1..n,
         Len(q) = n, Len(r) = n, \A k \in 1..n : k # c => r[k] = q[k]
  PROVE  Total(r) = Total(q) + (r[c] - q[c])
<1> DEFINE T == {k \in Nat : k <= Len(q) =>
                   Iter(r)[1..k] = Iter(q)[1..k] + (IF c <= k THEN r[c] - q[c] ELSE 0)}
<1>0. r[c] \in Int /\ q[c] \in Int /\ Len(q) \in Nat OBVIOUS
<1>1. 0 \in T
  <2>1. Iter(r)[1..0] = 0 /\ Iter(q)[1..0] = 0 BY IterStep, 1..0 = {}
  <2> QED BY <2>1
<1>2. ASSUME NEW k \in T PROVE k + 1 \in T
  <2> SUFFICES ASSUME k + 1 <= Len(q)
               PROVE  Iter(r)[1..(k+1)]
                        = Iter(q)[1..(k+1)] + (IF c <= k + 1 THEN r[c] - q[c] ELSE 0)
    OBVIOUS
  <2>1. Iter(q)[1..(k+1)] = Iter(q)[1..k] + q[k+1]
    <3>1. Iter(q)[1..(k+1)] = Iter(q)[1..((k+1)-1)] + q[k+1] BY IterStep, k + 1 \in 1..Len(q)
    <3> QED BY <3>1, (k + 1) - 1 = k
  <2>2. Iter(r)[1..(k+1)] = Iter(r)[1..k] + r[k+1]
    <3>1. Iter(r)[1..(k+1)] = Iter(r)[1..((k+1)-1)] + r[k+1] BY IterStep, k + 1 \in 1..Len(r)
    <3> QED BY <3>1, (k + 1) - 1 = k
  <2>3. Iter(r)[1..k] = Iter(q)[1..k] + (IF c <= k THEN r[c] - q[c] ELSE 0) OBVIOUS
  <2>4. Iter(q)[1..k] \in Int BY IterInt, k \in 0..Len(q)
  <2>5. q[k+1] \in Int /\ r[k+1] \in Int OBVIOUS
  <2>6. k + 1 # c => r[k+1] = q[k+1] OBVIOUS
  <2> DEFINE a == Iter(q)[1..k]
             b == Iter(r)[1..k]
             x == q[k+1]
             y == r[k+1]
             u == q[c]
             v == r[c]
  <2>7. a \in Int /\ x \in Int /\ y \in Int /\ u \in Int /\ v \in Int BY <1>0, <2>4, <2>5
  <2>8. b = a + (IF c <= k THEN v - u ELSE 0) BY <2>3
  <2>9. (k + 1 # c => y = x) /\ (k + 1 = c => y = v /\ x = u) BY <2>6
  <2>10. Iter(q)[1..(k+1)] = a + x /\ Iter(r)[1..(k+1)] = b + y BY <2>1, <2>2
  <2>11. c \in Int /\ k \in Int BY <1>0
  <2> HIDE DEF T, a, b, x, y, u, v
  <2>12. b + y = (a + x) + (IF c <= k + 1 THEN v - u ELSE 0)
    <3>1. CASE c <= k BY <2>7, <2>8, <2>9, <2>11, <3>1
    <3>2. CASE c = k + 1 BY <2>7, <2>8, <2>9, <2>11, <3>2
    <3>3. CASE c > k + 1 BY <2>7, <2>8, <2>9, <2>11, <3>3
    <3> QED BY <2>11, <3>1, <3>2, <3>3
  <2> QED BY <2>10, <2>12 DEF u, v
<1>3. T = Nat
  <2> HIDE DEF T
  <2> QED BY <1>1, <1>2, SetInduction, T \subseteq Nat DEF T
<1>4. Iter(r)[1..Len(q)] = Iter(q)[1..Len(q)] + (r[c] - q[c])
  <2>1. Len(q) \in T /\ Len(q) <= Len(q) /\ c <= Len(q) BY <1>0, <1>3
  <2> QED BY <2>1
<1>5. Total(r) = Iter(r)[1..Len(r)] BY TotalIsIter
<1>6. Total(q) = Iter(q)[1..Len(q)] BY TotalIsIter
<1> QED BY <1>4, <1>5, <1>6

\* Zeros at the end do not change the sum.
LEMMA TotalZeros ==
  ASSUME NEW q \in Seq(Int), NEW r \in Seq(Int), Len(q) <= Len(r),
         \A k \in 1..Len(q) : r[k] = q[k],
         \A k \in 1..Len(r) : k > Len(q) => r[k] = 0
  PROVE  Total(r) = Total(q)
<1> DEFINE T == {k \in Nat : k <= Len(r) =>
                   Iter(r)[1..k] = Iter(q)[1..(IF k <= Len(q) THEN k ELSE Len(q))]}
<1>0. Len(q) \in Nat /\ Len(r) \in Nat OBVIOUS
<1>1. 0 \in T
  <2>1. Iter(r)[1..0] = 0 /\ Iter(q)[1..0] = 0 BY IterStep, 1..0 = {}
  <2> QED BY <2>1, <1>0
<1>2. ASSUME NEW k \in T PROVE k + 1 \in T
  <2> SUFFICES ASSUME k + 1 <= Len(r)
               PROVE  Iter(r)[1..(k+1)]
                        = Iter(q)[1..(IF k + 1 <= Len(q) THEN k + 1 ELSE Len(q))]
    OBVIOUS
  <2>2. Iter(r)[1..(k+1)] = Iter(r)[1..k] + r[k+1]
    <3>1. Iter(r)[1..(k+1)] = Iter(r)[1..((k+1)-1)] + r[k+1] BY IterStep, k + 1 \in 1..Len(r)
    <3> QED BY <3>1, (k + 1) - 1 = k
  <2>3. Iter(r)[1..k] = Iter(q)[1..(IF k <= Len(q) THEN k ELSE Len(q))] OBVIOUS
  <2>4. CASE k + 1 <= Len(q)
    <3>1. Iter(q)[1..(k+1)] = Iter(q)[1..((k+1)-1)] + q[k+1]
      BY <2>4, IterStep, k + 1 \in 1..Len(q)
    <3>2. r[k+1] = q[k+1] BY <2>4, k + 1 \in 1..Len(q)
    <3>3. Iter(r)[1..k] = Iter(q)[1..k]
      <4>1. k <= Len(q) BY <2>4, <1>0
      <4> QED BY <4>1, <2>3
    <3>4. (k + 1) - 1 = k OBVIOUS
    <3>5. Iter(r)[1..(k+1)] = Iter(q)[1..(k+1)] BY <2>2, <3>1, <3>2, <3>3, <3>4
    <3> QED BY <2>4, <3>5
  <2>5. CASE ~(k + 1 <= Len(q))
    <3>1. r[k+1] = 0 BY <2>5, <1>0, k + 1 \in 1..Len(r), k + 1 > Len(q)
    <3>2. (IF k <= Len(q) THEN k ELSE Len(q)) = Len(q) BY <2>5, <1>0
    <3>3. Iter(q)[1..Len(q)] \in Int BY IterInt, <1>0, Len(q) \in 0..Len(q)
    <3>4. Iter(r)[1..k] = Iter(q)[1..Len(q)] BY <2>3, <3>2
    <3>5. Iter(r)[1..(k+1)] = Iter(q)[1..Len(q)] BY <2>2, <3>1, <3>3, <3>4
    <3> QED BY <2>5, <3>5
  <2> QED BY <2>4, <2>5
<1>3. T = Nat
  <2> HIDE DEF T
  <2> QED BY <1>1, <1>2, SetInduction, T \subseteq Nat DEF T
<1>4. Iter(r)[1..Len(r)] = Iter(q)[1..Len(q)]
  <2>1. Iter(r)[1..Len(r)] = Iter(q)[1..(IF Len(r) <= Len(q) THEN Len(r) ELSE Len(q))]
    BY <1>0, <1>3
  <2>2. (IF Len(r) <= Len(q) THEN Len(r) ELSE Len(q)) = Len(q) BY <1>0
  <2> QED BY <2>1, <2>2
<1>5. Total(r) = Iter(r)[1..Len(r)] BY TotalIsIter
<1>6. Total(q) = Iter(q)[1..Len(q)] BY TotalIsIter
<1> QED BY <1>4, <1>5, <1>6

\* Larger numbers have a larger sum.
LEMMA TotalAtMost ==
  ASSUME NEW q \in Seq(Int), NEW r \in Seq(Int), Len(q) = Len(r), \A k \in 1..Len(q) : q[k] <= r[k]
  PROVE  Total(q) <= Total(r)
<1> DEFINE n == Len(q)
           T == {k \in Nat : k <= n => Iter(q)[1..k] <= Iter(r)[1..k]}
<1>0. n \in Nat OBVIOUS
<1>1. 0 \in T
  <2>1. Iter(q)[1..0] = 0 /\ Iter(r)[1..0] = 0 BY IterStep, 1..0 = {}
  <2> QED BY <2>1
<1>2. ASSUME NEW k \in T PROVE k + 1 \in T
  <2> SUFFICES ASSUME k + 1 <= n PROVE Iter(q)[1..(k+1)] <= Iter(r)[1..(k+1)] OBVIOUS
  <2>1. k + 1 \in 1..Len(q) /\ k + 1 \in 1..Len(r) /\ (k + 1) - 1 = k BY <1>0
  <2>2. /\ Iter(q)[1..(k+1)] = Iter(q)[1..k] + q[k+1]
        /\ Iter(r)[1..(k+1)] = Iter(r)[1..k] + r[k+1]
    <3>1. /\ Iter(q)[1..(k+1)] = Iter(q)[1..((k+1)-1)] + q[k+1]
          /\ Iter(r)[1..(k+1)] = Iter(r)[1..((k+1)-1)] + r[k+1]
      BY <2>1, IterStep
    <3> QED BY <2>1, <3>1
  <2>3. Iter(q)[1..k] \in Int /\ Iter(r)[1..k] \in Int BY <2>1, IterInt, k \in 0..Len(q), k \in 0..Len(r)
  <2>4. q[k+1] \in Int /\ r[k+1] \in Int /\ q[k+1] <= r[k+1] BY <2>1
  <2>5. Iter(q)[1..k] <= Iter(r)[1..k] BY <1>0
  <2> QED BY <2>2, <2>3, <2>4, <2>5
<1>3. T = Nat
  <2> HIDE DEF T
  <2> QED BY <1>1, <1>2, SetInduction, T \subseteq Nat DEF T
<1>4. Iter(q)[1..n] <= Iter(r)[1..n] BY <1>0, <1>3
<1> QED BY <1>4, TotalIsIter, DOMAIN q = 1..n, DOMAIN r = 1..n
=============================================================================
