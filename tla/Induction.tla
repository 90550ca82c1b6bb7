------------------------------ MODULE Induction ------------------------------
(***************************************************************************)
(* Induction over the natural numbers as a statement about sets, and what  *)
(* it gives of the recursive functions on a sequence.  The library's       *)
(* theorems on induction take a predicate as parameter; that every set of  *)
(* naturals has a least element follows from one that does not.            *)
(***************************************************************************)
EXTENDS Integers, Sequences, WellFoundedInduction, TLAPS

LEMMA LeastElement ==
  ASSUME NEW T \in SUBSET Nat, T # {}
  PROVE  \E n \in T : \A m \in T : n <= m
<1> DEFINE R == OpToRel(<, Nat)
<1>1. IsWellFoundedOn(R, Nat)
  BY NatLessThanWellFounded
<1>2. \A m, n \in Nat : m < n => <<m, n>> \in R
  BY DEF OpToRel
<1> HIDE DEF R
<1>3. PICK n \in T : \A m \in T : <<m, n>> \notin R
  BY <1>1, WFMin
<1>4. T \subseteq Nat
  OBVIOUS
<1>5. \A m \in T : ~(m < n)
  BY <1>2, <1>3, <1>4
<1>6. \A m \in T : n <= m
  BY ONLY <1>4, <1>5, n \in T
<1> QED BY <1>6

LEMMA SetInduction ==
  ASSUME NEW S, 0 \in S, \A n \in Nat : n \in S => n + 1 \in S
  PROVE  Nat \subseteq S
<1> DEFINE T == Nat \ S
<1> SUFFICES ASSUME T # {} PROVE FALSE
  OBVIOUS
<1>1. PICK n \in T : \A m \in T : n <= m
  BY LeastElement
<1>2. n # 0 /\ n - 1 \in Nat /\ n - 1 \notin T
  BY <1>1
<1> QED BY <1>1, <1>2

-----------------------------------------------------------------------------
(* Division, which rounds towards minus infinity. *)
LEMMA Division ==
  ASSUME NEW d \in Int, d > 0, NEW a \in Int
  PROVE  /\ a \div d \in Int /\ a % d \in 0 .. d - 1
         /\ a = d * (a \div d) + (a % d)
<1>1. a = d * (a \div d) + (a % d)
  OBVIOUS
<1>2. a \div d \in Int
  OBVIOUS
<1>3. a % d \in 0 .. d - 1
  OBVIOUS
<1> QED BY <1>1, <1>2, <1>3

LEMMA Quotient ==
  ASSUME NEW d \in Int, d > 0, NEW q \in Int, NEW r \in 0 .. d - 1
  PROVE  (d * q + r) \div d = q /\ (d * q + r) % d = r
  OBVIOUS

\* One turn is all that an addition or a subtraction takes.
LEMMA Turn ==
  ASSUME NEW d \in Int, d > 0, NEW a \in Int, - d <= a, a < 2 * d
  PROVE  a % d = IF a < 0 THEN a + d ELSE IF a < d THEN a ELSE a - d
<1>1. CASE a < 0
  BY <1>1
<1>2. CASE 0 <= a /\ a < d
  BY <1>2
<1>3. CASE d <= a
  BY <1>3
<1> QED BY <1>1, <1>2, <1>3

\* Two quotients together cut off less than two.
LEMMA DivisionOfSums ==
  ASSUME NEW d \in Int, d > 0, NEW a \in Int, NEW b \in Int
  PROVE  (a + b) \div d - a \div d - b \div d \in {0, 1}
<1> DEFINE e == (a + b) \div d - a \div d - b \div d
<1>1. /\ a \div d \in Int /\ a % d \in 0 .. d - 1 /\ a = d * (a \div d) + (a % d)
      /\ b \div d \in Int /\ b % d \in 0 .. d - 1 /\ b = d * (b \div d) + (b % d)
  BY Division
<1>2. /\ (a + b) \div d \in Int /\ (a + b) % d \in 0 .. d - 1
      /\ a + b = d * ((a + b) \div d) + ((a + b) % d)
  BY Division, a + b \in Int
<1>3. d * e = (a % d) + (b % d) - ((a + b) % d)
  BY ONLY <1>1, <1>2, d \in Int
<1>4. e \in Int /\ - d < d * e /\ d * e < 2 * d
  BY ONLY <1>1, <1>2, <1>3, d \in Int
<1> HIDE DEF e
<1>5. e \in {0, 1}
  BY ONLY <1>4, d \in Int, d > 0
<1> QED BY <1>5 DEF e

-----------------------------------------------------------------------------
(* The sums of the beginnings of a sequence. *)
Adds(f, s, n) == f = [k \in 0 .. n |-> IF k = 0 THEN 0 ELSE f[k - 1] + s[k]]
SumsOf(s) == CHOOSE f : Adds(f, s, Len(s))
Sum(s) == SumsOf(s)[Len(s)]

LEMMA SumsExist ==
  ASSUME NEW s
  PROVE  \A n \in Nat : \E f : Adds(f, s, n)
<1> DEFINE S == {n \in Nat : \E f : Adds(f, s, n)}
<1>1. 0 \in S
  <2> DEFINE f == [k \in 0 .. 0 |-> 0]
  <2>1. Adds(f, s, 0)
    BY DEF Adds
  <2> QED BY <2>1
<1>2. ASSUME NEW n \in Nat, n \in S PROVE n + 1 \in S
  <2>1. PICK f : Adds(f, s, n)
    BY <1>2
  <2> DEFINE g == [k \in 0 .. n + 1 |-> IF k = n + 1 THEN f[n] + s[n + 1] ELSE f[k]]
  <2>2. \A k \in 0 .. n : f[k] = IF k = 0 THEN 0 ELSE f[k - 1] + s[k]
    BY <2>1 DEF Adds
  <2>3. \A k \in 0 .. n + 1 : g[k] = IF k = 0 THEN 0 ELSE g[k - 1] + s[k]
    BY <2>2
  <2>4. g = [k \in 0 .. n + 1 |-> g[k]]
    OBVIOUS
  <2> HIDE DEF g
  <2>5. Adds(g, s, n + 1)
    BY <2>3, <2>4 DEF Adds
  <2> QED BY <2>5
<1> HIDE DEF S
<1>3. Nat \subseteq S
  BY <1>1, <1>2, SetInduction
<1> QED BY <1>3 DEF S

LEMMA SumSteps ==
  ASSUME NEW s \in Seq(Int)
  PROVE  \A k \in 0 .. Len(s) :
           SumsOf(s)[k] = IF k = 0 THEN 0 ELSE SumsOf(s)[k - 1] + s[k]
<1>1. \E f : Adds(f, s, Len(s))
  BY SumsExist, Len(s) \in Nat
<1>2. Adds(SumsOf(s), s, Len(s))
  BY <1>1 DEF SumsOf
<1> QED BY <1>2 DEF Adds

(* A sequence of naturals has a sum, and the sum is a natural number. *)
LEMMA SumsNat ==
  ASSUME NEW s \in Seq(Nat)
  PROVE  \A k \in 0 .. Len(s) : SumsOf(s)[k] \in Nat
<1> DEFINE S == {n \in Nat : n <= Len(s) => SumsOf(s)[n] \in Nat}
<1>0. s \in Seq(Int) /\ Len(s) \in Nat /\ \A k \in 1 .. Len(s) : s[k] \in Nat
  OBVIOUS
<1>1. 0 \in S
  BY <1>0, SumSteps
<1>2. ASSUME NEW n \in Nat, n \in S PROVE n + 1 \in S
  <2> SUFFICES ASSUME n + 1 <= Len(s) PROVE SumsOf(s)[n + 1] \in Nat
    OBVIOUS
  <2>1. SumsOf(s)[n + 1] = SumsOf(s)[n] + s[n + 1]
    BY <1>0, SumSteps
  <2> QED BY <1>0, <1>2, <2>1
<1> HIDE DEF S
<1>3. Nat \subseteq S
  BY <1>1, <1>2, SetInduction
<1> QED BY <1>0, <1>3 DEF S

LEMMA SumNat ==
  ASSUME NEW s \in Seq(Nat) PROVE Sum(s) \in Nat
<1>1. Len(s) \in Nat
  OBVIOUS
<1> QED BY <1>1, SumsNat DEF Sum

(* What f[k] is in a table of sums of the first k values of a. *)
SumsUp(f, a, n) ==
  /\ f[0] = 0 /\ \A k \in 0 .. n : f[k] \in Int
  /\ \A k \in 1 .. n : a[k] \in Int /\ f[k] = f[k - 1] + a[k]

LEMMA SumsUpAre ==
  ASSUME NEW s \in Seq(Nat) PROVE SumsUp(SumsOf(s), s, Len(s))
<1>1. s \in Seq(Int) /\ Len(s) \in Nat /\ \A k \in 1 .. Len(s) : s[k] \in Int
  OBVIOUS
<1>2. \A k \in 0 .. Len(s) :
        SumsOf(s)[k] = IF k = 0 THEN 0 ELSE SumsOf(s)[k - 1] + s[k]
  BY <1>1, SumSteps
<1>3. \A k \in 0 .. Len(s) : SumsOf(s)[k] \in Nat
  BY SumsNat
<1> QED BY ONLY <1>1, <1>2, <1>3 DEF SumsUp

EachAdds(a, b, c, n) == \A k \in 1 .. n : a[k] = b[k] + c[k]

LEMMA TablesAddUp ==
  ASSUME NEW n \in Nat, NEW f, NEW g, NEW h, NEW a, NEW b, NEW c,
         SumsUp(f, a, n), SumsUp(g, b, n), SumsUp(h, c, n), EachAdds(a, b, c, n)
  PROVE  f[n] = g[n] + h[n]
<1> DEFINE S == {k \in Nat : k <= n => f[k] = g[k] + h[k]}
<1>1. 0 \in S
  BY DEF SumsUp
<1>2. ASSUME NEW k \in Nat, k \in S PROVE k + 1 \in S
  BY <1>2 DEF SumsUp, EachAdds
<1> HIDE DEF S
<1>3. Nat \subseteq S
  BY <1>1, <1>2, SetInduction
<1> QED BY <1>3 DEF S

(* Sums add up element by element. *)
LEMMA SumOfSums ==
  ASSUME NEW a \in Seq(Nat), NEW b \in Seq(Nat), NEW c \in Seq(Nat),
         Len(a) = Len(b), Len(a) = Len(c),
         \A k \in 1 .. Len(a) : a[k] = b[k] + c[k]
  PROVE  Sum(a) = Sum(b) + Sum(c)
<1> DEFINE n == Len(a)
<1>1. n \in Nat /\ Len(b) = n /\ Len(c) = n
  OBVIOUS
<1>2. SumsUp(SumsOf(a), a, n) /\ SumsUp(SumsOf(b), b, n) /\ SumsUp(SumsOf(c), c, n)
  BY <1>1, SumsUpAre
<1>3. EachAdds(a, b, c, n)
  BY DEF EachAdds
<1> HIDE DEF n
<1>4. n \in Nat
  BY ONLY <1>1
<1>5. SumsOf(a)[n] = SumsOf(b)[n] + SumsOf(c)[n]
  BY ONLY <1>2, <1>3, <1>4, TablesAddUp
<1> QED BY <1>1, <1>5 DEF Sum, n
=============================================================================
