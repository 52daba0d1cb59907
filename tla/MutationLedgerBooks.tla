------------------------ MODULE MutationLedgerBooks -------------------------
(***************************************************************************)
(* Proofs about the books of MutationLedger: the byte counter is the sum   *)
(* of what the records hold, within its limit, and no subtraction wraps.   *)
(*                                                                         *)
(* Reservations folds over a set.  What the fold computes is proved by     *)
(* induction on finite sets, which rests on the least member of a set of   *)
(* natural numbers.                                                        *)
(***************************************************************************)
EXTENDS MutationLedgerProofs, FiniteSetTheorems, WellFoundedInduction

USE Zenon

-----------------------------------------------------------------------------
(* Sums over finite sets *)

Before == {p \in Nat \X Nat : p[1] < p[2]}

\* A set of natural numbers that is not empty has a least member.
LEMMA LeastNatural ==
    ASSUME NEW T, T \subseteq Nat, T # {}
    PROVE  \E x \in T : \A y \in T : x <= y
<1>1. IsWellFoundedOn(Before, Nat)
  BY NatLessThanWellFounded DEF OpToRel, Before
<1>2. PICK x \in T : \A y \in T : <<y, x>> \notin Before
  BY <1>1, WFMin
<1>3. ASSUME NEW y \in T PROVE x <= y
  <2>1. x \in Nat /\ y \in Nat
    OBVIOUS
  <2>2. <<y, x>> \in Nat \X Nat /\ <<y, x>> \notin Before
    BY <1>2, <2>1
  <2>3. ~(y < x)
    BY SMTT(30), <2>2 DEF Before
  <2> QED  BY SMTT(30), <2>1, <2>3
<1> QED  BY <1>3

\* What holds of the empty set, and of a set when it holds without any one member,
\* holds of every subset of a finite set.
LEMMA FiniteInduction ==
    ASSUME NEW R, IsFiniteSet(R), NEW G, {} \in G,
           \A s \in SUBSET R : s # {} /\ (\A x \in s : s \ {x} \in G) => s \in G
    PROVE  \A s \in SUBSET R : s \in G
<1> DEFINE T == {n \in Nat : \E s \in SUBSET R : s \notin G /\ Cardinality(s) = n}
<1>1. \A s \in SUBSET R : IsFiniteSet(s) /\ Cardinality(s) \in Nat
  BY FS_Subset, FS_CardinalityType
<1>2. ASSUME NEW m \in T, \A y \in T : m <= y PROVE FALSE
  <2>1. PICK s \in SUBSET R : s \notin G /\ Cardinality(s) = m
    OBVIOUS
  <2>2. s # {}
    BY <2>1
  <2>3. ASSUME NEW x \in s, s \ {x} \notin G PROVE FALSE
    <3>1. s \ {x} \in SUBSET R /\ Cardinality(s \ {x}) = m - 1
      <4>1. Cardinality(s \ {x}) = IF x \in s THEN Cardinality(s) - 1 ELSE Cardinality(s)
        BY <1>1, FS_RemoveElement
      <4> QED  BY <2>1, <4>1
    <3>2. m - 1 \in Nat
      <4>1. Cardinality(s \ {x}) \in Nat
        BY <1>1, <3>1
      <4> QED  BY <3>1, <4>1
    <3>3. m - 1 \in T
      BY <2>3, <3>1, <3>2
    <3>4. m <= m - 1 /\ m \in Nat
      BY <1>2, <3>3
    <3> HIDE DEF T
    <3> QED  BY SMTT(30), <3>4
  <2> QED  BY <2>1, <2>2, <2>3
<1>3. T = {}
  BY <1>2, LeastNatural
<1>4. ASSUME NEW s \in SUBSET R PROVE s \in G
  BY <1>1, <1>3
<1> QED  BY <1>4

One(s) == CHOOSE r \in s : TRUE
Added(g, h, s) == IF s = {} THEN 0 ELSE h[One(s)] + g[s \ {One(s)}]
Adds(g, h, S) == g = [s \in SUBSET S |-> Added(g, h, s)]
Total(h, S) == (CHOOSE g : Adds(g, h, S))[S]

LEMMA OneIn == ASSUME NEW s, s # {} PROVE One(s) \in s
BY DEF One

\* The fold exists on the subsets of at most n members.
Upto(S, n) == {s \in SUBSET S : Cardinality(s) <= n}
AddsUpto(g, h, S, n) == g = [s \in Upto(S, n) |-> Added(g, h, s)]

LEMMA AddsExists ==
    ASSUME NEW S, IsFiniteSet(S), NEW h
    PROVE  \E g : Adds(g, h, S)
<1>1. \A s \in SUBSET S : IsFiniteSet(s) /\ Cardinality(s) \in Nat /\ Cardinality(s) <= Cardinality(S)
                          /\ (Cardinality(s) = 0 <=> s = {})
                          /\ \A x \in s : Cardinality(s \ {x}) = Cardinality(s) - 1
  BY FS_Subset, FS_CardinalityType, FS_RemoveElement, FS_EmptySet
<1> DEFINE Bad == {n \in Nat : ~\E g : AddsUpto(g, h, S, n)}
<1>2. ASSUME NEW m \in Bad, \A y \in Bad : m <= y PROVE FALSE
  <2>1. CASE m = 0
    <3> DEFINE g == [s \in Upto(S, 0) |-> 0]
    <3>1. ASSUME NEW s \in Upto(S, 0) PROVE 0 = Added(g, h, s)
      <4>1. s \in SUBSET S /\ Cardinality(s) <= 0
        BY DEF Upto
      <4>2. Cardinality(s) \in Nat
        BY <1>1, <4>1
      <4>3. Cardinality(s) = 0
        BY SMTT(30), <4>1, <4>2
      <4> QED  BY <1>1, <4>1, <4>3 DEF Added
    <3>2. g = [s \in Upto(S, 0) |-> Added(g, h, s)]
      BY <3>1
    <3> QED  BY <2>1, <3>2 DEF AddsUpto
  <2>2. CASE m # 0
    <3>1. m \in Nat /\ m - 1 \in Nat /\ ~(m <= m - 1)
      <4>1. m \in Nat
        OBVIOUS
      <4> HIDE DEF Bad
      <4> QED  BY SMTT(30), <2>2, <4>1
    <3>2. PICK g : AddsUpto(g, h, S, m - 1)
      BY <1>2, <3>1
    <3> DEFINE f == [s \in Upto(S, m) |-> IF s = {} THEN 0 ELSE h[One(s)] + g[s \ {One(s)}]]
    <3>3. ASSUME NEW s \in Upto(S, m), s # {} PROVE f[s \ {One(s)}] = g[s \ {One(s)}]
      <4>1. PICK u : u = s \ {One(s)}
        OBVIOUS
      <4>2. One(s) \in s /\ s \in SUBSET S /\ Cardinality(s) <= m
        BY <3>3, OneIn DEF Upto
      <4>3. u \in SUBSET S /\ Cardinality(u) = Cardinality(s) - 1 /\ Cardinality(s) \in Nat
        BY <1>1, <4>1, <4>2
      <4>4. Cardinality(u) <= m - 1 /\ Cardinality(u) <= m
        BY SMTT(30), <3>1, <4>2, <4>3
      <4>5. u \in Upto(S, m) /\ u \in Upto(S, m - 1)
        BY <4>3, <4>4 DEF Upto
      <4>6. g[u] = Added(g, h, u)
        BY <3>2, <4>5 DEF AddsUpto
      <4>7. f[u] = Added(g, h, u)
        BY <4>5 DEF Added
      <4> QED  BY <4>1, <4>6, <4>7
    <3>4. ASSUME NEW s \in Upto(S, m) PROVE f[s] = Added(f, h, s)
      <4>1. f[s] = IF s = {} THEN 0 ELSE h[One(s)] + g[s \ {One(s)}]
        OBVIOUS
      <4> HIDE DEF f
      <4> QED  BY <3>3, <4>1 DEF Added
    <3>5. f = [s \in Upto(S, m) |-> Added(f, h, s)]
      BY <3>4
    <3> QED  BY <3>5 DEF AddsUpto
  <2> QED  BY <2>1, <2>2
<1>3. Bad = {}
  <2>1. Bad \subseteq Nat
    OBVIOUS
  <2> HIDE DEF Bad
  <2> QED  BY <1>2, <2>1, LeastNatural
<1>4. Cardinality(S) \in Nat
  BY FS_CardinalityType
<1>5. PICK g : AddsUpto(g, h, S, Cardinality(S))
  BY <1>3, <1>4
<1>6. Upto(S, Cardinality(S)) = SUBSET S
  BY <1>1 DEF Upto
<1>7. Adds(g, h, S)
  BY <1>5, <1>6 DEF AddsUpto, Adds
<1> QED  BY <1>7

\* and is the same for every set it starts from.
LEMMA AddsAgree ==
    ASSUME NEW S, NEW R, IsFiniteSet(R), S \subseteq R, NEW h, NEW g, NEW f, Adds(g, h, R), Adds(f, h, S)
    PROVE  \A s \in SUBSET S : f[s] = g[s]
<1> DEFINE G == {s \in SUBSET S : f[s] = g[s]}
<1>1. IsFiniteSet(S)
  BY FS_Subset
<1>2. \A s \in SUBSET S : f[s] = Added(f, h, s) /\ g[s] = Added(g, h, s)
  BY DEF Adds
<1>3. {} \in G
  BY <1>2 DEF Added
<1>4. ASSUME NEW s \in SUBSET S, s # {}, \A x \in s : s \ {x} \in G PROVE s \in G
  <2>1. One(s) \in s
    BY <1>4, OneIn
  <2>2. f[s \ {One(s)}] = g[s \ {One(s)}]
    BY <1>4, <2>1
  <2> QED  BY <1>2, <2>2 DEF Added
<1>5. \A s \in SUBSET S : s \in G
  <2> HIDE DEF G
  <2> QED  BY <1>1, <1>3, <1>4, FiniteInduction
<1> QED  BY <1>5

\* So the total of a set is a member's value and the total of the others.
LEMMA TotalIn ==
    ASSUME NEW R, IsFiniteSet(R), NEW h, NEW s \in SUBSET R
    PROVE  Total(h, s) = IF s = {} THEN 0 ELSE h[One(s)] + Total(h, s \ {One(s)})
<1>1. PICK g : Adds(g, h, R)
  BY AddsExists
<1>2. ASSUME NEW t \in SUBSET R PROVE Total(h, t) = g[t]
  <2>1. IsFiniteSet(t)
    BY FS_Subset
  <2> DEFINE f == CHOOSE f : Adds(f, h, t)
  <2>2. Adds(f, h, t)
    BY <2>1, AddsExists
  <2>3. Total(h, t) = f[t]
    BY DEF Total
  <2> HIDE DEF f
  <2>4. t \subseteq R /\ t \in SUBSET t
    OBVIOUS
  <2>5. \A u \in SUBSET t : f[u] = g[u]
    BY <1>1, <2>2, <2>4, AddsAgree, SMTT(30)
  <2> QED  BY <2>3, <2>4, <2>5
<1>3. g[s] = Added(g, h, s)
  BY <1>1 DEF Adds
<1>4. s \ {One(s)} \in SUBSET R
  OBVIOUS
<1> QED  BY <1>2, <1>3, <1>4 DEF Added

LEMMA TotalEmpty == ASSUME NEW h PROVE Total(h, {}) = 0
<1>1. IsFiniteSet({}) /\ {} \in SUBSET {}
  BY FS_EmptySet
<1> QED  BY <1>1, TotalIn

LEMMA TotalOne ==
    ASSUME NEW h, NEW s, IsFiniteSet(s), s # {}
    PROVE  Total(h, s) = h[One(s)] + Total(h, s \ {One(s)})
<1>1. s \in SUBSET s
  OBVIOUS
<1>2. Total(h, s) = IF s = {} THEN 0 ELSE h[One(s)] + Total(h, s \ {One(s)})
  BY <1>1, TotalIn, SMTT(30)
<1> QED  BY <1>2

\* Every subset of a finite set is finite.
LEMMA Finite ==
    ASSUME NEW R, IsFiniteSet(R), NEW s \in SUBSET R
    PROVE  IsFiniteSet(s)
BY FS_Subset

\* Totals of natural numbers, of any member and the others.
LEMMA TotalNat ==
    ASSUME NEW R, IsFiniteSet(R), NEW h, \A x \in R : h[x] \in Nat
    PROVE  Total(h, R) \in Nat
<1> DEFINE G == {s \in SUBSET R : Total(h, s) \in Nat}
<1>1. {} \in G
  <2>1. Total(h, {}) = 0
    BY TotalEmpty
  <2>2. 0 \in Nat
    BY SMTT(30)
  <2> QED  BY <2>1, <2>2
<1>2. ASSUME NEW s \in SUBSET R, s # {}, \A x \in s : s \ {x} \in G PROVE s \in G
  <2>1. IsFiniteSet(s)
    BY Finite
  <2>2. One(s) \in s
    BY <1>2, OneIn
  <2>3. Total(h, s) = h[One(s)] + Total(h, s \ {One(s)})
    BY <1>2, <2>1, TotalOne
  <2>4. h[One(s)] \in Nat /\ Total(h, s \ {One(s)}) \in Nat
    BY <1>2, <2>2
  <2>5. \A a, b \in Nat : a + b \in Nat
    BY SMTT(30)
  <2> QED  BY <2>3, <2>4, <2>5
<1>3. \A s \in SUBSET R : s \in G
  <2> HIDE DEF G
  <2> QED  BY <1>1, <1>2, FiniteInduction
<1> QED  BY <1>3

LEMMA Swapped == \A a, b, c \in Nat : a + (b + c) = b + (a + c)
BY SMTT(30)

LEMMA TotalAny ==
    ASSUME NEW R, IsFiniteSet(R), NEW h, \A x \in R : h[x] \in Nat, NEW z \in R
    PROVE  Total(h, R) = h[z] + Total(h, R \ {z})
<1> DEFINE G == {s \in SUBSET R : \A x \in s : Total(h, s) = h[x] + Total(h, s \ {x})}
<1>1. {} \in G
  OBVIOUS
<1>2. ASSUME NEW s \in SUBSET R, s # {}, \A x \in s : s \ {x} \in G PROVE s \in G
  <2> SUFFICES ASSUME NEW x \in s PROVE Total(h, s) = h[x] + Total(h, s \ {x})
    OBVIOUS
  <2>1. PICK y : y = One(s)
    OBVIOUS
  <2>2. IsFiniteSet(s)
    BY Finite
  <2>3. y \in s
    BY <1>2, <2>1, OneIn
  <2>4. Total(h, s) = h[y] + Total(h, s \ {y})
    BY <1>2, <2>1, <2>2, TotalOne
  <2>5. CASE x = y
    BY <2>4, <2>5
  <2>6. CASE x # y
    <3>1. PICK u : u = s \ {x, y}
      OBVIOUS
    <3>2. u \in SUBSET R /\ u = (s \ {y}) \ {x} /\ u = (s \ {x}) \ {y} /\ x \in s \ {y} /\ y \in s \ {x}
      BY <2>3, <2>6, <3>1
    <3>3. Total(h, s \ {y}) = h[x] + Total(h, u)
      <4>1. s \ {y} \in G
        BY <1>2, <2>3
      <4> QED  BY <3>2, <4>1
    <3>4. Total(h, s \ {x}) = h[y] + Total(h, u)
      <4>1. s \ {x} \in G
        BY <1>2
      <4> QED  BY <3>2, <4>1
    <3>5. IsFiniteSet(u) /\ \A v \in u : h[v] \in Nat
      BY <3>2, Finite
    <3>6. PICK a, b, c \in Nat : a = h[y] /\ b = h[x] /\ c = Total(h, u)
      BY <2>3, <3>2, <3>5, TotalNat
    <3>7. a + (b + c) = b + (a + c)
      BY Swapped
    <3> QED  BY <2>4, <3>3, <3>4, <3>6, <3>7
  <2> QED  BY <2>5, <2>6
<1>3. \A s \in SUBSET R : s \in G
  <2> HIDE DEF G
  <2> QED  BY <1>1, <1>2, FiniteInduction
<1>4. R \in G
  BY <1>3
<1> QED  BY <1>4

\* Two functions that agree on a set have one total there.
LEMMA TotalSame ==
    ASSUME NEW R, IsFiniteSet(R), NEW h, NEW k, \A x \in R : h[x] = k[x]
    PROVE  Total(h, R) = Total(k, R)
<1> DEFINE G == {s \in SUBSET R : Total(h, s) = Total(k, s)}
<1>1. {} \in G
  <2>1. Total(h, {}) = 0
    BY TotalEmpty
  <2>2. Total(k, {}) = 0
    BY TotalEmpty
  <2> QED  BY <2>1, <2>2
<1>2. ASSUME NEW s \in SUBSET R, s # {}, \A x \in s : s \ {x} \in G PROVE s \in G
  <2>1. IsFiniteSet(s)
    BY Finite
  <2>2. One(s) \in s
    BY <1>2, OneIn
  <2>3. Total(h, s) = h[One(s)] + Total(h, s \ {One(s)})
    BY <1>2, <2>1, TotalOne
  <2>4. Total(k, s) = k[One(s)] + Total(k, s \ {One(s)})
    BY <1>2, <2>1, TotalOne
  <2>5. Total(h, s \ {One(s)}) = Total(k, s \ {One(s)}) /\ h[One(s)] = k[One(s)]
    BY <1>2, <2>2
  <2> QED  BY <2>3, <2>4, <2>5
<1>3. \A s \in SUBSET R : s \in G
  <2> HIDE DEF G
  <2> QED  BY <1>1, <1>2, FiniteInduction
<1>4. R \in G
  BY <1>3
<1> QED  BY <1>4

\* Setting one value.
Sets(R, h, x, n, k) ==
    IsFiniteSet(R) /\ h \in [R -> Nat] /\ x \in R /\ n \in Nat /\ k = [h EXCEPT ![x] = n]
LEMMA TotalSet ==
    ASSUME NEW R, NEW h, NEW x, NEW n, NEW k, Sets(R, h, x, n, k)
    PROVE  Total(k, R) = (Total(h, R) - h[x]) + n /\ h[x] <= Total(h, R)
<1> USE DEF Sets
<1>1. \A y \in R : k[y] \in Nat
  OBVIOUS
<1>2. k[x] = n /\ \A y \in R \ {x} : k[y] = h[y]
  OBVIOUS
<1>3. \A y \in R : h[y] \in Nat
  OBVIOUS
<1>4. Total(h, R) = h[x] + Total(h, R \ {x})
  BY <1>3, TotalAny
<1>5. Total(k, R) = k[x] + Total(k, R \ {x})
  BY <1>1, TotalAny
<1>6. IsFiniteSet(R \ {x})
  BY Finite
<1>7. Total(k, R \ {x}) = Total(h, R \ {x})
  BY <1>2, <1>6, TotalSame
<1>8. Total(h, R \ {x}) \in Nat
  BY <1>3, <1>6, TotalNat
<1>9. PICK a, b \in Nat : a = h[x] /\ b = Total(h, R \ {x})
  BY <1>3, <1>8
<1>10. n + b = ((a + b) - a) + n /\ a <= a + b
  BY SMTT(30)
<1> QED  BY <1>2, <1>4, <1>5, <1>7, <1>9, <1>10

\* Setting the values of a subset to 0.
Clears(R, h, C, k) ==
    IsFiniteSet(R) /\ h \in [R -> Nat] /\ C \in SUBSET R /\ k = [x \in R |-> IF x \in C THEN 0 ELSE h[x]]
LEMMA TotalClear ==
    ASSUME NEW R, NEW h, NEW C, NEW k, Clears(R, h, C, k)
    PROVE  Total(k, R) = Total(h, R) - Total(h, C) /\ Total(h, C) <= Total(h, R)
<1> USE DEF Clears
<1> DEFINE G == {s \in SUBSET R : Total(h, s) = Total(h, s \cap C) + Total(k, s)}
<1>0. 0 \in Nat /\ 0 = 0 + 0
  BY SMTT(30)
<1>1. \A x \in R : h[x] \in Nat /\ k[x] \in Nat /\ k[x] = IF x \in C THEN 0 ELSE h[x]
  BY <1>0
<1>2. {} \in G
  <2>1. Total(h, {}) = 0
    BY TotalEmpty
  <2>2. Total(k, {}) = 0
    BY TotalEmpty
  <2>3. {} \cap C = {}
    OBVIOUS
  <2> QED  BY <1>0, <2>1, <2>2, <2>3
<1>3. ASSUME NEW s \in SUBSET R, s # {}, \A x \in s : s \ {x} \in G PROVE s \in G
  <2>1. PICK x \in s : TRUE
    BY <1>3
  <2>2. PICK t : t = s \ {x}
    OBVIOUS
  <2>3. PICK d : d = t \cap C
    OBVIOUS
  <2>4. IsFiniteSet(s) /\ IsFiniteSet(t) /\ IsFiniteSet(d) /\ IsFiniteSet(s \cap C)
    <3>1. t \in SUBSET R /\ d \in SUBSET R /\ s \cap C \in SUBSET R
      BY <2>2, <2>3
    <3> QED  BY <3>1, Finite
  <2>5. \A y \in s : h[y] \in Nat /\ k[y] \in Nat
    BY <1>1
  <2>6. \A y \in t : h[y] \in Nat /\ k[y] \in Nat
    BY <2>2, <2>5
  <2>7. \A y \in d : h[y] \in Nat
    BY <2>3, <2>6
  <2>8. Total(h, t) = Total(h, d) + Total(k, t)
    BY <1>3, <2>2, <2>3
  <2>9. Total(h, s) = h[x] + Total(h, t)
    BY <2>2, <2>4, <2>5, TotalAny
  <2>10. Total(k, s) = k[x] + Total(k, t)
    BY <2>2, <2>4, <2>5, TotalAny
  <2>11. Total(h, d) \in Nat
    BY <2>4, <2>7, TotalNat
  <2>12. Total(k, t) \in Nat
    BY <2>4, <2>6, TotalNat
  <2>13. PICK a, b, c \in Nat : a = h[x] /\ b = Total(h, d) /\ c = Total(k, t)
    BY <2>5, <2>11, <2>12
  <2>14. CASE x \in C
    <3>1. k[x] = 0 /\ (s \cap C) \ {x} = d /\ x \in s \cap C
      BY <1>1, <2>2, <2>3, <2>14
    <3>2. \A y \in s \cap C : h[y] \in Nat
      BY <2>5
    <3>3. Total(h, s \cap C) = h[x] + Total(h, (s \cap C) \ {x})
      BY <2>4, <3>1, <3>2, TotalAny
    <3>4. a + (b + c) = (a + b) + (0 + c)
      BY SMTT(30)
    <3> QED  BY <2>8, <2>9, <2>10, <2>13, <3>1, <3>3, <3>4
  <2>15. CASE x \notin C
    <3>1. k[x] = h[x] /\ s \cap C = d
      BY <1>1, <2>2, <2>3, <2>15
    <3>2. a + (b + c) = b + (a + c)
      BY Swapped
    <3> QED  BY <2>8, <2>9, <2>10, <2>13, <3>1, <3>2
  <2> QED  BY <2>14, <2>15
<1>4. \A s \in SUBSET R : s \in G
  <2> HIDE DEF G
  <2> QED  BY <1>2, <1>3, FiniteInduction
<1>5. R \in G
  BY <1>4
<1>6. R \cap C = C
  OBVIOUS
<1>7. Total(h, R) = Total(h, C) + Total(k, R)
  BY <1>5, <1>6
<1>8. Total(h, C) \in Nat
  <2>1. IsFiniteSet(C) /\ \A x \in C : h[x] \in Nat
    BY <1>1, Finite
  <2> QED  BY <2>1, TotalNat
<1>9. Total(k, R) \in Nat
  BY <1>1, TotalNat
<1>10. PICK a, b \in Nat : a = Total(h, C) /\ b = Total(k, R)
  BY <1>8, <1>9
<1>11. b = (a + b) - a /\ a <= a + b
  BY SMTT(30)
<1> QED  BY <1>7, <1>10, <1>11

-----------------------------------------------------------------------------
(* The books *)

\* Reservations is the total of reserved.
LEMMA ReservationsTotal == ASSUME NEW S PROVE Reservations(S) = Total(reserved, S)
BY DEF Reservations, MapThenFoldSet, Total, Adds, Added, One

Entries == {i \in RecordIDs : idempotency[i] # NoRecord}

\* A pending record holds the largest result of its connection, and no result
\* is larger.
BooksInv ==
    /\ bytes \in Nat /\ reserved \in [Requests -> Nat] /\ size \in [Requests -> Nat]
    /\ \A r \in Requests : /\ size[r] <= Maximum[on[r]]
                           /\ status[r] = "pending" => reserved[r] = Maximum[on[r]]
                           /\ reserved[r] # 0 => Retained(r)
    /\ bytes = Total(reserved, Requests) /\ bytes <= MaxIdempotencyBytes
    /\ IsFiniteSet(Entries) /\ Cardinality(Entries) <= MaxIdempotencyEntries

\* A step that leaves the ledger alone keeps the books.
LEMMA BooksKept ==
    ASSUME BooksInv, UNCHANGED ledger, UNCHANGED <<cmd, on>>, size' \in [Requests -> Nat],
           \A r \in Requests : size'[r] <= Maximum[on[r]]
    PROVE  BooksInv'
<1>1. /\ UNCHANGED <<idempotency, commands, bytes, status, reserved>>
      /\ cmd' = cmd /\ on' = on
  BY DEF ledger
<1>2. Entries' = Entries
  BY <1>1 DEF Entries
<1>3. \A r \in Requests : Retained(r)' = Retained(r)
  BY <1>1 DEF Retained, IDOf
<1> QED  BY <1>1, <1>2, <1>3 DEF BooksInv

LEMMA FewerEntries ==
    ASSUME BooksInv, Entries' \subseteq Entries
    PROVE  IsFiniteSet(Entries') /\ Cardinality(Entries') <= MaxIdempotencyEntries
<1>1. IsFiniteSet(Entries) /\ Cardinality(Entries) <= MaxIdempotencyEntries
  BY DEF BooksInv
<1>2. IsFiniteSet(Entries') /\ Cardinality(Entries') <= Cardinality(Entries)
  BY <1>1, FS_Subset
<1>3. Cardinality(Entries) \in Nat /\ Cardinality(Entries') \in Nat /\ MaxIdempotencyEntries \in Nat
  BY <1>1, <1>2, FS_CardinalityType, LedgerAssumption
<1>4. PICK a, b, c \in Nat : a = Cardinality(Entries') /\ b = Cardinality(Entries) /\ c = MaxIdempotencyEntries
  BY <1>3
<1>5. a <= b /\ b <= c => a <= c
  BY SMTT(30)
<1> QED  BY <1>1, <1>2, <1>4, <1>5

\* finalizeMutation gives back what the record does not keep.
LEMMA BooksFinalize ==
    ASSUME LedgerInv, BooksInv, NEW r \in Requests, NEW s \in Final, NEW remove \in BOOLEAN,
           remove => s = "failed", FinalizeMutation(r, s, remove), UNCHANGED <<cmd, on, size>>
    PROVE  BooksInv'
<1>1. CASE status[r] # "pending"
  <2>1. UNCHANGED ledger
    BY <1>1 DEF FinalizeMutation
  <2> QED  BY <2>1, BooksKept DEF BooksInv
<1>2. CASE status[r] = "pending"
  <2>1. PICK n : n = IF s = "succeeded" THEN size[r] ELSE 0
    OBVIOUS
  <2>2. /\ status' = [status EXCEPT ![r] = s]
        /\ bytes' = IF n <= reserved[r] THEN bytes - (reserved[r] - n) ELSE bytes
        /\ reserved' = [reserved EXCEPT ![r] = n]
        /\ idempotency' = IF remove THEN Forget(idempotency, IDOf(r), r) ELSE idempotency
    BY <1>2, <2>1 DEF FinalizeMutation
  <2>3. reserved \in [Requests -> Nat] /\ bytes \in Nat /\ size[r] \in Nat /\ reserved[r] \in Nat
    BY DEF BooksInv
  <2>4. size[r] <= reserved[r]
    BY <1>2 DEF BooksInv
  <2>5. n \in Nat /\ n <= reserved[r] /\ (n # 0 => reserved[r] # 0 /\ ~remove)
    <3>1. PICK a, b \in Nat : a = size[r] /\ b = reserved[r]
      BY <2>3
    <3>2. a <= b => 0 \in Nat /\ 0 <= b /\ (a # 0 => b # 0)
      BY SMTT(30)
    <3> QED  BY <2>1, <2>4, <3>1, <3>2
  <2>6. Total(reserved', Requests) = (Total(reserved, Requests) - reserved[r]) + n /\ reserved[r] <= Total(reserved, Requests)
    <3>1. Sets(Requests, reserved, r, n, reserved')
      BY <2>2, <2>3, <2>5, FiniteAssumption DEF Sets
    <3> QED  BY <3>1, TotalSet
  <2>7. bytes' = Total(reserved', Requests) /\ bytes' \in Nat /\ bytes' <= MaxIdempotencyBytes
    <3>1. PICK a, b, t, m \in Nat : a = n /\ b = reserved[r] /\ t = bytes /\ m = MaxIdempotencyBytes
      BY <2>3, <2>5, LedgerAssumption
    <3>2. a <= b /\ b <= t /\ t <= m => /\ t - (b - a) = (t - b) + a /\ t - (b - a) \in Nat
                                        /\ t - (b - a) <= m
      BY SMTT(30)
    <3>3. t <= m /\ t = Total(reserved, Requests)
      BY <3>1 DEF BooksInv
    <3> QED  BY <2>2, <2>5, <2>6, <3>1, <3>2, <3>3
  <2>8. reserved' \in [Requests -> Nat] /\ reserved'[r] = n /\ \A q \in Requests \ {r} : reserved'[q] = reserved[q]
    BY <2>2, <2>3, <2>5
  <2>9. status'[r] = s /\ \A q \in Requests \ {r} : status'[q] = status[q]
    BY <2>2, Types
  <2>10. \A q \in Requests : IDOf(q)' = IDOf(q) /\ IDOf(q) \in RecordIDs
    BY IDTypes DEF IDOf, LedgerInv
  <2>11. idempotency \in [RecordIDs -> Requests \cup {NoRecord}]
    BY DEF LedgerInv, ControlTypeOK
  <2>12. \A i \in RecordIDs : \/ idempotency'[i] = idempotency[i]
                              \/ idempotency'[i] = NoRecord /\ remove /\ idempotency[i] = r
    BY <2>2, <2>10, <2>11 DEF Forget
  <2>13. ASSUME NEW q \in Requests, reserved'[q] # 0 PROVE Retained(q)'
    <3>1. CASE q = r
      <4>1. n # 0
        BY <2>8, <2>13, <3>1
      <4>2. Retained(r) /\ ~remove
        BY <2>5, <4>1 DEF BooksInv
      <4> QED  BY <2>9, <2>10, <2>12, <3>1, <4>2 DEF Retained, Final
    <3>2. CASE q # r
      <4>1. Retained(q)
        BY <2>8, <2>13, <3>2 DEF BooksInv
      <4> QED  BY <2>9, <2>10, <2>12, <3>2, <4>1 DEF Retained
    <3> QED  BY <3>1, <3>2
  <2>14. Entries' \subseteq Entries
    BY <2>12 DEF Entries
  <2>15. \A q \in Requests : status'[q] = "pending" => reserved'[q] = Maximum[on'[q]]
    BY <2>8, <2>9 DEF BooksInv, Final
  <2>16. IsFiniteSet(Entries') /\ Cardinality(Entries') <= MaxIdempotencyEntries
    BY <2>14, FewerEntries
  <2>17. size' \in [Requests -> Nat] /\ \A q \in Requests : size'[q] <= Maximum[on'[q]]
    BY DEF BooksInv
  <2> QED  BY <2>7, <2>8, <2>13, <2>15, <2>16, <2>17 DEF BooksInv
<1> QED  BY <1>1, <1>2

\* A new record reserves the largest result of its connection.
LEMMA BooksInsert ==
    ASSUME LedgerInv, BooksInv, NEW r \in Requests, LookupInsert(r)
    PROVE  BooksInv'
<1>1. /\ pc[r] = "lookup" /\ ~Found(r) /\ ~EntriesFull /\ ~BytesFull(r)
      /\ idempotency' = [idempotency EXCEPT ![IDOf(r)] = r]
      /\ bytes' = bytes + Maximum[on[r]]
      /\ status' = [status EXCEPT ![r] = "pending"]
      /\ reserved' = [reserved EXCEPT ![r] = Maximum[on[r]]]
      /\ UNCHANGED <<cmd, on, size>>
  BY DEF LookupInsert
<1>2. status[r] = "none"
  <2>1. Here(r)
    BY At
  <2> QED  BY <1>1, <2>1, LedgerAssumption DEF Here, Placed
<1>3. reserved \in [Requests -> Nat] /\ bytes \in Nat /\ reserved[r] = 0
  BY <1>2 DEF BooksInv, Retained
<1>4. PICK n \in Nat : n = Maximum[on[r]]
  BY Types, LedgerAssumption
<1>5. Total(reserved', Requests) = (Total(reserved, Requests) - reserved[r]) + n
  <2>1. Sets(Requests, reserved, r, n, reserved')
    BY <1>1, <1>3, <1>4, FiniteAssumption DEF Sets
  <2>2. Total(reserved', Requests) = (Total(reserved, Requests) - reserved[r]) + n /\ reserved[r] <= Total(reserved, Requests)
    BY <2>1, TotalSet
  <2> QED  BY <2>2
<1>6. bytes' = Total(reserved', Requests) /\ bytes' \in Nat /\ bytes' <= MaxIdempotencyBytes
  <2>1. PICK t, m \in Nat : t = bytes /\ m = MaxIdempotencyBytes
    BY <1>3, LedgerAssumption
  <2>2. ~(n > m - t) => (t - 0) + n = t + n /\ t + n \in Nat /\ t + n <= m
    BY SMTT(30)
  <2>3. ~(n > m - t)
    BY <1>1, <1>4, <2>1 DEF BytesFull
  <2>4. t = Total(reserved, Requests)
    BY <2>1 DEF BooksInv
  <2> QED  BY <1>1, <1>3, <1>4, <1>5, <2>1, <2>2, <2>3, <2>4
<1>7. reserved' \in [Requests -> Nat] /\ reserved'[r] = n /\ \A q \in Requests \ {r} : reserved'[q] = reserved[q]
  BY <1>1, <1>3, <1>4
<1>8. status'[r] = "pending" /\ \A q \in Requests \ {r} : status'[q] = status[q]
  BY <1>1, Types
<1>9. \A q \in Requests : IDOf(q)' = IDOf(q) /\ IDOf(q) \in RecordIDs
  BY <1>1, IDTypes DEF IDOf, LedgerInv
<1>10. idempotency \in [RecordIDs -> Requests \cup {NoRecord}] /\ idempotency[IDOf(r)] = NoRecord
  BY <1>1 DEF LedgerInv, ControlTypeOK, Found
<1>11. idempotency'[IDOf(r)] = r /\ \A i \in RecordIDs \ {IDOf(r)} : idempotency'[i] = idempotency[i]
  BY <1>1, <1>9, <1>10
<1>12. ASSUME NEW q \in Requests, reserved'[q] # 0 PROVE Retained(q)'
  <2>1. CASE q = r
    BY <1>8, <1>9, <1>11, <2>1 DEF Retained
  <2>2. CASE q # r
    <3>1. Retained(q)
      BY <1>7, <1>12, <2>2 DEF BooksInv
    <3>2. IDOf(q) # IDOf(r)
      BY <1>10, <3>1, LedgerAssumption DEF Retained
    <3> QED  BY <1>8, <1>9, <1>11, <2>2, <3>1, <3>2 DEF Retained
  <2> QED  BY <2>1, <2>2
<1>13. Entries' = Entries \cup {IDOf(r)} /\ IDOf(r) \notin Entries
  BY <1>9, <1>10, <1>11, LedgerAssumption DEF Entries
<1>14. IsFiniteSet(Entries') /\ Cardinality(Entries') <= MaxIdempotencyEntries
  <2>1. IsFiniteSet(Entries)
    BY DEF BooksInv
  <2>2. IsFiniteSet(Entries \cup {IDOf(r)})
        /\ Cardinality(Entries \cup {IDOf(r)}) = IF IDOf(r) \in Entries THEN Cardinality(Entries) ELSE Cardinality(Entries) + 1
    BY <2>1, FS_AddElement
  <2>3. Cardinality(Entries) \in Nat
    BY <2>1, FS_CardinalityType
  <2>4. PICK a, m \in Nat : a = Cardinality(Entries) /\ m = MaxIdempotencyEntries
    BY <2>3, LedgerAssumption
  <2>5. ~(a >= m)
    BY <1>1, <2>4 DEF EntriesFull, Entries
  <2>6. a + 1 <= m
    BY SMTT(30), <2>5
  <2> QED  BY <1>13, <2>2, <2>4, <2>6
<1>15. \A q \in Requests : status'[q] = "pending" => reserved'[q] = Maximum[on'[q]]
  BY <1>1, <1>4, <1>7, <1>8 DEF BooksInv
<1>16. size' \in [Requests -> Nat] /\ \A q \in Requests : size'[q] <= Maximum[on'[q]]
  BY <1>1 DEF BooksInv
<1> QED  BY <1>6, <1>7, <1>12, <1>14, <1>15, <1>16 DEF BooksInv

\* releaseConnection takes the bytes of the records it deletes.
LEMMA BooksDelete ==
    ASSUME LedgerInv, BooksInv, NEW c \in Conns, ReleaseDelete(c)
    PROVE  BooksInv'
<1>1. /\ \A r \in collected[c] : status[r] # "pending"
      /\ idempotency' = [i \in RecordIDs |-> IF idempotency[i] \in collected[c] THEN NoRecord ELSE idempotency[i]]
      /\ bytes' = bytes - Total(reserved, collected[c])
      /\ reserved' = [r \in Requests |-> IF r \in collected[c] THEN 0 ELSE reserved[r]]
      /\ status' = status /\ cmd' = cmd /\ on' = on /\ size' = size
  BY ReservationsTotal DEF ReleaseDelete, request
<1>2. collected[c] \in SUBSET Requests /\ reserved \in [Requests -> Nat] /\ bytes \in Nat
  BY DEF LedgerInv, ControlTypeOK, BooksInv
<1>3. Total(reserved', Requests) = Total(reserved, Requests) - Total(reserved, collected[c])
      /\ Total(reserved, collected[c]) <= Total(reserved, Requests)
  <2>1. Clears(Requests, reserved, collected[c], reserved')
    BY <1>1, <1>2, FiniteAssumption DEF Clears
  <2> QED  BY <2>1, TotalClear
<1>4. Total(reserved, collected[c]) \in Nat
  <2>1. IsFiniteSet(collected[c]) /\ \A x \in collected[c] : reserved[x] \in Nat
    BY <1>2, Finite, FiniteAssumption
  <2> QED  BY <2>1, TotalNat
<1>5. bytes' = Total(reserved', Requests) /\ bytes' \in Nat /\ bytes' <= MaxIdempotencyBytes
  <2>1. PICK a, t, m \in Nat : a = Total(reserved, collected[c]) /\ t = bytes /\ m = MaxIdempotencyBytes
    BY <1>2, <1>4, LedgerAssumption
  <2>2. a <= t /\ t <= m => t - a \in Nat /\ t - a <= m
    BY SMTT(30)
  <2>3. t = Total(reserved, Requests) /\ t <= m
    BY <2>1 DEF BooksInv
  <2> QED  BY <1>1, <1>3, <2>1, <2>2, <2>3
<1>6. reserved' \in [Requests -> Nat]
      /\ \A r \in Requests : reserved'[r] = IF r \in collected[c] THEN 0 ELSE reserved[r]
  <2>1. 0 \in Nat
    BY SMTT(30)
  <2> QED  BY <1>1, <1>2, <2>1
<1>7. \A r \in Requests : IDOf(r)' = IDOf(r) /\ IDOf(r) \in RecordIDs
  BY <1>1, IDTypes DEF IDOf, LedgerInv
<1>8. \A i \in RecordIDs : idempotency'[i] = IF idempotency[i] \in collected[c] THEN NoRecord ELSE idempotency[i]
  BY <1>1
<1>9. ASSUME NEW r \in Requests, reserved'[r] # 0 PROVE Retained(r)'
  <2>1. r \notin collected[c] /\ Retained(r)
    BY <1>6, <1>9 DEF BooksInv
  <2> QED  BY <1>1, <1>7, <1>8, <2>1 DEF Retained
<1>10. Entries' \subseteq Entries
  BY <1>8 DEF Entries
<1>11. IsFiniteSet(Entries') /\ Cardinality(Entries') <= MaxIdempotencyEntries
  BY <1>10, FewerEntries
<1>12. \A q \in Requests : status'[q] = "pending" => reserved'[q] = Maximum[on'[q]]
  BY <1>1, <1>6 DEF BooksInv
<1>13. size' \in [Requests -> Nat] /\ \A q \in Requests : size'[q] <= Maximum[on'[q]]
  BY <1>1 DEF BooksInv
<1> QED  BY <1>5, <1>6, <1>9, <1>11, <1>12, <1>13 DEF BooksInv

\* A step that leaves the ledger alone or calls finalizeMutation for r.
AtMostSettles(r) ==
    /\ UNCHANGED <<cmd, on, size>>
    /\ \/ UNCHANGED ledger
       \/ FinalizeMutation(r, "failed", TRUE)
       \/ \E s \in Final : FinalizeMutation(r, s, FALSE)

LEMMA SettlesBooks ==
    ASSUME LedgerInv, BooksInv, NEW r \in Requests, AtMostSettles(r)
    PROVE  BooksInv'
<1>0. cmd' = cmd /\ on' = on /\ size' = size
  BY DEF AtMostSettles
<1>1. CASE UNCHANGED ledger
  <2>1. size' \in [Requests -> Nat] /\ \A q \in Requests : size'[q] <= Maximum[on[q]]
    BY <1>0 DEF BooksInv
  <2> QED  BY <1>0, <1>1, <2>1, BooksKept
<1>2. CASE FinalizeMutation(r, "failed", TRUE)
  <2>1. "failed" \in Final /\ TRUE \in BOOLEAN
    BY DEF Final
  <2> QED  BY <1>0, <1>2, <2>1, BooksFinalize
<1>3. ASSUME NEW s \in Final, FinalizeMutation(r, s, FALSE) PROVE BooksInv'
  BY <1>0, <1>3, BooksFinalize
<1> QED  BY <1>1, <1>2, <1>3 DEF AtMostSettles

\* Every step of a request but two settles at most its own record.
LEMMA RequestSettles ==
    ASSUME NEW r \in Requests,
           \/ Receive(r) \/ Cancel(r) \/ Expire(r) \/ LookupFound(r) \/ LookupRefuse(r)
           \/ WaitPrior(r) \/ Admit(r) \/ Dispatch(r) \/ HandlerFails(r) \/ Respond(r)
           \/ Enqueue(r) \/ FlushOK(r) \/ FlushFailed(r) \/ FlushAbandoned(r)
           \/ WriterTake(r) \/ WriterDone(r)
    PROVE  AtMostSettles(r)
<1>0. "failed" \in Final /\ "unknown" \in Final /\ "succeeded" \in Final
  BY DEF Final
<1>1. CASE Receive(r) \/ Cancel(r) \/ Expire(r)
  BY <1>1 DEF Receive, Cancel, Expire, AtMostSettles
<1>2. CASE LookupFound(r) \/ LookupRefuse(r) \/ WaitPrior(r)
  BY <1>2 DEF LookupFound, LookupRefuse, WaitPrior, AtMostSettles
<1>3. CASE Admit(r)
  BY <1>3 DEF Admit, AtMostSettles
<1>4. CASE Dispatch(r)
  BY <1>0, <1>4 DEF Dispatch, AtMostSettles
<1>5. CASE HandlerFails(r)
  BY <1>0, <1>5 DEF HandlerFails, AtMostSettles
<1>6. CASE Respond(r)
  BY <1>0, <1>6 DEF Respond, AtMostSettles
<1>7. CASE Enqueue(r)
  BY <1>0, <1>7 DEF Enqueue, Rollback, AtMostSettles
<1>8. CASE FlushOK(r)
  BY <1>0, <1>8 DEF FlushOK, AtMostSettles
<1>9. CASE FlushFailed(r)
  BY <1>0, <1>9 DEF FlushFailed, Rollback, AtMostSettles
<1>10. CASE FlushAbandoned(r)
  BY <1>0, <1>10 DEF FlushAbandoned, Rollback, AtMostSettles
<1>11. CASE WriterTake(r) \/ WriterDone(r)
  BY <1>11 DEF WriterTake, WriterDone, AtMostSettles
<1> QED  BY <1>1, <1>2, <1>3, <1>4, <1>5, <1>6, <1>7, <1>8, <1>9, <1>10, <1>11

\* A handler's result that will be answered fits its connection's envelope.
LEMMA BooksSucceed ==
    ASSUME LedgerInv, BooksInv, NEW r \in Requests, HandlerSucceeds(r)
    PROVE  BooksInv'
<1>1. PICK n \in ResultSizes :
        \/ FinalizeMutation(r, "unknown", FALSE) /\ size' = size
        \/ n + Overhead <= Maximum[on[r]] /\ size' = [size EXCEPT ![r] = n] /\ UNCHANGED ledger
  BY DEF HandlerSucceeds
<1>2. cmd' = cmd /\ on' = on
  BY DEF HandlerSucceeds
<1>3. CASE FinalizeMutation(r, "unknown", FALSE) /\ size' = size
  <2>1. "unknown" \in Final
    BY DEF Final
  <2>2. AtMostSettles(r)
    BY <1>2, <1>3, <2>1 DEF AtMostSettles
  <2> QED  BY <2>2, SettlesBooks
<1>4. CASE n + Overhead <= Maximum[on[r]] /\ size' = [size EXCEPT ![r] = n] /\ UNCHANGED ledger
  <2>1. n \in Nat /\ Overhead \in Nat /\ Maximum[on[r]] \in Nat
    BY Types, LedgerAssumption
  <2>2. PICK a, b, m \in Nat : a = n /\ b = Overhead /\ m = Maximum[on[r]]
    BY <2>1
  <2>3. a + b <= m => a <= m
    BY SMTT(30)
  <2>4. n <= Maximum[on[r]]
    BY <1>4, <2>2, <2>3
  <2>5. size \in [Requests -> Nat] /\ \A q \in Requests : size[q] <= Maximum[on[q]]
    BY DEF BooksInv
  <2>6. size' \in [Requests -> Nat] /\ size'[r] = n /\ \A q \in Requests \ {r} : size'[q] = size[q]
    BY <1>4, <2>1, <2>5
  <2>7. \A q \in Requests : size'[q] <= Maximum[on[q]]
    BY <2>4, <2>5, <2>6
  <2> QED  BY <1>2, <1>4, <2>6, <2>7, BooksKept
<1> QED  BY <1>1, <1>3, <1>4

LEMMA BooksStep == LedgerInv /\ BooksInv /\ [Next]_vars => BooksInv'
<1> SUFFICES ASSUME LedgerInv, BooksInv, [Next]_vars PROVE BooksInv'
  OBVIOUS
<1>1. ASSUME NEW r \in Requests, LookupInsert(r) PROVE BooksInv'
  BY <1>1, BooksInsert
<1>2. ASSUME NEW r \in Requests, HandlerSucceeds(r) PROVE BooksInv'
  BY <1>2, BooksSucceed
<1>3. ASSUME NEW r \in Requests,
             \/ Receive(r) \/ Cancel(r) \/ Expire(r) \/ RequestStep(r)
             \/ HandlerFails(r) \/ WriterTake(r) \/ WriterDone(r)
      PROVE  BooksInv'
  <2>1. CASE LookupInsert(r)
    BY <1>1, <2>1
  <2>2. CASE ~LookupInsert(r)
    <3>1. AtMostSettles(r)
      BY <1>3, <2>2, RequestSettles DEF RequestStep
    <3> QED  BY <3>1, SettlesBooks
  <2> QED  BY <2>1, <2>2
<1>4. ASSUME NEW c \in Conns, Disconnect(c) \/ ReleaseCollect(c) PROVE BooksInv'
  <2>1. UNCHANGED ledger /\ cmd' = cmd /\ on' = on /\ size' = size
    BY <1>4 DEF Disconnect, ReleaseCollect, request
  <2>2. size' \in [Requests -> Nat] /\ \A q \in Requests : size'[q] <= Maximum[on[q]]
    BY <2>1 DEF BooksInv
  <2> QED  BY <2>1, <2>2, BooksKept
<1>5. ASSUME NEW c \in Conns, ReleaseDelete(c) PROVE BooksInv'
  BY <1>5, BooksDelete
<1>6. ASSUME NEW c \in Conns, NEW r \in Requests, ReleaseFinalize(c, r) PROVE BooksInv'
  <2>1. "unknown" \in Final
    BY DEF Final
  <2>2. AtMostSettles(r)
    BY <1>6, <2>1 DEF ReleaseFinalize, request, AtMostSettles
  <2> QED  BY <2>2, SettlesBooks
<1>7. CASE UNCHANGED vars
  <2>1. UNCHANGED ledger /\ cmd' = cmd /\ on' = on /\ size' = size
    BY <1>7 DEF vars, request
  <2>2. size' \in [Requests -> Nat] /\ \A q \in Requests : size'[q] <= Maximum[on[q]]
    BY <2>1 DEF BooksInv
  <2> QED  BY <2>1, <2>2, BooksKept
<1> QED  BY <1>2, <1>3, <1>4, <1>5, <1>6, <1>7 DEF Next

\* The empty ledger: no record, no bytes.
LEMMA BooksInit == Init => BooksInv
<1> SUFFICES ASSUME Init PROVE BooksInv
  OBVIOUS
<1>1. bytes = 0 /\ reserved = [r \in Requests |-> 0] /\ size = [r \in Requests |-> 0]
      /\ idempotency = [i \in RecordIDs |-> NoRecord] /\ status = [r \in Requests |-> "none"]
      /\ on \in [Requests -> Conns]
  BY DEF Init
<1>2. 0 \in Nat /\ \A m \in Nat : 0 <= m
  BY SMTT(30)
<1>3. reserved \in [Requests -> Nat] /\ size \in [Requests -> Nat] /\ bytes \in Nat
  BY <1>1, <1>2
<1>4. \A r \in Requests : Maximum[on[r]] \in Nat /\ size[r] = 0 /\ reserved[r] = 0 /\ status[r] = "none"
  BY <1>1, LedgerAssumption
<1>5. Total(reserved, Requests) = 0
  <2>1. Clears(Requests, reserved, Requests, reserved)
    BY <1>1, <1>3, FiniteAssumption DEF Clears
  <2>2. Total(reserved, Requests) = Total(reserved, Requests) - Total(reserved, Requests)
        /\ Total(reserved, Requests) <= Total(reserved, Requests)
    BY <2>1, TotalClear
  <2>3. Total(reserved, Requests) \in Nat
    <3>1. \A x \in Requests : reserved[x] \in Nat
      BY <1>2, <1>4
    <3> QED  BY <3>1, FiniteAssumption, TotalNat
  <2>4. PICK a \in Nat : a = Total(reserved, Requests)
    BY <2>3
  <2>5. a - a = 0
    BY SMTT(30)
  <2> QED  BY <2>2, <2>4, <2>5
<1>6. Entries = {}
  BY <1>1 DEF Entries
<1>7. IsFiniteSet(Entries) /\ Cardinality(Entries) <= MaxIdempotencyEntries
  BY <1>2, <1>6, FS_EmptySet, LedgerAssumption
<1>8. bytes <= MaxIdempotencyBytes
  BY <1>1, <1>2, LedgerAssumption
<1> QED  BY <1>1, <1>2, <1>3, <1>4, <1>5, <1>7, <1>8 DEF BooksInv

\* The byte counter of the ledger is what its records hold and stays below its
\* limit, as do the entries; and a drained connection leaves none of its records
\* behind.
THEOREM BooksBalance == Spec => []LedgerSound
<1>1. BooksInv /\ LedgerInv => TypeOK /\ Accounting
  <2> SUFFICES ASSUME BooksInv, LedgerInv PROVE TypeOK /\ Accounting
    OBVIOUS
  <2>1. TypeOK
    BY DEF TypeOK, BooksInv, LedgerInv
  <2>2. bytes = Reservations(Requests)
    <3>1. Reservations(Requests) = Total(reserved, Requests)
      BY ReservationsTotal
    <3> QED  BY <3>1 DEF BooksInv
  <2>3. \A r \in Requests : reserved[r] > 0 => Retained(r)
    <3>1. ~(0 > 0)
      BY SMTT(30)
    <3> QED  BY <3>1 DEF BooksInv
  <2> QED  BY <2>1, <2>2, <2>3 DEF Accounting, BooksInv, Entries
<1>2. Spec => []BooksInv
  BY BooksInit, BooksStep, LedgerInvariant, PTL DEF Spec
<1>3. TypeOK /\ Accounting /\ ReleaseComplete => LedgerSound
  BY DEF LedgerSound
<1> QED  BY <1>1, <1>2, <1>3, LedgerInvariant, ReleasesAreComplete, PTL
=============================================================================
