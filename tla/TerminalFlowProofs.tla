------------------------ MODULE TerminalFlowProofs -------------------------
(***************************************************************************)
(* Proofs about the flow control of a terminal stream, for any window, any *)
(* sizes of chunks and of queues, and any behaviour of the applications:   *)
(* no byte of the window is lost, and what ends the connection of a        *)
(* cautious client is never the flow control's own doing.                  *)
(***************************************************************************)
EXTENDS TerminalFlow, TLAPS, WellFoundedInduction

USE Zenon

-----------------------------------------------------------------------------
(* Induction up to a bound *)

Before == {p \in Nat \X Nat : p[1] < p[2]}

\* A set of natural numbers that is not empty has a least member.
LEMMA LeastNatural ==
    ASSUME NEW T, T \subseteq Nat, T # {}
    PROVE  \E x \in T : \A y \in T : x <= y
<1>1. IsWellFoundedOn(Before, Nat)
  BY NatLessThanWellFounded DEF OpToRel, Before
<1>2. PICK x \in T : \A y \in T : <<y, x>> \notin Before
  BY <1>1, WFMin
<1>3. ASSUME NEW y \in T PROVE x <= y
  <2>1. x \in Nat /\ y \in Nat
    OBVIOUS
  <2>2. <<y, x>> \in Nat \X Nat /\ <<y, x>> \notin Before
    BY <1>2, <2>1
  <2>3. ~(y < x)
    BY SMTT(30), <2>2 DEF Before
  <2> QED  BY SMTT(30), <2>1, <2>3
<1> QED  BY <1>3

\* What holds at 0, and at i + 1 when it holds at i, holds up to n.
LEMMA UpTo ==
    ASSUME NEW n \in Nat, NEW S, 0 \in S, \A i \in 0..n : i # n /\ i \in S => i + 1 \in S
    PROVE  \A i \in 0..n : i \in S
<1> DEFINE T == {i \in Nat : i <= n /\ i \notin S}
<1>1. ASSUME NEW m \in T, \A y \in T : m <= y PROVE FALSE
  <2>1. m \in Nat /\ m # 0 /\ m <= n /\ m \notin S
    OBVIOUS
  <2>2. m - 1 \in 0..n /\ m - 1 # n /\ m - 1 \in Nat /\ ~(m <= m - 1) /\ m - 1 <= n /\ (m - 1) + 1 = m
    BY SMTT(30), <2>1
  <2>3. m - 1 \in S
    BY <1>1, <2>2
  <2> QED  BY <2>1, <2>2, <2>3
<1>2. T = {}
  BY <1>1, LeastNatural
<1>3. ASSUME NEW i \in 0..n PROVE i \in S
  <2>1. i \in Nat /\ i <= n
    BY SMTT(30)
  <2> QED  BY <1>2, <2>1
<1> QED  BY <1>3

\* The step after m, when m is not the last.
LEMMA Successor ==
    ASSUME NEW n \in Nat, NEW m \in 0..n, m # n
    PROVE  m + 1 \in 1..n /\ m + 1 \in 0..n /\ m + 1 # 0 /\ (m + 1) - 1 = m
BY SMTT(30)

-----------------------------------------------------------------------------
(* Sums *)

SumStep(f, v, i) == IF i = 0 THEN 0 ELSE f[i - 1] + v[i]
Sums(f, v, n) == f = [i \in 0..n |-> SumStep(f, v, i)]

\* The partial sums exist, up to any place.
LEMMA SumsExist ==
    ASSUME NEW v, NEW n \in Nat
    PROVE  \E f : Sums(f, v, n)
<1> DEFINE S == {m \in Nat : \E f : Sums(f, v, m)}
<1>1. 0 \in S
  <2> DEFINE f == [i \in 0..0 |-> 0]
  <2>1. f = [i \in 0..0 |-> SumStep(f, v, i)]
    BY SMTT(30) DEF SumStep
  <2> QED  BY SMTT(30), <2>1 DEF Sums
<1>2. ASSUME NEW m \in 0..n, m \in S PROVE m + 1 \in S
  <2>1. PICK f : Sums(f, v, m)
    BY <1>2
  <2>2. m \in Nat /\ m + 1 \in Nat /\ m + 1 # 0
    BY SMTT(30)
  <2> DEFINE last == f[m] + v[m + 1]
             g == [i \in 0..(m + 1) |-> IF i = m + 1 THEN last ELSE f[i]]
  <2>3. ASSUME NEW i \in 0..(m + 1) PROVE g[i] = SumStep(g, v, i)
    <3>1. CASE i = m + 1
      <4>1. i # 0 /\ i - 1 = m /\ i - 1 \in 0..(m + 1) /\ i - 1 # m + 1
        BY SMTT(30), <2>2, <3>1
      <4>2. g[i] = last /\ g[i - 1] = f[m]
        BY <3>1, <4>1
      <4> QED  BY <3>1, <4>1, <4>2 DEF SumStep
    <3>2. CASE i # m + 1
      <4>1. i \in 0..m /\ (i # 0 => i - 1 \in 0..(m + 1) /\ i - 1 # m + 1 /\ i - 1 \in 0..m)
        BY SMTT(30), <2>2, <3>2
      <4>2. g[i] = f[i] /\ (i # 0 => g[i - 1] = f[i - 1])
        BY <3>2, <4>1
      <4>3. f[i] = SumStep(f, v, i)
        BY <2>1, <4>1 DEF Sums
      <4> QED  BY <4>2, <4>3 DEF SumStep
    <3> QED  BY <3>1, <3>2
  <2> HIDE DEF last
  <2>4. g = [i \in 0..(m + 1) |-> SumStep(g, v, i)]
    BY <2>3
  <2> QED  BY <2>2, <2>4 DEF Sums
<1>3. \A i \in 0..n : i \in S
  <2> HIDE DEF S
  <2> QED  BY <1>1, <1>2, UpTo
<1>4. n \in 0..n
  BY SMTT(30)
<1> QED  BY <1>3, <1>4

\* What SumOf goes through.
LEMMA SumRuns ==
    ASSUME NEW v \in Seq(Nat)
    PROVE  \E f : /\ SumOf(v) = f[Len(v)] /\ f[0] = 0
                  /\ \A i \in 0..Len(v) : f[i] \in Nat /\ (i # 0 => f[i] = f[i - 1] + v[i])
<1>1. Len(v) \in Nat
  BY SMTT(30)
<1> DEFINE f == CHOOSE g : Sums(g, v, Len(v))
<1>2. Sums(f, v, Len(v))
  BY <1>1, SumsExist
<1>3. SumOf(v) = f[Len(v)]
  BY DEF SumOf, Sums, SumStep
<1> HIDE DEF f
<1>4. \A i \in 0..Len(v) : f[i] = SumStep(f, v, i)
  BY <1>2 DEF Sums
<1>5. 0 \in 0..Len(v)
  BY SMTT(30), <1>1
<1>6. f[0] = 0
  BY <1>4, <1>5 DEF SumStep
<1> DEFINE S == {i \in 0..Len(v) : f[i] \in Nat}
<1>7. 0 \in S
  BY SMTT(30), <1>5, <1>6
<1>8. ASSUME NEW i \in 0..Len(v), i # Len(v), i \in S PROVE i + 1 \in S
  <2>1. i + 1 \in 0..Len(v) /\ i + 1 # 0 /\ (i + 1) - 1 = i /\ i + 1 \in 1..Len(v)
    BY <1>1, <1>8, Successor
  <2>2. v[i + 1] \in Nat
    BY SMTT(30), <2>1
  <2>3. f[i + 1] = f[i] + v[i + 1]
    BY <1>4, <2>1 DEF SumStep
  <2>4. PICK a, b \in Nat : a = f[i] /\ b = v[i + 1]
    BY <1>8, <2>2
  <2>5. a + b \in Nat
    BY SMTT(30)
  <2> QED  BY <2>1, <2>3, <2>4, <2>5
<1>9. \A i \in 0..Len(v) : i \in S
  <2> HIDE DEF S
  <2> QED  BY <1>1, <1>7, <1>8, UpTo
<1> QED  BY <1>3, <1>4, <1>6, <1>9 DEF SumStep

\* A sum of natural numbers is one.
LEMMA SumNat ==
    ASSUME NEW v \in Seq(Nat)
    PROVE  SumOf(v) \in Nat
<1>1. PICK f : /\ SumOf(v) = f[Len(v)] /\ f[0] = 0
               /\ \A i \in 0..Len(v) : f[i] \in Nat /\ (i # 0 => f[i] = f[i - 1] + v[i])
  BY SumRuns
<1>2. Len(v) \in 0..Len(v)
  BY SMTT(30)
<1> QED  BY <1>1, <1>2

LEMMA SumEmpty == SumOf(<<>>) = 0
<1>1. <<>> \in Seq(Nat) /\ Len(<<>>) = 0
  BY SMTT(30)
<1> QED  BY <1>1, SumRuns

\* One more number.
LEMMA SumAppend ==
    ASSUME NEW v \in Seq(Nat), NEW n \in Nat
    PROVE  SumOf(Append(v, n)) = SumOf(v) + n
<1>1. PICK w : w = Append(v, n)
  OBVIOUS
<1>2. PICK m \in Nat : m = Len(v)
  BY SMTT(30)
<1>3. w \in Seq(Nat) /\ Len(w) = m + 1 /\ w[m + 1] = n /\ \A i \in 1..m : w[i] = v[i]
  BY SMTT(30), <1>1, <1>2
<1>4. PICK f : /\ SumOf(v) = f[Len(v)] /\ f[0] = 0
               /\ \A i \in 0..Len(v) : f[i] \in Nat /\ (i # 0 => f[i] = f[i - 1] + v[i])
  BY SumRuns
<1>5. PICK g : /\ SumOf(w) = g[Len(w)] /\ g[0] = 0
               /\ \A i \in 0..Len(w) : g[i] \in Nat /\ (i # 0 => g[i] = g[i - 1] + w[i])
  BY <1>3, SumRuns
<1> DEFINE S == {i \in 0..m : f[i] = g[i]}
<1>6. 0 \in 0..m /\ m + 1 \in 0..(m + 1) /\ m + 1 # 0 /\ (m + 1) - 1 = m /\ m \in 0..m
  BY SMTT(30)
<1>7. 0 \in S
  BY <1>4, <1>5, <1>6
<1>8. ASSUME NEW i \in 0..m, i # m, i \in S PROVE i + 1 \in S
  <2>1. i + 1 \in 0..m /\ i + 1 # 0 /\ (i + 1) - 1 = i /\ i + 1 \in 1..m /\ i + 1 \in 0..(m + 1)
    BY SMTT(30), <1>8
  <2>2. f[i + 1] = f[i] + v[i + 1]
    BY <1>2, <1>4, <2>1
  <2>3. g[i + 1] = g[i] + w[i + 1]
    BY <1>3, <1>5, <2>1
  <2> QED  BY <1>3, <1>8, <2>1, <2>2, <2>3
<1>9. \A i \in 0..m : i \in S
  <2> HIDE DEF S
  <2> QED  BY <1>7, <1>8, UpTo
<1>10. g[m + 1] = g[m] + n
  BY <1>3, <1>5, <1>6
<1>11. f[m] = g[m]
  BY <1>6, <1>9
<1> QED  BY <1>1, <1>2, <1>3, <1>4, <1>5, <1>10, <1>11

\* Without the first number.
LEMMA SumTail ==
    ASSUME NEW v \in Seq(Nat), v # <<>>
    PROVE  SumOf(v) = v[1] + SumOf(Tail(v)) /\ v[1] \in Nat
<1>1. PICK w : w = Tail(v)
  OBVIOUS
<1>2. PICK m \in Nat : m = Len(w)
  BY SMTT(30), <1>1
<1>3. w \in Seq(Nat) /\ Len(v) = m + 1 /\ v[1] \in Nat /\ \A i \in 1..m : w[i] = v[i + 1] /\ w[i] \in Nat
  BY SMTT(30), <1>1, <1>2
<1>4. PICK f : /\ SumOf(v) = f[Len(v)] /\ f[0] = 0
               /\ \A i \in 0..Len(v) : f[i] \in Nat /\ (i # 0 => f[i] = f[i - 1] + v[i])
  BY SumRuns
<1>5. PICK g : /\ SumOf(w) = g[Len(w)] /\ g[0] = 0
               /\ \A i \in 0..Len(w) : g[i] \in Nat /\ (i # 0 => g[i] = g[i - 1] + w[i])
  BY <1>3, SumRuns
<1>0. PICK a \in Nat : a = v[1]
  BY <1>3
<1> DEFINE S == {i \in 0..m : f[i + 1] = a + g[i]}
<1>6. 0 \in 0..m /\ 1 \in 0..(m + 1) /\ 1 # 0 /\ 1 - 1 = 0 /\ 0 + 1 = 1 /\ 0 + a = a + 0 /\ m \in 0..m
  BY SMTT(30)
<1>7. 0 \in S
  <2>1. f[1] = f[0] + v[1]
    BY <1>3, <1>4, <1>6
  <2> QED  BY <1>0, <1>4, <1>5, <1>6, <2>1
<1>8. ASSUME NEW i \in 0..m, i # m, i \in S PROVE i + 1 \in S
  <2>1. PICK j : j = i + 1
    OBVIOUS
  <2>2. j \in 0..m /\ j # 0 /\ j - 1 = i /\ j \in 1..m /\ j + 1 \in 0..(m + 1) /\ j + 1 # 0 /\ (j + 1) - 1 = j
    BY SMTT(30), <1>8, <2>1
  <2>3. f[j + 1] = f[j] + v[j + 1]
    BY <1>3, <1>4, <2>2
  <2>4. g[j] = g[i] + w[j]
    BY <1>2, <1>5, <2>2
  <2>5. PICK b, c \in Nat : b = g[i] /\ c = w[j]
    BY <1>2, <1>3, <1>5, <2>2
  <2>6. (a + b) + c = a + (b + c)
    BY SMTT(30)
  <2>7. f[j] = a + b
    BY <1>8, <2>1, <2>5
  <2>8. f[j + 1] = a + g[j]
    BY <1>3, <2>2, <2>3, <2>4, <2>5, <2>6, <2>7
  <2> QED  BY <2>1, <2>2, <2>8
<1>9. \A i \in 0..m : i \in S
  <2> HIDE DEF S
  <2> QED  BY <1>7, <1>8, UpTo
<1>10. f[m + 1] = a + g[m]
  BY <1>6, <1>9
<1> QED  BY <1>0, <1>1, <1>2, <1>3, <1>4, <1>5, <1>10

\* The last number is at most the sum.
LEMMA SumLast ==
    ASSUME NEW v \in Seq(Nat), v # <<>>
    PROVE  v[Len(v)] \in Nat /\ v[Len(v)] <= SumOf(v)
<1>1. Len(v) \in 0..Len(v) /\ Len(v) # 0 /\ Len(v) - 1 \in 0..Len(v) /\ v[Len(v)] \in Nat
  BY SMTT(30)
<1>2. PICK f : /\ SumOf(v) = f[Len(v)] /\ f[0] = 0
               /\ \A i \in 0..Len(v) : f[i] \in Nat /\ (i # 0 => f[i] = f[i - 1] + v[i])
  BY SumRuns
<1>3. PICK a, b \in Nat : a = f[Len(v) - 1] /\ b = v[Len(v)]
  BY <1>1, <1>2
<1>4. b <= a + b
  BY SMTT(30)
<1>5. f[Len(v)] = a + b
  BY <1>1, <1>2, <1>3
<1> QED  BY <1>1, <1>2, <1>3, <1>4, <1>5

\* The notifications in one of the client's queues: a 1 for each chunk of this stream.
LEMMA MarkFacts ==
    ASSUME NEW v \in Seq({0, 1})
    PROVE  /\ SumOf(v) \in Nat /\ Len(v) \in Nat
           /\ \A n \in {0, 1} : SumOf(Append(v, n)) = SumOf(v) + n /\ Append(v, n) \in Seq({0, 1})
                                /\ Len(Append(v, n)) = Len(v) + 1
           /\ v # <<>> => /\ Head(v) \in {0, 1} /\ Tail(v) \in Seq({0, 1}) /\ Len(v) = Len(Tail(v)) + 1
                           /\ SumOf(v) = Head(v) + SumOf(Tail(v)) /\ SumOf(Tail(v)) \in Nat
<1>1. v \in Seq(Nat) /\ Len(v) \in Nat /\ 0 \in Nat /\ 1 \in Nat
  BY SMTT(30)
<1>2. \A n \in {0, 1} : SumOf(Append(v, n)) = SumOf(v) + n
  BY <1>1, SumAppend
<1>3. \A n \in {0, 1} : Append(v, n) \in Seq({0, 1}) /\ Len(Append(v, n)) = Len(v) + 1
  BY SMTT(30)
<1>4. ASSUME v # <<>>
      PROVE  /\ Head(v) \in {0, 1} /\ Tail(v) \in Seq({0, 1}) /\ Len(v) = Len(Tail(v)) + 1
             /\ SumOf(v) = Head(v) + SumOf(Tail(v)) /\ SumOf(Tail(v)) \in Nat
  <2>1. Head(v) \in {0, 1} /\ Tail(v) \in Seq({0, 1}) /\ Len(v) = Len(Tail(v)) + 1
        /\ Head(v) = v[1] /\ Tail(v) \in Seq(Nat)
    BY SMTT(30), <1>4
  <2>2. SumOf(v) = v[1] + SumOf(Tail(v)) /\ SumOf(Tail(v)) \in Nat
    BY <1>1, <1>4, <2>1, SumTail, SumNat
  <2> QED  BY <2>1, <2>2
<1>5. SumOf(v) \in Nat
  BY <1>1, SumNat
<1> QED  BY <1>1, <1>2, <1>3, <1>4, <1>5

-----------------------------------------------------------------------------
(* Parts of a queue *)

KeepStep(f, s, P, i) ==
    IF i = 0 THEN <<>> ELSE IF i \in P THEN Append(f[i - 1], s[i]) ELSE f[i - 1]
Keeps(f, s, P, n) == f = [i \in 0..n |-> KeepStep(f, s, P, i)]

\* The parts exist, up to any place.
LEMMA KeepsExist ==
    ASSUME NEW s, NEW P, NEW n \in Nat
    PROVE  \E f : Keeps(f, s, P, n)
<1> DEFINE S == {m \in Nat : \E f : Keeps(f, s, P, m)}
<1>1. 0 \in S
  <2> DEFINE f == [i \in 0..0 |-> <<>>]
  <2>1. f = [i \in 0..0 |-> KeepStep(f, s, P, i)]
    BY SMTT(30) DEF KeepStep
  <2> QED  BY SMTT(30), <2>1 DEF Keeps
<1>2. ASSUME NEW m \in 0..n, m \in S PROVE m + 1 \in S
  <2>1. PICK f : Keeps(f, s, P, m)
    BY <1>2
  <2>2. m \in Nat /\ m + 1 \in Nat /\ m + 1 # 0
    BY SMTT(30)
  <2> DEFINE last == IF m + 1 \in P THEN Append(f[m], s[m + 1]) ELSE f[m]
             g == [i \in 0..(m + 1) |-> IF i = m + 1 THEN last ELSE f[i]]
  <2>3. ASSUME NEW i \in 0..(m + 1) PROVE g[i] = KeepStep(g, s, P, i)
    <3>1. CASE i = m + 1
      <4>1. i # 0 /\ i - 1 = m /\ i - 1 \in 0..(m + 1) /\ i - 1 # m + 1
        BY SMTT(30), <2>2, <3>1
      <4>2. g[i] = last /\ g[i - 1] = f[m]
        BY <3>1, <4>1
      <4> QED  BY <3>1, <4>1, <4>2 DEF KeepStep
    <3>2. CASE i # m + 1
      <4>1. i \in 0..m /\ (i # 0 => i - 1 \in 0..(m + 1) /\ i - 1 # m + 1 /\ i - 1 \in 0..m)
        BY SMTT(30), <2>2, <3>2
      <4>2. g[i] = f[i] /\ (i # 0 => g[i - 1] = f[i - 1])
        BY <3>2, <4>1
      <4>3. f[i] = KeepStep(f, s, P, i)
        BY <2>1, <4>1 DEF Keeps
      <4> QED  BY <4>2, <4>3 DEF KeepStep
    <3> QED  BY <3>1, <3>2
  <2> HIDE DEF last
  <2>4. g = [i \in 0..(m + 1) |-> KeepStep(g, s, P, i)]
    BY <2>3
  <2> QED  BY <2>2, <2>4 DEF Keeps
<1>3. \A i \in 0..n : i \in S
  <2> HIDE DEF S
  <2> QED  BY <1>1, <1>2, UpTo
<1>4. n \in 0..n
  BY SMTT(30)
<1> QED  BY <1>3, <1>4

\* s is a queue whose places P hold members of T; f has the parts of it.
Parts(s, P, T) == s \in Seq(Range(s)) /\ \A i \in 1..Len(s) : i \in P => s[i] \in T
Parted(f, s, P, T) ==
    /\ Keep(s, P) = f[Len(s)] /\ f[0] = <<>>
    /\ \A i \in 0..Len(s) : /\ f[i] \in Seq(T)
                            /\ i # 0 => f[i] = IF i \in P THEN Append(f[i - 1], s[i]) ELSE f[i - 1]

\* What Keep goes through.
LEMMA KeepRuns ==
    ASSUME NEW s, NEW P, NEW T, Parts(s, P, T)
    PROVE  \E f : Parted(f, s, P, T)
<1>1. Len(s) \in Nat
  BY SMTT(30) DEF Parts
<1> DEFINE f == CHOOSE g : Keeps(g, s, P, Len(s))
<1>2. Keeps(f, s, P, Len(s))
  BY <1>1, KeepsExist
<1>3. Keep(s, P) = f[Len(s)]
  BY DEF Keep, Keeps, KeepStep
<1> HIDE DEF f
<1>4. \A i \in 0..Len(s) : f[i] = KeepStep(f, s, P, i)
  BY <1>2 DEF Keeps
<1>5. 0 \in 0..Len(s)
  BY SMTT(30), <1>1
<1>6. f[0] = <<>>
  BY <1>4, <1>5 DEF KeepStep
<1> DEFINE S == {i \in 0..Len(s) : f[i] \in Seq(T)}
<1>7. 0 \in S
  <2>1. <<>> \in Seq(T)
    BY SMTT(30)
  <2> QED  BY <1>5, <1>6, <2>1
<1>8. ASSUME NEW i \in 0..Len(s), i # Len(s), i \in S PROVE i + 1 \in S
  <2>1. i + 1 \in 0..Len(s) /\ i + 1 # 0 /\ (i + 1) - 1 = i /\ i + 1 \in 1..Len(s)
    BY <1>1, <1>8, Successor
  <2>2. i + 1 \in P => s[i + 1] \in T
    BY <2>1 DEF Parts
  <2>3. f[i + 1] = IF i + 1 \in P THEN Append(f[i], s[i + 1]) ELSE f[i]
    BY <1>4, <2>1 DEF KeepStep
  <2>4. \A x \in T, q \in Seq(T) : Append(q, x) \in Seq(T)
    BY SMTT(30)
  <2> QED  BY <1>8, <2>1, <2>2, <2>3, <2>4
<1>9. \A i \in 0..Len(s) : i \in S
  <2> HIDE DEF S
  <2> QED  BY <1>1, <1>7, <1>8, UpTo
<1>10. \A i \in 0..Len(s) : f[i] \in Seq(T)
  BY <1>9
<1>11. \A i \in 0..Len(s) : i # 0 => f[i] = IF i \in P THEN Append(f[i - 1], s[i]) ELSE f[i - 1]
  BY <1>4 DEF KeepStep
<1>12. Parted(f, s, P, T)
  BY <1>3, <1>6, <1>10, <1>11 DEF Parted
<1> QED  BY <1>12

\* Keep returns a queue of what it keeps.
LEMMA KeepType ==
    ASSUME NEW s, NEW P, NEW T, Parts(s, P, T)
    PROVE  Keep(s, P) \in Seq(T)
<1>1. PICK f : Parted(f, s, P, T)
  BY KeepRuns
<1>2. Len(s) \in 0..Len(s)
  BY SMTT(30) DEF Parts
<1> QED  BY <1>1, <1>2 DEF Parted

\* w is s with x behind it; R are its places.
Longer(s, P, x, w, R) == w = Append(s, x) /\ \A i \in 1..Len(s) : i \in R <=> i \in P

\* A frame that joins a queue is kept last, or not at all.
LEMMA KeepAppend ==
    ASSUME NEW s, NEW P, NEW T, NEW x, NEW w, NEW R,
           Parts(s, P, T), Longer(s, P, x, w, R), Len(w) \in R => x \in T
    PROVE  Keep(w, R) = IF Len(w) \in R THEN Append(Keep(s, P), x) ELSE Keep(s, P)
<1>1. PICK m \in Nat : m = Len(s)
  BY SMTT(30) DEF Parts
<1>2. w \in Seq(Range(s) \cup {x}) /\ Len(w) = m + 1 /\ w[m + 1] = x /\ \A i \in 1..m : w[i] = s[i]
  BY SMTT(30), <1>1 DEF Parts, Longer
<1>3. \A i \in 1..(m + 1) : i = m + 1 \/ i \in 1..m
  BY SMTT(30)
<1>4. Parts(w, R, T)
  <2>1. w \in Seq(Range(w))
    BY SMTT(30), <1>2 DEF Range
  <2>2. \A i \in 1..Len(w) : i \in R => w[i] \in T
    BY <1>1, <1>2, <1>3 DEF Parts, Longer
  <2> QED  BY <2>1, <2>2 DEF Parts
<1>5. PICK f : Parted(f, s, P, T)
  BY KeepRuns
<1>6. PICK g : Parted(g, w, R, T)
  BY <1>4, KeepRuns
<1> DEFINE S == {i \in 0..m : f[i] = g[i]}
<1>7. 0 \in 0..m /\ m + 1 \in 0..(m + 1) /\ m + 1 # 0 /\ (m + 1) - 1 = m /\ m \in 0..m
  BY SMTT(30)
<1>8. 0 \in S
  BY <1>5, <1>6, <1>7 DEF Parted
<1>9. ASSUME NEW i \in 0..m, i # m, i \in S PROVE i + 1 \in S
  <2>1. i + 1 \in 0..m /\ i + 1 # 0 /\ (i + 1) - 1 = i /\ i + 1 \in 1..m /\ i + 1 \in 0..(m + 1)
    BY SMTT(30), <1>9
  <2>2. f[i + 1] = IF i + 1 \in P THEN Append(f[i], s[i + 1]) ELSE f[i]
    BY <1>1, <1>5, <2>1 DEF Parted
  <2>3. g[i + 1] = IF i + 1 \in R THEN Append(g[i], w[i + 1]) ELSE g[i]
    <3>1. \A k \in 0..(m + 1) : k # 0 => g[k] = IF k \in R THEN Append(g[k - 1], w[k]) ELSE g[k - 1]
      BY <1>2, <1>6 DEF Parted
    <3> QED  BY <2>1, <3>1
  <2>4. (i + 1 \in R <=> i + 1 \in P) /\ w[i + 1] = s[i + 1] /\ f[i] = g[i]
    BY <1>1, <1>2, <1>9, <2>1 DEF Longer
  <2>5. f[i + 1] = g[i + 1]
    BY <2>2, <2>3, <2>4
  <2> QED  BY <2>1, <2>5
<1>10. \A i \in 0..m : i \in S
  <2> HIDE DEF S
  <2> QED  BY <1>8, <1>9, UpTo
<1>11. g[m + 1] = IF m + 1 \in R THEN Append(g[m], x) ELSE g[m]
  BY <1>2, <1>6, <1>7 DEF Parted
<1>12. f[m] = g[m]
  BY <1>7, <1>10
<1> QED  BY <1>1, <1>2, <1>5, <1>6, <1>11, <1>12 DEF Parted

\* w is s without its first frame; R are its places.
Shorter(s, P, w, R) == s # <<>> /\ w = Tail(s) /\ \A i \in 1..Len(w) : i \in R <=> i + 1 \in P

\* A frame that leaves a queue was kept first, or not at all.
LEMMA KeepTail ==
    ASSUME NEW s, NEW P, NEW T, NEW w, NEW R, Parts(s, P, T), Shorter(s, P, w, R)
    PROVE  Keep(s, P) = (IF 1 \in P THEN <<s[1]>> ELSE <<>>) \o Keep(w, R)
<1>1. PICK m \in Nat : m = Len(w)
  BY SMTT(30) DEF Parts, Shorter
<1>2. w \in Seq(Range(s)) /\ Len(s) = m + 1 /\ \A i \in 1..m : w[i] = s[i + 1] /\ i + 1 \in 1..(m + 1)
  BY SMTT(30), <1>1 DEF Parts, Shorter
<1>3. Parts(w, R, T)
  <2>1. w \in Seq(Range(w))
    BY SMTT(30), <1>2 DEF Range
  <2>2. \A i \in 1..Len(w) : i \in R => w[i] \in T
    BY <1>1, <1>2 DEF Parts, Shorter
  <2> QED  BY <2>1, <2>2 DEF Parts
<1>4. PICK f : Parted(f, s, P, T)
  BY KeepRuns
<1>5. PICK g : Parted(g, w, R, T)
  BY <1>3, KeepRuns
<1>6. PICK h : h = IF 1 \in P THEN <<s[1]>> ELSE <<>>
  OBVIOUS
<1>7. 0 \in 0..m /\ 1 \in 0..(m + 1) /\ 1 \in 1..(m + 1) /\ 1 # 0 /\ 1 - 1 = 0 /\ 0 + 1 = 1 /\ m \in 0..m
  BY SMTT(30)
<1>8. h \in Seq(T)
  <2>1. 1 \in P => s[1] \in T
    BY <1>2, <1>7 DEF Parts
  <2>2. <<>> \in Seq(T) /\ \A x \in T : <<x>> \in Seq(T)
    BY SMTT(30)
  <2> QED  BY <1>6, <2>1, <2>2
<1>9. h \o <<>> = h /\ (\A x : Append(<<>>, x) = <<x>>)
      /\ \A q \in Seq(T), x \in T : Append(h \o q, x) = h \o Append(q, x)
  <2>1. h \o <<>> = h
    BY SMTT(30), <1>8
  <2>2. \A x : Append(<<>>, x) = <<x>>
    BY SMTT(30)
  <2>3. \A q \in Seq(T), x \in T : Append(h \o q, x) = h \o Append(q, x)
    BY SMTT(30), <1>8
  <2> QED  BY <2>1, <2>2, <2>3
<1> DEFINE S == {i \in 0..m : f[i + 1] = h \o g[i]}
<1>10. 0 \in S
  <2>1. f[1] = IF 1 \in P THEN Append(f[0], s[1]) ELSE f[0]
    BY <1>2, <1>4, <1>7 DEF Parted
  <2>2. f[0] = <<>> /\ g[0] = <<>>
    BY <1>4, <1>5 DEF Parted
  <2>3. f[1] = h
    BY <1>6, <1>9, <2>1, <2>2
  <2> QED  BY <1>7, <1>9, <2>2, <2>3
<1>11. ASSUME NEW i \in 0..m, i # m, i \in S PROVE i + 1 \in S
  <2>1. PICK j : j = i + 1
    OBVIOUS
  <2>2. j \in 0..m /\ j # 0 /\ j - 1 = i /\ j \in 1..m /\ j + 1 \in 0..(m + 1) /\ j + 1 # 0 /\ (j + 1) - 1 = j
    BY SMTT(30), <1>11, <2>1
  <2>3. f[j + 1] = IF j + 1 \in P THEN Append(f[j], s[j + 1]) ELSE f[j]
    <3>1. \A k \in 0..(m + 1) : k # 0 => f[k] = IF k \in P THEN Append(f[k - 1], s[k]) ELSE f[k - 1]
      BY <1>2, <1>4 DEF Parted
    <3> QED  BY <2>2, <3>1
  <2>4. g[j] = IF j \in R THEN Append(g[i], w[j]) ELSE g[i]
    BY <1>1, <1>5, <2>2 DEF Parted
  <2>5. (j \in R <=> j + 1 \in P) /\ w[j] = s[j + 1]
    BY <1>1, <1>2, <2>2 DEF Shorter
  <2>6. g[i] \in Seq(T) /\ (j \in R => w[j] \in T)
    BY <1>1, <1>3, <1>5, <2>2 DEF Parted, Parts
  <2>7. f[j] = h \o g[i]
    BY <1>11, <2>1
  <2>8. f[j + 1] = h \o g[j]
    <3>1. CASE j \in R
      <4>1. f[j + 1] = Append(h \o g[i], w[j]) /\ g[j] = Append(g[i], w[j])
        BY <2>3, <2>4, <2>5, <2>7, <3>1
      <4>2. Append(h \o g[i], w[j]) = h \o Append(g[i], w[j])
        BY <1>9, <2>6, <3>1
      <4> QED  BY <4>1, <4>2
    <3>2. CASE j \notin R
      BY <2>3, <2>4, <2>5, <2>7, <3>2
    <3> QED  BY <3>1, <3>2
  <2> QED  BY <2>1, <2>2, <2>8
<1>12. \A i \in 0..m : i \in S
  <2> HIDE DEF S
  <2> QED  BY <1>10, <1>11, UpTo
<1>13. f[m + 1] = h \o g[m]
  BY <1>7, <1>12
<1> QED  BY <1>1, <1>2, <1>4, <1>5, <1>6, <1>13 DEF Parted

-----------------------------------------------------------------------------
(* The invariant *)

Chunks == [offset : Nat, size : Sizes, sequence : Nat, truncated : BOOLEAN, credit : Declarations]
Flows == [remaining : Nat, through : Nat, sequence : Nat]
Detached == [type |-> "detached"]
Other == [type |-> "other"]
Notices == Chunks \cup {Other}
Frames == Notices \cup {Detached}
Detaching == [type |-> "detach"]
Credits == [type : {"credit"}, bytes : Nat, through : Nat]
Holding == producer \in {"consume", "blocked", "publish"}

\* The variables' types.
EndTypes ==
    /\ app \in Applications
    /\ server \in Flows /\ server.remaining <= WindowBytes
    /\ client \in Flows /\ client.remaining <= WindowBytes
StateTypes ==
    /\ admitted \in BOOLEAN /\ lifetime \in BOOLEAN
    /\ producer \in {"idle", "consume", "blocked", "publish", "ended"}
    /\ pulled \in 0..MaxChunks /\ writer \in {"top", "select"}
    /\ inbox \in Seq({0, 1}) /\ Len(inbox) <= MaxOutboundQueue
    /\ unread \in Seq({0, 1}) /\ Len(unread) <= MaxOutboundQueue + 1
    /\ others \in 0..MaxOthers
    /\ flow \in {"active", "acked", "retired"}
    /\ fault \in {"none", "provider", "credit", "chunk", "detach", "late", "overflow", "crowded"}
    /\ Holding => chunk \in Chunks
QueueTypes ==
    /\ data \in Seq(Notices) /\ Len(data) <= MaxOutboundQueue
    /\ toClient \in Seq(Frames)
    /\ toServer \in Seq(Credits \cup {Detaching})

\* The one terminal.detach: where its frame is.
DetachInv ==
    /\ detach \in {"none", "sent", "handling", "queued", "written", "committed"}
    /\ control = IF detach = "queued" THEN <<Detached>> ELSE <<>>
    /\ \A i \in DOMAIN toServer : toServer[i] = Detaching => detach = "sent"
    /\ \A i, j \in DOMAIN toServer : toServer[i] = Detaching /\ toServer[j] = Detaching => i = j

\* The chunks that wait for the application were paid for with the window.
Smallest == Min(Sizes)
InboxInv == Live => Smallest * (SumOf(inbox) + SumOf(unread)) + client.remaining <= WindowBytes

\* Where a flow is after a chunk that was declared rightly, and which chunk follows.
Past(c) == [remaining |-> c.credit, through |-> c.offset + c.size, sequence |-> c.sequence]
Fits(c, f) == Continues(c, f) /\ c.size <= f.remaining /\ c.credit = f.remaining - c.size
Reaches(q, f) == IF q = <<>> THEN f ELSE Past(q[Len(q)])
Careful == "eager" \notin allowed
Cutting == producer \in {"consume", "blocked"} /\ chunk.truncated

\* The chunks q in flight lead from the client's flow f to the server's flow s.
Chain(q, f) ==
    /\ q # <<>> => Fits(q[1], f)
    /\ \A i \in DOMAIN q : i # Len(q) => Fits(q[i + 1], Past(q[i]))
Joined(q, f, s, cutting) ==
    /\ q # <<>> => s.remaining = Reaches(q, f).remaining
    /\ s.sequence = Reaches(q, f).sequence
    /\ s.through >= Reaches(q, f).through
    /\ s.through # Reaches(q, f).through => cutting
\* Credit is on its way only when nothing else is, and the last of it was needed.
Needed(k, q, f) == k # <<>> =>
    /\ q = <<>>
    /\ f.remaining - k[Len(k)].bytes < Smallest
    /\ \A i \in DOMAIN k : k[i].through = f.through
Returned == CreditsIn(toServer)
ChainInv == Live /\ Careful =>
    /\ Chain(InFlight, client) /\ Joined(InFlight, client, server, Cutting)
    /\ Needed(Returned, InFlight, client)
\* An uninterrupted stream.
SteadyInv == allowed \subseteq {"share"} =>
    /\ detach = "none" /\ flow = "active" /\ admitted /\ lifetime
    /\ Holding => ~chunk.truncated
    /\ toClient \in Seq(Notices)

IInv == /\ EndTypes /\ StateTypes /\ QueueTypes /\ DetachInv /\ InboxInv /\ WindowConserved
        /\ ChainInv /\ SteadyInv /\ FaultsEarned

-----------------------------------------------------------------------------
(* Chunks and credits in the queues *)

\* Chunks and credit can be told from the frames of a detach and from other notifications.
LEMMA Kinds ==
    /\ \A c \in Chunks : IsChunk(c) /\ c # Detached /\ c # Other
    /\ ~IsChunk(Detached) /\ ~IsChunk(Other) /\ Detached # Other
    /\ \A k \in Credits : k.type = "credit" /\ k # Detaching
    /\ Detaching.type # "credit"
<1>1. \A c \in Chunks : IsChunk(c)
  BY SMTT(30) DEF Chunks, IsChunk
<1>2. ~IsChunk(Detached) /\ ~IsChunk(Other) /\ Detached # Other
  BY SMTT(30) DEF IsChunk, Detached, Other
<1>3. \A k \in Credits : k.type = "credit" /\ k # Detaching
  BY SMTT(30) DEF Credits, Detaching
<1>4. Detaching.type # "credit"
  BY SMTT(30) DEF Detaching
<1> QED  BY <1>1, <1>2, <1>3, <1>4

ChunkPlaces(s) == {i \in DOMAIN s : IsChunk(s[i])}
CreditPlaces(s) == {i \in DOMAIN s : s[i].type = "credit"}

LEMMA SeqFacts ==
    ASSUME NEW A, NEW s \in Seq(A)
    PROVE  DOMAIN s = 1..Len(s) /\ s \in Seq(Range(s)) /\ \A i \in 1..Len(s) : s[i] \in A
<1>1. DOMAIN s = 1..Len(s) /\ \A i \in 1..Len(s) : s[i] \in A
  BY SMTT(30)
<1>2. s \in Seq(Range(s))
  BY SMTT(30) DEF Range
<1> QED  BY <1>1, <1>2

LEMMA ChunkParts ==
    ASSUME NEW s \in Seq(Frames)
    PROVE  Parts(s, ChunkPlaces(s), Chunks)
<1>1. DOMAIN s = 1..Len(s) /\ s \in Seq(Range(s)) /\ \A i \in 1..Len(s) : s[i] \in Frames
  BY SeqFacts
<1>2. ASSUME NEW i \in 1..Len(s), i \in ChunkPlaces(s) PROVE s[i] \in Chunks
  BY <1>1, <1>2, Kinds DEF ChunkPlaces, Frames, Notices
<1> QED  BY <1>1, <1>2 DEF Parts

LEMMA CreditParts ==
    ASSUME NEW s \in Seq(Credits \cup {Detaching})
    PROVE  Parts(s, CreditPlaces(s), Credits)
<1>1. DOMAIN s = 1..Len(s) /\ s \in Seq(Range(s)) /\ \A i \in 1..Len(s) : s[i] \in Credits \cup {Detaching}
  BY SeqFacts
<1>2. ASSUME NEW i \in 1..Len(s), i \in CreditPlaces(s) PROVE s[i] \in Credits
  BY <1>1, <1>2, Kinds DEF CreditPlaces
<1> QED  BY <1>1, <1>2 DEF Parts

\* The data queue holds what may go to the client.
LEMMA NoticesAreFrames == \A s \in Seq(Notices) : s \in Seq(Frames)
<1>1. Notices \subseteq Frames
  BY DEF Frames
<1> QED  BY SMTT(30), <1>1

\* The chunks in a queue from the server.
LEMMA ChunksType ==
    ASSUME NEW s \in Seq(Frames)
    PROVE  ChunksIn(s) \in Seq(Chunks)
BY ChunkParts, KeepType DEF ChunksIn, ChunkPlaces

\* The credit in a queue from the client.
LEMMA CreditsType ==
    ASSUME NEW s \in Seq(Credits \cup {Detaching})
    PROVE  CreditsIn(s) \in Seq(Credits)
BY CreditParts, KeepType DEF CreditsIn, CreditPlaces

LEMMA KeepEmpty == ASSUME NEW P PROVE Keep(<<>>, P) = <<>>
<1>1. <<>> \in Seq({}) /\ Len(<<>>) = 0
  BY SMTT(30)
<1>2. \A i \in 1..Len(<<>>) : FALSE
  BY SMTT(30)
<1>3. Parts(<<>>, P, {})
  BY <1>1, <1>2, SeqFacts DEF Parts
<1>4. PICK f : Parted(f, <<>>, P, {})
  BY <1>3, KeepRuns
<1> QED  BY <1>1, <1>4 DEF Parted

\* A frame joins a queue.
LEMMA AppendFacts ==
    ASSUME NEW A, NEW s \in Seq(A), NEW x \in A
    PROVE  /\ Append(s, x) \in Seq(A) /\ Len(Append(s, x)) = Len(s) + 1 /\ Len(Append(s, x)) \in Nat
           /\ DOMAIN Append(s, x) = 1..Len(Append(s, x)) /\ Len(Append(s, x)) \in DOMAIN Append(s, x)
           /\ Append(s, x)[Len(Append(s, x))] = x
           /\ \A i \in 1..Len(s) : i \in DOMAIN Append(s, x) /\ i \in DOMAIN s /\ Append(s, x)[i] = s[i]
<1>1. Append(s, x) \in Seq(A) /\ Len(Append(s, x)) = Len(s) + 1 /\ Len(Append(s, x)) \in Nat
  BY SMTT(30)
<1>2. DOMAIN Append(s, x) = 1..Len(Append(s, x)) /\ Len(Append(s, x)) \in DOMAIN Append(s, x)
  BY SMTT(30)
<1>3. Append(s, x)[Len(Append(s, x))] = x
  BY SMTT(30)
<1>4. \A i \in 1..Len(s) : i \in DOMAIN Append(s, x) /\ i \in DOMAIN s /\ Append(s, x)[i] = s[i]
  BY SMTT(30)
<1> QED  BY <1>1, <1>2, <1>3, <1>4

LEMMA ChunksAppend ==
    ASSUME NEW s \in Seq(Frames), NEW x \in Frames
    PROVE  ChunksIn(Append(s, x)) = IF x \in Chunks THEN Append(ChunksIn(s), x) ELSE ChunksIn(s)
<1>1. PICK w : w = Append(s, x)
  OBVIOUS
<1>2. /\ Len(w) \in DOMAIN w /\ w[Len(w)] = x
      /\ \A i \in 1..Len(s) : i \in DOMAIN w /\ i \in DOMAIN s /\ w[i] = s[i]
  BY SMTT(30), <1>1
<1>3. Longer(s, ChunkPlaces(s), x, w, ChunkPlaces(w))
  BY <1>1, <1>2 DEF Longer, ChunkPlaces
<1>4. Len(w) \in ChunkPlaces(w) <=> x \in Chunks
  BY <1>2, Kinds DEF ChunkPlaces, Frames, Notices
<1>5. Parts(s, ChunkPlaces(s), Chunks)
  BY ChunkParts
<1>6. PICK P, R : P = ChunkPlaces(s) /\ R = ChunkPlaces(w)
  OBVIOUS
<1>7. Parts(s, P, Chunks) /\ Longer(s, P, x, w, R) /\ (Len(w) \in R => x \in Chunks)
  BY <1>3, <1>4, <1>5, <1>6
<1>8. Keep(w, R) = IF Len(w) \in R THEN Append(Keep(s, P), x) ELSE Keep(s, P)
  BY SMTT(30), <1>7, KeepAppend
<1> QED  BY <1>1, <1>4, <1>6, <1>8 DEF ChunksIn, ChunkPlaces

LEMMA CreditsAppend ==
    ASSUME NEW s \in Seq(Credits \cup {Detaching}), NEW x \in Credits \cup {Detaching}
    PROVE  CreditsIn(Append(s, x)) = IF x \in Credits THEN Append(CreditsIn(s), x) ELSE CreditsIn(s)
<1>1. PICK w : w = Append(s, x)
  OBVIOUS
<1>2. /\ Len(w) \in DOMAIN w /\ w[Len(w)] = x
      /\ \A i \in 1..Len(s) : i \in DOMAIN w /\ i \in DOMAIN s /\ w[i] = s[i]
  BY SMTT(30), <1>1
<1>3. Longer(s, CreditPlaces(s), x, w, CreditPlaces(w))
  BY <1>1, <1>2 DEF Longer, CreditPlaces
<1>4. Len(w) \in CreditPlaces(w) <=> x \in Credits
  BY <1>2, Kinds DEF CreditPlaces
<1>5. Parts(s, CreditPlaces(s), Credits)
  BY CreditParts
<1>6. PICK P, R : P = CreditPlaces(s) /\ R = CreditPlaces(w)
  OBVIOUS
<1>7. Parts(s, P, Credits) /\ Longer(s, P, x, w, R) /\ (Len(w) \in R => x \in Credits)
  BY <1>3, <1>4, <1>5, <1>6
<1>8. Keep(w, R) = IF Len(w) \in R THEN Append(Keep(s, P), x) ELSE Keep(s, P)
  BY SMTT(30), <1>7, KeepAppend
<1> QED  BY <1>1, <1>4, <1>6, <1>8 DEF CreditsIn, CreditPlaces

\* A frame leaves a queue.
LEMMA TailFacts ==
    ASSUME NEW A, NEW s \in Seq(A), s # <<>>
    PROVE  /\ Tail(s) \in Seq(A) /\ Len(s) = Len(Tail(s)) + 1 /\ Head(s) = s[1]
           /\ 1 \in DOMAIN s /\ 1 \in 1..Len(s) /\ s[1] \in A
           /\ \A i \in 1..Len(Tail(s)) : i \in DOMAIN Tail(s) /\ i + 1 \in DOMAIN s /\ Tail(s)[i] = s[i + 1]
<1>1. Tail(s) \in Seq(A) /\ Len(s) = Len(Tail(s)) + 1 /\ Head(s) = s[1]
  BY SMTT(30)
<1>2. 1 \in DOMAIN s /\ 1 \in 1..Len(s) /\ s[1] \in A
  BY SMTT(30)
<1>3. \A i \in 1..Len(Tail(s)) : i \in DOMAIN Tail(s) /\ i + 1 \in DOMAIN s /\ Tail(s)[i] = s[i + 1]
  BY SMTT(30)
<1> QED  BY <1>1, <1>2, <1>3

LEMMA ChunksTail ==
    ASSUME NEW s \in Seq(Frames), s # <<>>
    PROVE  ChunksIn(s) = (IF s[1] \in Chunks THEN <<s[1]>> ELSE <<>>) \o ChunksIn(Tail(s))
<1>1. PICK w : w = Tail(s)
  OBVIOUS
<1>2. 1 \in DOMAIN s /\ s[1] \in Frames
      /\ \A i \in 1..Len(w) : i \in DOMAIN w /\ i + 1 \in DOMAIN s /\ w[i] = s[i + 1]
  BY <1>1, TailFacts
<1>3. Shorter(s, ChunkPlaces(s), w, ChunkPlaces(w))
  BY <1>1, <1>2 DEF Shorter, ChunkPlaces
<1>4. 1 \in ChunkPlaces(s) <=> s[1] \in Chunks
  BY <1>2, Kinds DEF ChunkPlaces, Frames, Notices
<1>5. Parts(s, ChunkPlaces(s), Chunks)
  BY ChunkParts
<1>6. PICK P, R : P = ChunkPlaces(s) /\ R = ChunkPlaces(w)
  OBVIOUS
<1>7. Parts(s, P, Chunks) /\ Shorter(s, P, w, R)
  BY <1>3, <1>5, <1>6
<1>8. Keep(s, P) = (IF 1 \in P THEN <<s[1]>> ELSE <<>>) \o Keep(w, R)
  BY SMTT(30), <1>7, KeepTail
<1> QED  BY <1>1, <1>4, <1>6, <1>8 DEF ChunksIn, ChunkPlaces

LEMMA CreditsTail ==
    ASSUME NEW s \in Seq(Credits \cup {Detaching}), s # <<>>
    PROVE  CreditsIn(s) = (IF s[1] \in Credits THEN <<s[1]>> ELSE <<>>) \o CreditsIn(Tail(s))
<1>1. PICK w : w = Tail(s)
  OBVIOUS
<1>2. 1 \in DOMAIN s /\ s[1] \in Credits \cup {Detaching}
      /\ \A i \in 1..Len(w) : i \in DOMAIN w /\ i + 1 \in DOMAIN s /\ w[i] = s[i + 1]
  BY <1>1, TailFacts
<1>3. Shorter(s, CreditPlaces(s), w, CreditPlaces(w))
  BY <1>1, <1>2 DEF Shorter, CreditPlaces
<1>4. 1 \in CreditPlaces(s) <=> s[1] \in Credits
  BY <1>2, Kinds DEF CreditPlaces
<1>5. Parts(s, CreditPlaces(s), Credits)
  BY CreditParts
<1>6. PICK P, R : P = CreditPlaces(s) /\ R = CreditPlaces(w)
  OBVIOUS
<1>7. Parts(s, P, Credits) /\ Shorter(s, P, w, R)
  BY <1>3, <1>5, <1>6
<1>8. Keep(s, P) = (IF 1 \in P THEN <<s[1]>> ELSE <<>>) \o Keep(w, R)
  BY SMTT(30), <1>7, KeepTail
<1> QED  BY <1>1, <1>4, <1>6, <1>8 DEF CreditsIn, CreditPlaces

-----------------------------------------------------------------------------
(* What the chunks and the credit in the queues add up to *)

SizeList(q) == [i \in DOMAIN q |-> q[i].size]
ByteList(k) == [i \in DOMAIN k |-> k[i].bytes]

LEMMA SizeFacts == \A c \in Chunks : c.size \in Nat /\ c.size \in Sizes /\ c.credit \in Nat
                                     /\ c.offset \in Nat /\ c.sequence \in Nat /\ c.truncated \in BOOLEAN
<1>1. \A c \in Chunks : c.size \in Sizes /\ c.credit \in Declarations /\ c.offset \in Nat
                        /\ c.sequence \in Nat /\ c.truncated \in BOOLEAN
  BY SMTT(30) DEF Chunks
<1> QED  BY <1>1, FlowAssumption

LEMMA ByteFacts == \A k \in Credits : k.bytes \in Nat /\ k.through \in Nat
BY SMTT(30) DEF Credits

LEMMA SizeListType == ASSUME NEW q \in Seq(Chunks) PROVE SizeList(q) \in Seq(Nat) /\ Len(SizeList(q)) = Len(q)
<1>1. DOMAIN q = 1..Len(q) /\ \A i \in 1..Len(q) : q[i].size \in Nat
  BY SMTT(30), SizeFacts
<1> QED  BY SMTT(30), <1>1 DEF SizeList

LEMMA ByteListType == ASSUME NEW k \in Seq(Credits) PROVE ByteList(k) \in Seq(Nat) /\ Len(ByteList(k)) = Len(k)
<1>1. DOMAIN k = 1..Len(k) /\ \A i \in 1..Len(k) : k[i].bytes \in Nat
  BY SMTT(30), ByteFacts
<1> QED  BY SMTT(30), <1>1 DEF ByteList

LEMMA SizesNat == ASSUME NEW q \in Seq(Chunks) PROVE SizesOf(q) \in Nat
BY SizeListType, SumNat DEF SizesOf, SizeList

LEMMA BytesNat == ASSUME NEW k \in Seq(Credits) PROVE BytesOf(k) \in Nat
BY ByteListType, SumNat DEF BytesOf, ByteList

LEMMA NothingAdds == SizesOf(<<>>) = 0 /\ BytesOf(<<>>) = 0
<1>1. SizeList(<<>>) = <<>> /\ ByteList(<<>>) = <<>>
  BY SMTT(30) DEF SizeList, ByteList
<1> QED  BY <1>1, SumEmpty DEF SizesOf, SizeList, BytesOf, ByteList

\* What is in flight grows by a chunk that is admitted,
LEMMA SizesAppend ==
    ASSUME NEW q \in Seq(Chunks), NEW c \in Chunks
    PROVE  SizesOf(Append(q, c)) = SizesOf(q) + c.size
<1>1. SizeList(Append(q, c)) = Append(SizeList(q), c.size)
  BY SMTT(30) DEF SizeList
<1> QED  BY <1>1, SizeListType, SizeFacts, SumAppend DEF SizesOf, SizeList

\* so does the credit on its way
LEMMA BytesAppend ==
    ASSUME NEW k \in Seq(Credits), NEW c \in Credits
    PROVE  BytesOf(Append(k, c)) = BytesOf(k) + c.bytes
<1>1. ByteList(Append(k, c)) = Append(ByteList(k), c.bytes)
  BY SMTT(30) DEF ByteList
<1> QED  BY <1>1, ByteListType, ByteFacts, SumAppend DEF BytesOf, ByteList

\* and shrinks by the one that is read;
LEMMA SizesTail ==
    ASSUME NEW q \in Seq(Chunks), q # <<>>
    PROVE  SizesOf(q) = q[1].size + SizesOf(Tail(q)) /\ q[1].size \in Nat
<1>1. SizeList(Tail(q)) = Tail(SizeList(q)) /\ SizeList(q)[1] = q[1].size /\ SizeList(q) # <<>>
  BY SMTT(30) DEF SizeList
<1>2. SumOf(SizeList(q)) = SizeList(q)[1] + SumOf(Tail(SizeList(q))) /\ SizeList(q)[1] \in Nat
  BY <1>1, SizeListType, SumTail
<1> QED  BY <1>1, <1>2 DEF SizesOf, SizeList

\* when it is sent and applied.
LEMMA BytesTail ==
    ASSUME NEW k \in Seq(Credits), k # <<>>
    PROVE  BytesOf(k) = k[1].bytes + BytesOf(Tail(k)) /\ k[1].bytes \in Nat
<1>1. ByteList(Tail(k)) = Tail(ByteList(k)) /\ ByteList(k)[1] = k[1].bytes /\ ByteList(k) # <<>>
  BY SMTT(30) DEF ByteList
<1>2. SumOf(ByteList(k)) = ByteList(k)[1] + SumOf(Tail(ByteList(k))) /\ ByteList(k)[1] \in Nat
  BY <1>1, ByteListType, SumTail
<1> QED  BY <1>1, <1>2 DEF BytesOf, ByteList

LEMMA BytesLast ==
    ASSUME NEW k \in Seq(Credits), k # <<>>
    PROVE  k[Len(k)].bytes \in Nat /\ k[Len(k)].bytes <= BytesOf(k)
<1>1. ByteList(k)[Len(ByteList(k))] = k[Len(k)].bytes /\ ByteList(k) # <<>>
  BY SMTT(30) DEF ByteList
<1>2. ByteList(k)[Len(ByteList(k))] \in Nat /\ ByteList(k)[Len(ByteList(k))] <= SumOf(ByteList(k))
  BY <1>1, ByteListType, SumLast
<1> QED  BY <1>1, <1>2 DEF BytesOf, ByteList

\* The smallest chunk is one: sets of sizes need not be finite.
LEMMA SmallestFacts == Smallest \in Sizes /\ Smallest \in Nat /\ Smallest > 0 /\ \A n \in Sizes : n \in Nat /\ Smallest <= n
<1>1. Sizes \subseteq Nat /\ Sizes # {} /\ 0 \notin Sizes
  BY FlowAssumption
<1>2. PICK x \in Sizes : \A y \in Sizes : x <= y
  BY <1>1, LeastNatural
<1>3. Smallest \in Sizes /\ \A y \in Sizes : Smallest <= y
  BY <1>2 DEF Smallest, Min
<1>4. Smallest \in Nat /\ Smallest # 0
  BY <1>1, <1>3
<1>5. Smallest > 0
  BY SMTT(30), <1>4
<1> QED  BY <1>1, <1>3, <1>4, <1>5

\* Splitting a queue.
LEMMA SplitFacts ==
    ASSUME NEW A, NEW a \in Seq(A), a # <<>>
    PROVE  a = <<Head(a)>> \o Tail(a) /\ Head(a) \in A /\ Tail(a) \in Seq(A) /\ Head(a) = a[1]
<1>1. Head(a) \in A /\ Tail(a) \in Seq(A) /\ Head(a) = a[1]
  BY SMTT(30)
<1>2. a = <<Head(a)>> \o Tail(a)
  BY SMTT(30)
<1> QED  BY <1>1, <1>2

-----------------------------------------------------------------------------
(* Types *)

\* The steps that leave both flows alone.
Rest ==
    \/ Produce \/ ProducerEnds \/ ConsumeCancelled \/ Publish \/ PublishOther
    \/ WriteControl \/ WriterFallsThrough \/ WriteData
    \/ ReadDetach \/ RespondDetach \/ CommitDetach
    \/ ReadOther \/ NotificationLoop \/ TakeNotification
    \/ SendDetach \/ ReadDetached \/ RetireFlow

\* Four steps change a flow.
LEMMA Steps == Next => Consume \/ ReadCredit \/ ReadChunk \/ SendTerminalCredit \/ Rest
BY DEF Next, ServerStep, ClientStep, Rest

LEMMA RestKeepsFlows == Rest => UNCHANGED <<app, server, client>>
BY DEF Rest, Produce, ProducerEnds, ConsumeCancelled, Publish, PublishOther, ReadOther, WriteControl, WriterFallsThrough,
       WriteData, ReadDetach, RespondDetach, CommitDetach, NotificationLoop, TakeNotification,
       SendDetach, ReadDetached, RetireFlow, serverVars, clientVars

\* The types of the flows' fields.
LEMMA WindowFacts == EndTypes => /\ WindowBytes \in Nat
                                 /\ server.remaining \in Nat /\ server.through \in Nat /\ server.sequence \in Nat
                                 /\ client.remaining \in Nat /\ client.through \in Nat /\ client.sequence \in Nat
<1> SUFFICES ASSUME EndTypes PROVE /\ WindowBytes \in Nat
                                 /\ server.remaining \in Nat /\ server.through \in Nat /\ server.sequence \in Nat
                                 /\ client.remaining \in Nat /\ client.through \in Nat /\ client.sequence \in Nat
  OBVIOUS
<1>1. \A f \in Flows : f.remaining \in Nat /\ f.through \in Nat /\ f.sequence \in Nat
  BY SMTT(30) DEF Flows
<1>2. WindowBytes \in Nat
  BY FlowAssumption DEF EndTypes, WindowBytes
<1> QED  BY <1>1, <1>2 DEF EndTypes

\* A flow that admits or accepts a chunk.
LEMMA AfterType ==
    ASSUME NEW c \in Chunks, NEW f \in Flows, NEW w \in Nat, f.remaining <= w, c.size <= f.remaining
    PROVE  /\ After(c, f) \in Flows /\ After(c, f).remaining <= w
           /\ After(c, f).remaining = f.remaining - c.size /\ After(c, f).through = c.offset + c.size
           /\ After(c, f).sequence = c.sequence
<1>1. PICK r, n, o, z \in Nat : r = f.remaining /\ n = c.size /\ o = c.offset /\ z = c.sequence
  <2>1. f.remaining \in Nat
    BY SMTT(30) DEF Flows
  <2> QED  BY <2>1, SizeFacts
<1>2. After(c, f) = [remaining |-> r - n, through |-> o + n, sequence |-> z]
  BY <1>1 DEF After
<1>3. n <= r /\ r <= w
  BY <1>1
<1>4. r - n \in Nat /\ r - n <= w /\ o + n \in Nat
  BY SMTT(30), <1>3
<1>5. After(c, f) \in Flows
  BY SMTT(30), <1>2, <1>4 DEF Flows
<1>6. After(c, f).remaining = r - n /\ After(c, f).through = o + n /\ After(c, f).sequence = z
  BY SMTT(30), <1>2
<1> QED  BY <1>1, <1>4, <1>5, <1>6

\* Credit added to a flow.
LEMMA GrantType ==
    ASSUME NEW f \in Flows, NEW w \in Nat, NEW b \in Nat, f.remaining <= w, b <= w - f.remaining,
           NEW g, g = [f EXCEPT !.remaining = @ + b]
    PROVE  /\ g \in Flows /\ g.remaining = f.remaining + b /\ g.remaining <= w
           /\ g.through = f.through /\ g.sequence = f.sequence
<1>1. f.remaining \in Nat
  BY SMTT(30) DEF Flows
<1>2. f.remaining + b \in Nat /\ f.remaining + b <= w
  BY SMTT(30), <1>1
<1>3. g.remaining = f.remaining + b /\ g.through = f.through /\ g.sequence = f.sequence
  BY SMTT(30) DEF Flows
<1>4. g \in Flows
  BY SMTT(30), <1>2 DEF Flows
<1> QED  BY <1>2, <1>3, <1>4

\* A flow that takes over an offset.
LEMMA SkipType ==
    ASSUME NEW f \in Flows, NEW o \in Nat, NEW g, g = [f EXCEPT !.through = o]
    PROVE  /\ g \in Flows /\ g.remaining = f.remaining /\ g.through = o /\ g.sequence = f.sequence
<1>1. g \in Flows
  BY SMTT(30) DEF Flows
<1>2. g.remaining = f.remaining /\ g.through = o /\ g.sequence = f.sequence
  BY SMTT(30) DEF Flows
<1> QED  BY <1>1, <1>2

\* The server reads credit or a detach,
LEMMA HeadCredit ==
    ASSUME QueueTypes, toServer # <<>>
    PROVE  /\ Head(toServer) \in Credits \cup {Detaching} /\ Tail(toServer) \in Seq(Credits \cup {Detaching})
           /\ Head(toServer).type = "credit" => Head(toServer) \in Credits
           /\ Head(toServer).type = "detach" => Head(toServer) = Detaching
<1>1. Head(toServer) \in Credits \cup {Detaching} /\ Tail(toServer) \in Seq(Credits \cup {Detaching})
  BY SplitFacts DEF QueueTypes
<1>2. "credit" # "detach"
  OBVIOUS
<1> QED  BY <1>1, <1>2, Kinds

\* the client a chunk, another notification or the answer to a detach.
LEMMA HeadChunk ==
    ASSUME QueueTypes, toClient # <<>>
    PROVE  /\ Head(toClient) \in Frames /\ Tail(toClient) \in Seq(Frames)
           /\ IsChunk(Head(toClient)) => Head(toClient) \in Chunks
<1>1. Head(toClient) \in Frames /\ Tail(toClient) \in Seq(Frames)
  BY SplitFacts DEF QueueTypes
<1> QED  BY <1>1, Kinds DEF Frames, Notices

LEMMA EndTypesKept == EndTypes /\ StateTypes /\ QueueTypes /\ Next => EndTypes'
<1> SUFFICES ASSUME EndTypes, StateTypes, QueueTypes, Next PROVE EndTypes'
  OBVIOUS
<1>0. WindowBytes \in Nat /\ server.remaining <= WindowBytes /\ client.remaining <= WindowBytes
      /\ server \in Flows /\ client \in Flows /\ server.remaining \in Nat /\ client.remaining \in Nat
  BY WindowFacts DEF EndTypes
<1>a. ASSUME app' = app, server' \in Flows, server'.remaining <= WindowBytes,
             client' \in Flows, client'.remaining <= WindowBytes
      PROVE  EndTypes'
  BY <1>a DEF EndTypes, WindowBytes
<1>1. CASE Consume
  <2>1. app' = app /\ client' = client /\ chunk \in Chunks
    BY <1>1 DEF Consume, clientVars, StateTypes, Holding
  <2>2. CASE UNCHANGED server
    BY <1>0, <1>a, <2>1, <2>2
  <2>3. CASE server' = [server EXCEPT !.through = chunk.offset]
    <3>1. chunk.offset \in Nat
      BY <2>1, SizeFacts
    <3>2. server' \in Flows /\ server'.remaining = server.remaining
      BY SMTT(30), <1>0, <2>3, <3>1, SkipType
    <3> QED  BY <1>0, <1>a, <2>1, <3>2
  <2>4. CASE server' = After(chunk, server) /\ chunk.size <= server.remaining
    BY <1>0, <1>a, <2>1, <2>4, AfterType
  <2> QED  BY <1>1, <2>2, <2>3, <2>4 DEF Consume
<1>2. CASE ReadCredit
  <2>1. app' = app /\ client' = client /\ Head(toServer) \in Credits
    BY <1>2, HeadCredit DEF ReadCredit, clientVars
  <2>2. CASE UNCHANGED server
    BY <1>0, <1>a, <2>1, <2>2
  <2>3. CASE server' = [server EXCEPT !.remaining = @ + Head(toServer).bytes]
             /\ ~(Head(toServer).bytes > WindowBytes - server.remaining)
    <3>1. PICK b \in Nat : b = Head(toServer).bytes
      BY <2>1, ByteFacts
    <3>2. ~(b > WindowBytes - server.remaining) => b <= WindowBytes - server.remaining
      BY SMTT(30), <1>0
    <3>3. server' \in Flows /\ server'.remaining <= WindowBytes
      BY <1>0, <2>3, <3>1, <3>2, GrantType
    <3> QED  BY <1>0, <1>a, <2>1, <3>3
  <2> QED  BY <1>2, <2>2, <2>3 DEF ReadCredit, AddCredit
<1>3. CASE ReadChunk
  <2>1. app' = app /\ server' = server /\ Head(toClient) \in Chunks
    BY <1>3, HeadChunk DEF ReadChunk, serverVars
  <2>2. CASE UNCHANGED client
    BY <1>0, <1>a, <2>1, <2>2
  <2>3. CASE client' = After(Head(toClient), client) /\ Head(toClient).size <= client.remaining
    BY <1>0, <1>a, <2>1, <2>3, AfterType
  <2> QED  BY <1>3, <2>2, <2>3 DEF ReadChunk
<1>4. CASE SendTerminalCredit
  <2>1. app' = app /\ server' = server
    BY <1>4 DEF SendTerminalCredit, serverVars
  <2>2. PICK b \in 1..(WindowBytes - client.remaining) : client' = [client EXCEPT !.remaining = @ + b]
    BY <1>4 DEF SendTerminalCredit
  <2>3. b \in Nat /\ b <= WindowBytes - client.remaining
    BY SMTT(30), <1>0
  <2>4. client' \in Flows /\ client'.remaining <= WindowBytes
    BY <1>0, <2>2, <2>3, GrantType
  <2> QED  BY <1>0, <1>a, <2>1, <2>4
<1>5. CASE Rest
  BY <1>0, <1>5, <1>a, RestKeepsFlows
<1> QED  BY <1>1, <1>2, <1>3, <1>4, <1>5, Steps

LEMMA StateTypesKept == EndTypes /\ StateTypes /\ QueueTypes /\ Next => StateTypes'
<1> SUFFICES ASSUME EndTypes, StateTypes, QueueTypes, Next PROVE StateTypes'
  OBVIOUS
<1> DEFINE Where == producer' \in {"idle", "consume", "blocked", "publish", "ended"}
           Held == producer' \in {"consume", "blocked", "publish"} => chunk' \in Chunks
           Ends == admitted' \in BOOLEAN /\ lifetime' \in BOOLEAN
           Counts == /\ pulled' \in 0..MaxChunks /\ writer' \in {"top", "select"}
                     /\ inbox' \in Seq({0, 1}) /\ Len(inbox') <= MaxOutboundQueue
                     /\ unread' \in Seq({0, 1}) /\ Len(unread') <= MaxOutboundQueue + 1
                     /\ others' \in 0..MaxOthers
           Flow == flow' \in {"active", "acked", "retired"}
           Why == fault' \in {"none", "provider", "credit", "chunk", "detach", "late", "overflow", "crowded"}
<1>a. ASSUME Where, Held, Ends, Counts, Flow, Why PROVE StateTypes'
  BY <1>a DEF StateTypes, Holding
<1>1. CASE Produce
  <2>1. producer' = "consume" /\ UNCHANGED <<admitted, lifetime, writer, inbox, unread, others, flow, fault>>
    BY <1>1 DEF Produce, queueVars, clientVars
  <2>2. pulled' \in 0..MaxChunks
    BY <1>1, FlowAssumption, SMTT(30) DEF Produce, StateTypes
  <2>3. chunk' \in Chunks
    <3>1. PICK n \in Sizes, k \in Declarations, gap \in {0, 1}, cut \in BOOLEAN :
            chunk' = [offset |-> server.through + gap, size |-> n,
                      sequence |-> server.sequence + 1 + gap, truncated |-> cut, credit |-> k]
      BY <1>1 DEF Produce
    <3>2. PICK a, b \in Nat : a = server.through /\ b = server.sequence
      BY WindowFacts
    <3>3. a + gap \in Nat /\ b + 1 + gap \in Nat
      BY SMTT(30)
    <3> QED  BY SMTT(30), <3>1, <3>2, <3>3 DEF Chunks
  <2> QED  BY <1>a, <2>1, <2>2, <2>3 DEF StateTypes
<1>2. CASE ProducerEnds
  <2>1. producer' = "ended" /\ admitted' = FALSE /\ lifetime' = FALSE
        /\ UNCHANGED <<pulled, writer, inbox, unread, others, flow, fault>>
    BY <1>2 DEF ProducerEnds, queueVars, clientVars
  <2> QED  BY <1>a, <2>1 DEF StateTypes
<1>3. CASE Consume
  <2>1. UNCHANGED <<admitted, lifetime, chunk, pulled, writer, inbox, unread, others, flow>>
    BY <1>3 DEF Consume, queueVars, clientVars
  <2>2. producer = "consume" /\ chunk \in Chunks
    BY <1>3 DEF Consume, StateTypes, Holding
  <2>3. producer' \in {"consume", "blocked", "publish"} /\ fault' \in {fault, "provider"}
    BY <1>3, <2>2 DEF Consume
  <2> QED  BY <1>a, <2>1, <2>2, <2>3 DEF StateTypes
<1>4. CASE ConsumeCancelled
  <2>1. fault' = "detach" /\ UNCHANGED <<admitted, lifetime, producer, chunk, pulled, writer, inbox, unread, others, flow>>
    BY <1>4 DEF ConsumeCancelled, serverVars, queueVars, clientVars
  <2> QED  BY <1>a, <2>1 DEF StateTypes, Holding
<1>5. CASE Publish
  <2>1. producer' = "idle" /\ UNCHANGED <<admitted, lifetime, pulled, writer, inbox, unread, others, flow, fault>>
    BY <1>5 DEF Publish, clientVars
  <2> QED  BY <1>a, <2>1 DEF StateTypes
<1>6. CASE WriteControl \/ WriterFallsThrough \/ WriteData
  <2>1. UNCHANGED <<admitted, lifetime, producer, chunk, pulled, inbox, unread, others, flow, fault>>
        /\ writer' \in {"top", "select"}
    BY <1>6 DEF WriteControl, WriterFallsThrough, WriteData, serverVars, clientVars
  <2> QED  BY <1>a, <2>1 DEF StateTypes, Holding
<1>7. CASE ReadCredit
  <2>1. UNCHANGED <<admitted, lifetime, chunk, pulled, writer, inbox, unread, others, flow>>
    BY <1>7 DEF ReadCredit, queueVars, clientVars
  <2>2. producer' = producer \/ (producer = "blocked" /\ producer' = "consume")
    BY <1>7 DEF ReadCredit, AddCredit
  <2>3. fault' \in {fault, "credit"}
    BY <1>7 DEF ReadCredit, AddCredit
  <2> QED  BY <1>a, <2>1, <2>2, <2>3 DEF StateTypes, Holding
<1>8. CASE ReadDetach \/ RespondDetach \/ CommitDetach \/ SendDetach \/ ReadDetached \/ RetireFlow
  <2>1. UNCHANGED <<admitted, producer, chunk, pulled, writer, inbox, unread, others, fault>>
    BY <1>8 DEF ReadDetach, RespondDetach, CommitDetach, SendDetach, ReadDetached, RetireFlow,
                serverVars, queueVars, clientVars
  <2>2. lifetime' \in {lifetime, FALSE} /\ flow' \in {flow, "acked", "retired"}
    BY <1>8 DEF ReadDetach, RespondDetach, CommitDetach, SendDetach, ReadDetached, RetireFlow,
                serverVars, queueVars, clientVars
  <2> QED  BY ZenonT(60), <1>a, <2>1, <2>2 DEF StateTypes, Holding
<1>9. CASE ReadChunk \/ ReadOther
  <2>1. UNCHANGED <<admitted, lifetime, producer, chunk, pulled, writer, others, unread, flow>>
    BY <1>9 DEF ReadChunk, ReadOther, serverVars, queueVars
  <2>2. inbox' = inbox \/ \E n \in {0, 1} : Len(inbox) < MaxOutboundQueue /\ inbox' = Append(inbox, n)
    BY <1>9 DEF ReadChunk, ReadOther
  <2>3. inbox' \in Seq({0, 1}) /\ Len(inbox') <= MaxOutboundQueue
    BY <2>2, FlowAssumption, SMTT(30) DEF StateTypes
  <2>4. fault' \in {fault, "late", "chunk", "overflow", "crowded"}
    BY <1>9 DEF ReadChunk, ReadOther
  <2> QED  BY <1>a, <2>1, <2>3, <2>4 DEF StateTypes, Holding
<1>10. CASE NotificationLoop \/ TakeNotification
  <2>1. UNCHANGED <<admitted, lifetime, producer, chunk, pulled, writer, others, flow, fault>>
    BY <1>10 DEF NotificationLoop, TakeNotification, serverVars, queueVars
  <2>2. /\ inbox' = inbox \/ (inbox # <<>> /\ inbox' = Tail(inbox))
        /\ \/ unread # <<>> /\ unread' = Tail(unread)
           \/ inbox # <<>> /\ Len(unread) <= MaxOutboundQueue /\ unread' = Append(unread, Head(inbox))
    BY <1>10 DEF NotificationLoop, TakeNotification
  <2>3. inbox' \in Seq({0, 1}) /\ Len(inbox') <= MaxOutboundQueue
    BY <2>2, FlowAssumption, SMTT(30) DEF StateTypes
  <2>4. unread \in Seq({0, 1}) /\ Len(unread) \in Nat /\ (inbox # <<>> => Head(inbox) \in {0, 1})
    BY MarkFacts DEF StateTypes
  <2>5. PICK M \in Nat : M = MaxOutboundQueue /\ Len(unread) <= M + 1
    BY FlowAssumption DEF StateTypes
  <2>6. unread' \in Seq({0, 1}) /\ Len(unread') <= M + 1
    <3>1. CASE unread # <<>> /\ unread' = Tail(unread)
      <4>1. unread' \in Seq({0, 1}) /\ Len(unread') \in Nat /\ Len(unread) = Len(unread') + 1
        BY SMTT(30), <2>4, <3>1
      <4>2. Len(unread') <= M + 1
        BY SMTT(30), <2>4, <2>5, <4>1
      <4> QED  BY <4>1, <4>2
    <3>2. CASE inbox # <<>> /\ Len(unread) <= M /\ unread' = Append(unread, Head(inbox))
      <4>1. unread' \in Seq({0, 1}) /\ Len(unread') = Len(unread) + 1
        BY SMTT(30), <2>4, <3>2
      <4>2. Len(unread') <= M + 1
        BY SMTT(30), <2>4, <3>2, <4>1
      <4> QED  BY <4>1, <4>2
    <3> QED  BY <2>2, <2>5, <3>1, <3>2
  <2>7. unread' \in Seq({0, 1}) /\ Len(unread') <= MaxOutboundQueue + 1
    BY <2>5, <2>6
  <2> QED  BY ZenonT(60), <1>a, <2>1, <2>3, <2>7 DEF StateTypes, Holding
<1>11. CASE SendTerminalCredit
  <2>1. UNCHANGED <<admitted, lifetime, producer, chunk, pulled, writer, inbox, unread, others, flow, fault>>
    BY <1>11 DEF SendTerminalCredit, serverVars, queueVars
  <2> QED  BY <1>a, <2>1 DEF StateTypes, Holding
<1>12. CASE PublishOther
  <2>1. UNCHANGED <<admitted, lifetime, producer, chunk, pulled, writer, inbox, unread, flow, fault>>
    BY <1>12 DEF PublishOther, serverVars, clientVars
  <2>2. others' \in 0..MaxOthers
    BY <1>12, FlowAssumption, SMTT(30) DEF PublishOther, StateTypes
  <2> QED  BY <1>a, <2>1, <2>2 DEF StateTypes, Holding
<1> QED  BY <1>1, <1>2, <1>3, <1>4, <1>5, <1>6, <1>7, <1>8, <1>9, <1>10, <1>11, <1>12 DEF Next, ServerStep, ClientStep

LEMMA QueueTypesKept == EndTypes /\ StateTypes /\ QueueTypes /\ DetachInv /\ Next => QueueTypes'
<1> SUFFICES ASSUME EndTypes, StateTypes, QueueTypes, DetachInv, Next PROVE QueueTypes'
  OBVIOUS
<1>1. data' \in Seq(Notices) /\ Len(data') <= MaxOutboundQueue
  <2>0. data \in Seq(Notices) /\ Len(data) <= MaxOutboundQueue /\ MaxOutboundQueue \in Nat
    BY FlowAssumption DEF QueueTypes
  <2>1. CASE Publish \/ PublishOther
    <3>1. PICK x \in Notices : data' = Append(data, x) /\ Len(data) < MaxOutboundQueue
      BY <2>1 DEF Publish, PublishOther, StateTypes, Holding, Notices, Other
    <3> QED  BY SMTT(30), <2>0, <3>1
  <2>2. CASE WriteData
    <3>1. data # <<>> /\ data' = Tail(data)
      BY <2>2 DEF WriteData
    <3> QED  BY SMTT(30), <2>0, <3>1
  <2>3. CASE ~Publish /\ ~PublishOther /\ ~WriteData
    <3>1. data' = data
      BY <2>3 DEF Next, ServerStep, ClientStep, Produce, ProducerEnds, Consume, ConsumeCancelled, WriteControl,
          WriterFallsThrough, ReadCredit, ReadDetach, RespondDetach, CommitDetach, ReadChunk, ReadOther, NotificationLoop,
          TakeNotification, SendTerminalCredit, SendDetach, ReadDetached, RetireFlow, queueVars
    <3> QED  BY <2>0, <3>1
  <2> QED  BY <2>1, <2>2, <2>3
<1>2. toClient' \in Seq(Frames)
  <2>0. toClient \in Seq(Frames)
    BY DEF QueueTypes
  <2>1. CASE WriteControl
    <3>1. control = <<Detached>> /\ toClient' = Append(toClient, Head(control)) /\ Detached \in Frames
      BY <2>1 DEF WriteControl, DetachInv, Frames
    <3>2. Head(<<Detached>>) = Detached
      BY SMTT(30)
    <3> QED  BY <2>0, <3>1, <3>2, AppendFacts
  <2>2. CASE WriteData
    <3>1. data # <<>> /\ toClient' = Append(toClient, Head(data))
      BY <2>2 DEF WriteData
    <3>2. Head(data) \in Frames
      BY <3>1, SplitFacts DEF QueueTypes, Frames
    <3> QED  BY <2>0, <3>1, <3>2, AppendFacts
  <2>3. CASE ReadChunk \/ ReadOther \/ ReadDetached
    BY <2>3, HeadChunk DEF ReadChunk, ReadOther, ReadDetached
  <2>4. CASE ~WriteControl /\ ~WriteData /\ ~ReadChunk /\ ~ReadOther /\ ~ReadDetached
    <3>1. toClient' = toClient
      BY <2>4 DEF Next, ServerStep, ClientStep, Produce, ProducerEnds, Consume, ConsumeCancelled, Publish, PublishOther,
          WriterFallsThrough, ReadCredit, ReadDetach, RespondDetach, CommitDetach, NotificationLoop,
          TakeNotification, SendTerminalCredit, SendDetach, RetireFlow
    <3> QED  BY <2>0, <3>1
  <2> QED  BY <2>1, <2>2, <2>3, <2>4
<1>3. toServer' \in Seq(Credits \cup {Detaching})
  <2>0. toServer \in Seq(Credits \cup {Detaching})
    BY DEF QueueTypes
  <2>1. CASE ReadCredit \/ ReadDetach
    BY <2>1, HeadCredit DEF ReadCredit, ReadDetach
  <2>2. CASE SendTerminalCredit
    <3>1. PICK b \in 1..(WindowBytes - client.remaining) :
            toServer' = Append(toServer, [type |-> "credit", bytes |-> b, through |-> client.through])
      BY <2>2 DEF SendTerminalCredit
    <3>2. b \in Nat /\ client.through \in Nat
      BY SMTT(30), WindowFacts
    <3>3. [type |-> "credit", bytes |-> b, through |-> client.through] \in Credits
      BY SMTT(30), <3>2 DEF Credits
    <3> QED  BY <2>0, <3>1, <3>3, AppendFacts
  <2>3. CASE SendDetach
    <3>1. toServer' = Append(toServer, Detaching)
      BY <2>3 DEF SendDetach, Detaching
    <3> QED  BY <2>0, <3>1, AppendFacts
  <2>4. CASE ~ReadCredit /\ ~ReadDetach /\ ~SendTerminalCredit /\ ~SendDetach
    <3>1. toServer' = toServer
      BY <2>4 DEF Next, ServerStep, ClientStep, Produce, ProducerEnds, Consume, ConsumeCancelled, Publish, PublishOther,
          WriteControl, WriterFallsThrough, WriteData, RespondDetach, CommitDetach, ReadChunk, ReadOther, NotificationLoop,
          TakeNotification, ReadDetached, RetireFlow
    <3> QED  BY <2>0, <3>1
  <2> QED  BY <2>1, <2>2, <2>3, <2>4
<1> QED  BY <1>1, <1>2, <1>3 DEF QueueTypes

\* There is one terminal.detach, and its frame is where its progress says.
LEMMA DetachKept == QueueTypes /\ DetachInv /\ Next => DetachInv'
<1> SUFFICES ASSUME QueueTypes, DetachInv, Next PROVE DetachInv'
  OBVIOUS
<1> DEFINE Stage == detach' \in {"none", "sent", "handling", "queued", "written", "committed"}
           Line == control' = IF detach' = "queued" THEN <<Detached>> ELSE <<>>
           Sent == \A i \in DOMAIN toServer' : toServer'[i] = Detaching => detach' = "sent"
           Once == \A i, j \in DOMAIN toServer' : toServer'[i] = Detaching /\ toServer'[j] = Detaching => i = j
<1>a. ASSUME Stage, Line, Sent, Once PROVE DetachInv'
  BY <1>a DEF DetachInv
<1>t. toServer \in Seq(Credits \cup {Detaching})
  BY DEF QueueTypes
<1>1. CASE WriteControl
  <2>1. detach = "queued" /\ control = <<Detached>> /\ detach' = "written" /\ control' = Tail(control) /\ toServer' = toServer
    BY <1>1 DEF WriteControl, DetachInv
  <2>2. Tail(<<Detached>>) = <<>>
    BY SMTT(30)
  <2>3. \A i \in DOMAIN toServer : toServer[i] # Detaching
    BY <2>1 DEF DetachInv
  <2> QED  BY <1>a, <2>1, <2>2, <2>3
<1>2. CASE ReadDetach
  <2>1. toServer # <<>> /\ Head(toServer) = Detaching /\ toServer' = Tail(toServer) /\ detach' = "handling"
        /\ control' = control
    BY <1>2, HeadCredit DEF ReadDetach, queueVars
  <2>2. Head(toServer) = toServer[1] /\ 1 \in DOMAIN toServer
    BY SMTT(30), <1>t, <2>1
  <2>3. detach = "sent" /\ control = <<>>
    BY <2>1, <2>2 DEF DetachInv
  <2>4. ASSUME NEW i \in DOMAIN toServer', toServer'[i] = Detaching PROVE FALSE
    <3>1. i + 1 \in DOMAIN toServer /\ toServer[i + 1] = Detaching /\ i + 1 # 1
      BY SMTT(30), <1>t, <2>1, <2>4
    <3> QED  BY <2>1, <2>2, <3>1 DEF DetachInv
  <2> QED  BY <1>a, <2>1, <2>3, <2>4
<1>3. CASE RespondDetach
  <2>1. detach = "handling" /\ control' = Append(control, Detached) /\ detach' = "queued" /\ toServer' = toServer
    BY <1>3 DEF RespondDetach, Detached
  <2>2. control = <<>> /\ \A i \in DOMAIN toServer : toServer[i] # Detaching
    BY <2>1 DEF DetachInv
  <2>3. Append(<<>>, Detached) = <<Detached>>
    BY SMTT(30)
  <2> QED  BY <1>a, <2>1, <2>2, <2>3
<1>4. CASE CommitDetach
  <2>1. detach = "written" /\ control' = control /\ detach' = "committed" /\ toServer' = toServer
    BY <1>4 DEF CommitDetach, queueVars
  <2>2. control = <<>> /\ \A i \in DOMAIN toServer : toServer[i] # Detaching
    BY <2>1 DEF DetachInv
  <2> QED  BY <1>a, <2>1, <2>2
<1>5. CASE SendDetach
  <2>1. detach = "none" /\ control' = control /\ detach' = "sent" /\ toServer' = Append(toServer, Detaching)
    BY <1>5 DEF SendDetach, Detaching, queueVars
  <2>2. control = <<>> /\ \A i \in DOMAIN toServer : toServer[i] # Detaching
    BY <2>1 DEF DetachInv
  <2>3. ASSUME NEW i \in DOMAIN toServer', toServer'[i] = Detaching PROVE i = Len(toServer) + 1
    BY SMTT(30), <1>t, <2>1, <2>2, <2>3
  <2> QED  BY <1>a, <2>1, <2>2, <2>3
<1>6. CASE ReadCredit
  <2>1. detach' = detach /\ control' = control /\ toServer # <<>> /\ toServer' = Tail(toServer)
    BY <1>6 DEF ReadCredit, queueVars
  <2>2. \A i \in DOMAIN toServer' : i + 1 \in DOMAIN toServer /\ toServer'[i] = toServer[i + 1]
    BY SMTT(30), <1>t, <2>1
  <2>3. Sent
    BY <2>1, <2>2 DEF DetachInv
  <2>4. ASSUME NEW i \in DOMAIN toServer', NEW j \in DOMAIN toServer', toServer'[i] = Detaching, toServer'[j] = Detaching
        PROVE  i = j
    <3>1. i + 1 = j + 1
      BY <2>2, <2>4 DEF DetachInv
    <3>2. i \in Nat /\ j \in Nat
      BY SMTT(30), <1>t, <2>1
    <3> QED  BY SMTT(30), <3>1, <3>2
  <2> QED  BY <1>a, <2>1, <2>3, <2>4 DEF DetachInv
<1>7. CASE SendTerminalCredit
  <2>1. detach' = detach /\ control' = control
    BY <1>7 DEF SendTerminalCredit, queueVars
  <2>2. PICK x : toServer' = Append(toServer, x) /\ x # Detaching
    <3>1. PICK b : toServer' = Append(toServer, [type |-> "credit", bytes |-> b, through |-> client.through])
      BY <1>7 DEF SendTerminalCredit
    <3>2. [type |-> "credit", bytes |-> b, through |-> client.through] # Detaching
      BY SMTT(30) DEF Detaching
    <3> QED  BY <3>1, <3>2
  <2>3. \A i \in DOMAIN toServer' : toServer'[i] = Detaching => i \in DOMAIN toServer /\ toServer'[i] = toServer[i]
    BY SMTT(30), <1>t, <2>2
  <2> QED  BY <1>a, <2>1, <2>3 DEF DetachInv
<1>8. CASE ~WriteControl /\ ~ReadDetach /\ ~RespondDetach /\ ~CommitDetach /\ ~SendDetach /\ ~ReadCredit /\ ~SendTerminalCredit
  <2>1. UNCHANGED <<detach, control, toServer>>
    BY <1>8 DEF Next, ServerStep, ClientStep, Produce, ProducerEnds, Consume, ConsumeCancelled, Publish, PublishOther, ReadOther,
          WriterFallsThrough, WriteData, ReadChunk, NotificationLoop, TakeNotification, ReadDetached, RetireFlow,
          queueVars
  <2> QED  BY <2>1 DEF DetachInv
<1> QED  BY <1>1, <1>2, <1>3, <1>4, <1>5, <1>6, <1>7, <1>8

-----------------------------------------------------------------------------
(* What each step does to the chunks in flight and to the credit on its way *)

Held == IF producer = "publish" THEN <<chunk>> ELSE <<>>

\* The chunks in flight are on the transport, in the data queue or with the producer.
LEMMA FlightParts ==
    ASSUME StateTypes, QueueTypes
    PROVE  /\ ChunksIn(toClient) \in Seq(Chunks) /\ ChunksIn(data) \in Seq(Chunks) /\ Held \in Seq(Chunks)
           /\ InFlight = (ChunksIn(toClient) \o ChunksIn(data)) \o Held
           /\ InFlight \in Seq(Chunks) /\ Returned \in Seq(Credits)
<1>1. ChunksIn(toClient) \in Seq(Chunks) /\ ChunksIn(data) \in Seq(Chunks) /\ Returned \in Seq(Credits)
  BY ChunksType, CreditsType, NoticesAreFrames DEF QueueTypes, Returned
<1>2. <<>> \in Seq(Chunks) /\ (chunk \in Chunks => <<chunk>> \in Seq(Chunks))
  BY SMTT(30)
<1>3. Held \in Seq(Chunks)
  BY <1>2 DEF Held, StateTypes, Holding
<1>4. InFlight = (ChunksIn(toClient) \o ChunksIn(data)) \o Held
  BY DEF InFlight, Held
<1>5. (ChunksIn(toClient) \o ChunksIn(data)) \o Held \in Seq(Chunks)
  BY SMTT(30), <1>1, <1>3
<1> QED  BY <1>1, <1>3, <1>4, <1>5

\* The steps that touch none of the queues of chunks.
LEMMA FlightSame ==
    ASSUME UNCHANGED <<toClient, data>>, Held' = Held
    PROVE  InFlight' = InFlight
BY DEF InFlight, Held

\* publish moves a chunk within the flight,
LEMMA PublishFlight == StateTypes /\ QueueTypes /\ Publish => InFlight' = InFlight
<1> SUFFICES ASSUME StateTypes, QueueTypes, Publish PROVE InFlight' = InFlight
  OBVIOUS
<1>1. PICK C, D \in Seq(Chunks) : C = ChunksIn(toClient) /\ D = ChunksIn(data)
  BY FlightParts
<1>2. chunk \in Chunks /\ data \in Seq(Frames) /\ toClient' = toClient /\ data' = Append(data, chunk)
      /\ producer' = "idle" /\ producer = "publish" /\ chunk \in Frames
  BY NoticesAreFrames DEF Publish, StateTypes, Holding, QueueTypes, Frames, Notices
<1>3. ChunksIn(data') = Append(D, chunk)
  BY <1>1, <1>2, ChunksAppend
<1>4. InFlight = (C \o D) \o <<chunk>>
  BY <1>1, <1>2 DEF InFlight
<1>5. InFlight' = (C \o Append(D, chunk)) \o <<>>
  BY <1>1, <1>2, <1>3 DEF InFlight
<1>6. C \o Append(D, chunk) = (C \o D) \o <<chunk>>
  BY SMTT(30), <1>2
<1>7. (C \o Append(D, chunk)) \o <<>> = C \o Append(D, chunk)
  BY SMTT(30), <1>2
<1> QED  BY <1>4, <1>5, <1>6, <1>7

\* so does writeLoop with data,
LEMMA WriteDataFlight == StateTypes /\ QueueTypes /\ WriteData => InFlight' = InFlight
<1> SUFFICES ASSUME StateTypes, QueueTypes, WriteData PROVE InFlight' = InFlight
  OBVIOUS
<1>1. PICK C, h, t : C = ChunksIn(toClient) /\ h = data[1] /\ t = ChunksIn(Tail(data))
  OBVIOUS
<1>2. data \in Seq(Frames) /\ data # <<>> /\ Tail(data) \in Seq(Frames) /\ h \in Frames /\ h = Head(data)
      /\ toClient' = Append(toClient, h) /\ data' = Tail(data) /\ Held' = Held
  BY <1>1, NoticesAreFrames, SplitFacts DEF WriteData, QueueTypes, Held, serverVars
<1>3. C \in Seq(Chunks) /\ t \in Seq(Chunks)
  BY <1>1, <1>2, ChunksType, FlightParts
<1>4. ChunksIn(toClient') = IF h \in Chunks THEN Append(C, h) ELSE C
  BY <1>1, <1>2, ChunksAppend DEF QueueTypes
<1>5. ChunksIn(data) = (IF h \in Chunks THEN <<h>> ELSE <<>>) \o t
  BY <1>1, <1>2, ChunksTail
<1>6. (h \in Chunks => Append(C, h) \o t = C \o (<<h>> \o t)) /\ C \o t = C \o (<<>> \o t)
  BY SMTT(30), <1>3
<1>7. ChunksIn(toClient') \o t = C \o ChunksIn(data)
  BY <1>4, <1>5, <1>6
<1> QED  BY <1>1, <1>2, <1>7 DEF InFlight, Held

\* and what is not a chunk is not in it: other notifications
LEMMA OtherFlight == StateTypes /\ QueueTypes /\ (PublishOther \/ ReadOther) => InFlight' = InFlight
<1> SUFFICES ASSUME StateTypes, QueueTypes, PublishOther \/ ReadOther PROVE InFlight' = InFlight
  OBVIOUS
<1>1. Other \notin Chunks /\ Other \in Frames
  BY Kinds DEF Frames, Notices
<1>2. CASE PublishOther
  <2>1. data' = Append(data, Other) /\ data \in Seq(Frames) /\ toClient' = toClient /\ Held' = Held
    BY <1>2, NoticesAreFrames DEF PublishOther, Other, QueueTypes, Held, serverVars
  <2>2. ChunksIn(data') = ChunksIn(data)
    BY <1>1, <2>1, ChunksAppend
  <2> QED  BY <2>1, <2>2 DEF InFlight, Held
<1>3. CASE ReadOther
  <2>1. toClient # <<>> /\ Head(toClient) = Other /\ toClient' = Tail(toClient) /\ data' = data /\ Held' = Held
        /\ toClient' \in Seq(Frames)
    BY <1>3, HeadChunk DEF ReadOther, IsOther, Other, Held, serverVars, queueVars
  <2>2. toClient[1] \notin Chunks
    BY <1>1, <2>1, SplitFacts DEF QueueTypes
  <2>3. ChunksIn(toClient) = <<>> \o ChunksIn(toClient')
    BY <2>1, <2>2, ChunksTail DEF QueueTypes
  <2>4. ChunksIn(toClient') \in Seq(Chunks)
    BY <2>1, ChunksType
  <2>5. ChunksIn(toClient) = ChunksIn(toClient')
    BY SMTT(30), <2>3, <2>4
  <2> QED  BY <2>1, <2>5 DEF InFlight, Held
<1> QED  BY <1>2, <1>3

\* and control frames.
LEMMA WriteControlFlight == StateTypes /\ QueueTypes /\ DetachInv /\ WriteControl => InFlight' = InFlight
<1> SUFFICES ASSUME StateTypes, QueueTypes, DetachInv, WriteControl PROVE InFlight' = InFlight
  OBVIOUS
<1>1. Head(<<Detached>>) = Detached
  BY SMTT(30)
<1>2. toClient' = Append(toClient, Detached) /\ data' = data /\ Held' = Held
  BY <1>1 DEF WriteControl, DetachInv, Held, serverVars
<1>3. Detached \notin Chunks /\ Detached \in Frames
  BY Kinds DEF Frames
<1>4. ChunksIn(toClient') = ChunksIn(toClient)
  BY <1>2, <1>3, ChunksAppend DEF QueueTypes
<1> QED  BY <1>2, <1>4 DEF InFlight, Held

LEMMA ReadDetachedFlight == StateTypes /\ QueueTypes /\ ReadDetached => InFlight' = InFlight
<1> SUFFICES ASSUME StateTypes, QueueTypes, ReadDetached PROVE InFlight' = InFlight
  OBVIOUS
<1>1. toClient # <<>> /\ Head(toClient) = Detached /\ toClient' = Tail(toClient) /\ data' = data /\ Held' = Held
      /\ toClient' \in Seq(Frames)
  BY HeadChunk DEF ReadDetached, Detached, Held, serverVars, queueVars
<1>2. toClient[1] \notin Chunks
  BY <1>1, Kinds, SplitFacts DEF QueueTypes
<1>3. ChunksIn(toClient) = <<>> \o ChunksIn(toClient')
  BY <1>1, <1>2, ChunksTail DEF QueueTypes
<1>4. ChunksIn(toClient') \in Seq(Chunks)
  BY <1>1, ChunksType
<1>5. ChunksIn(toClient) = ChunksIn(toClient')
  BY SMTT(30), <1>3, <1>4
<1> QED  BY <1>1, <1>5 DEF InFlight, Held

\* The client reads the oldest chunk in flight.
LEMMA ReadChunkFlight ==
    ASSUME StateTypes, QueueTypes, ReadChunk
    PROVE  /\ InFlight' \in Seq(Chunks) /\ InFlight = <<Head(toClient)>> \o InFlight' 
           /\ InFlight # <<>> /\ InFlight[1] = Head(toClient) /\ InFlight' = Tail(InFlight)
<1>1. PICK h, C, D, H : h = Head(toClient) /\ C = ChunksIn(toClient') /\ D = ChunksIn(data) /\ H = Held
  OBVIOUS
<1>2. /\ toClient # <<>> /\ h \in Chunks /\ h = toClient[1] /\ toClient' = Tail(toClient) /\ data' = data /\ Held' = Held
      /\ toClient' \in Seq(Frames)
  BY <1>1, HeadChunk, SplitFacts DEF ReadChunk, Held, serverVars, queueVars, QueueTypes
<1>3. C \in Seq(Chunks) /\ D \in Seq(Chunks) /\ H \in Seq(Chunks)
  BY <1>1, <1>2, ChunksType, FlightParts
<1>4. ChunksIn(toClient) = <<h>> \o C
  BY <1>1, <1>2, ChunksTail DEF QueueTypes
<1>5. InFlight = ((<<h>> \o C) \o D) \o H
  BY <1>1, <1>4 DEF InFlight, Held
<1>6. InFlight' = (C \o D) \o H
  BY <1>1, <1>2 DEF InFlight, Held
<1>7. ((<<h>> \o C) \o D) \o H = <<h>> \o ((C \o D) \o H) /\ (C \o D) \o H \in Seq(Chunks)
  <2>1. PICK E \in Seq(Chunks) : E = C \o D
    <3>1. C \o D \in Seq(Chunks)
      BY SMTT(30), <1>3
    <3> QED  BY <3>1
  <2>2. (<<h>> \o C) \o D = <<h>> \o (C \o D)
    BY SMTT(30), <1>2, <1>3
  <2>3. (<<h>> \o E) \o H = <<h>> \o (E \o H) /\ E \o H \in Seq(Chunks)
    BY SMTT(30), <1>2, <1>3
  <2> QED  BY <2>1, <2>2, <2>3
<1>8. InFlight = <<h>> \o InFlight' /\ InFlight' \in Seq(Chunks)
  BY <1>5, <1>6, <1>7
<1>9. PICK Q \in Seq(Chunks) : Q = InFlight'
  BY <1>8
<1>10. <<h>> \o Q # <<>> /\ (<<h>> \o Q)[1] = h /\ Tail(<<h>> \o Q) = Q
  BY SMTT(30), <1>2
<1>11. InFlight # <<>> /\ InFlight[1] = h /\ InFlight' = Tail(InFlight)
  BY <1>8, <1>9, <1>10
<1> QED  BY <1>1, <1>8, <1>11

\* A chunk that consume admits is the youngest.
LEMMA AdmitFlight ==
    ASSUME StateTypes, QueueTypes, Consume, producer' = "publish"
    PROVE  InFlight' = Append(InFlight, chunk)
<1>1. producer = "consume" /\ chunk \in Chunks /\ UNCHANGED <<chunk, toClient, data>>
  BY DEF Consume, StateTypes, Holding, queueVars
<1>2. PICK Q \in Seq(Chunks) : Q = ChunksIn(toClient) \o ChunksIn(data)
  <2>1. ChunksIn(toClient) \o ChunksIn(data) \in Seq(Chunks)
    BY SMTT(30), FlightParts
  <2> QED  BY <2>1
<1>3. InFlight = Q \o <<>> /\ InFlight' = Q \o <<chunk>>
  BY <1>1, <1>2 DEF InFlight
<1>4. Q \o <<>> = Q /\ Q \o <<chunk>> = Append(Q, chunk)
  BY SMTT(30), <1>1
<1> QED  BY <1>3, <1>4

\* The server applies the oldest credit.
LEMMA ReadCreditReturned ==
    ASSUME QueueTypes, ReadCredit
    PROVE  /\ Returned # <<>> /\ Returned[1] = Head(toServer) /\ Returned' = Tail(Returned)
           /\ Head(toServer) \in Credits
<1>1. PICK h, K : h = Head(toServer) /\ K = Returned'
  OBVIOUS
<1>2. toServer # <<>> /\ h \in Credits /\ toServer' = Tail(toServer) /\ toServer' \in Seq(Credits \cup {Detaching})
      /\ h = toServer[1]
  BY <1>1, HeadCredit, SplitFacts DEF ReadCredit, QueueTypes
<1>3. K \in Seq(Credits) /\ K = CreditsIn(toServer')
  BY <1>1, <1>2, CreditsType DEF Returned
<1>4. Returned = <<h>> \o K
  BY <1>2, <1>3, CreditsTail DEF QueueTypes, Returned
<1>5. <<h>> \o K # <<>> /\ (<<h>> \o K)[1] = h /\ Tail(<<h>> \o K) = K
  BY SMTT(30), <1>2, <1>3
<1> QED  BY <1>1, <1>2, <1>4, <1>5

LEMMA ReadDetachReturned == QueueTypes /\ ReadDetach => Returned' = Returned
<1> SUFFICES ASSUME QueueTypes, ReadDetach PROVE Returned' = Returned
  OBVIOUS
<1>2. toServer # <<>> /\ Detaching = toServer[1] /\ toServer' = Tail(toServer)
      /\ toServer' \in Seq(Credits \cup {Detaching})
  BY HeadCredit, SplitFacts DEF ReadDetach, QueueTypes
<1>3. CreditsIn(toServer') \in Seq(Credits) /\ Detaching \notin Credits
  BY <1>2, CreditsType, Kinds
<1>4. CreditsIn(toServer) = <<>> \o CreditsIn(toServer')
  BY <1>2, <1>3, CreditsTail DEF QueueTypes
<1>5. CreditsIn(toServer) = CreditsIn(toServer')
  BY SMTT(30), <1>3, <1>4
<1> QED  BY <1>5 DEF Returned

LEMMA SendDetachReturned == QueueTypes /\ SendDetach => Returned' = Returned
<1> SUFFICES ASSUME QueueTypes, SendDetach PROVE Returned' = Returned
  OBVIOUS
<1>1. toServer' = Append(toServer, Detaching) /\ Detaching \notin Credits
  BY Kinds DEF SendDetach, Detaching
<1>2. CreditsIn(toServer') = CreditsIn(toServer)
  BY <1>1, CreditsAppend DEF QueueTypes
<1> QED  BY <1>2 DEF Returned

\* The client sends credit within its window.
LEMMA SendCreditReturned ==
    ASSUME EndTypes, QueueTypes, SendTerminalCredit
    PROVE  \E b \in Nat, k \in Credits :
              /\ b <= WindowBytes - client.remaining /\ k.bytes = b /\ k.through = client.through
              /\ client' = [client EXCEPT !.remaining = @ + b] /\ Returned' = Append(Returned, k)
<1>1. PICK b \in 1..(WindowBytes - client.remaining) :
        /\ toServer' = Append(toServer, [type |-> "credit", bytes |-> b, through |-> client.through])
        /\ client' = [client EXCEPT !.remaining = @ + b]
  BY DEF SendTerminalCredit
<1>2. b \in Nat /\ b <= WindowBytes - client.remaining /\ client.through \in Nat
  BY SMTT(30), WindowFacts
<1>3. PICK k : k = [type |-> "credit", bytes |-> b, through |-> client.through]
  OBVIOUS
<1>4. k \in Credits /\ k.bytes = b /\ k.through = client.through
  BY SMTT(30), <1>2, <1>3 DEF Credits
<1>5. CreditsIn(toServer') = Append(CreditsIn(toServer), k)
  BY <1>1, <1>3, <1>4, CreditsAppend DEF QueueTypes
<1> QED  BY <1>1, <1>2, <1>4, <1>5 DEF Returned

\* The other steps change neither.
Quiet ==
    /\ UNCHANGED <<app, server, client>> /\ InFlight' = InFlight /\ Returned' = Returned
    /\ producer \in {"consume", "blocked"} => UNCHANGED <<producer, chunk>>

LEMMA RestQuiet == StateTypes /\ QueueTypes /\ DetachInv /\ Rest => Quiet
<1> SUFFICES ASSUME StateTypes, QueueTypes, DetachInv, Rest PROVE Quiet
  OBVIOUS
<1>1. UNCHANGED <<app, server, client>>
  BY RestKeepsFlows
<1>2. producer \in {"consume", "blocked"} => UNCHANGED <<producer, chunk>>
  BY DEF Rest, Produce, ProducerEnds, ConsumeCancelled, Publish, PublishOther, ReadOther, WriteControl, WriterFallsThrough,
       WriteData, ReadDetach, RespondDetach, CommitDetach, NotificationLoop, TakeNotification,
       SendDetach, ReadDetached, RetireFlow, serverVars
<1>3. InFlight' = InFlight
  <2>1. CASE Publish \/ PublishOther \/ WriteData \/ WriteControl \/ ReadOther \/ ReadDetached
    BY <2>1, PublishFlight, OtherFlight, WriteDataFlight, WriteControlFlight, ReadDetachedFlight
  <2>2. CASE Produce \/ ProducerEnds
    <3>1. UNCHANGED <<toClient, data>> /\ producer # "publish" /\ producer' # "publish"
      BY <2>2 DEF Produce, ProducerEnds, queueVars
    <3> QED  BY <3>1, FlightSame DEF Held
  <2>3. CASE ConsumeCancelled \/ WriterFallsThrough \/ ReadDetach \/ RespondDetach \/ CommitDetach
             \/ NotificationLoop \/ TakeNotification \/ SendDetach \/ RetireFlow
    <3>1. UNCHANGED <<toClient, data, producer, chunk>>
      BY <2>3 DEF ConsumeCancelled, WriterFallsThrough, ReadDetach, RespondDetach, CommitDetach, NotificationLoop,
                  TakeNotification, SendDetach, RetireFlow, serverVars, queueVars
    <3> QED  BY <3>1, FlightSame DEF Held
  <2> QED  BY <2>1, <2>2, <2>3 DEF Rest
<1>4. Returned' = Returned
  <2>1. CASE ReadDetach \/ SendDetach
    BY <2>1, ReadDetachReturned, SendDetachReturned
  <2>2. CASE ~ReadDetach /\ ~SendDetach
    <3>1. toServer' = toServer
      BY <2>2 DEF Rest, Produce, ProducerEnds, ConsumeCancelled, Publish, PublishOther, WriteControl,
           WriterFallsThrough, WriteData, ReadOther, RespondDetach, CommitDetach, NotificationLoop, TakeNotification, ReadDetached, RetireFlow
    <3> QED  BY <3>1 DEF Returned
  <2> QED  BY <2>1, <2>2
<1> QED  BY <1>1, <1>2, <1>3, <1>4 DEF Quiet

-----------------------------------------------------------------------------
(* The window is conserved *)

\* Nothing happens after the connection has ended.
LEMMA NextLive == Next => Live
BY DEF Next, ServerStep, ClientStep, Produce, ProducerEnds, Consume, ConsumeCancelled, Publish, PublishOther,
       WriteControl, WriterFallsThrough, WriteData, ReadOther, ReadCredit, ReadDetach, RespondDetach, CommitDetach, ReadChunk,
       NotificationLoop, TakeNotification, SendTerminalCredit, SendDetach, ReadDetached, RetireFlow

\* A step of consume that does not admit the chunk leaves everything in flight.
LEMMA BlockFlight ==
    ASSUME Consume, producer' # "publish"
    PROVE  InFlight' = InFlight
<1>1. UNCHANGED <<toClient, data>> /\ producer = "consume"
  BY DEF Consume, queueVars
<1> QED  BY <1>1, FlightSame DEF Held

LEMMA ConsumeReturned == Consume \/ ReadChunk => Returned' = Returned
BY DEF Consume, ReadChunk, Returned

LEMMA CreditFlight == ReadCredit \/ SendTerminalCredit => InFlight' = InFlight
<1> SUFFICES ASSUME ReadCredit \/ SendTerminalCredit PROVE InFlight' = InFlight
  OBVIOUS
<1>1. UNCHANGED <<toClient, data, chunk>>
  BY DEF ReadCredit, SendTerminalCredit, serverVars, queueVars
<1>2. producer' = producer \/ (producer = "blocked" /\ producer' = "consume")
  BY DEF ReadCredit, AddCredit, SendTerminalCredit, serverVars
<1>3. Held' = Held
  BY <1>1, <1>2 DEF Held
<1> QED  BY <1>1, <1>3, FlightSame

\* consume admits a chunk.
LEMMA Admits ==
    ASSUME EndTypes, StateTypes, Consume, Live', producer' = "publish"
    PROVE  /\ chunk \in Chunks /\ Continues(chunk, server) /\ chunk.size <= server.remaining
           /\ server' = After(chunk, server) /\ chunk.credit = server.remaining - chunk.size
           /\ server'.remaining = server.remaining - chunk.size
           /\ server'.through = chunk.offset + chunk.size /\ server'.sequence = chunk.sequence
<1>1. chunk \in Chunks /\ producer = "consume"
  BY DEF Consume, StateTypes, Holding
<1>2. Continues(chunk, server) /\ chunk.size <= server.remaining /\ server' = After(chunk, server)
      /\ chunk.credit = server'.remaining
  BY <1>1 DEF Consume, Live
<1>3. server \in Flows /\ server.remaining <= WindowBytes /\ WindowBytes \in Nat
  BY WindowFacts DEF EndTypes
<1>4. server'.remaining = server.remaining - chunk.size
      /\ server'.through = chunk.offset + chunk.size /\ server'.sequence = chunk.sequence
  BY <1>1, <1>2, <1>3, AfterType
<1> QED  BY <1>1, <1>2, <1>4

\* consume waits.
LEMMA Waits ==
    ASSUME EndTypes, StateTypes, Consume, Live', producer' # "publish"
    PROVE  /\ chunk \in Chunks /\ Continues(chunk, server) /\ producer' = "blocked" /\ chunk' = chunk
           /\ server'.remaining = server.remaining /\ server'.through = chunk.offset
           /\ server'.sequence = server.sequence
<1>1. chunk \in Chunks /\ producer = "consume" /\ chunk' = chunk
  BY DEF Consume, StateTypes, Holding
<1>2. Continues(chunk, server) /\ producer' = "blocked" /\ server' = [server EXCEPT !.through = chunk.offset]
  BY <1>1 DEF Consume, Live
<1>3. PICK o \in Nat : o = chunk.offset
  BY <1>1, SizeFacts
<1>4. server' = [server EXCEPT !.through = o] /\ server \in Flows
  BY <1>2, <1>3 DEF EndTypes
<1>5. server'.remaining = server.remaining /\ server'.through = o /\ server'.sequence = server.sequence
  BY SMTT(30), <1>4, SkipType
<1> QED  BY <1>1, <1>2, <1>3, <1>5

\* The client accepts a chunk.
LEMMA Accepts ==
    ASSUME EndTypes, QueueTypes, ReadChunk, Live'
    PROVE  /\ Head(toClient) \in Chunks /\ Fits(Head(toClient), client) /\ client' = After(Head(toClient), client)
           /\ client'.remaining = client.remaining - Head(toClient).size
           /\ client'.through = Head(toClient).offset + Head(toClient).size
           /\ client'.sequence = Head(toClient).sequence
           /\ UNCHANGED <<app, server, producer, chunk>> /\ inbox' = Append(inbox, 1)
<1>1. Head(toClient) \in Chunks
  BY HeadChunk DEF ReadChunk
<1>2. Fits(Head(toClient), client) /\ client' = After(Head(toClient), client) /\ inbox' = Append(inbox, 1)
  BY DEF ReadChunk, Live, Fits
<1>3. client \in Flows /\ client.remaining <= WindowBytes /\ WindowBytes \in Nat /\ Head(toClient).size <= client.remaining
  BY <1>2, WindowFacts DEF EndTypes, Fits
<1>4. client'.remaining = client.remaining - Head(toClient).size
      /\ client'.through = Head(toClient).offset + Head(toClient).size /\ client'.sequence = Head(toClient).sequence
  BY <1>1, <1>2, <1>3, AfterType
<1>5. UNCHANGED <<app, server, producer, chunk>>
  BY DEF ReadChunk, serverVars
<1> QED  BY <1>1, <1>2, <1>4, <1>5

\* The server adds credit.
LEMMA Grants ==
    ASSUME EndTypes, QueueTypes, ReadCredit, Live'
    PROVE  /\ Head(toServer) \in Credits
           /\ server'.remaining = server.remaining + Head(toServer).bytes
           /\ server'.through = server.through /\ server'.sequence = server.sequence
           /\ UNCHANGED <<app, client, chunk>> /\ producer' = IF producer = "blocked" THEN "consume" ELSE producer
<1>1. Head(toServer) \in Credits
  BY HeadCredit DEF ReadCredit
<1>2. /\ server' = [server EXCEPT !.remaining = @ + Head(toServer).bytes]
      /\ ~(Head(toServer).bytes > WindowBytes - server.remaining)
      /\ producer' = IF producer = "blocked" THEN "consume" ELSE producer
  BY DEF ReadCredit, AddCredit, Live
<1>3. PICK b \in Nat : b = Head(toServer).bytes
  BY <1>1, ByteFacts
<1>4. server \in Flows /\ server.remaining <= WindowBytes /\ WindowBytes \in Nat /\ server.remaining \in Nat
  BY WindowFacts DEF EndTypes
<1>5. ~(b > WindowBytes - server.remaining) => b <= WindowBytes - server.remaining
  BY SMTT(30), <1>4
<1>6. server'.remaining = server.remaining + b /\ server'.through = server.through /\ server'.sequence = server.sequence
  BY SMTT(30), <1>2, <1>3, <1>4, <1>5, GrantType
<1>7. UNCHANGED <<app, client, chunk>>
  BY DEF ReadCredit, clientVars
<1> QED  BY <1>1, <1>2, <1>3, <1>6, <1>7

\* The client sends credit.
LEMMA Sends ==
    ASSUME EndTypes, QueueTypes, SendTerminalCredit
    PROVE  \E b \in Nat, k \in Credits :
              /\ k.bytes = b /\ k.through = client.through /\ Returned' = Append(Returned, k)
              /\ client'.remaining = client.remaining + b /\ client'.through = client.through
              /\ client'.sequence = client.sequence /\ client'.remaining <= WindowBytes
<1>1. PICK b \in Nat, k \in Credits :
              /\ b <= WindowBytes - client.remaining /\ k.bytes = b /\ k.through = client.through
              /\ client' = [client EXCEPT !.remaining = @ + b] /\ Returned' = Append(Returned, k)
  BY SendCreditReturned
<1>2. client \in Flows /\ client.remaining <= WindowBytes /\ WindowBytes \in Nat
  BY WindowFacts DEF EndTypes
<1>3. client'.remaining = client.remaining + b /\ client'.through = client.through
      /\ client'.sequence = client.sequence /\ client'.remaining <= WindowBytes
  BY SMTT(30), <1>1, <1>2, GrantType
<1> QED  BY <1>1, <1>3

Typed == EndTypes /\ StateTypes /\ QueueTypes /\ DetachInv

LEMMA TypedKept == Typed /\ Next => Typed'
BY EndTypesKept, StateTypesKept, QueueTypesKept, DetachKept DEF Typed

\* No step loses a byte of the window or makes one up.
LEMMA WindowKeptStep == Typed /\ WindowConserved /\ Next => WindowConserved'
<1> SUFFICES ASSUME Typed, WindowConserved, Next, Live'
             PROVE  client'.remaining = server'.remaining + SizesOf(InFlight') + BytesOf(Returned')
  BY DEF WindowConserved, Returned
<1>0. EndTypes /\ StateTypes /\ QueueTypes /\ DetachInv
  BY DEF Typed
<1>1. client.remaining = server.remaining + SizesOf(InFlight) + BytesOf(Returned)
  BY NextLive DEF WindowConserved, Returned
<1>2. InFlight \in Seq(Chunks) /\ Returned \in Seq(Credits)
  BY <1>0, FlightParts
<1>3. PICK c, s, z, y \in Nat : c = client.remaining /\ s = server.remaining /\ z = SizesOf(InFlight) /\ y = BytesOf(Returned)
  BY <1>0, <1>2, WindowFacts, SizesNat, BytesNat
<1>4. c = s + z + y
  BY <1>1, <1>3
<1>5. CASE Consume
  <2>1. client' = client /\ Returned' = Returned
    BY <1>5, ConsumeReturned DEF Consume, clientVars
  <2>2. CASE producer' = "publish"
    <3>1. InFlight' = Append(InFlight, chunk)
      BY <1>0, <1>5, <2>2, AdmitFlight
    <3>2. chunk \in Chunks /\ server'.remaining = server.remaining - chunk.size
      BY <1>0, <1>5, <2>2, Admits
    <3>3. SizesOf(InFlight') = z + chunk.size
      BY <1>2, <1>3, <3>1, <3>2, SizesAppend
    <3>4. PICK n \in Nat : n = chunk.size
      BY <3>2, SizeFacts
    <3>5. c = (s - n) + (z + n) + y
      BY SMTT(30), <1>4
    <3> QED  BY <1>3, <2>1, <3>2, <3>3, <3>4, <3>5
  <2>3. CASE producer' # "publish"
    <3>1. InFlight' = InFlight
      BY <1>5, <2>3, BlockFlight
    <3>2. server'.remaining = server.remaining
      BY <1>0, <1>5, <2>3, Waits
    <3> QED  BY <1>1, <2>1, <3>1, <3>2
  <2> QED  BY <2>2, <2>3
<1>6. CASE ReadCredit
  <2>1. InFlight' = InFlight
    BY <1>6, CreditFlight
  <2>2. Returned # <<>> /\ Returned[1] = Head(toServer) /\ Returned' = Tail(Returned)
    BY <1>0, <1>6, ReadCreditReturned
  <2>3. Head(toServer) \in Credits /\ server'.remaining = server.remaining + Head(toServer).bytes /\ client' = client
    BY <1>0, <1>6, Grants
  <2>4. y = Head(toServer).bytes + BytesOf(Returned')
    BY <1>2, <1>3, <2>2, BytesTail
  <2>5. Returned' \in Seq(Credits)
    BY <1>2, <2>2, SplitFacts
  <2>6. PICK b, x \in Nat : b = Head(toServer).bytes /\ x = BytesOf(Returned')
    BY <2>3, <2>5, ByteFacts, BytesNat
  <2>7. y = b + x
    BY <2>4, <2>6
  <2>8. c = (s + b) + z + x
    BY SMTT(30), <1>4, <2>7
  <2> QED  BY <1>3, <2>1, <2>3, <2>6, <2>8
<1>7. CASE ReadChunk
  <2>1. Returned' = Returned
    BY <1>7, ConsumeReturned
  <2>2. InFlight' \in Seq(Chunks) /\ InFlight # <<>> /\ InFlight[1] = Head(toClient) /\ InFlight' = Tail(InFlight)
    BY <1>0, <1>7, ReadChunkFlight
  <2>3. Head(toClient) \in Chunks /\ client'.remaining = client.remaining - Head(toClient).size /\ server' = server
    BY <1>0, <1>7, Accepts
  <2>4. z = Head(toClient).size + SizesOf(InFlight')
    BY <1>2, <1>3, <2>2, SizesTail
  <2>5. PICK n, x \in Nat : n = Head(toClient).size /\ x = SizesOf(InFlight')
    BY <2>2, <2>3, SizeFacts, SizesNat
  <2>6. z = n + x
    BY <2>4, <2>5
  <2>7. c - n = s + x + y
    BY SMTT(30), <1>4, <2>6
  <2> QED  BY <1>3, <2>1, <2>3, <2>5, <2>7
<1>8. CASE SendTerminalCredit
  <2>1. InFlight' = InFlight /\ server' = server
    BY <1>8, CreditFlight DEF SendTerminalCredit, serverVars
  <2>2. PICK b \in Nat, k \in Credits : k.bytes = b /\ Returned' = Append(Returned, k)
                                        /\ client'.remaining = client.remaining + b
    BY <1>0, <1>8, Sends
  <2>3. BytesOf(Returned') = y + b
    BY <1>2, <1>3, <2>2, BytesAppend
  <2>4. c + b = s + z + (y + b)
    BY SMTT(30), <1>4
  <2> QED  BY <1>3, <2>1, <2>2, <2>3, <2>4
<1>9. CASE Rest
  BY <1>0, <1>1, <1>9, RestQuiet DEF Quiet
<1> QED  BY <1>5, <1>6, <1>7, <1>8, <1>9, Steps

-----------------------------------------------------------------------------
(* Notifications that wait *)

LEMMA Times ==
    ASSUME NEW a \in Nat, NEW b \in Nat
    PROVE  a * b \in Nat /\ a * (b + 1) = a * b + a /\ a * 0 = 0
BY SMTT(30)

\* Each waiting chunk has cost at least the smallest chunk.
LEMMA InboxKept == Typed /\ InboxInv /\ Next => InboxInv'
<1> SUFFICES ASSUME Typed, InboxInv, Next, Live' PROVE InboxInv'
  BY DEF InboxInv
<1>0. EndTypes /\ StateTypes /\ QueueTypes
  BY DEF Typed
<1>1. PICK r, w, i, u \in Nat : r = client.remaining /\ w = WindowBytes /\ i = SumOf(inbox) /\ u = SumOf(unread)
  <2>1. SumOf(inbox) \in Nat /\ SumOf(unread) \in Nat
    BY <1>0, MarkFacts DEF StateTypes
  <2> QED  BY <1>0, <2>1, WindowFacts
<1>2. PICK m \in Nat : m = Smallest
  BY SmallestFacts
<1>3. m * (i + u) + r <= w /\ r <= w
  BY <1>0, <1>1, <1>2, NextLive DEF InboxInv, EndTypes
<1>w. WindowBytes' = w
  <2>1. app' = app
    BY RestKeepsFlows, Steps DEF Consume, ReadCredit, ReadChunk, SendTerminalCredit, serverVars
  <2> QED  BY <1>1, <2>1 DEF WindowBytes
<1>a. ASSUME m * (SumOf(inbox') + SumOf(unread')) + client'.remaining <= w PROVE InboxInv'
  BY <1>2, <1>a, <1>w DEF InboxInv, Smallest
<1>4. CASE ReadChunk
  <2>1. Head(toClient) \in Chunks /\ client'.remaining = client.remaining - Head(toClient).size
        /\ SumOf(inbox') = SumOf(inbox) + 1 /\ unread' = unread
    BY <1>0, <1>4, Accepts, MarkFacts DEF ReadChunk, StateTypes
  <2>2. PICK n \in Nat : n = Head(toClient).size /\ m <= n
    BY <1>2, <2>1, SizeFacts, SmallestFacts
  <2>3. PICK b, p \in Nat : b = i + u /\ p = m * b
    <3>1. i + u \in Nat
      BY SMTT(30)
    <3> QED  BY <1>2, <3>1, Times
  <2>4. m * (b + 1) = p + m
    BY <2>3, Times
  <2>5. (i + 1) + u = b + 1
    BY SMTT(30), <2>3
  <2>6. (p + m) + (r - n) <= w
    <3>1. p + r <= w /\ m <= n
      BY <1>3, <2>2, <2>3
    <3> QED  BY SMTT(30), <3>1
  <2>7. m * (SumOf(inbox') + SumOf(unread')) + client'.remaining <= w
    BY <1>1, <2>1, <2>2, <2>4, <2>5, <2>6
  <2> QED  BY <1>a, <2>7
<1>5. CASE SendTerminalCredit
  <2>1. SumOf(inbox') = 0 /\ SumOf(unread') = 0
    BY <1>5 DEF SendTerminalCredit, NamesOffset
  <2>2. client'.remaining <= w /\ client'.remaining \in Nat
    <3>1. EndTypes'
      BY <1>0, EndTypesKept
    <3>2. client'.remaining \in Nat
      BY <3>1, SMTT(30) DEF EndTypes, Flows
    <3> QED  BY <1>w, <3>1, <3>2 DEF EndTypes
  <2>3. m * (0 + 0) + client'.remaining <= w
    BY SMTT(30), <2>2
  <2> QED  BY <1>a, <2>1, <2>3
<1>6. CASE NotificationLoop
  <2>1. inbox # <<>> /\ inbox' = Tail(inbox) /\ unread' = Append(unread, Head(inbox)) /\ client' = client
    BY <1>6 DEF NotificationLoop
  <2>2. PICK h, j \in Nat : h \in {0, 1} /\ h = Head(inbox) /\ j = SumOf(inbox') /\ i = h + j
    <3>1. Head(inbox) \in {0, 1} /\ SumOf(inbox') \in Nat /\ SumOf(inbox) = Head(inbox) + SumOf(inbox')
      BY <1>0, <2>1, MarkFacts DEF StateTypes
    <3>2. Head(inbox) \in Nat
      BY SMTT(30), <3>1
    <3> QED  BY <1>1, <3>1, <3>2
  <2>3. SumOf(unread') = u + h
    BY <1>0, <1>1, <2>1, <2>2, MarkFacts DEF StateTypes
  <2>4. j + (u + h) = i + u
    BY SMTT(30), <2>2
  <2> QED  BY <1>1, <1>3, <1>a, <2>1, <2>2, <2>3, <2>4
<1>7. CASE TakeNotification
  <2>1. unread # <<>> /\ inbox' = inbox /\ unread' = Tail(unread) /\ client' = client
    BY <1>7 DEF TakeNotification
  <2>2. PICK h, j \in Nat : j = SumOf(unread') /\ u = h + j
    <3>1. Head(unread) \in {0, 1} /\ SumOf(unread') \in Nat /\ SumOf(unread) = Head(unread) + SumOf(unread')
      BY <1>0, <2>1, MarkFacts DEF StateTypes
    <3>2. Head(unread) \in Nat
      BY SMTT(30), <3>1
    <3> QED  BY <1>1, <3>1, <3>2
  <2>3. PICK p, e \in Nat : p = m * (i + j) /\ m * (i + u) = p + e
    <3>1. m * (i + (h + j)) = m * (i + j) + m * h /\ m * (i + j) \in Nat /\ m * h \in Nat
      BY SMTT(30)
    <3> QED  BY <2>2, <3>1
  <2>4. p + r <= w
    <3>1. (p + e) + r <= w
      BY <1>3, <2>3
    <3> QED  BY SMTT(30), <3>1
  <2>5. m * (SumOf(inbox') + SumOf(unread')) + client'.remaining <= w
    BY <1>1, <2>1, <2>2, <2>3, <2>4
  <2> QED  BY <1>a, <2>5
<1>8. CASE ReadOther
  <2>1. unread' = unread /\ client' = client /\ inbox' = Append(inbox, 0)
    BY <1>8 DEF ReadOther, Live
  <2>2. SumOf(inbox') = i + 0 /\ i + 0 = i
    <3>1. SumOf(inbox') = i + 0
      BY <1>0, <1>1, <2>1, MarkFacts DEF StateTypes
    <3>2. i + 0 = i
      BY SMTT(30)
    <3> QED  BY <3>1, <3>2
  <2> QED  BY <1>1, <1>3, <1>a, <2>1, <2>2
<1>9. CASE ~ReadChunk /\ ~ReadOther /\ ~SendTerminalCredit /\ ~NotificationLoop /\ ~TakeNotification
  <2>1. UNCHANGED <<inbox, unread, client>>
    BY <1>9 DEF Next, ServerStep, ClientStep, Produce, ProducerEnds, Consume, ConsumeCancelled, Publish,
       PublishOther, WriteControl, WriterFallsThrough, WriteData, ReadCredit, ReadDetach, RespondDetach,
       CommitDetach, SendDetach, ReadDetached, RetireFlow, clientVars
  <2> QED  BY <1>1, <1>3, <1>a, <2>1
<1> QED  BY <1>4, <1>5, <1>6, <1>7, <1>8, <1>9

-----------------------------------------------------------------------------
(* The chain of chunks *)

LEMMA PastFacts ==
    ASSUME NEW c \in Chunks
    PROVE  Past(c).remaining = c.credit /\ Past(c).through = c.offset + c.size /\ Past(c).sequence = c.sequence
BY SMTT(30) DEF Past

\* Where the chain ends is a flow.
LEMMA ReachesTypes ==
    ASSUME NEW q \in Seq(Chunks), NEW f \in Flows, NEW r, r = Reaches(q, f)
    PROVE  r.remaining \in Nat /\ r.through \in Nat /\ r.sequence \in Nat
<1>1. \A g \in Flows : g.remaining \in Nat /\ g.through \in Nat /\ g.sequence \in Nat
  BY SMTT(30) DEF Flows
<1>2. CASE q = <<>>
  BY <1>1, <1>2 DEF Reaches
<1>3. CASE q # <<>>
  <2>1. PICK c \in Chunks : c = q[Len(q)]
    BY SMTT(30), <1>3
  <2>2. r = Past(c)
    BY <1>3, <2>1 DEF Reaches
  <2>3. \A a, b \in Nat : a + b \in Nat
    BY SMTT(30)
  <2> QED  BY <2>2, <2>3, PastFacts, SizeFacts
<1> QED  BY <1>2, <1>3

\* One more chunk that fits where the chain ends.
LEMMA ChainAppend ==
    ASSUME NEW q \in Seq(Chunks), NEW f, NEW c \in Chunks, NEW w, w = Append(q, c),
           Chain(q, f), Fits(c, Reaches(q, f))
    PROVE  Chain(w, f) /\ w # <<>> /\ Reaches(w, f) = Past(c)
<1>1. PICK n \in Nat : n = Len(q)
  BY SMTT(30)
<1>2. w # <<>> /\ Len(w) = n + 1 /\ DOMAIN w = 1..(n + 1) /\ w[n + 1] = c /\ DOMAIN q = 1..n
      /\ \A i \in 1..n : w[i] = q[i]
  BY SMTT(30), <1>1
<1>3. Reaches(w, f) = Past(c)
  BY <1>2 DEF Reaches
<1>4. Fits(w[1], f)
  <2>1. CASE q = <<>>
    <3>1. n = 0
      BY SMTT(30), <1>1, <2>1
    <3>2. w[1] = c
      BY SMTT(30), <1>2, <3>1
    <3> QED  BY <2>1, <3>2 DEF Reaches
  <2>2. CASE q # <<>>
    <3>1. 1 \in 1..n
      BY SMTT(30), <1>1, <2>2
    <3> QED  BY <1>2, <2>2, <3>1 DEF Chain
  <2> QED  BY <2>1, <2>2
<1>5. ASSUME NEW i \in DOMAIN w, i # Len(w) PROVE Fits(w[i + 1], Past(w[i]))
  <2>1. i \in 1..n /\ w[i] = q[i]
    BY SMTT(30), <1>2, <1>5
  <2>2. CASE i = n
    <3>1. q # <<>>
      BY SMTT(30), <1>1, <2>1
    <3> QED  BY <1>1, <1>2, <2>1, <2>2, <3>1 DEF Reaches
  <2>3. CASE i # n
    <3>1. i + 1 \in 1..n
      BY SMTT(30), <2>1, <2>3
    <3>2. Fits(q[i + 1], Past(q[i]))
      BY <1>1, <1>2, <2>1, <2>3 DEF Chain
    <3> QED  BY <1>2, <2>1, <3>1, <3>2
  <2> QED  BY <2>2, <2>3
<1> QED  BY <1>2, <1>3, <1>4, <1>5 DEF Chain

\* The first chunk is past.
LEMMA ChainTail ==
    ASSUME NEW q \in Seq(Chunks), q # <<>>, NEW f, NEW w, w = Tail(q), Chain(q, f)
    PROVE  Chain(w, Past(q[1])) /\ Reaches(w, Past(q[1])) = Reaches(q, f)
<1>1. PICK n \in Nat : n = Len(w)
  BY SMTT(30)
<1>2. Len(q) = n + 1 /\ DOMAIN q = 1..(n + 1) /\ DOMAIN w = 1..n
      /\ \A i \in 1..n : w[i] = q[i + 1] /\ i + 1 \in 1..(n + 1)
  BY SMTT(30), <1>1
<1>3. 1 \in 1..(n + 1)
  BY SMTT(30)
<1>4. CASE n = 0
  <2>1. w = <<>> /\ \A i \in 1..n : FALSE
    BY SMTT(30), <1>1, <1>4
  <2>2. Len(q) = 1
    BY SMTT(30), <1>2, <1>4
  <2> QED  BY <1>2, <2>1, <2>2 DEF Chain, Reaches
<1>5. CASE n # 0
  <2>1. w # <<>> /\ 1 \in 1..n /\ n \in 1..n /\ 1 # n + 1
    BY SMTT(30), <1>1, <1>5
  <2>2. Fits(q[1 + 1], Past(q[1]))
    BY <1>2, <1>3, <2>1 DEF Chain
  <2>3. Fits(w[1], Past(q[1]))
    BY <1>2, <2>1, <2>2
  <2>4. ASSUME NEW i \in DOMAIN w, i # Len(w) PROVE Fits(w[i + 1], Past(w[i]))
    <3>1. i \in 1..n /\ i # n
      BY <1>1, <1>2, <2>4
    <3>2. i + 1 \in 1..n /\ i + 1 # n + 1
      BY SMTT(30), <3>1
    <3>3. PICK j : j = i + 1
      OBVIOUS
    <3>4. Fits(q[j + 1], Past(q[j]))
      BY <1>2, <3>1, <3>2, <3>3 DEF Chain
    <3> QED  BY <1>2, <3>1, <3>2, <3>3, <3>4
  <2>5. w[n] = q[n + 1]
    BY <1>2, <2>1
  <2> QED  BY <1>1, <1>2, <2>1, <2>3, <2>4, <2>5 DEF Chain, Reaches
<1> QED  BY <1>4, <1>5

\* A chunk that continues the server's flow continues the flow that the chain
\* reaches.
LEMMA FitsReached ==
    ASSUME NEW c \in Chunks, NEW s \in Flows, NEW r,
           r.remaining \in Nat, r.through \in Nat, r.sequence \in Nat,
           s.remaining = r.remaining, s.sequence = r.sequence, s.through >= r.through,
           s.through # r.through => c.truncated,
           Continues(c, s), c.size <= s.remaining, c.credit = s.remaining - c.size
    PROVE  Fits(c, r)
<1>1. c.size <= r.remaining /\ c.credit = r.remaining - c.size
  OBVIOUS
<1>2. r.sequence = 0 \/ c.sequence = r.sequence + 1 \/ c.truncated
  BY DEF Continues
<1>3. c.offset = r.through \/ (c.truncated /\ c.offset >= r.through)
  <2>1. CASE s.through = r.through
    BY <2>1 DEF Continues
  <2>2. CASE s.through # r.through
    <3>1. PICK o, a, b \in Nat : o = c.offset /\ a = s.through /\ b = r.through
      <4>1. s.through \in Nat
        BY SMTT(30) DEF Flows
      <4> QED  BY <4>1, SizeFacts
    <3>2. o = a \/ o >= a
      BY <3>1 DEF Continues
    <3>3. a >= b
      BY <3>1
    <3>4. o >= b
      BY SMTT(30), <3>2, <3>3
    <3> QED  BY <2>2, <3>1, <3>4
  <2> QED  BY <2>1, <2>2
<1> QED  BY <1>1, <1>2, <1>3 DEF Fits, Continues

\* Nothing is admitted while credit is on its way.
LEMMA NoCreditOnItsWay ==
    ASSUME Typed, WindowConserved, Live, Needed(Returned, InFlight, client),
           NEW n \in Sizes, n <= server.remaining
    PROVE  Returned = <<>>
<1> SUFFICES ASSUME Returned # <<>> PROVE FALSE
  OBVIOUS
<1>0. EndTypes /\ StateTypes /\ QueueTypes
  BY DEF Typed
<1>1. InFlight = <<>> /\ client.remaining - Returned[Len(Returned)].bytes < Smallest
  BY DEF Needed
<1>2. Returned \in Seq(Credits)
  BY <1>0, FlightParts
<1>3. Returned[Len(Returned)].bytes \in Nat /\ Returned[Len(Returned)].bytes <= BytesOf(Returned) /\ BytesOf(Returned) \in Nat
  BY <1>2, BytesLast, BytesNat
<1>4. client.remaining = server.remaining + SizesOf(<<>>) + BytesOf(Returned)
  BY <1>1 DEF WindowConserved, Returned
<1>5. PICK c, s, b, y, m \in Nat : c = client.remaining /\ s = server.remaining /\ b = Returned[Len(Returned)].bytes
                                /\ y = BytesOf(Returned) /\ m = Smallest
  BY <1>0, <1>3, WindowFacts, SmallestFacts
<1>6. c = s + 0 + y /\ b <= y /\ c - b < m
  BY <1>1, <1>3, <1>4, <1>5, NothingAdds
<1>7. m <= n /\ n <= s /\ n \in Nat
  BY <1>5, SmallestFacts
<1> QED  BY SMTT(30), <1>6, <1>7

\* The chunks in flight stay a chain from the client's flow to the server's.
LEMMA ChainKept == Typed /\ WindowConserved /\ ChainInv /\ Next => ChainInv'
<1> SUFFICES ASSUME Typed, WindowConserved, ChainInv, Next, Live', Careful'
             PROVE  /\ Chain(InFlight', client') /\ Joined(InFlight', client', server', Cutting')
                    /\ Needed(Returned', InFlight', client')
  BY DEF ChainInv
<1>0. EndTypes /\ StateTypes /\ QueueTypes /\ DetachInv /\ Live
  BY NextLive DEF Typed
<1>1. Careful
  <2>1. app' = app
    BY RestKeepsFlows, Steps DEF Consume, ReadCredit, ReadChunk, SendTerminalCredit, serverVars
  <2> QED  BY <2>1 DEF Careful, allowed
<1>2. Chain(InFlight, client) /\ Joined(InFlight, client, server, Cutting) /\ Needed(Returned, InFlight, client)
  BY <1>0, <1>1 DEF ChainInv
<1>3. InFlight \in Seq(Chunks) /\ Returned \in Seq(Credits)
  BY <1>0, FlightParts
<1>4. server \in Flows /\ client \in Flows
  BY <1>0 DEF EndTypes
<1>5. PICK q, k, r : q = InFlight /\ k = Returned /\ r = Reaches(q, client)
  OBVIOUS
<1>6. r.remaining \in Nat /\ r.through \in Nat /\ r.sequence \in Nat
  BY <1>3, <1>4, <1>5, ReachesTypes
<1>7. /\ q # <<>> => server.remaining = r.remaining
      /\ server.sequence = r.sequence /\ server.through >= r.through
      /\ server.through # r.through => Cutting
  BY <1>2, <1>5 DEF Joined
<1>11. CASE Consume /\ producer' = "publish"
  <2>1. InFlight' = Append(q, chunk) /\ client' = client /\ Returned' = k
    BY <1>0, <1>5, <1>11, AdmitFlight, ConsumeReturned DEF Consume, clientVars
  <2>2. /\ chunk \in Chunks /\ Continues(chunk, server) /\ chunk.size <= server.remaining
        /\ chunk.credit = server.remaining - chunk.size
        /\ server'.remaining = server.remaining - chunk.size
        /\ server'.through = chunk.offset + chunk.size /\ server'.sequence = chunk.sequence
    BY <1>0, <1>11, Admits
  <2>3. k = <<>>
    <3>1. chunk.size \in Sizes
      BY <2>2, SizeFacts
    <3> QED  BY <1>0, <1>2, <1>5, <2>2, <3>1, NoCreditOnItsWay
  <2>4. server.remaining = r.remaining
    <3>1. CASE q = <<>>
      <4>1. client.remaining = server.remaining + 0 + 0
        BY <1>0, <1>5, <2>3, <3>1, NothingAdds DEF WindowConserved, Returned
      <4>2. server.remaining \in Nat
        BY <1>0, WindowFacts
      <4>3. client.remaining = server.remaining
        BY SMTT(30), <4>1, <4>2
      <4> QED  BY <1>5, <3>1, <4>3 DEF Reaches
    <3> QED  BY <1>7, <3>1
  <2>5. server.through # r.through => chunk.truncated
    BY <1>7 DEF Cutting
  <2>6. Fits(chunk, r)
    BY <1>4, <1>6, <1>7, <2>2, <2>4, <2>5, FitsReached
  <2>7. Chain(InFlight', client) /\ InFlight' # <<>> /\ Reaches(InFlight', client) = Past(chunk)
    BY <1>2, <1>3, <1>5, <2>1, <2>2, <2>6, ChainAppend
  <2>8. Past(chunk).remaining = chunk.credit /\ Past(chunk).through = chunk.offset + chunk.size
        /\ Past(chunk).sequence = chunk.sequence
    BY <2>2, PastFacts
  <2>9. server'.through >= Past(chunk).through
    <3>1. PICK a, b \in Nat : a = chunk.offset /\ b = chunk.size
      BY <2>2, SizeFacts
    <3>2. a + b >= a + b
      BY SMTT(30)
    <3> QED  BY <2>2, <2>8, <3>1, <3>2
  <2>10. Joined(InFlight', client', server', Cutting')
    BY <2>1, <2>2, <2>7, <2>8, <2>9 DEF Joined
  <2> QED  BY <2>1, <2>3, <2>7, <2>10 DEF Needed
<1>12. CASE Consume /\ producer' # "publish"
  <2>1. InFlight' = q /\ client' = client /\ Returned' = k
    BY <1>5, <1>12, BlockFlight, ConsumeReturned DEF Consume, clientVars
  <2>2. /\ chunk \in Chunks /\ Continues(chunk, server) /\ producer' = "blocked" /\ chunk' = chunk
        /\ server'.remaining = server.remaining /\ server'.through = chunk.offset
        /\ server'.sequence = server.sequence
    BY <1>0, <1>12, Waits
  <2>3. PICK o, a, b \in Nat : o = chunk.offset /\ a = server.through /\ b = r.through
    BY <1>0, <1>6, <2>2, SizeFacts, WindowFacts
  <2>4. o = a \/ (chunk.truncated /\ o >= a)
    BY <2>2, <2>3 DEF Continues
  <2>5. o >= b
    <3>1. a >= b
      BY <1>7, <2>3
    <3> QED  BY SMTT(30), <2>4, <3>1
  <2>6. o # b => Cutting'
    BY <1>7, <2>2, <2>3, <2>4 DEF Cutting
  <2>7. Joined(q, client, server', Cutting')
    BY <1>5, <1>7, <2>2, <2>3, <2>5, <2>6 DEF Joined
  <2> QED  BY <1>2, <1>5, <2>1, <2>7
<1>13. CASE ReadCredit
  <2>1. InFlight' = q
    BY <1>5, <1>13, CreditFlight
  <2>2. k # <<>> /\ k[1] = Head(toServer) /\ Returned' = Tail(k)
    BY <1>0, <1>5, <1>13, ReadCreditReturned
  <2>3. /\ server'.through = server.through /\ server'.sequence = server.sequence
        /\ client' = client /\ chunk' = chunk /\ producer' = IF producer = "blocked" THEN "consume" ELSE producer
    BY <1>0, <1>13, Grants
  <2>4. q = <<>> /\ client.remaining - k[Len(k)].bytes < Smallest /\ \A i \in DOMAIN k : k[i].through = client.through
    BY <1>2, <1>5, <2>2 DEF Needed
  <2>5. Cutting => Cutting'
    BY <2>3 DEF Cutting
  <2>6. Joined(q, client, server', Cutting')
    BY <1>5, <1>7, <2>3, <2>4, <2>5 DEF Joined
  <2>7. Tail(k) # <<>> => Tail(k)[Len(Tail(k))] = k[Len(k)]
    BY SMTT(30), <1>3, <1>5, <2>2
  <2>8. \A i \in DOMAIN Tail(k) : i + 1 \in DOMAIN k /\ Tail(k)[i] = k[i + 1]
    BY SMTT(30), <1>3, <1>5, <2>2
  <2>9. Needed(Tail(k), q, client)
    BY <2>4, <2>7, <2>8 DEF Needed
  <2> QED  BY <1>2, <1>5, <2>1, <2>2, <2>3, <2>6, <2>9
<1>14. CASE ReadChunk
  <2>1. Returned' = k
    BY <1>5, <1>14, ConsumeReturned
  <2>2. q # <<>> /\ q[1] = Head(toClient) /\ InFlight' = Tail(q)
    BY <1>0, <1>5, <1>14, ReadChunkFlight
  <2>3. /\ q[1] \in Chunks /\ Fits(q[1], client) /\ client' = After(q[1], client)
        /\ UNCHANGED <<server, producer, chunk>>
    BY <1>0, <1>14, <2>2, Accepts
  <2>4. client' = Past(q[1])
    BY <2>3 DEF Fits, After, Past
  <2>5. Chain(InFlight', client') /\ Reaches(InFlight', client') = r
    BY <1>2, <1>3, <1>5, <2>2, <2>4, ChainTail
  <2>6. Cutting' = Cutting
    BY <2>3 DEF Cutting
  <2>7. Joined(InFlight', client', server', Cutting')
    BY <1>7, <2>2, <2>3, <2>5, <2>6 DEF Joined
  <2>8. k = <<>>
    BY <1>2, <1>5, <2>2 DEF Needed
  <2> QED  BY <2>1, <2>5, <2>7, <2>8 DEF Needed
<1>15. CASE SendTerminalCredit
  <2>1. InFlight' = q /\ UNCHANGED <<server, producer, chunk>>
    BY <1>5, <1>15, CreditFlight DEF SendTerminalCredit, serverVars
  <2>2. PICK b \in Nat, x \in Credits :
              /\ x.bytes = b /\ x.through = client.through /\ Returned' = Append(k, x)
              /\ client'.remaining = client.remaining + b /\ client'.through = client.through
              /\ client'.sequence = client.sequence
    BY <1>0, <1>5, <1>15, Sends
  <2>3. client.remaining < Smallest
    BY <1>1, <1>15 DEF SendTerminalCredit, Cautious, Careful, Smallest
  <2>4. q = <<>>
    <3> SUFFICES ASSUME q # <<>> PROVE FALSE
      OBVIOUS
    <3>1. q[1] \in Chunks /\ q[1].size <= client.remaining
      <4>1. Fits(q[1], client)
        BY <1>2, <1>5 DEF Chain
      <4>2. q[1] \in Chunks
        BY <1>3, <1>5, SplitFacts
      <4> QED  BY <4>1, <4>2 DEF Fits
    <3>2. PICK n, c, m \in Nat : n = q[1].size /\ c = client.remaining /\ m = Smallest /\ m <= n
      BY <1>0, <3>1, SizeFacts, SmallestFacts, WindowFacts
    <3>3. n <= c /\ c < m
      BY <2>3, <3>1, <3>2
    <3> QED  BY SMTT(30), <3>2, <3>3
  <2>5. Chain(q, client')
    BY <1>2, <1>5, <2>4 DEF Chain
  <2>6. Cutting' = Cutting
    BY <2>1 DEF Cutting
  <2>7. Joined(q, client', server', Cutting')
    BY <1>5, <1>7, <2>1, <2>2, <2>4, <2>6 DEF Joined, Reaches
  <2>8. Needed(Returned', q, client')
    <3>1. PICK w : w = Append(k, x)
      OBVIOUS
    <3>2. w[Len(w)] = x
      BY SMTT(30), <1>3, <1>5, <3>1
    <3>3. \A i \in DOMAIN w : w[i] = x \/ (i \in DOMAIN k /\ w[i] = k[i] /\ k # <<>>)
      BY SMTT(30), <1>3, <1>5, <3>1
    <3>4. k # <<>> => \A i \in DOMAIN k : k[i].through = client.through
      BY <1>2, <1>5 DEF Needed
    <3>5. \A i \in DOMAIN w : w[i].through = client'.through
      BY <2>2, <3>3, <3>4
    <3>6. client'.remaining - b < Smallest
      <4>1. PICK c, m \in Nat : c = client.remaining /\ m = Smallest
        BY <1>0, SmallestFacts, WindowFacts
      <4>2. c < m
        BY <2>3, <4>1
      <4>3. (c + b) - b < m
        BY SMTT(30), <4>2
      <4> QED  BY <2>2, <4>1, <4>3
    <3> QED  BY <2>2, <2>4, <3>1, <3>2, <3>5, <3>6 DEF Needed
  <2> QED  BY <2>1, <2>5, <2>7, <2>8
<1>16. CASE Rest
  <2>1. /\ UNCHANGED <<server, client>> /\ InFlight' = q /\ Returned' = k
        /\ producer \in {"consume", "blocked"} => UNCHANGED <<producer, chunk>>
    BY <1>0, <1>5, <1>16, RestQuiet DEF Quiet
  <2>2. Cutting => Cutting'
    BY <2>1 DEF Cutting
  <2>3. Joined(q, client, server, Cutting')
    BY <1>5, <1>7, <2>2 DEF Joined
  <2> QED  BY <1>2, <1>5, <2>1, <2>3
<1> QED  BY <1>11, <1>12, <1>13, <1>14, <1>15, <1>16, Steps

-----------------------------------------------------------------------------
(* An uninterrupted stream, and what ends a connection *)

\* Nothing interrupts a stream that nobody truncates, ends or detaches.
LEMMA SteadyKept == Typed /\ SteadyInv /\ Next => SteadyInv'
<1> SUFFICES ASSUME Typed, SteadyInv, Next, allowed' \subseteq {"share"} PROVE SteadyInv'
  BY DEF SteadyInv
<1>0. EndTypes /\ StateTypes /\ QueueTypes /\ DetachInv
  BY DEF Typed
<1>1. allowed \subseteq {"share"}
  <2>1. app' = app
    BY RestKeepsFlows, Steps DEF Consume, ReadCredit, ReadChunk, SendTerminalCredit, serverVars
  <2> QED  BY <2>1 DEF allowed
<1>2. detach = "none" /\ flow = "active" /\ admitted /\ lifetime /\ (Holding => ~chunk.truncated) /\ toClient \in Seq(Notices)
  BY <1>1 DEF SteadyInv
<1>3. control = <<>>
  BY <1>0, <1>2 DEF DetachInv
<1>4. toClient # <<>> => Head(toClient) \in Notices /\ Tail(toClient) \in Seq(Notices)
  BY <1>2, SplitFacts
<1>5. toServer # <<>> => Head(toServer).type # "detach"
  <2> SUFFICES ASSUME toServer # <<>>, Head(toServer).type = "detach" PROVE FALSE
    OBVIOUS
  <2>1. Head(toServer) = Detaching
    BY <1>0, HeadCredit
  <2>2. 1 \in DOMAIN toServer /\ toServer[1] = Detaching
    BY <1>0, <2>1, TailFacts DEF QueueTypes
  <2> QED  BY <1>0, <1>2, <2>2 DEF DetachInv
<1>6. ~ProducerEnds /\ ~ConsumeCancelled /\ ~WriteControl /\ ~ReadDetach /\ ~RespondDetach /\ ~CommitDetach
      /\ ~SendDetach /\ ~ReadDetached /\ ~RetireFlow
  <2>1. ~ProducerEnds /\ ~ConsumeCancelled /\ ~WriteControl
    BY <1>1, <1>2, <1>3 DEF ProducerEnds, ConsumeCancelled, WriteControl
  <2>2. ~ReadDetach /\ ~RespondDetach /\ ~CommitDetach /\ ~SendDetach /\ ~RetireFlow
    BY <1>1, <1>2, <1>5 DEF ReadDetach, RespondDetach, CommitDetach, SendDetach, RetireFlow
  <2>3. ~ReadDetached
    BY <1>4, Kinds DEF ReadDetached, Detached, Notices
  <2> QED  BY <2>1, <2>2, <2>3
<1>7. UNCHANGED <<detach, flow, admitted, lifetime>>
  BY <1>6 DEF Next, ServerStep, ClientStep, Produce, Consume, Publish, PublishOther, WriterFallsThrough, WriteData,
              ReadCredit, ReadChunk, ReadOther, NotificationLoop, TakeNotification, SendTerminalCredit, serverVars, clientVars
<1>8. toClient' \in Seq(Notices)
  <2>1. CASE WriteData
    <3>1. data # <<>> /\ toClient' = Append(toClient, Head(data))
      BY <2>1 DEF WriteData
    <3>2. Head(data) \in Notices
      BY <1>0, <3>1, SplitFacts DEF QueueTypes
    <3> QED  BY <1>2, <3>1, <3>2, AppendFacts
  <2>2. CASE ReadChunk \/ ReadOther
    BY <1>4, <2>2 DEF ReadChunk, ReadOther
  <2>3. CASE ~WriteData /\ ~ReadChunk /\ ~ReadOther
    <3>1. toClient' = toClient
      BY <1>6, <2>3 DEF Next, ServerStep, ClientStep, Produce, Consume, Publish, PublishOther, WriterFallsThrough, ReadCredit,
              NotificationLoop, TakeNotification, SendTerminalCredit
    <3> QED  BY <1>2, <3>1
  <2> QED  BY <2>1, <2>2, <2>3
<1>9. Holding' => ~chunk'.truncated
  <2>1. CASE Produce
    <3>1. PICK n, k, a, b : chunk' = [offset |-> a, size |-> n, sequence |-> b, truncated |-> FALSE, credit |-> k]
      BY <1>1, <2>1 DEF Produce
    <3>2. chunk'.truncated = FALSE
      BY SMTT(30), <3>1
    <3> QED  BY <3>2
  <2>2. CASE Publish
    BY <2>2 DEF Publish, Holding
  <2>3. CASE Consume
    BY <1>2, <2>3 DEF Consume, Holding
  <2>4. CASE ReadCredit
    BY <1>2, <2>4 DEF ReadCredit, AddCredit, Holding
  <2>5. CASE ~Produce /\ ~Publish /\ ~Consume /\ ~ReadCredit
    <3>1. UNCHANGED <<producer, chunk>>
      BY <1>6, <2>5 DEF Next, ServerStep, ClientStep, PublishOther, WriterFallsThrough, WriteData,
              ReadChunk, ReadOther, NotificationLoop, TakeNotification, SendTerminalCredit, serverVars
    <3> QED  BY <1>2, <3>1 DEF Holding
  <2> QED  BY <2>1, <2>2, <2>3, <2>4, <2>5
<1> QED  BY <1>2, <1>7, <1>8, <1>9 DEF SteadyInv

\* The chunk that the client reads next fits a cautious client's flow.
LEMMA HeadFits ==
    ASSUME Typed, ChainInv, Live, Careful, ReadChunk
    PROVE  Fits(Head(toClient), client)
<1>1. InFlight # <<>> /\ InFlight[1] = Head(toClient)
  BY ReadChunkFlight DEF Typed
<1>2. Chain(InFlight, client)
  BY DEF ChainInv
<1> QED  BY <1>1, <1>2 DEF Chain

\* What waits in a full queue of the client, and a chunk that fits the window and
\* finds no place there, come out of one window.
LEMMA FullQueue ==
    ASSUME Typed, InboxInv, Live, ~(Len(inbox) < MaxOutboundQueue),
           NEW x \in {0, 1}, x = 1 => ReadChunk /\ Head(toClient).size <= client.remaining
    PROVE  /\ Smallest * (MaxOutboundQueue + 1 - (Len(inbox) - SumOf(inbox) + (1 - x))) <= WindowBytes
           /\ x = 1 /\ WindowBytes <= Smallest * MaxOutboundQueue => SumOf(inbox) < Len(inbox)
<1>0. EndTypes /\ StateTypes /\ QueueTypes
  BY DEF Typed
<1>1. PICK r, w, i, u, m, M \in Nat : /\ r = client.remaining /\ w = WindowBytes
                                      /\ i = SumOf(inbox) /\ u = SumOf(unread)
                                      /\ m = Smallest /\ M = MaxOutboundQueue
  <2>1. SumOf(inbox) \in Nat /\ SumOf(unread) \in Nat
    BY <1>0, MarkFacts DEF StateTypes
  <2> QED  BY <1>0, <2>1, FlowAssumption, SmallestFacts, WindowFacts
<1>2. m > 0
  BY <1>1, SmallestFacts
<1>3. Len(inbox) = M
  <2>1. Len(inbox) \in Nat /\ Len(inbox) <= M /\ ~(Len(inbox) < M)
    BY <1>0, <1>1, MarkFacts DEF StateTypes
  <2> QED  BY SMTT(30), <2>1
<1>4. m * (i + u) + r <= w
  BY <1>1 DEF InboxInv
<1>5. x = 1 => m <= r
  <2> SUFFICES ASSUME x = 1 PROVE m <= r
    OBVIOUS
  <2>1. Head(toClient) \in Chunks
    BY <1>0, HeadChunk DEF ReadChunk
  <2>2. PICK n \in Nat : n = Head(toClient).size /\ m <= n /\ n <= r
    BY <1>1, <2>1, SizeFacts, SmallestFacts
  <2> QED  BY SMTT(30), <2>2
<1>6. PICK p, e \in Nat : p = m * i /\ m * (i + u) = p + e
  <2>1. m * (i + u) = m * i + m * u /\ m * i \in Nat /\ m * u \in Nat
    BY SMTT(30)
  <2> QED  BY <2>1
<1>7. (p + e) + r <= w
  BY <1>4, <1>6
<1>8. p <= w /\ (x = 1 => p + m <= w)
  BY SMTT(30), <1>5, <1>7
<1>9. M + 1 - (M - i + (1 - x)) = i + x
  BY SMTT(30)
<1>10. m * (i + x) <= w
  <2>1. CASE x = 0
    <3>1. i + 0 = i
      BY SMTT(30)
    <3> QED  BY <1>6, <1>8, <2>1, <3>1
  <2>2. CASE x = 1
    BY <1>6, <1>8, <2>2, Times
  <2> QED  BY <2>1, <2>2
<1>11. ASSUME x = 1, w <= m * M PROVE i < M
  <2> SUFFICES ASSUME ~(i < M) PROVE FALSE
    OBVIOUS
  <2>1. PICK d \in Nat : i = M + d
    <3>1. i - M \in Nat /\ i = M + (i - M)
      BY SMTT(30)
    <3> QED  BY <3>1
  <2>2. m * (M + d) = m * M + m * d /\ m * M \in Nat /\ m * d \in Nat
    BY SMTT(30)
  <2>3. PICK q, z \in Nat : q = m * M /\ z = m * d
    BY <2>2
  <2>4. p = q + z /\ p + m <= w /\ w <= q
    BY <1>6, <1>8, <1>11, <2>1, <2>2, <2>3
  <2> QED  BY SMTT(30), <1>2, <2>4
<1> QED  BY <1>1, <1>3, <1>9, <1>10, <1>11

\* Credit for an uninterrupted stream names the server's offset and fits its window.
LEMMA CreditFits ==
    ASSUME Typed, WindowConserved, ChainInv, SteadyInv, Live, allowed \subseteq {"share"}, ReadCredit
    PROVE  /\ admitted /\ Head(toServer).through = server.through
           /\ ~(Head(toServer).bytes > WindowBytes - server.remaining)
<1>0. EndTypes /\ StateTypes /\ QueueTypes
  BY DEF Typed
<1>1. admitted /\ (Holding => ~chunk.truncated)
  BY DEF SteadyInv
<1>2. Joined(InFlight, client, server, Cutting) /\ Needed(Returned, InFlight, client)
  BY DEF ChainInv, Careful
<1>3. Returned # <<>> /\ Returned[1] = Head(toServer) /\ Head(toServer) \in Credits
  BY <1>0, ReadCreditReturned
<1>4. Returned \in Seq(Credits)
  BY <1>0, FlightParts
<1>5. 1 \in DOMAIN Returned
  BY <1>3, <1>4, TailFacts
<1>6. InFlight = <<>> /\ Head(toServer).through = client.through
  BY <1>2, <1>3, <1>5 DEF Needed
<1>7. ~Cutting
  <2>1. ASSUME Cutting PROVE FALSE
    BY <1>1, <2>1 DEF Cutting, Holding
  <2> QED  BY <2>1
<1>8. server.through = client.through
  BY <1>2, <1>6, <1>7 DEF Joined, Reaches
<1>9. PICK c, s, w, b, x \in Nat : /\ c = client.remaining /\ s = server.remaining /\ w = WindowBytes
                                   /\ b = Head(toServer).bytes /\ x = BytesOf(Tail(Returned))
  <2>1. Tail(Returned) \in Seq(Credits)
    BY <1>3, <1>4, SplitFacts
  <2> QED  BY <1>0, <1>3, <2>1, ByteFacts, BytesNat, WindowFacts
<1>10. c = s + 0 + (b + x) /\ c <= w
  <2>1. BytesOf(Returned) = b + x
    BY <1>3, <1>4, <1>9, BytesTail
  <2> QED  BY <1>0, <1>6, <1>9, <2>1, NothingAdds DEF WindowConserved, Returned, EndTypes
<1>11. ~(b > w - s)
  BY SMTT(30), <1>10
<1> QED  BY <1>1, <1>6, <1>8, <1>9, <1>11

\* No step ends a connection without a cause.
LEMMA FaultsKept ==
    Typed /\ InboxInv /\ WindowConserved /\ ChainInv /\ SteadyInv /\ FaultsEarned /\ Next => FaultsEarned'
<1> SUFFICES ASSUME Typed, InboxInv, WindowConserved, ChainInv, SteadyInv, FaultsEarned, Next PROVE FaultsEarned'
  OBVIOUS
<1>0. Live
  BY NextLive
<1>1. WindowBytes' = WindowBytes /\ allowed' = allowed
  <2>1. app' = app
    BY RestKeepsFlows, Steps DEF Consume, ReadCredit, ReadChunk, SendTerminalCredit, serverVars
  <2> QED  BY <2>1 DEF WindowBytes, allowed
<1> DEFINE Steady == allowed \subseteq {"share"}
           crowd == Len(inbox') - SumOf(inbox') + (IF fault' = "crowded" THEN 1 ELSE 0)
           Room == fault' \in {"overflow", "crowded"} => Smallest * (MaxOutboundQueue + 1 - crowd) <= WindowBytes
           Shared == WindowBytes <= Smallest * MaxOutboundQueue => SumOf(inbox') < Len(inbox')
<1>a. ASSUME "eager" \notin allowed => fault' # "chunk", Room,
             Steady => fault' \in {"none", "provider", "crowded"} \/ (fault' = "overflow" /\ Shared)
      PROVE  FaultsEarned'
  BY <1>1, <1>a DEF FaultsEarned, ClientAccepts, NeverOverflows, OnlyProviderFaults, Smallest
<1>2. CASE ReadChunk
  <2>1. Careful => fault' # "chunk"
    <3>1. Careful => Fits(Head(toClient), client)
      BY <1>0, <1>2, HeadFits
    <3> QED  BY <1>0, <1>2, <3>1 DEF ReadChunk, Fits, Live
  <2>2. ASSUME fault' = "overflow" PROVE Room /\ Shared
    <3>1. Head(toClient).size <= client.remaining /\ ~(Len(inbox) < MaxOutboundQueue) /\ inbox' = inbox
      BY <1>0, <1>2, <2>2 DEF ReadChunk, Live
    <3>2. 1 \in {0, 1} /\ 1 - 1 = 0
      BY SMTT(30)
    <3>3. /\ Smallest * (MaxOutboundQueue + 1 - (Len(inbox) - SumOf(inbox) + 0)) <= WindowBytes
          /\ WindowBytes <= Smallest * MaxOutboundQueue => SumOf(inbox) < Len(inbox)
      BY <1>0, <1>2, <3>1, <3>2, FullQueue
    <3> QED  BY <2>2, <3>1, <3>3
  <2>3. Steady => fault' # "late" /\ Careful
    <3>1. Steady => flow # "retired"
      BY DEF SteadyInv
    <3> QED  BY <1>0, <1>2, <3>1 DEF ReadChunk, Live, Careful
  <2>4. fault' \in {"none", "late", "chunk", "overflow"}
    BY <1>0, <1>2 DEF ReadChunk, Live
  <2> HIDE DEF Shared, Steady
  <2>5. Steady => fault' \in {"none", "provider", "crowded"} \/ (fault' = "overflow" /\ Shared)
    BY <2>1, <2>2, <2>3, <2>4
  <2>6. Room
    BY <2>2, <2>4
  <2> QED  BY <1>a, <2>1, <2>5, <2>6 DEF Careful
<1>3. CASE ReadOther
  <2>1. fault' = "none" \/ (fault' = "crowded" /\ ~(Len(inbox) < MaxOutboundQueue) /\ inbox' = inbox)
    BY <1>0, <1>3 DEF ReadOther, Live
  <2>2. ASSUME fault' = "crowded" PROVE Room
    <3>1. ~(Len(inbox) < MaxOutboundQueue) /\ inbox' = inbox
      BY <2>1, <2>2
    <3>2. 0 \in {0, 1} /\ 1 - 0 = 1 /\ 0 # 1
      BY SMTT(30)
    <3>3. Smallest * (MaxOutboundQueue + 1 - (Len(inbox) - SumOf(inbox) + 1)) <= WindowBytes
      BY <1>0, <3>1, <3>2, FullQueue
    <3> QED  BY <2>2, <3>1, <3>3
  <2> QED  BY <1>a, <2>1, <2>2
<1>4. CASE ReadCredit
  <2>1. Steady => /\ admitted /\ Head(toServer).through = server.through
                  /\ ~(Head(toServer).bytes > WindowBytes - server.remaining)
    BY <1>0, <1>4, CreditFits
  <2>2. Steady => fault' = "none"
    BY <1>0, <1>4, <2>1 DEF ReadCredit, AddCredit, Live
  <2>3. fault' \in {"none", "credit"}
    BY <1>0, <1>4 DEF ReadCredit, AddCredit, Live
  <2> QED  BY <1>a, <2>2, <2>3
<1>5. CASE ConsumeCancelled
  <2>1. fault' = "detach" /\ ~lifetime
    BY <1>5 DEF ConsumeCancelled
  <2>2. ~Steady
    BY <2>1 DEF SteadyInv
  <2> QED  BY <1>a, <2>1, <2>2
<1>6. CASE ~ReadChunk /\ ~ReadOther /\ ~ReadCredit /\ ~ConsumeCancelled
  <2>1. fault' \in {"none", "provider"}
    BY <1>0, <1>6 DEF Next, ServerStep, ClientStep, Produce, ProducerEnds, Consume, Publish, PublishOther, WriteControl,
       WriterFallsThrough, WriteData, ReadDetach, RespondDetach, CommitDetach, NotificationLoop, TakeNotification,
       SendTerminalCredit, SendDetach, ReadDetached, RetireFlow, Live
  <2> QED  BY <1>a, <2>1
<1> QED  BY <1>2, <1>3, <1>4, <1>5, <1>6

-----------------------------------------------------------------------------
(* The theorems *)

\* The inductive invariant holds initially
LEMMA InitInv == Init => IInv
<1> SUFFICES ASSUME Init PROVE IInv
  OBVIOUS
<1>1. app \in Applications /\ server = NewFlow /\ client = NewFlow /\ WindowBytes \in Nat
  BY FlowAssumption DEF Init, WindowBytes
<1>2. NewFlow \in Flows /\ NewFlow.remaining = WindowBytes /\ NewFlow.through = 0 /\ NewFlow.sequence = 0
  BY SMTT(30), <1>1 DEF NewFlow, Flows
<1>3. \A a \in Nat : a <= a /\ a >= a /\ a = a + 0 + 0 
  BY SMTT(30)
<1>4. EndTypes
  BY <1>1, <1>2, <1>3 DEF EndTypes
<1>5. StateTypes
  <2>1. /\ 0 \in 0..MaxChunks /\ 0 \in 0..MaxOthers /\ <<>> \in Seq({0, 1})
        /\ Len(<<>>) <= MaxOutboundQueue /\ Len(<<>>) <= MaxOutboundQueue + 1
    BY FlowAssumption, SMTT(30)
  <2> QED  BY <2>1 DEF Init, StateTypes, Holding
<1>6. QueueTypes
  <2>1. <<>> \in Seq(Notices) /\ Len(<<>>) <= MaxOutboundQueue /\ <<>> \in Seq(Frames)
        /\ <<>> \in Seq(Credits \cup {Detaching})
    BY FlowAssumption, SMTT(30)
  <2> QED  BY <2>1 DEF Init, QueueTypes
<1>7. DetachInv
  <2>1. \A i \in DOMAIN <<>> : FALSE
    BY SMTT(30)
  <2> QED  BY <2>1 DEF Init, DetachInv
<1>8. InFlight = <<>> /\ Returned = <<>>
  <2>1. ChunksIn(<<>>) = <<>> /\ CreditsIn(<<>>) = <<>>
    BY KeepEmpty DEF ChunksIn, CreditsIn
  <2>2. (<<>> \o <<>>) \o <<>> = <<>>
    BY SMTT(30)
  <2> QED  BY <2>1, <2>2 DEF Init, InFlight, Returned
<1>9. WindowConserved
  BY <1>1, <1>2, <1>3, <1>8, NothingAdds DEF WindowConserved, Returned
<1>10. InboxInv
  <2>1. SumOf(inbox) = 0 /\ SumOf(unread) = 0
    BY SumEmpty DEF Init
  <2>2. \A m, w \in Nat : m * (0 + 0) + w <= w
    BY SMTT(30)
  <2> QED  BY <1>1, <1>2, <2>1, <2>2, SmallestFacts DEF InboxInv
<1>11. ChainInv
  <2>1. \A i \in DOMAIN <<>> : FALSE
    BY SMTT(30)
  <2>2. Chain(<<>>, client) /\ Needed(<<>>, <<>>, client)
    BY <2>1 DEF Chain, Needed
  <2>3. 0 >= 0
    BY SMTT(30)
  <2>4. Joined(<<>>, client, server, Cutting)
    BY <1>1, <1>2, <2>3 DEF Joined, Reaches
  <2> QED  BY <1>8, <2>2, <2>4 DEF ChainInv
<1>12. SteadyInv
  <2>1. <<>> \in Seq(Notices)
    BY SMTT(30)
  <2> QED  BY <2>1 DEF Init, SteadyInv, Holding
<1>13. FaultsEarned
  BY DEF Init, FaultsEarned, ClientAccepts, NeverOverflows, OnlyProviderFaults
<1> QED  BY <1>4, <1>5, <1>6, <1>7, <1>9, <1>10, <1>11, <1>12, <1>13 DEF IInv

\* and every step preserves it.
LEMMA StepInv == IInv /\ [Next]_vars => IInv'
<1>1. ASSUME IInv, Next PROVE IInv'
  <2>1. Typed
    BY <1>1 DEF IInv, Typed
  <2>2. Typed'
    BY <1>1, <2>1, TypedKept
  <2>3. InboxInv' /\ WindowConserved'
    BY <1>1, <2>1, InboxKept, WindowKeptStep DEF IInv
  <2>4. ChainInv' /\ SteadyInv'
    BY <1>1, <2>1, ChainKept, SteadyKept DEF IInv
  <2>5. FaultsEarned'
    BY <1>1, <2>1, FaultsKept DEF IInv
  <2> QED  BY <2>2, <2>3, <2>4, <2>5 DEF IInv, Typed
<1>2. ASSUME IInv, UNCHANGED vars PROVE IInv'
  <2>1. /\ UNCHANGED <<app, server, client, admitted, lifetime, producer, chunk, pulled, control, data, writer, others>>
        /\ UNCHANGED <<flow, inbox, unread, toClient, toServer, detach, fault>>
    BY <1>2 DEF vars, serverVars, queueVars, clientVars
  <2>2. EndTypes' /\ StateTypes' /\ QueueTypes' /\ DetachInv'
    <3>1. EndTypes'
      BY <1>2, <2>1 DEF IInv, EndTypes, WindowBytes
    <3>2. StateTypes'
      BY <1>2, <2>1 DEF IInv, StateTypes, Holding
    <3>3. QueueTypes'
      BY <1>2, <2>1 DEF IInv, QueueTypes
    <3>4. DetachInv'
      BY <1>2, <2>1 DEF IInv, DetachInv
    <3> QED  BY <3>1, <3>2, <3>3, <3>4
  <2>3. InFlight' = InFlight /\ Returned' = Returned /\ Cutting' = Cutting
    BY <2>1 DEF InFlight, Returned, Cutting
  <2>4. InboxInv' /\ SteadyInv' /\ FaultsEarned'
    BY <1>2, <2>1 DEF IInv, InboxInv, SteadyInv, FaultsEarned, ClientAccepts, NeverOverflows, OnlyProviderFaults,
                      Holding, WindowBytes, allowed, Live
  <2>5. WindowConserved' /\ ChainInv'
    BY <1>2, <2>1, <2>3 DEF IInv, WindowConserved, ChainInv, Returned, Careful, allowed, Live
  <2> QED  BY <2>2, <2>4, <2>5 DEF IInv
<1> QED  BY <1>1, <1>2

\* It implies the types and capacities.
LEMMA InvType == IInv => TypeOK
<1> SUFFICES ASSUME IInv PROVE TypeOK
  OBVIOUS
<1>0. EndTypes /\ StateTypes /\ QueueTypes /\ DetachInv
  BY DEF IInv
<1>1. \A f \in {server, client} : f.remaining \in Nat /\ f.remaining <= WindowBytes /\ f.through \in Nat /\ f.sequence \in Nat
  BY <1>0, WindowFacts DEF EndTypes
<1>2. WindowBytes \in Nat
  BY <1>0, WindowFacts
<1>3. \A f \in {server, client} : f.remaining \in 0..WindowBytes
  BY SMTT(30), <1>1, <1>2
<1>4. Len(control) <= 1
  <2>1. Len(<<>>) <= 1 /\ Len(<<Detached>>) <= 1
    BY SMTT(30)
  <2> QED  BY <1>0, <2>1 DEF DetachInv
<1>5. {admitted, lifetime} \subseteq BOOLEAN
  BY <1>0 DEF StateTypes
<1> QED  BY <1>0, <1>1, <1>3, <1>4, <1>5 DEF TypeOK, StateTypes, QueueTypes, DetachInv

\* The window is conserved: at every moment, what the client believes may still
\* come is what the server may still send, plus the chunks and the credit on their
\* way, and every queue keeps to its capacity (terminalFlow.consume and addCredit
\* against clientTerminalFlow.consume and sendTerminalCredit).
THEOREM WindowIsKept == Spec => []WindowKept
<1>1. IInv => WindowKept
  BY InvType DEF IInv, WindowKept
<1> QED  BY <1>1, InitInv, StepInv, PTL DEF Spec

\* Whatever the sizes of window, chunks and queues, and whatever else the connection
\* carries: the client of a cautious application never meets a chunk that its consume
\* rejects; notificationInput is full only with more other notifications than the window
\* leaves it places; and an uninterrupted stream ends the connection only through what
\* the provider declared wrongly or through that queue, which with a window that fits it
\* takes another notification.
THEOREM FaultsAreEarned == Spec => []FaultsEarned
<1>1. IInv => FaultsEarned
  BY DEF IInv
<1> QED  BY <1>1, InitInv, StepInv, PTL DEF Spec
=============================================================================
