---------------------------- MODULE SetInduction ----------------------------
(***************************************************************************)
(* Induction and recursion over numbers, for the functions that the models *)
(* define by recursion.  The induction theorems of the library take the    *)
(* formula that is shown as an operator, which the provers cannot          *)
(* instantiate; here it is the set of the numbers that have it.            *)
(***************************************************************************)
EXTENDS Integers, Sequences, WellFoundedInduction, TLAPS

\* Every set of numbers that is not empty has a smallest one.
LEMMA SmallestNumber ==
  ASSUME NEW S, S \subseteq Nat, S # {}
  PROVE  \E m \in S : \A n \in S : m <= n
<1> DEFINE R == {p \in Nat \X Nat : p[1] < p[2]}
<1>1. IsWellFoundedOn(R, Nat)
  BY NatLessThanWellFounded DEF OpToRel
<1>2. PICK m \in S : \A n \in S : <<n, m>> \notin R
  BY <1>1, WFMin
<1>3. ASSUME NEW n \in S PROVE m <= n
  <2>1. n \in Nat /\ m \in Nat
    OBVIOUS
  <2>2. ~(n < m)
    BY <1>2, <2>1
  <2> QED BY <2>1, <2>2
<1> QED BY <1>3

\* What holds for 0 and, with n, for n + 1 holds for every number.
LEMMA NumberInduction ==
  ASSUME NEW S, 0 \in S, \A n \in Nat : n \in S => n + 1 \in S
  PROVE  \A n \in Nat : n \in S
<1> SUFFICES ASSUME Nat \ S # {} PROVE FALSE
  OBVIOUS
<1>1. PICK m \in Nat \ S : \A n \in Nat \ S : m <= n
  BY SmallestNumber
<1>2. m # 0 /\ m - 1 \in Nat
  OBVIOUS
<1>3. m - 1 \in S
  BY <1>1, <1>2
<1> QED BY <1>2, <1>3

\* What holds for a number whenever it holds for all larger ones up to L holds
\* for every number up to L.
LEMMA DownwardInduction ==
  ASSUME NEW L \in Nat, NEW S,
         \A p \in 0 .. L : (\A q \in p + 1 .. L : q \in S) => p \in S
  PROVE  \A p \in 0 .. L : p \in S
<1> DEFINE T == {k \in Nat : \A q \in L - k .. L : q \in 0 .. L => q \in S}
<1>1. 0 \in T
  <2>1. L \in 0 .. L /\ \A q \in L + 1 .. L : q \in S
    OBVIOUS
  <2>2. L \in S
    BY <2>1
  <2>3. \A q \in L - 0 .. L : q = L
    OBVIOUS
  <2> QED BY <2>2, <2>3
<1>2. ASSUME NEW k \in Nat, k \in T PROVE k + 1 \in T
  <2> SUFFICES ASSUME NEW q \in L - (k + 1) .. L, q \in 0 .. L PROVE q \in S
    OBVIOUS
  <2>1. CASE q \in L - k .. L
    BY <1>2, <2>1
  <2>2. CASE q = L - (k + 1)
    <3>1. \A x \in q + 1 .. L : x \in L - k .. L /\ x \in 0 .. L
      BY <2>2
    <3> QED BY <1>2, <3>1
  <2> QED BY <2>1, <2>2
<1>3. L \in T
  <2> HIDE DEF T
  <2> QED BY <1>1, <1>2, NumberInduction
<1>4. \A p \in 0 .. L : p \in L - L .. L
  OBVIOUS
<1> QED BY <1>3, <1>4
-----------------------------------------------------------------------------
(* Functions on 0 .. L whose value at p is given, where p is in Stop, or    *)
(* else is made from their value at a larger nxt[p].                        *)

Forward(L, Stop, nxt) == \A p \in 0 .. L : p \notin Stop => nxt[p] \in p + 1 .. L

\* The value is that at nxt[p].
Follows(f, L, Stop, val, nxt) ==
  f = [p \in 0 .. L |-> IF p \in Stop THEN val[p] ELSE f[nxt[p]]]

\* The value is that at nxt[p] with pre[p] before it.
Collects(f, L, Stop, pre, nxt) ==
  f = [p \in 0 .. L |-> IF p \in Stop THEN << >> ELSE pre[p] \o f[nxt[p]]]

LEMMA FollowerExists ==
  ASSUME NEW L \in Nat, NEW Stop, NEW val, NEW nxt, Forward(L, Stop, nxt)
  PROVE  \E f : Follows(f, L, Stop, val, nxt)
<1> DEFINE Eq(f, k) == f = [p \in L - k .. L |-> IF p \in Stop THEN val[p] ELSE f[nxt[p]]]
           S == {k \in Nat : k <= L => \E f : Eq(f, k)}
<1> USE DEF Forward
<1>1. 0 \in S
  <2> DEFINE g == [p \in L - 0 .. L |-> val[p]]
  <2>1. \A p \in L - 0 .. L : p = L /\ p \in Stop
    OBVIOUS
  <2>2. Eq(g, 0)
    BY <2>1
  <2> QED BY <2>2
<1>2. ASSUME NEW k \in Nat, k \in S PROVE k + 1 \in S
  <2> SUFFICES ASSUME k + 1 <= L PROVE \E f : Eq(f, k + 1)
    OBVIOUS
  <2>1. PICK f : Eq(f, k)
    BY <1>2
  <2> HIDE DEF S
  <2> DEFINE q == L - (k + 1)
             g == [p \in q .. L |-> IF p \in Stop THEN val[p] ELSE f[nxt[p]]]
  <2>2. q \in 0 .. L /\ \A p \in q .. L : p = q \/ p \in L - k .. L
    OBVIOUS
  <2>3. \A p \in L - k .. L : f[p] = g[p]
    BY <2>1, <2>2
  <2>4. \A p \in q .. L : p \notin Stop => nxt[p] \in L - k .. L
    BY <2>2
  <2>5. \A p \in q .. L : p \notin Stop => f[nxt[p]] = g[nxt[p]]
    BY <2>3, <2>4
  <2>6. g = [p \in q .. L |-> IF p \in Stop THEN val[p] ELSE g[nxt[p]]]
    BY <2>5
  <2> QED BY <2>6
<1>3. L \in S
  <2> HIDE DEF S
  <2> QED BY <1>1, <1>2, NumberInduction
<1>4. L - L = 0
  OBVIOUS
<1>5. PICK f : f = [p \in 0 .. L |-> IF p \in Stop THEN val[p] ELSE f[nxt[p]]]
  BY <1>3, <1>4
<1> QED BY <1>5 DEF Follows

LEMMA CollectorExists ==
  ASSUME NEW L \in Nat, NEW Stop, NEW pre, NEW nxt, Forward(L, Stop, nxt)
  PROVE  \E f : Collects(f, L, Stop, pre, nxt)
<1> DEFINE J(p, y) == pre[p] \o y
<1> HIDE DEF J
<1> DEFINE Eq(f, k) == f = [p \in L - k .. L |->
                              IF p \in Stop THEN << >> ELSE J(p, f[nxt[p]])]
           S == {k \in Nat : k <= L => \E f : Eq(f, k)}
<1> USE DEF Forward
<1>1. 0 \in S
  <2> DEFINE g == [p \in L - 0 .. L |-> << >>]
  <2>1. \A p \in L - 0 .. L : p = L /\ p \in Stop
    OBVIOUS
  <2>2. Eq(g, 0)
    BY <2>1
  <2> QED BY <2>2
<1>2. ASSUME NEW k \in Nat, k \in S PROVE k + 1 \in S
  <2> SUFFICES ASSUME k + 1 <= L PROVE \E f : Eq(f, k + 1)
    OBVIOUS
  <2>1. PICK f : Eq(f, k)
    BY <1>2
  <2> HIDE DEF S
  <2> DEFINE q == L - (k + 1)
             g == [p \in q .. L |-> IF p \in Stop THEN << >> ELSE J(p, f[nxt[p]])]
  <2>2. q \in 0 .. L /\ \A p \in q .. L : p = q \/ p \in L - k .. L
    OBVIOUS
  <2>3. \A p \in L - k .. L : f[p] = g[p]
    BY <2>1, <2>2
  <2>4. \A p \in q .. L : p \notin Stop => nxt[p] \in L - k .. L
    BY <2>2
  <2>5. \A p \in q .. L : p \notin Stop => f[nxt[p]] = g[nxt[p]]
    BY <2>3, <2>4
  <2>6. g = [p \in q .. L |-> IF p \in Stop THEN << >> ELSE J(p, g[nxt[p]])]
    BY <2>5
  <2> QED BY <2>6
<1>3. L \in S
  <2> HIDE DEF S
  <2> QED BY <1>1, <1>2, NumberInduction
<1>4. L - L = 0
  OBVIOUS
<1>5. PICK f : f = [p \in 0 .. L |-> IF p \in Stop THEN << >> ELSE J(p, f[nxt[p]])]
  BY <1>3, <1>4
<1> QED BY <1>5 DEF Collects, J

\* Functions on 1 .. L that put the sequences up to each place together.
Accumulates(f, L, ss) ==
  f = [i \in 1 .. L |-> IF i = 1 THEN ss[i] ELSE f[i - 1] \o ss[i]]

LEMMA AccumulatorExists ==
  ASSUME NEW L \in Nat, NEW ss
  PROVE  \E f : Accumulates(f, L, ss)
<1> DEFINE J(i, y) == y \o ss[i]
<1> HIDE DEF J
<1> DEFINE Eq(f, k) == f = [i \in 1 .. k |-> IF i = 1 THEN ss[i] ELSE J(i, f[i - 1])]
           S == {k \in Nat : \E f : Eq(f, k)}
<1>1. 0 \in S
  <2> DEFINE g == [i \in 1 .. 0 |-> ss[i]]
  <2>1. Eq(g, 0)
    OBVIOUS
  <2> QED BY <2>1
<1>2. ASSUME NEW k \in Nat, k \in S PROVE k + 1 \in S
  <2>1. PICK f : Eq(f, k)
    BY <1>2
  <2> HIDE DEF S
  <2> DEFINE g == [i \in 1 .. k + 1 |-> IF i = 1 THEN ss[i] ELSE J(i, f[i - 1])]
  <2>2. \A i \in 1 .. k : i \in 1 .. k + 1 /\ f[i] = g[i]
    BY <2>1
  <2>3. \A i \in 1 .. k + 1 : i # 1 => i - 1 \in 1 .. k
    OBVIOUS
  <2>4. \A i \in 1 .. k + 1 : i # 1 => f[i - 1] = g[i - 1]
    BY <2>2, <2>3
  <2>5. g = [i \in 1 .. k + 1 |-> IF i = 1 THEN ss[i] ELSE J(i, g[i - 1])]
    BY <2>4
  <2>6. \E h : Eq(h, k + 1)
    BY <2>5
  <2> QED BY <2>6 DEF S
<1>3. L \in S
  <2> HIDE DEF S
  <2> QED BY <1>1, <1>2, NumberInduction
<1>4. PICK f : f = [i \in 1 .. L |-> IF i = 1 THEN ss[i] ELSE J(i, f[i - 1])]
  BY <1>3
<1> QED BY <1>4 DEF Accumulates, J

\* Up to the shorter length two of them are the same, and they are sequences.
LEMMA AccumulatorsAgree ==
  ASSUME NEW S, NEW ss, NEW m \in Nat, NEW n \in Nat, m <= n,
         \A i \in 1 .. n : ss[i] \in Seq(S),
         NEW f, NEW g, Accumulates(f, m, ss), Accumulates(g, n, ss)
  PROVE  \A i \in 1 .. m : f[i] = g[i] /\ f[i] \in Seq(S)
<1> DEFINE Q == Seq(S)
           J(i, y) == y \o ss[i]
           T == {k \in Nat : k \in 1 .. m => f[k] = g[k] /\ f[k] \in Q}
<1>1. \A i \in 1 .. n, y \in Q : J(i, y) \in Q
  OBVIOUS
<1>2. \A i \in 1 .. n : ss[i] \in Q
  OBVIOUS
<1>3. f = [i \in 1 .. m |-> IF i = 1 THEN ss[i] ELSE J(i, f[i - 1])]
  BY DEF Accumulates
<1>4. g = [i \in 1 .. n |-> IF i = 1 THEN ss[i] ELSE J(i, g[i - 1])]
  BY DEF Accumulates
<1> HIDE DEF Q, J
<1>5. 0 \in T
  OBVIOUS
<1>6. ASSUME NEW k \in Nat, k \in T PROVE k + 1 \in T
  <2> SUFFICES ASSUME k + 1 \in 1 .. m PROVE f[k + 1] = g[k + 1] /\ f[k + 1] \in Q
    OBVIOUS
  <2>1. k + 1 \in 1 .. n
    OBVIOUS
  <2>2. CASE k = 0
    BY <2>1, <2>2, <1>2, <1>3, <1>4
  <2>3. CASE k # 0
    <3>1. k \in 1 .. m /\ k + 1 # 1 /\ (k + 1) - 1 = k
      BY <2>3
    <3>2. f[k] = g[k] /\ f[k] \in Q
      BY <1>6, <3>1
    <3>3. f[k + 1] = J(k + 1, f[k])
      BY <1>3, <3>1
    <3>4. g[k + 1] = J(k + 1, g[k])
      BY <1>4, <2>1, <3>1
    <3> QED BY <3>2, <3>3, <3>4, <1>1, <2>1
  <2> QED BY <2>2, <2>3
<1>7. \A k \in Nat : k \in T
  <2> HIDE DEF T
  <2> QED BY <1>5, <1>6, NumberInduction
<1> QED BY <1>7 DEF Q
\* Functions on 0 .. n whose first value is b, each of the others being made from
\* the one before it.
Steps(f, n, b, g) == f = [i \in 0 .. n |-> IF i = 0 THEN b ELSE g[<<i, f[i - 1]>>]]

LEMMA StepsExist ==
  ASSUME NEW n \in Nat, NEW S, NEW b \in S, NEW g \in [(1 .. n) \X S -> S]
  PROVE  \E f \in [0 .. n -> S] : Steps(f, n, b, g)
<1> DEFINE T == {k \in Nat : k <= n => \E f \in [0 .. k -> S] : Steps(f, k, b, g)}
<1>1. 0 \in T
  <2> DEFINE f == [i \in 0 .. 0 |-> b]
  <2>1. f \in [0 .. 0 -> S] /\ Steps(f, 0, b, g)
    BY DEF Steps
  <2> QED BY <2>1
<1>2. ASSUME NEW k \in Nat, k \in T PROVE k + 1 \in T
  <2> SUFFICES ASSUME k + 1 <= n PROVE \E f \in [0 .. k + 1 -> S] : Steps(f, k + 1, b, g)
    OBVIOUS
  <2>1. PICK f \in [0 .. k -> S] : Steps(f, k, b, g)
    BY <1>2
  <2> HIDE DEF T
  <2> DEFINE h == [i \in 0 .. k + 1 |-> IF i = 0 THEN b ELSE g[<<i, f[i - 1]>>]]
  <2>2. \A i \in 0 .. k + 1 : i # 0 => i \in 1 .. n /\ i - 1 \in 0 .. k
    OBVIOUS
  <2>3. \A i \in 0 .. k : i \in 0 .. k + 1 /\ f[i] = h[i]
    BY <2>1 DEF Steps
  <2>4. \A i \in 0 .. k + 1 : i # 0 => f[i - 1] = h[i - 1] /\ g[<<i, f[i - 1]>>] \in S
    BY <2>2, <2>3
  <2>5. h \in [0 .. k + 1 -> S]
    BY <2>4
  <2>6. Steps(h, k + 1, b, g)
    BY <2>4 DEF Steps
  <2> QED BY <2>5, <2>6
<1>3. n \in T
  <2> HIDE DEF T
  <2> QED BY <1>1, <1>2, NumberInduction
<1> QED BY <1>3
=============================================================================
