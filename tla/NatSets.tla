------------------------------ MODULE NatSets ------------------------------
(* Induction over the natural numbers, for sets: what every member of a    *)
(* set of numbers passes on to the next one, all have. And what follows    *)
(* for a sequence that is put together from sequences, one by one, and for *)
(* the passes of a loop.                                                   *)
EXTENDS Integers, Sequences, SequencesExt, WellFoundedInduction, TLAPS

\* A set of natural numbers has a least element.
LEMMA LeastNatural ==
    ASSUME NEW S \in SUBSET Nat, S # {}
    PROVE  \E m \in S : \A n \in S : m <= n
<1>1. PICK m \in S : \A n \in S : <<n, m>> \notin OpToRel(<, Nat)
  BY NatLessThanWellFounded, WFMin, Zenon
<1>2. \A n \in S : ~ (n < m)
  BY <1>1 DEF OpToRel
<1>3. \A n \in S : m <= n
  BY <1>2
<1> QED
  BY <1>3

\* A set that holds the first number of a range, and the next one of each
\* that it holds, holds the range.
LEMMA RangeInduction ==
    ASSUME NEW a \in Nat, NEW b \in Nat, NEW S, a \in S,
           \A n \in a .. b - 1 : n \in S => n + 1 \in S
    PROVE  a .. b \subseteq S
<1> DEFINE Left == (a .. b) \ S
<1>1. SUFFICES ASSUME Left # {} PROVE FALSE
  OBVIOUS
<1>2. PICK m \in Left : \A n \in Left : m <= n
  BY <1>1, LeastNatural, Left \in SUBSET Nat
<1>3. m - 1 \in a .. b - 1 /\ m - 1 \in S
  BY <1>2
<1>4. (m - 1) + 1 \in S
  BY <1>3
<1> QED
  BY <1>2, <1>4

\* In a sequence in which each number is less than the next, numbers are at
\* least as far apart as their places.
LEMMA AscentIsSteep ==
    ASSUME NEW n \in Nat, NEW s, \A k \in 1 .. n : s[k] \in Int,
           \A k \in 1 .. n - 1 : s[k] < s[k + 1],
           NEW j \in 1 .. n, NEW k \in j .. n
    PROVE  k - j <= s[k] - s[j]
<1> DEFINE S == {i \in j .. n : i - j <= s[i] - s[j]}
<1>1. j \in S
  OBVIOUS
<1>2. ASSUME NEW i \in j .. n - 1, i \in S PROVE i + 1 \in S
  <2>1. s[i] < s[i + 1] /\ s[i] \in Int /\ s[i + 1] \in Int /\ s[j] \in Int
    OBVIOUS
  <2> QED
    BY <1>2, <2>1
<1> HIDE DEF S
<1>3. j .. n \subseteq S
  BY <1>1, <1>2, RangeInduction, j \in Nat
<1> QED
  BY <1>3 DEF S

\* A function that satisfies the equation of a flattened sequence is it.
LEMMA FlattenIs ==
    ASSUME NEW s, NEW c \in Nat \ {0}, Len(s) = c, NEW g,
           \A i \in 1 .. c : g[i] = IF i = 1 THEN s[i] ELSE g[i - 1] \o s[i]
    PROVE  FlattenSeq(s) = g[c]
<1> DEFINE D == 1 .. Len(s)
           F == CHOOSE f : f = [i \in D |-> IF i = 1 THEN s[i] ELSE f[i - 1] \o s[i]]
           G == [i \in D |-> g[i]]
           Same == {i \in 1 .. c : F[i] = g[i]}
<1>1. G = [i \in D |-> IF i = 1 THEN s[i] ELSE G[i - 1] \o s[i]]
  <2>1. SUFFICES ASSUME NEW i \in 1 .. c PROVE g[i] = IF i = 1 THEN s[i] ELSE G[i - 1] \o s[i]
    OBVIOUS
  <2>2. i # 1 => i - 1 \in 1 .. c
    OBVIOUS
  <2> QED
    BY <2>2
<1>2. F = [i \in D |-> IF i = 1 THEN s[i] ELSE F[i - 1] \o s[i]]
  <2> HIDE DEF G
  <2> QED
    BY <1>1, Zenon
<1>3. FlattenSeq(s) = F[c]
  BY Zenon DEF FlattenSeq
<1> HIDE DEF F
<1>4. \A i \in 1 .. c : F[i] = IF i = 1 THEN s[i] ELSE F[i - 1] \o s[i]
  BY <1>2
<1>5. 1 \in Same
  BY <1>4
<1>6. ASSUME NEW i \in 1 .. c - 1, i \in Same PROVE i + 1 \in Same
  <2>1. i + 1 \in 1 .. c /\ (i + 1) - 1 = i /\ i + 1 # 1
    OBVIOUS
  <2> QED
    BY <1>4, <1>6, <2>1
<1> HIDE DEF Same
<1>7. 1 .. c \subseteq Same
  BY <1>5, <1>6, RangeInduction
<1> QED
  BY <1>3, <1>7 DEF Same

\* The steps in which a sequence is flattened.
LEMMA FlattenSteps ==
    ASSUME NEW s, NEW c \in Nat \ {0}, Len(s) = c
    PROVE  \E g : /\ FlattenSeq(s) = g[c]
                  /\ \A i \in 1 .. c : g[i] = IF i = 1 THEN s[i] ELSE g[i - 1] \o s[i]
<1> DEFINE Steps(g, n) == \A i \in 1 .. n : g[i] = IF i = 1 THEN s[i] ELSE g[i - 1] \o s[i]
           S == {n \in 1 .. c : \E g : Steps(g, n)}
<1>1. 1 \in S
  <2>1. Steps([i \in {1} |-> s[1]], 1)
    OBVIOUS
  <2> QED
    BY <2>1
<1>2. ASSUME NEW n \in 1 .. c - 1, n \in S PROVE n + 1 \in S
  <2>1. PICK g : Steps(g, n)
    BY <1>2
  <2> DEFINE h == [i \in 1 .. n + 1 |-> IF i <= n THEN g[i] ELSE g[n] \o s[n + 1]]
  <2>2. ASSUME NEW i \in 1 .. n + 1 PROVE h[i] = IF i = 1 THEN s[i] ELSE h[i - 1] \o s[i]
    <3>1. CASE i <= n
      <4>1. h[i] = g[i] /\ (i # 1 => h[i - 1] = g[i - 1])
        BY <3>1
      <4> QED
        BY <2>1, <3>1, <4>1
    <3>2. CASE i = n + 1
      <4>1. i # 1 /\ i - 1 = n /\ ~ (i <= n) /\ n \in 1 .. n + 1
        BY <3>2
      <4>2. h[i] = g[n] \o s[n + 1]
        BY <3>2, <4>1
      <4>3. h[n] = g[n]
        BY <4>1
      <4> QED
        BY <3>2, <4>1, <4>2, <4>3
    <3> QED
      BY <3>1, <3>2
  <2> HIDE DEF h
  <2>3. Steps(h, n + 1)
    BY <2>2
  <2> QED
    BY <2>3
<1> HIDE DEF S
<1>3. 1 .. c \subseteq S
  BY <1>1, <1>2, RangeInduction
<1>4. c \in S
  BY <1>3
<1>5. PICK g : Steps(g, c)
  BY <1>4 DEF S
<1>6. FlattenSeq(s) = g[c]
  BY <1>5, FlattenIs
<1> QED
  BY <1>5, <1>6

\* The passes of a loop that makes g[i][x] of x in pass i: p[i][x] is what it
\* comes to from x, before pass i.
Passes(p, S, n, g) == p = [i \in 0 .. n |-> [x \in S |-> IF i = n THEN x ELSE p[i + 1][g[i][x]]]]

\* f is the run of n such calls from f[0].
Runs(f, S, n, g) == (\A i \in 0 .. n : f[i] \in S) /\ \A i \in 0 .. n - 1 : f[i + 1] = g[i][f[i]]

\* There is the function of the passes of a loop, whatever its body: it is made
\* from the last pass on.
LEMMA LoopExists ==
    ASSUME NEW S, NEW n \in Nat, NEW g
    PROVE  \E p : Passes(p, S, n, g)
<1> DEFINE row(p, i) == [x \in S |-> IF i = n THEN x ELSE p[i + 1][g[i][x]]]
           From(p, k) == \A i \in 0 .. n : i >= n - k => p[i] = row(p, i)
           Made == {k \in 0 .. n : \E p : From(p, k)}
<1>1. 0 \in Made
  <2> DEFINE p == [i \in 0 .. n |-> [x \in S |-> x]]
  <2>1. p[n] = row(p, n)
    OBVIOUS
  <2> HIDE DEF p, row
  <2>2. From(p, 0)
    BY <2>1
  <2>3. 0 \in 0 .. n
    OBVIOUS
  <2> HIDE DEF From
  <2> QED
    BY <2>2, <2>3
<1>2. ASSUME NEW k \in 0 .. n - 1, k \in Made PROVE k + 1 \in Made
  <2>1. PICK p : From(p, k)
    BY <1>2
  <2> DEFINE q == [i \in 0 .. n |-> IF i >= n - k THEN p[i] ELSE row(p, i)]
  <2>2. \A i \in 0 .. n : q[i] = IF i >= n - k THEN p[i] ELSE row(p, i)
    OBVIOUS
  <2> HIDE DEF q, row
  <2>3. ASSUME NEW i \in 0 .. n, i >= n - (k + 1) PROVE q[i] = row(q, i)
    <3>1. q[i] = row(p, i)
      BY <2>1, <2>2
    <3>2. i # n => i + 1 \in 0 .. n /\ i + 1 >= n - k
      BY <2>3
    <3>3. i # n => q[i + 1] = p[i + 1]
      BY <2>2, <3>2
    <3>4. row(q, i) = row(p, i)
      BY <3>3 DEF row
    <3> QED
      BY <3>1, <3>4
  <2>4. From(q, k + 1)
    BY <2>3
  <2>5. k + 1 \in 0 .. n
    OBVIOUS
  <2> HIDE DEF From
  <2> QED
    BY <2>4, <2>5
<1> HIDE DEF Made
<1>3. 0 .. n \subseteq Made
  BY <1>1, <1>2, RangeInduction
<1>4. n \in Made
  BY <1>3
<1>5. PICK p : From(p, n)
  BY <1>4 DEF Made
<1> DEFINE q == [i \in 0 .. n |-> p[i]]
<1>6. \A i \in 0 .. n : q[i] = p[i]
  OBVIOUS
<1>7. ASSUME NEW i \in 0 .. n PROVE p[i] = row(q, i)
  <2>1. p[i] = row(p, i)
    BY <1>5
  <2>2. i # n => i + 1 \in 0 .. n
    OBVIOUS
  <2> HIDE DEF q
  <2>3. row(q, i) = row(p, i)
    BY <1>6, <2>2
  <2> QED
    BY <2>1, <2>3
<1>8. q = [i \in 0 .. n |-> row(q, i)]
  <2> HIDE DEF row
  <2> QED
    BY <1>7
<1> QED
  BY <1>8 DEF Passes

\* Its value is the one the steps lead to.
LEMMA LoopIs ==
    ASSUME NEW S, NEW n \in Nat, NEW g, NEW p, NEW f,
           Passes(p, S, n, g), Runs(f, S, n, g)
    PROVE  p[0][f[0]] = f[n]
<1> DEFINE Same == {i \in 0 .. n : p[i][f[i]] = p[0][f[0]]}
<1>1. 0 \in Same
  OBVIOUS
<1>2. \A i \in 0 .. n, x \in S : p[i][x] = IF i = n THEN x ELSE p[i + 1][g[i][x]]
  <2> DEFINE row(i) == [x \in S |-> IF i = n THEN x ELSE p[i + 1][g[i][x]]]
  <2>1. p = [i \in 0 .. n |-> row(i)]
    BY DEF Passes
  <2> HIDE DEF row
  <2>2. \A i \in 0 .. n : p[i] = row(i)
    BY <2>1
  <2>3. ASSUME NEW i \in 0 .. n, NEW x \in S PROVE p[i][x] = IF i = n THEN x ELSE p[i + 1][g[i][x]]
    <3>1. row(i)[x] = IF i = n THEN x ELSE p[i + 1][g[i][x]]
      BY DEF row
    <3> QED
      BY <2>2, <3>1
  <2> QED
    BY <2>3
<1>3. ASSUME NEW i \in 0 .. n - 1, i \in Same PROVE i + 1 \in Same
  <2>1. f[i] \in S /\ f[i + 1] = g[i][f[i]] /\ i # n /\ i \in 0 .. n /\ i + 1 \in 0 .. n
    BY DEF Runs
  <2>2. p[i][f[i]] = p[i + 1][f[i + 1]]
    BY <1>2, <2>1
  <2> QED
    BY <1>3, <2>1, <2>2
<1> HIDE DEF Same
<1>4. 0 .. n \subseteq Same
  BY <1>1, <1>3, RangeInduction
<1>5. n \in Same
  BY <1>4
<1>6. p[n][f[n]] = f[n]
  BY <1>2 DEF Runs
<1> QED
  BY <1>5, <1>6 DEF Same

\* There is the run of such a loop from any of its values.
LEMMA RunExists ==
    ASSUME NEW S, NEW n \in Nat, NEW g, \A i \in 0 .. n - 1, x \in S : g[i][x] \in S, NEW first \in S
    PROVE  \E f : f[0] = first /\ Runs(f, S, n, g)
<1> DEFINE Upto(f, k) == f[0] = first /\ Runs(f, S, k, g)
           Made == {k \in 0 .. n : \E f : Upto(f, k)}
<1>1. 0 \in Made
  <2>1. Upto([i \in {0} |-> first], 0)
    BY DEF Runs
  <2>2. 0 \in 0 .. n
    OBVIOUS
  <2> HIDE DEF Upto
  <2> QED
    BY <2>1, <2>2
<1>2. ASSUME NEW k \in 0 .. n - 1, k \in Made PROVE k + 1 \in Made
  <2>1. PICK f : Upto(f, k)
    BY <1>2
  <2> DEFINE h == [i \in 0 .. k + 1 |-> IF i <= k THEN f[i] ELSE g[k][f[k]]]
  <2>2. (\A i \in 0 .. k : h[i] = f[i]) /\ h[k + 1] = g[k][f[k]]
    OBVIOUS
  <2> HIDE DEF h
  <2>3. h[0] = first
    BY <2>1, <2>2
  <2>4. ASSUME NEW i \in 0 .. k + 1 PROVE h[i] \in S
    <3>1. CASE i \in 0 .. k
      BY <2>1, <2>2, <3>1 DEF Runs
    <3>2. CASE i = k + 1
      BY <2>1, <2>2, <3>2 DEF Runs
    <3> QED
      BY <3>1, <3>2
  <2>5. ASSUME NEW i \in 0 .. (k + 1) - 1 PROVE h[i + 1] = g[i][h[i]]
    <3>1. CASE i \in 0 .. k - 1
      <4>1. i + 1 \in 0 .. k /\ i \in 0 .. k
        BY <3>1
      <4>2. h[i + 1] = f[i + 1] /\ h[i] = f[i]
        BY <2>2, <4>1
      <4> QED
        BY <2>1, <3>1, <4>2 DEF Runs
    <3>2. CASE i = k
      <4>1. h[i] = f[k]
        BY <2>2, <3>2
      <4> QED
        BY <2>2, <3>2, <4>1
    <3> QED
      BY <3>1, <3>2
  <2>6. Upto(h, k + 1) /\ k + 1 \in 0 .. n
    BY <2>3, <2>4, <2>5 DEF Runs
  <2> HIDE DEF Upto
  <2> QED
    BY <2>6
<1> HIDE DEF Made
<1>3. 0 .. n \subseteq Made
  BY <1>1, <1>2, RangeInduction
<1>4. n \in Made
  BY <1>3
<1> QED
  BY <1>4 DEF Made
=============================================================================
