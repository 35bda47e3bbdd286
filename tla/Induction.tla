----------------------------- MODULE Induction ------------------------------
(* Induction over the naturals and functions defined by recursion, for sets *)
(* and functions rather than operators: what the loops of the modules       *)
(* compute is proved by the lemmas here.                                    *)
EXTENDS Integers, WellFoundedInduction, TLAPS

(* A set that holds 0, and the successor of each of its members, holds all  *)
(* naturals: no least one is missing.                                       *)
LEMMA NatSetInduction ==
    ASSUME NEW S, 0 \in S, \A n \in Nat : n \in S => n + 1 \in S
    PROVE  \A n \in Nat : n \in S
<1> DEFINE T == {n \in Nat : n \notin S}
<1> SUFFICES ASSUME T # {} PROVE FALSE
  OBVIOUS
<1>1. PICK x \in T : \A y \in T : ~ (<<y, x>> \in OpToRel(<, Nat))
  BY NatLessThanWellFounded, WFMin
<1>2. x \in Nat \ {0} /\ x - 1 \in Nat /\ x - 1 < x
  OBVIOUS
<1>3. <<x - 1, x>> \in OpToRel(<, Nat)
  BY <1>2, Zenon DEF OpToRel
<1>4. x - 1 \in S
  BY <1>1, <1>2, <1>3
<1>5. x - 1 + 1 = x
  BY <1>2
<1> QED BY <1>2, <1>4, <1>5

(* The same up to a bound.                                                  *)
LEMMA BoundedInduction ==
    ASSUME NEW N \in Nat, NEW S, 0 \in S,
           \A n \in 1 .. N : n - 1 \in S => n \in S
    PROVE  \A n \in 0 .. N : n \in S
<1> DEFINE T == {n \in Nat : n <= N => n \in S}
<1>1. 0 \in T
  OBVIOUS
<1>2. ASSUME NEW n \in Nat, n \in T PROVE n + 1 \in T
  BY <1>2
<1>3. \A n \in Nat : n \in T
  <2> HIDE DEF T
  <2> QED BY <1>1, <1>2, NatSetInduction
<1> QED BY <1>3

(* f is the history of a loop of N turns that starts with a, and of which   *)
(* the n-th turn makes turn[n][x] of x.                                     *)
IsHistory(f, N, a, turn) ==
    /\ f[0] = a
    /\ \A n \in 1 .. N : f[n] = turn[n][f[n - 1]]

LEMMA HistoryExists ==
    ASSUME NEW N \in Nat, NEW D, NEW a \in D, NEW turn \in [1 .. N -> [D -> D]]
    PROVE  \E f \in [0 .. N -> D] : IsHistory(f, N, a, turn)
<1> DEFINE S == {m \in 0 .. N : \E f \in [0 .. m -> D] : IsHistory(f, m, a, turn)}
<1>1. 0 \in S
  <2> DEFINE f == [n \in 0 .. 0 |-> a]
  <2>1. f \in [0 .. 0 -> D] /\ IsHistory(f, 0, a, turn)
    BY DEF IsHistory
  <2>2. \E h \in [0 .. 0 -> D] : IsHistory(h, 0, a, turn)
    <3> HIDE DEF f
    <3> QED BY <2>1
  <2> QED BY <2>2
<1>2. ASSUME NEW m \in 1 .. N, m - 1 \in S PROVE m \in S
  <2>1. PICK f \in [0 .. m - 1 -> D] : IsHistory(f, m - 1, a, turn)
    BY <1>2
  <2> DEFINE g == [n \in 0 .. m |-> IF n = m THEN turn[m][f[m - 1]] ELSE f[n]]
  <2>2. f[m - 1] \in D /\ turn[m][f[m - 1]] \in D
    BY <2>1
  <2>3. g \in [0 .. m -> D]
    BY <2>1, <2>2
  <2>4. g[0] = a
    BY <2>1 DEF IsHistory
  <2>5. ASSUME NEW n \in 1 .. m PROVE g[n] = turn[n][g[n - 1]]
    BY <2>1 DEF IsHistory
  <2>6. IsHistory(g, m, a, turn)
    BY <2>4, <2>5 DEF IsHistory
  <2> HIDE DEF g
  <2> QED BY <2>3, <2>6
<1>3. \A n \in 0 .. N : n \in S
  <2> HIDE DEF S
  <2> QED BY <1>1, <1>2, BoundedInduction
<1> QED BY <1>3

(* A function from D to D, n times.                                         *)
IsIterate(h, n, D, a, F) ==
    h \in [0 .. n -> D] /\ h[0] = a /\ \A k \in 1 .. n : h[k] = F[h[k - 1]]

\* and as often as one likes
IsOrbit(f, D, a, F) ==
    f \in [Nat -> D] /\ f[0] = a /\ \A n \in Nat : f[n + 1] = F[f[n]]

LEMMA IteratesExist ==
    ASSUME NEW D, NEW a \in D, NEW F \in [D -> D]
    PROVE  \E f : IsOrbit(f, D, a, F)
<1>1. ASSUME NEW n \in Nat PROVE \E h : IsIterate(h, n, D, a, F)
  <2> DEFINE turn == [k \in 1 .. n |-> F]
  <2>1. turn \in [1 .. n -> [D -> D]]
    OBVIOUS
  <2>2. PICK h \in [0 .. n -> D] : IsHistory(h, n, a, turn)
    <3> HIDE DEF turn
    <3> QED BY <2>1, HistoryExists
  <2>3. IsIterate(h, n, D, a, F)
    BY <2>2 DEF IsHistory, IsIterate
  <2> QED BY <2>3
<1>2. ASSUME NEW n \in Nat, NEW m \in Nat, NEW g, NEW h,
             IsIterate(g, n, D, a, F), IsIterate(h, m, D, a, F), n <= m
      PROVE  g[n] = h[n]
  <2> DEFINE S == {k \in 0 .. n : g[k] = h[k]}
  <2>1. 0 \in S
    BY <1>2 DEF IsIterate
  <2>2. ASSUME NEW k \in 1 .. n, k - 1 \in S PROVE k \in S
    <3>1. k \in 1 .. m /\ k \in 0 .. n /\ g[k - 1] = h[k - 1]
      BY <1>2, <2>2
    <3> QED BY <1>2, <3>1 DEF IsIterate
  <2>3. \A k \in 0 .. n : k \in S
    <3> HIDE DEF S
    <3> QED BY <2>1, <2>2, BoundedInduction
  <2> QED BY <2>3
<1> DEFINE of(n) == CHOOSE h : IsIterate(h, n, D, a, F)
           f == [n \in Nat |-> of(n)[n]]
<1>3. \A n \in Nat : IsIterate(of(n), n, D, a, F)
  BY <1>1
<1> HIDE DEF of
<1>4. ASSUME NEW n \in Nat
      PROVE  of(n)[n] \in D /\ of(n + 1)[n + 1] = F[of(n)[n]]
  <2>1. of(n)[n] = of(n + 1)[n]
    BY <1>2, <1>3
  <2>2. n + 1 \in 1 .. n + 1 /\ n + 1 - 1 = n /\ n \in 0 .. n
    OBVIOUS
  <2>3. of(n + 1)[n + 1] = F[of(n + 1)[n]]
    BY <1>3, <2>2 DEF IsIterate
  <2> QED BY <1>3, <2>1, <2>2, <2>3 DEF IsIterate
<1>5. of(0)[0] = a
  BY <1>3 DEF IsIterate
<1>6. IsOrbit(f, D, a, F)
  BY <1>4, <1>5 DEF IsOrbit
<1> HIDE DEF f
<1> QED BY <1>6

(* A recursion that asks for smaller arguments only has a solution: what    *)
(* turn makes of a function at x depends on its values at smaller ones.     *)
AsksSmaller(turn, size, A, D) ==
    \A f, g \in [A -> D], x \in A :
        (\A y \in A : size[y] < size[x] => f[y] = g[y]) => turn[f][x] = turn[g][x]

Solves(f, turn, A, D) == f \in [A -> D] /\ f = turn[f]

LEMMA RecursionExists ==
    ASSUME NEW A, NEW D, NEW size \in [A -> Nat], NEW start \in [A -> D],
           NEW turn \in [[A -> D] -> [A -> D]], AsksSmaller(turn, size, A, D)
    PROVE  \E f : Solves(f, turn, A, D)
<1>1. PICK h \in [Nat -> [A -> D]] : h[0] = start /\ \A n \in Nat : h[n + 1] = turn[h[n]]
  <2> DEFINE V == [A -> D]
  <2>1. start \in V /\ turn \in [V -> V]
    OBVIOUS
  <2>2. \E h : IsOrbit(h, V, start, turn)
    <3> HIDE DEF V
    <3> QED BY <2>1, IteratesExist
  <2> QED BY <2>2 DEF IsOrbit
<1>2. \A n \in Nat : h[n] \in [A -> D]
  BY <1>1
<1> DEFINE Settled(n) == \A m \in Nat, x \in A : size[x] < n /\ n <= m => h[m][x] = h[n][x]
           S == {n \in Nat : Settled(n)}
<1>3. 0 \in S
  OBVIOUS
<1>4. ASSUME NEW n \in Nat, n \in S PROVE n + 1 \in S
  <2>1. ASSUME NEW m \in Nat, NEW x \in A, size[x] < n + 1, n + 1 <= m
        PROVE  h[m][x] = h[n + 1][x]
    <3>1. m - 1 \in Nat /\ n <= m - 1 /\ m - 1 + 1 = m /\ size[x] \in Nat /\ size[x] <= n
      BY <2>1
    <3>2. ASSUME NEW y \in A, size[y] < size[x] PROVE h[m - 1][y] = h[n][y]
      <4>1. size[y] \in Nat /\ size[y] < n
        BY <3>1, <3>2
      <4> QED BY <1>4, <3>1, <4>1
    <3>3. h[m - 1] \in [A -> D] /\ h[n] \in [A -> D]
      BY <1>2, <3>1
    <3>4. turn[h[m - 1]][x] = turn[h[n]][x]
      BY <3>2, <3>3 DEF AsksSmaller
    <3> QED BY <1>1, <3>1, <3>4
  <2> QED BY <2>1
<1>5. \A n \in Nat : Settled(n)
  <2>1. \A n \in Nat : n \in S
    <3> HIDE DEF S
    <3> QED BY <1>3, <1>4, NatSetInduction
  <2> QED BY <2>1
<1> DEFINE f == [x \in A |-> h[size[x] + 1][x]]
<1>6. f \in [A -> D]
  BY <1>2
<1>7. ASSUME NEW x \in A PROVE f[x] = turn[f][x]
  <2>1. size[x] \in Nat /\ h[size[x]] \in [A -> D] /\ h[size[x] + 1] = turn[h[size[x]]]
    BY <1>1, <1>2
  <2>2. ASSUME NEW y \in A, size[y] < size[x] PROVE h[size[x]][y] = f[y]
    <3>1. size[y] \in Nat /\ size[y] + 1 \in Nat /\ size[y] < size[y] + 1 /\ size[y] + 1 <= size[x]
      BY <2>1, <2>2
    <3> QED BY <1>5, <2>1, <3>1
  <2> HIDE DEF f
  <2>3. turn[h[size[x]]][x] = turn[f][x]
    BY <1>6, <2>1, <2>2 DEF AsksSmaller
  <2>4. f[x] = h[size[x] + 1][x]
    BY DEF f
  <2> QED BY <2>1, <2>3, <2>4
<1> HIDE DEF f
<1>8. turn[f] \in [A -> D]
  BY <1>6
<1>9. f = turn[f]
  BY <1>6, <1>7, <1>8
<1> QED BY <1>6, <1>9 DEF Solves
=============================================================================
