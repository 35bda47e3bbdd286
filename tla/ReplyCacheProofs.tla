-------------------------- MODULE ReplyCacheProofs --------------------------
(***************************************************************************)
(* The theorems about ReplyCache.  The list is followed by an enumeration  *)
(* of its entries, which an addition extends and a removal cuts.           *)
(***************************************************************************)
EXTENDS ReplyCache, FiniteSetTheorems, Induction, TLAPS

-----------------------------------------------------------------------------
(* Cells and entries                                                        *)

LEMMA LiveFinite ==
    /\ IsFiniteSet(Live) /\ Cardinality(Live) \in Nat
    /\ \A S \in SUBSET Live : IsFiniteSet(S) /\ Cardinality(S) \in Nat
BY CacheAssumption, FS_Subset, FS_CardinalityType DEF CacheAssumption, Live

LEMMA SomeIn == ASSUME NEW S, S # {} PROVE Some(S) \in S
BY DEF Some

LEMMA Stored ==
    ASSUME NEW c \in Cells \ Live, NEW e \in Entry, TypeOK,
           mem' = [mem EXCEPT ![c] = e]
    PROVE  Live' = Live \cup {c} /\ Cardinality(Live') = Cardinality(Live) + 1
<1>1. Live' = Live \cup {c}
  BY EntryAssumption DEF Live, TypeOK
<1>2. QED
  BY <1>1, LiveFinite, FS_AddElement

LEMMA Freed ==
    ASSUME NEW c \in Live, TypeOK, mem' = [mem EXCEPT ![c] = Null]
    PROVE  Live' = Live \ {c} /\ Cardinality(Live') = Cardinality(Live) - 1
<1>1. Live' = Live \ {c}
  BY DEF Live, TypeOK
<1>2. QED
  BY <1>1, LiveFinite, FS_RemoveElement

-----------------------------------------------------------------------------
(* The list                                                                 *)

LEMMA Removed ==
    ASSUME TypeOK,
           NEW s \in [1 .. Cardinality(Live) -> Live], Listing(s),
           NEW k \in 1 .. Cardinality(Live), remove_cx(s[k]),
           NEW t, t = [i \in 1 .. Cardinality(Live) - 1 |->
                          IF i < k THEN s[i] ELSE s[i + 1]]
    PROVE  /\ Live' = Live \ {s[k]} /\ Cardinality(Live') = Cardinality(Live) - 1
           /\ t \in [1 .. Cardinality(Live') -> Live']
           /\ Listing(t)'
<1> DEFINE n == Cardinality(Live)
<1>n. n \in Nat /\ k \in 1 .. n
  BY LiveFinite
<1>1. Live' = Live \ {s[k]} /\ Cardinality(Live') = n - 1
  BY Freed, <1>n DEF remove_cx
<1>c. Null \notin Cells /\ Live \subseteq Cells
  BY CacheAssumption DEF CacheAssumption, Live
<1>s. \A i \in 1 .. n : s[i] \in Live /\ s[i] \in Cells
  BY <1>c
<1>l. /\ \A i, j \in 1 .. n : s[i] = s[j] => i = j
      /\ \A c \in Live : \E i \in 1 .. n : s[i] = c
      /\ cachelist = IF n = 0 THEN Null ELSE s[1]
      /\ lastcache = IF n = 0 THEN Null ELSE s[n]
      /\ \A i \in 1 .. n :
          /\ next[s[i]] = IF i = n THEN Null ELSE s[i + 1]
          /\ prev[s[i]] = IF i = 1 THEN Null ELSE s[i - 1]
  BY DEF Listing
<1>2. t \in [1 .. n - 1 -> Live']
  <2>1. \A i \in 1 .. n - 1 : t[i] \in Live /\ t[i] # s[k]
    BY <1>n, <1>l, <1>s
  <2>2. QED
    BY <2>1, <1>1
<1>3. \A i, j \in 1 .. n - 1 : t[i] = t[j] => i = j
  BY <1>n, <1>l
<1>4. ASSUME NEW c \in Live'
      PROVE  \E i \in 1 .. n - 1 : t[i] = c
  <2>1. PICK i \in 1 .. n : s[i] = c
    BY <1>1, <1>l
  <2>2. i # k
    BY <1>1, <2>1
  <2>3. CASE i < k
    BY <2>1, <2>3, <1>n
  <2>4. CASE i > k
    <3>1. i - 1 \in 1 .. n - 1 /\ t[i - 1] = s[i]
      BY <2>4, <1>n
    <3>2. QED
      BY <3>1, <2>1
  <2>5. QED
    BY <2>2, <2>3, <2>4, <1>n
<1>p. /\ prev' = [c \in Cells |-> IF c = next[s[k]] THEN prev[s[k]] ELSE prev[c]]
      /\ lastcache' = IF next[s[k]] = Null THEN prev[s[k]] ELSE lastcache
      /\ next' = [c \in Cells |-> IF c = prev[s[k]] THEN next[s[k]] ELSE next[c]]
      /\ cachelist' = IF prev[s[k]] = Null THEN next[s[k]] ELSE cachelist
  BY DEF remove_cx
<1>k. /\ next[s[k]] = IF k = n THEN Null ELSE s[k + 1]
      /\ prev[s[k]] = IF k = 1 THEN Null ELSE s[k - 1]
  BY <1>l, <1>n
<1>5. cachelist' = IF n - 1 = 0 THEN Null ELSE t[1]
  BY <1>n, <1>l, <1>s, <1>p, <1>k, <1>c
<1>6. lastcache' = IF n - 1 = 0 THEN Null ELSE t[n - 1]
  BY <1>n, <1>l, <1>s, <1>p, <1>k, <1>c
<1>7. ASSUME NEW i \in 1 .. n - 1
      PROVE  /\ next'[t[i]] = IF i = n - 1 THEN Null ELSE t[i + 1]
             /\ prev'[t[i]] = IF i = 1 THEN Null ELSE t[i - 1]
  <2>1. CASE i < k
    <3>1. t[i] = s[i] /\ s[i] \in Cells
      BY <2>1, <1>n, <1>s
    <3>2. next'[t[i]] = IF i = n - 1 THEN Null ELSE t[i + 1]
      <4>1. CASE i = k - 1
        BY <4>1, <3>1, <1>p, <1>k, <1>n
      <4>2. CASE i # k - 1
        <5>1. s[i] # prev[s[k]]
          BY <4>2, <1>k, <1>l, <1>c, <1>s, <1>n
        <5>2. QED
          BY <5>1, <4>2, <2>1, <3>1, <1>p, <1>l, <1>n
      <4>3. QED
        BY <4>1, <4>2
    <3>3. prev'[t[i]] = IF i = 1 THEN Null ELSE t[i - 1]
      <4>1. s[i] # next[s[k]]
        BY <2>1, <1>k, <1>l, <1>c, <1>s, <1>n
      <4>2. prev'[t[i]] = prev[s[i]] /\ (i # 1 => t[i - 1] = s[i - 1])
        BY <4>1, <2>1, <3>1, <1>p, <1>n
      <4>3. QED
        BY <4>2, <2>1, <1>l, <1>n
    <3>4. QED
      BY <3>2, <3>3
  <2>2. CASE i >= k
    <3>1. t[i] = s[i + 1] /\ s[i + 1] \in Cells /\ i + 1 \in 1 .. n
      BY <2>2, <1>n, <1>s
    <3>2. next'[t[i]] = IF i = n - 1 THEN Null ELSE t[i + 1]
      <4>1. s[i + 1] # prev[s[k]]
        BY <2>2, <3>1, <1>k, <1>l, <1>c, <1>s, <1>n
      <4>2. next'[t[i]] = next[s[i + 1]] /\ (i # n - 1 => t[i + 1] = s[i + 2])
        BY <4>1, <2>2, <3>1, <1>p, <1>n
      <4>3. QED
        BY <4>2, <3>1, <1>l, <1>n
    <3>3. prev'[t[i]] = IF i = 1 THEN Null ELSE t[i - 1]
      <4>1. CASE i = k
        BY <4>1, <3>1, <1>p, <1>k, <1>n
      <4>2. CASE i # k
        <5>1. s[i + 1] # next[s[k]]
          BY <4>2, <2>2, <3>1, <1>k, <1>l, <1>c, <1>s, <1>n
        <5>2. QED
          BY <5>1, <4>2, <2>2, <3>1, <1>p, <1>l, <1>n
      <4>3. QED
        BY <4>1, <4>2
    <3>4. QED
      BY <3>2, <3>3
  <2>3. QED
    BY <2>1, <2>2, <1>n
<1>8. ASSUME NEW m, m = n - 1
      PROVE  /\ \A i, j \in 1 .. m : t[i] = t[j] => i = j
             /\ \A c \in Live' : \E i \in 1 .. m : t[i] = c
             /\ cachelist' = IF m = 0 THEN Null ELSE t[1]
             /\ lastcache' = IF m = 0 THEN Null ELSE t[m]
             /\ \A i \in 1 .. m :
                 /\ next'[t[i]] = IF i = m THEN Null ELSE t[i + 1]
                 /\ prev'[t[i]] = IF i = 1 THEN Null ELSE t[i - 1]
  <2> HIDE DEF n
  <2>1. \A i, j \in 1 .. m : t[i] = t[j] => i = j
    BY <1>8, <1>3
  <2>2. \A c \in Live' : \E i \in 1 .. m : t[i] = c
    BY <1>8, <1>4
  <2>3. cachelist' = IF m = 0 THEN Null ELSE t[1]
    BY <1>8, <1>n, <1>5
  <2>4. lastcache' = IF m = 0 THEN Null ELSE t[m]
    BY <1>8, <1>n, <1>6
  <2>5. \A i \in 1 .. m :
         /\ next'[t[i]] = IF i = m THEN Null ELSE t[i + 1]
         /\ prev'[t[i]] = IF i = 1 THEN Null ELSE t[i - 1]
    <3> TAKE i \in 1 .. m
    <3>1. i \in 1 .. n - 1
      BY <1>8
    <3>2. /\ next'[t[i]] = IF i = n - 1 THEN Null ELSE t[i + 1]
          /\ prev'[t[i]] = IF i = 1 THEN Null ELSE t[i - 1]
      BY <3>1, <1>7
    <3>3. QED
      BY <3>2, <1>8
  <2>6. QED
    BY <2>1, <2>2, <2>3, <2>4, <2>5
<1>9. Listing(t)'
  BY <1>1, <1>8 DEF Listing
<1>10. QED
  BY <1>1, <1>2, <1>9

LEMMA Appended ==
    ASSUME TypeOK,
           NEW s \in [1 .. Cardinality(Live) -> Live], Listing(s),
           NEW c \in Cells \ Live, append_cx(c),
           Live' = Live \cup {c}, Cardinality(Live') = Cardinality(Live) + 1,
           NEW t, t = [i \in 1 .. Cardinality(Live) + 1 |->
                          IF i <= Cardinality(Live) THEN s[i] ELSE c]
    PROVE  /\ t \in [1 .. Cardinality(Live') -> Live']
           /\ Listing(t)'
<1> DEFINE n == Cardinality(Live)
<1>n. n \in Nat
  BY LiveFinite
<1>c. Null \notin Cells /\ Live \subseteq Cells
  BY CacheAssumption DEF CacheAssumption, Live
<1>s. \A i \in 1 .. n : s[i] \in Live /\ s[i] \in Cells /\ s[i] # c /\ t[i] = s[i]
  BY <1>c, <1>n
<1>t. t[n + 1] = c
  BY <1>n
<1>l. /\ \A i, j \in 1 .. n : s[i] = s[j] => i = j
      /\ \A d \in Live : \E i \in 1 .. n : s[i] = d
      /\ cachelist = IF n = 0 THEN Null ELSE s[1]
      /\ lastcache = IF n = 0 THEN Null ELSE s[n]
      /\ \A i \in 1 .. n :
          /\ next[s[i]] = IF i = n THEN Null ELSE s[i + 1]
          /\ prev[s[i]] = IF i = 1 THEN Null ELSE s[i - 1]
  BY DEF Listing
<1>i. next \in Pointers /\ prev \in Pointers
  BY DEF TypeOK
<1>1. t \in [1 .. n + 1 -> Live']
  BY <1>s, <1>t, <1>n
<1>2. \A i, j \in 1 .. n + 1 : t[i] = t[j] => i = j
  BY <1>s, <1>t, <1>n, <1>l
<1>3. \A d \in Live' : \E i \in 1 .. n + 1 : t[i] = d
  BY <1>s, <1>t, <1>n, <1>l
<1>4. /\ cachelist' = t[1] /\ lastcache' = t[n + 1]
      /\ \A i \in 1 .. n + 1 :
          /\ next'[t[i]] = IF i = n + 1 THEN Null ELSE t[i + 1]
          /\ prev'[t[i]] = IF i = 1 THEN Null ELSE t[i - 1]
  <2>1. CASE n = 0
    <3>1. /\ cachelist' = c /\ lastcache' = c
          /\ next' = [next EXCEPT ![c] = Null] /\ prev' = [prev EXCEPT ![c] = Null]
      BY <2>1, <1>l DEF append_cx
    <3>2. QED
      BY <3>1, <2>1, <1>t, <1>i DEF Pointers
  <2>2. CASE n # 0
    <3>1. lastcache = s[n] /\ s[n] # Null /\ n \in 1 .. n
      BY <2>2, <1>l, <1>s, <1>c, <1>n
    <3>2. /\ next' = [next EXCEPT ![c] = Null, ![s[n]] = c]
          /\ prev' = [prev EXCEPT ![c] = s[n]]
          /\ lastcache' = c /\ cachelist' = cachelist
      BY <3>1 DEF append_cx
    <3>3. ASSUME NEW i \in 1 .. n + 1
          PROVE  /\ next'[t[i]] = IF i = n + 1 THEN Null ELSE t[i + 1]
                 /\ prev'[t[i]] = IF i = 1 THEN Null ELSE t[i - 1]
      <4>1. CASE i = n + 1
        BY <4>1, <3>1, <3>2, <2>2, <1>t, <1>s, <1>i, <1>n DEF Pointers
      <4>2. CASE i \in 1 .. n
        <5>1. t[i] = s[i] /\ s[i] # c /\ s[i] \in Cells /\ (s[i] = s[n] <=> i = n)
          BY <4>2, <1>s, <1>l, <3>1
        <5>2. prev'[t[i]] = prev[s[i]] /\ (i # 1 => t[i - 1] = s[i - 1])
          BY <5>1, <4>2, <3>2, <1>s, <1>i, <1>n DEF Pointers
        <5>3. next'[t[i]] = IF i = n THEN c ELSE next[s[i]]
          BY <5>1, <4>2, <3>2, <3>1, <1>i, <1>s DEF Pointers
        <5>4. i # n => t[i + 1] = s[i + 1]
          BY <4>2, <1>s, <1>n
        <5>5. QED
          BY <5>2, <5>3, <5>4, <4>2, <1>l, <1>t, <1>n
      <4>3. QED
        BY <4>1, <4>2, <1>n
    <3>4. cachelist' = t[1] /\ lastcache' = t[n + 1]
      BY <3>2, <2>2, <1>l, <1>s, <1>t, <1>n
    <3>5. QED
      BY <3>3, <3>4
  <2>3. QED
    BY <2>1, <2>2
<1>5. ASSUME NEW m, m = n + 1
      PROVE  /\ \A i, j \in 1 .. m : t[i] = t[j] => i = j
             /\ \A d \in Live' : \E i \in 1 .. m : t[i] = d
             /\ cachelist' = IF m = 0 THEN Null ELSE t[1]
             /\ lastcache' = IF m = 0 THEN Null ELSE t[m]
             /\ \A i \in 1 .. m :
                 /\ next'[t[i]] = IF i = m THEN Null ELSE t[i + 1]
                 /\ prev'[t[i]] = IF i = 1 THEN Null ELSE t[i - 1]
  <2> HIDE DEF n
  <2>1. \A i, j \in 1 .. m : t[i] = t[j] => i = j
    BY <1>5, <1>2
  <2>2. \A d \in Live' : \E i \in 1 .. m : t[i] = d
    BY <1>5, <1>3
  <2>3. cachelist' = IF m = 0 THEN Null ELSE t[1]
    BY <1>5, <1>n, <1>4
  <2>4. lastcache' = IF m = 0 THEN Null ELSE t[m]
    BY <1>5, <1>n, <1>4
  <2>5. \A i \in 1 .. m :
         /\ next'[t[i]] = IF i = m THEN Null ELSE t[i + 1]
         /\ prev'[t[i]] = IF i = 1 THEN Null ELSE t[i - 1]
    BY <1>5, <1>n, <1>4
  <2>6. QED
    BY <2>1, <2>2, <2>3, <2>4, <2>5
<1>6. Listing(t)'
  BY <1>5 DEF Listing
<1>7. QED
  BY <1>1, <1>6

LEMMA Unmoved ==
    ASSUME Live' = Live, UNCHANGED <<next, prev, cachelist, lastcache>>,
           NEW s, Listing(s)
    PROVE  Listing(s)'
<1>1. Cardinality(Live') = Cardinality(Live)
  OBVIOUS
<1>2. QED
  BY <1>1 DEF Listing

\* remove_cx() and append_cx() keep the types of the list.
LEMMA RemovedTypes ==
    ASSUME TypeOK, NEW c \in Cells, remove_cx(c)
    PROVE  /\ mem' \in [Cells -> Entry \cup {Null}]
           /\ next' \in Pointers /\ prev' \in Pointers
           /\ cachelist' \in Cells \cup {Null} /\ lastcache' \in Cells \cup {Null}
<1>1. prev[c] \in Cells \cup {Null} /\ next[c] \in Cells \cup {Null}
  BY DEF TypeOK, Pointers
<1>2. next' \in Pointers /\ prev' \in Pointers
  BY <1>1 DEF TypeOK, Pointers, remove_cx
<1>3. QED
  BY <1>1, <1>2 DEF TypeOK, remove_cx

LEMMA AppendedTypes ==
    ASSUME TypeOK, NEW c \in Cells, append_cx(c)
    PROVE  /\ next' \in Pointers /\ prev' \in Pointers
           /\ cachelist' \in Cells \cup {Null} /\ lastcache' \in Cells \cup {Null}
BY DEF TypeOK, Pointers, append_cx

-----------------------------------------------------------------------------
(* Following the links                                                      *)

Whither == Cells \cup {Null}
(* What From of Chain has to be.                                           *)
IsFrom(f, ptr) ==
    f = [n \in 0 .. Cardinality(Cells) |->
            [d \in Whither |-> IF d = Null \/ n = 0 THEN <<>> ELSE <<d>> \o f[n - 1][ptr[d]]]]

LEMMA FromExists ==
    ASSUME NEW ptr \in Pointers
    PROVE  \E f \in [0 .. Cardinality(Cells) -> [Whither -> Seq(Cells)]] : IsFrom(f, ptr)
<1> DEFINE N == Cardinality(Cells)
           D == [Whither -> Seq(Cells)]
           a == [d \in Whither |-> <<>>]
           turn(g) == [d \in Whither |-> IF d = Null THEN <<>> ELSE <<d>> \o g[ptr[d]]]
           step == [n \in 1 .. N |-> [g \in D |-> turn(g)]]
<1>1. N \in Nat
  BY CacheAssumption, FS_CardinalityType DEF CacheAssumption
<1>2. a \in D
  OBVIOUS
<1>3. ASSUME NEW g \in D PROVE turn(g) \in D
  <2>1. ASSUME NEW d \in Cells PROVE <<d>> \o g[ptr[d]] \in Seq(Cells)
    <3>1. ptr[d] \in Whither
      BY DEF Pointers, Whither
    <3>2. g[ptr[d]] \in Seq(Cells) /\ <<d>> \in Seq(Cells)
      BY <3>1
    <3> QED BY <3>2
  <2>2. \A d \in Whither : (IF d = Null THEN <<>> ELSE <<d>> \o g[ptr[d]]) \in Seq(Cells)
    BY <2>1 DEF Whither
  <2> QED BY <2>2
<1>4. step \in [1 .. N -> [D -> D]]
  <2> HIDE DEF turn, D
  <2> QED BY <1>3
<1>5. PICK f \in [0 .. N -> D] : IsHistory(f, N, a, step)
  <2> HIDE DEF N, D, a, step
  <2> QED BY <1>1, <1>2, <1>4, HistoryExists
<1>h. f[0] = a /\ \A n \in 1 .. N : f[n] = step[n][f[n - 1]]
  BY <1>5 DEF IsHistory
<1>6. ASSUME NEW n \in 0 .. N
      PROVE  f[n] = [d \in Whither |-> IF d = Null \/ n = 0 THEN <<>> ELSE <<d>> \o f[n - 1][ptr[d]]]
  <2>1. CASE n = 0
    BY <2>1, <1>h
  <2>2. CASE n # 0
    <3>1. n \in 1 .. N /\ n - 1 \in 0 .. N /\ f[n - 1] \in D
      <4> HIDE DEF D, N
      <4> QED BY <2>2, <1>1, <1>5
    <3>2. f[n] = turn(f[n - 1])
      <4> HIDE DEF turn, D, a, N
      <4> QED BY <3>1, <1>h
    <3> QED BY <3>2, <2>2
  <2> QED BY <2>1, <2>2
<1>7. IsFrom(f, ptr)
  <2> HIDE DEF D, a, step
  <2>1. DOMAIN f = 0 .. N /\ f = [n \in 0 .. N |-> f[n]]
    BY <1>5
  <2> QED BY <2>1, <1>6 DEF IsFrom
<1> QED BY <1>5, <1>7

LEMMA ChainIs ==
    ASSUME NEW c, NEW ptr \in Pointers
    PROVE  \E f : IsFrom(f, ptr) /\ Chain(c, ptr) = f[Cardinality(Cells)][c]
<1> DEFINE f == CHOOSE f : IsFrom(f, ptr)
<1>1. IsFrom(f, ptr)
  BY FromExists
<1>2. Chain(c, ptr) = f[Cardinality(Cells)][c]
  BY DEF Chain, IsFrom, Whither
<1> QED BY <1>1, <1>2

\* The links of ptr lead from c through the k cells of s.
Leads(c, ptr, k, s) ==
    /\ c = IF k = 0 THEN Null ELSE s[1]
    /\ \A i \in 1 .. k : ptr[s[i]] = IF i = k THEN Null ELSE s[i + 1]

LEMMA ChainFollows ==
    ASSUME NEW ptr \in Pointers, NEW k \in 0 .. Cardinality(Cells),
           NEW s \in [1 .. k -> Cells], NEW c, Leads(c, ptr, k, s)
    PROVE  Chain(c, ptr) = s
<1> DEFINE N == Cardinality(Cells)
           Tail_(i) == [j \in 1 .. k - i |-> s[i + j]]
<1>1. N \in Nat /\ k \in 0 .. N /\ Null \notin Cells
  BY CacheAssumption, FS_CardinalityType DEF CacheAssumption
<1>l. /\ c = IF k = 0 THEN Null ELSE s[1]
      /\ \A i \in 1 .. k : ptr[s[i]] = IF i = k THEN Null ELSE s[i + 1]
  BY DEF Leads
<1>2. PICK f : IsFrom(f, ptr) /\ Chain(c, ptr) = f[N][c]
  BY ChainIs
<1>3. /\ \A n \in 0 .. N : f[n][Null] = <<>>
      /\ \A n \in 1 .. N, d \in Cells : f[n][d] = <<d>> \o f[n - 1][ptr[d]]
  <2> DEFINE row(n) == [d \in Whither |-> IF d = Null \/ n = 0 THEN <<>> ELSE <<d>> \o f[n - 1][ptr[d]]]
             rows == [n \in 0 .. N |-> row(n)]
  <2>1. f = rows
    BY <1>2 DEF IsFrom
  <2>2. \A n \in 0 .. N : rows[n] = row(n)
    <3> HIDE DEF row
    <3> QED OBVIOUS
  <2>3. \A n \in 0 .. N : f[n] = row(n)
    <3> HIDE DEF row, rows
    <3> QED BY <2>1, <2>2
  <2>4. \A n \in 0 .. N, d \in Whither :
            row(n)[d] = IF d = Null \/ n = 0 THEN <<>> ELSE <<d>> \o f[n - 1][ptr[d]]
    OBVIOUS
  <2> HIDE DEF row, rows
  <2>5. \A n \in 0 .. N, d \in Whither :
            f[n][d] = IF d = Null \/ n = 0 THEN <<>> ELSE <<d>> \o f[n - 1][ptr[d]]
    BY <2>3, <2>4
  <2>6. Null \in Whither /\ Cells \subseteq Whither
    BY DEF Whither
  <2> HIDE DEF N
  <2>7. \A n \in 1 .. N, d \in Cells : f[n][d] = <<d>> \o f[n - 1][ptr[d]]
    <3> TAKE n \in 1 .. N, d \in Cells
    <3>1. n \in 0 .. N /\ n # 0 /\ d \in Whither /\ d # Null
      BY <2>6, <1>1
    <3> QED BY <3>1, <2>5
  <2> QED BY <2>5, <2>6, <2>7
<1> HIDE DEF N
<1> DEFINE S == {n \in 0 .. N : \A i \in 0 .. k - 1 :
                                    k - i <= n => f[n][s[i + 1]] = Tail_(i)}
<1>4. 0 \in S
  BY <1>1
<1>5. ASSUME NEW n \in 1 .. N, n - 1 \in S PROVE n \in S
  <2> SUFFICES ASSUME NEW i \in 0 .. k - 1, k - i <= n PROVE f[n][s[i + 1]] = Tail_(i)
    OBVIOUS
  <2>1. s[i + 1] \in Cells /\ i + 1 \in 1 .. k
    BY <1>1
  <2>2. f[n][s[i + 1]] = <<s[i + 1]>> \o f[n - 1][ptr[s[i + 1]]]
    BY <2>1, <1>3
  <2>3. CASE i + 1 = k
    <3>1. f[n - 1][Null] = <<>>
      BY <1>1, <1>3
    <3>2. ptr[s[i + 1]] = Null
      BY <2>1, <2>3, <1>l
    <3>3. f[n][s[i + 1]] = <<s[i + 1]>>
      <4>1. \A x : <<x>> \o <<>> = <<x>>
        OBVIOUS
      <4>2. f[n][s[i + 1]] = <<s[i + 1]>> \o <<>>
        BY <2>2, <3>1, <3>2
      <4> QED BY <4>1, <4>2, Zenon
    <3>4. Tail_(i) = <<s[i + 1]>>
      BY <2>1, <2>3, <1>1
    <3> QED BY <3>3, <3>4
  <2>4. CASE i + 1 # k
    <3>1. i + 1 \in 0 .. k - 1 /\ k - (i + 1) <= n - 1 /\ i + 2 = i + 1 + 1
      BY <2>4, <1>1
    <3>2. f[n - 1][s[i + 1 + 1]] = Tail_(i + 1)
      BY <3>1, <1>5
    <3>3. ptr[s[i + 1]] = s[i + 1 + 1]
      BY <2>1, <2>4, <1>1, <1>l
    <3>4. f[n][s[i + 1]] = <<s[i + 1]>> \o Tail_(i + 1)
      BY <2>2, <3>2, <3>3
    <3>5. Tail_(i + 1) \in Seq(Cells) /\ Len(Tail_(i + 1)) = k - (i + 1)
      BY <3>1, <1>1
    <3>6. <<s[i + 1]>> \o Tail_(i + 1) = Tail_(i)
      BY <3>1, <3>5, <2>1, <1>1
    <3> QED BY <3>4, <3>6
  <2> QED BY <2>3, <2>4
<1>6. N \in S
  <2>1. \A n \in 0 .. N : n \in S
    <3> HIDE DEF S
    <3> QED BY <1>1, <1>4, <1>5, BoundedInduction
  <2> QED BY <2>1, <1>1
<1>7. CASE k = 0
  <2>1. f[N][Null] = <<>>
    BY <1>1, <1>3
  <2>2. s = <<>>
    BY <1>7
  <2> QED BY <2>1, <2>2, <1>2, <1>l, <1>7
<1>8. CASE k # 0
  <2>1. f[N][s[0 + 1]] = Tail_(0)
    BY <1>6, <1>8, <1>1
  <2>2. Tail_(0) = s
    BY <1>1, <1>8
  <2> QED BY <2>1, <2>2, <1>2, <1>l, <1>8
<1> QED BY <1>7, <1>8

-----------------------------------------------------------------------------
(* Start-up                                                                 *)

LEMMA MarksGiven ==
    ASSUME NEW param \in Params
    PROVE  /\ cache_init(param) \in Nat \X Nat
           /\ cache_init(param)[1] <= cache_init(param)[2]
<1>a. /\ param \in Seq(Int)
      /\ Len(param) = 0 \/ Len(param) = 1 \/ Len(param) = 2
      /\ Len(param) # 0 => param[1] \in Nat
      /\ Len(param) = 2 => param[2] \in Int
      /\ LowWater \in Nat /\ HighWater \in Nat /\ LowWater <= HighWater
  <2>1. /\ param \in Seq(Int) /\ Len(param) <= 2 /\ Len(param) \in Nat
        /\ Len(param) > 0 => param[1] >= 0
    BY CacheAssumption DEF CacheAssumption
  <2>2. \A i \in 1 .. Len(param) : param[i] \in Int
    BY <2>1
  <2>3. Len(param) # 0 => 1 \in 1 .. Len(param)
    BY <2>1
  <2>4. Len(param) = 2 => 2 \in 1 .. Len(param)
    BY <2>1
  <2>5. LowWater \in Nat /\ HighWater \in Nat /\ LowWater <= HighWater
    BY CacheAssumption DEF CacheAssumption
  <2>6. Len(param) # 0 => param[1] \in Nat
    BY <2>1, <2>2, <2>3
  <2>7. Len(param) = 2 => param[2] \in Int
    BY <2>2, <2>4
  <2>8. Len(param) = 0 \/ Len(param) = 1 \/ Len(param) = 2
    <3>1. \A k \in Nat : k <= 2 => k = 0 \/ k = 1 \/ k = 2
      OBVIOUS
    <3>2. QED
      BY <2>1, <3>1, Zenon
  <2>9. QED
    BY <2>1, <2>5, <2>6, <2>7, <2>8
<1>q. \A high \in Nat : ThreeQuarters(high) \in Nat /\ ThreeQuarters(high) <= high
  BY DEF ThreeQuarters
<1>1. CASE Len(param) = 0
  BY <1>1, <1>a DEF cache_init
<1>2. CASE Len(param) = 1
  BY <1>2, <1>a, <1>q DEF cache_init
<1>3. CASE Len(param) = 2
  <2>1. param = <<param[1], param[2]>> /\ param[1] \in Nat /\ param[2] \in Int
    BY <1>3, <1>a
  <2>2. cache_init(param) =
          IF param[2] < 0 THEN <<LowWater, HighWater>>
          ELSE IF param[1] > param[2] THEN <<ThreeQuarters(param[2]), param[2]>>
          ELSE param
    BY <1>3 DEF cache_init
  <2>3. QED
    BY <2>1, <2>2, <1>a, <1>q
<1>4. QED
  BY <1>1, <1>2, <1>3, <1>a

LEMMA InitHolds == Init => IInv
<1> SUFFICES ASSUME Init PROVE IInv
  OBVIOUS
<1>1. Live = {} /\ Cardinality(Live) = 0
  BY FS_EmptySet DEF Init, Live
<1>2. marks \in Nat \X Nat /\ MarksOrdered
  BY MarksGiven DEF Init, MarksOrdered
<1>3. TypeOK
  BY <1>2 DEF Init, TypeOK, Pointers
<1>4. Enumerated
  <2> DEFINE s == [i \in 1 .. 0 |-> Null]
  <2>1. s \in [1 .. Cardinality(Live) -> Live]
    BY <1>1
  <2>2. Listing(s) /\ Visited(s)
    BY <1>1 DEF Init, Listing, Visited
  <2>3. QED
    BY <2>1, <2>2 DEF Enumerated
<1>5. AgesBounded
  BY <1>1, CacheAssumption DEF Init, AgesBounded, CacheAssumption
<1>6. EvictionExact /\ LoopIdle /\ FreshEnough
  BY DEF Init, EvictionExact, LoopIdle, FreshEnough
<1>7. QED
  BY <1>2, <1>3, <1>4, <1>5, <1>6 DEF IInv

-----------------------------------------------------------------------------
(* Each action keeps the invariant                                          *)

LEMMA StoreKeeps ==
    ASSUME IInv, NEW key \in Keys, NEW positive \in BOOLEAN, NEW server \in Srvs,
           cache_dnspacket(key, positive, server)
    PROVE  IInv'
<1> DEFINE c == Some(Cells \ Live)
           e == [key |-> key, positive |-> positive, server |-> server,
                 created |-> 0, lastused |-> 0]
<1>0. TypeOK /\ MarksOrdered /\ Enumerated /\ EvictionExact /\ LoopIdle /\ AgesBounded
  BY DEF IInv
<1>1. /\ c \in Cells \ Live /\ e \in Entry
      /\ pc = "run" /\ mem' = [mem EXCEPT ![c] = e] /\ append_cx(c)
      /\ reply' = Null /\ UNCHANGED <<marks, inactive, loopvars, round>>
  BY SomeIn DEF cache_dnspacket, Entry
<1> HIDE DEF c, e
<1>2. Live' = Live \cup {c} /\ Cardinality(Live') = Cardinality(Live) + 1
  BY <1>0, <1>1, Stored
<1>3. TypeOK'
  <2>1. mem' \in [Cells -> Entry \cup {Null}]
    BY <1>0, <1>1 DEF TypeOK
  <2>2. QED
    BY <2>1, <1>0, <1>1, AppendedTypes DEF TypeOK, loopvars
<1>4. Enumerated'
  <2>1. PICK s \in [1 .. Cardinality(Live) -> Live] : Listing(s)
    BY <1>0 DEF Enumerated
  <2>2. \E t : t = [i \in 1 .. Cardinality(Live) + 1 |->
                       IF i <= Cardinality(Live) THEN s[i] ELSE c]
    OBVIOUS
  <2>3. PICK t : t = [i \in 1 .. Cardinality(Live) + 1 |->
                       IF i <= Cardinality(Live) THEN s[i] ELSE c]
    BY <2>2
  <2>4. t \in [1 .. Cardinality(Live') -> Live'] /\ Listing(t)'
    BY <2>1, <2>3, <1>0, <1>1, <1>2, Appended
  <2>5. Visited(t)'
    BY <1>1 DEF Visited, loopvars
  <2>6. QED
    BY <2>4, <2>5 DEF Enumerated
<1>5. AgesBounded'
  <2>1. UNCHANGED <<pc, lastexpire, round>> /\ Unchecked' = Unchecked
    BY <1>1 DEF loopvars, Unchecked
  <2>2. ASSUME NEW d \in Live'
        PROVE  IF lastexpire = Null THEN mem'[d].created <= round /\ mem'[d].lastused <= round
               ELSE Within(mem'[d], Unchecked)
    <3>1. CASE d = c
      <4>1. mem'[d].created = 0 /\ mem'[d].lastused = 0
        BY <3>1, <1>0, <1>1 DEF TypeOK, e
      <4>2. round \in Nat /\ Unchecked \in Nat
        BY <1>0, CacheAssumption DEF TypeOK, Unchecked, CacheAssumption
      <4>3. QED
        BY <4>1, <4>2, CacheAssumption DEF Within, CacheAssumption
    <3>2. CASE d # c
      <4>1. d \in Live /\ mem'[d] = mem[d]
        BY <3>2, <1>0, <1>1, <1>2 DEF TypeOK, Live
      <4>2. QED
        BY <4>1, <1>0, <1>1 DEF AgesBounded
    <3>3. QED
      BY <3>1, <3>2
  <2>3. QED
    BY <2>1, <2>2, <1>0 DEF AgesBounded, Within
<1>6. (MarksOrdered /\ EvictionExact /\ LoopIdle /\ FreshEnough)'
  BY <1>0, <1>1 DEF MarksOrdered, EvictionExact, LoopIdle, FreshEnough, loopvars
<1>7. QED
  BY <1>3, <1>4, <1>5, <1>6 DEF IInv

LEMMA LookupKeeps ==
    ASSUME IInv, NEW key \in Keys, cache_lookup(key)
    PROVE  IInv'
<1>0. TypeOK /\ MarksOrdered /\ Enumerated /\ EvictionExact /\ LoopIdle /\ AgesBounded
  BY DEF IInv
<1>1. /\ pc = "run"
      /\ UNCHANGED <<next, prev, cachelist, lastcache, marks, inactive, loopvars, round>>
  BY DEF cache_lookup
<1>2. \/ reply' = Null /\ mem' = mem
      \/ \E c \in Live :
          /\ mem' = IF mem[c].positive THEN [mem EXCEPT ![c].lastused = 0] ELSE mem
          /\ reply' = [asked |-> key, entry |-> mem[c],
                       hit |-> ~(IgnoreInactive /\ mem[c].server \in inactive)]
  <2>1. Found(key) \subseteq Live
    BY DEF Found
  <2>2. QED
    BY <2>1 DEF cache_lookup
<1>t. \A c \in Live : c \in Cells /\ mem[c] \in Entry
  BY <1>0 DEF TypeOK, Live
<1>3. \A d \in Cells :
        \/ mem'[d] = mem[d]
        \/ d \in Live /\ mem'[d] = [mem[d] EXCEPT !.lastused = 0]
  BY <1>0, <1>2, <1>t DEF TypeOK
<1>4. mem' \in [Cells -> Entry \cup {Null}] /\ Live' = Live
  <2>1. \A e \in Entry : [e EXCEPT !.lastused = 0] \in Entry
    BY DEF Entry
  <2>2. \E f \in [Cells -> Entry \cup {Null}] : mem' = f
    BY <1>0, <1>2, <1>t, <2>1 DEF TypeOK
  <2>3. QED
    BY <1>0, <1>3, <1>t, <2>1, <2>2, EntryAssumption DEF TypeOK, Live
<1>5. TypeOK'
  <2>1. reply' \in Reply \cup {Null}
    <3>1. SUFFICES ASSUME NEW c \in Live,
                          reply' = [asked |-> key, entry |-> mem[c],
                             hit |-> ~(IgnoreInactive /\ mem[c].server \in inactive)]
                   PROVE  reply' \in Reply
      BY <1>2
    <3> DEFINE hit == ~(IgnoreInactive /\ mem[c].server \in inactive)
    <3>2. hit \in BOOLEAN
      OBVIOUS
    <3>3. reply' = [asked |-> key, entry |-> mem[c], hit |-> hit]
      BY <3>1
    <3> HIDE DEF hit
    <3>4. QED
      BY <3>2, <3>3, <1>t DEF Reply
  <2>2. QED
    BY <2>1, <1>0, <1>1, <1>4 DEF TypeOK, loopvars
<1>6. Enumerated'
  <2>1. PICK s \in [1 .. Cardinality(Live) -> Live] : Listing(s)
    BY <1>0 DEF Enumerated
  <2>2. Listing(s)'
    BY <2>1, <1>1, <1>4, Unmoved
  <2>3. Visited(s)'
    BY <1>1 DEF Visited, loopvars
  <2>4. QED
    BY <2>1, <2>2, <2>3, <1>4 DEF Enumerated
<1>u. round \in Nat /\ Unchecked \in Nat
  BY <1>0, CacheAssumption DEF TypeOK, Unchecked, CacheAssumption
<1>7. AgesBounded'
  <2>1. UNCHANGED <<pc, lastexpire, round>> /\ Unchecked' = Unchecked
    BY <1>1 DEF loopvars, Unchecked
  <2>2. ASSUME NEW d \in Live
        PROVE  IF lastexpire = Null THEN mem'[d].created <= round /\ mem'[d].lastused <= round
               ELSE Within(mem'[d], Unchecked)
    <3>1. IF lastexpire = Null THEN mem[d].created <= round /\ mem[d].lastused <= round
               ELSE Within(mem[d], Unchecked)
      BY <1>0, <1>1 DEF AgesBounded
    <3>2. CASE mem'[d] = mem[d]
      BY <3>1, <3>2
    <3>3. CASE mem'[d] = [mem[d] EXCEPT !.lastused = 0]
      <4>1. /\ mem'[d].created = mem[d].created /\ mem'[d].lastused = 0
            /\ mem'[d].positive = mem[d].positive
        BY <3>3, <1>t DEF Entry
      <4>2. QED
        BY <4>1, <3>1, <1>u, CacheAssumption DEF Within, CacheAssumption
    <3>4. QED
      BY <3>2, <3>3, <1>3, <1>t
  <2>3. QED
    BY <2>1, <2>2, <1>0, <1>4 DEF AgesBounded, Within
<1>8. FreshEnough'
  <2>1. SUFFICES ASSUME NEW c \in Live, reply'.entry = mem[c]
                 PROVE  /\ reply'.entry.created <= MaxTime + Slack
                        /\ reply'.entry.lastused <=
                              (IF reply'.entry.positive THEN PosTime ELSE NegTime) + Slack
    BY <1>2 DEF FreshEnough, Slack
  <2>2. mem[c].created \in Nat /\ mem[c].lastused \in Nat
    BY <1>t DEF Entry
  <2>3. IF lastexpire = Null THEN mem[c].created <= round /\ mem[c].lastused <= round
               ELSE Within(mem[c], Unchecked)
    BY <1>0, <1>1 DEF AgesBounded
  <2>4. round <= RoundTime /\ Unchecked <= Slack
    BY <1>0, <1>u, CacheAssumption DEF AgesBounded, Unchecked, Slack, CacheAssumption, TypeOK
  <2>5. QED
    BY <2>1, <2>2, <2>3, <2>4, <1>u, CacheAssumption DEF Within, Slack, CacheAssumption
<1>9. (MarksOrdered /\ EvictionExact /\ LoopIdle)'
  BY <1>0, <1>1 DEF MarksOrdered, EvictionExact, LoopIdle, loopvars
<1>10. QED
  BY <1>5, <1>6, <1>7, <1>8, <1>9 DEF IInv

LEMMA TooSoonKeeps == ASSUME IInv, TooSoon PROVE IInv'
<1>0. TypeOK /\ MarksOrdered /\ Enumerated /\ EvictionExact /\ LoopIdle /\ AgesBounded
  BY DEF IInv
<1>1. /\ pc = "run" /\ SinceExpiry < MinCycle
      /\ lastexpire' = SinceExpiry /\ round' = 0 /\ reply' = Null
      /\ UNCHANGED <<listvars, marks, inactive, pc, cx, total, cv>>
  BY DEF TooSoon
<1>2. SinceExpiry \in Nat /\ SinceExpiry # Null
  BY <1>0, CacheAssumption DEF TypeOK, SinceExpiry, CacheAssumption
<1>3. Live' = Live /\ Cardinality(Live') = Cardinality(Live)
  BY <1>1 DEF Live, listvars
<1>4. TypeOK'
  BY <1>0, <1>1, <1>2 DEF TypeOK, listvars
<1>5. Enumerated'
  <2>1. PICK s \in [1 .. Cardinality(Live) -> Live] : Listing(s)
    BY <1>0 DEF Enumerated
  <2>2. Listing(s)' /\ Visited(s)'
    BY <2>1, <1>1, <1>3, Unmoved DEF Visited, listvars
  <2>3. QED
    BY <2>2, <1>3 DEF Enumerated
<1>6. AgesBounded'
  <2>1. Unchecked' = SinceExpiry
    BY <1>1, <1>2 DEF Unchecked
  <2>2. ASSUME NEW c \in Live PROVE Within(mem[c], SinceExpiry)
    <3>1. mem[c] \in Entry /\ mem[c].created \in Nat /\ mem[c].lastused \in Nat
      BY <1>0 DEF TypeOK, Live, Entry
    <3>2. CASE lastexpire = Null
      <4>1. mem[c].created <= round /\ mem[c].lastused <= round /\ round <= RoundTime
        BY <3>2, <1>0, <1>1 DEF AgesBounded
      <4>2. QED
        BY <4>1, <3>1, <3>2, <1>0, CacheAssumption
           DEF Within, SinceExpiry, CacheAssumption, TypeOK
    <3>3. CASE lastexpire # Null
      BY <3>3, <1>0, <1>1 DEF AgesBounded, Unchecked, SinceExpiry
    <3>4. QED
      BY <3>2, <3>3
  <2>3. QED
    BY <2>1, <2>2, <1>1, <1>2, <1>3, CacheAssumption
       DEF AgesBounded, Within, listvars, CacheAssumption
<1>7. (MarksOrdered /\ EvictionExact /\ LoopIdle /\ FreshEnough)'
  BY <1>0, <1>1 DEF MarksOrdered, EvictionExact, LoopIdle, FreshEnough
<1>8. QED
  BY <1>4, <1>5, <1>6, <1>7 DEF IInv

LEMMA StartKeeps == ASSUME IInv, StartExpiry PROVE IInv'
<1>0. TypeOK /\ MarksOrdered /\ Enumerated /\ EvictionExact /\ LoopIdle /\ AgesBounded
  BY DEF IInv
<1>1. /\ pc = "run" /\ pc' = "walk" /\ cx' = cachelist /\ total' = 0
      /\ round' = 0 /\ reply' = Null
      /\ UNCHANGED <<listvars, marks, inactive, cv, lastexpire>>
  BY DEF StartExpiry
<1>3. Live' = Live /\ Cardinality(Live') = Cardinality(Live)
  BY <1>1 DEF Live, listvars
<1>4. TypeOK'
  BY <1>0, <1>1 DEF TypeOK, listvars
<1>5. Enumerated'
  <2>1. PICK s \in [1 .. Cardinality(Live) -> Live] : Listing(s)
    BY <1>0 DEF Enumerated
  <2>2. Listing(s)'
    BY <2>1, <1>1, <1>3, Unmoved DEF listvars
  <2>3. cachelist = IF Cardinality(Live) = 0 THEN Null ELSE s[1]
    BY <2>1 DEF Listing
  <2>4. Visited(s)'
    BY <2>3, <1>1, <1>3, LiveFinite DEF Visited
  <2>5. QED
    BY <2>2, <2>4, <1>3 DEF Enumerated
<1>6. AgesBounded'
  BY <1>0, <1>1, CacheAssumption DEF AgesBounded, CacheAssumption
<1>7. (MarksOrdered /\ EvictionExact /\ LoopIdle /\ FreshEnough)'
  BY <1>0, <1>1 DEF MarksOrdered, EvictionExact, LoopIdle, FreshEnough
<1>8. QED
  BY <1>4, <1>5, <1>6, <1>7 DEF IInv

LEMMA VisitKeeps == ASSUME IInv, Visit PROVE IInv'
<1> DEFINE n == Cardinality(Live)
<1>0. TypeOK /\ MarksOrdered /\ Enumerated /\ EvictionExact /\ LoopIdle /\ AgesBounded
  BY DEF IInv
<1>1. /\ pc = "walk" /\ cx # Null /\ cx' = next[cx] /\ reply' = Null
      /\ UNCHANGED <<marks, inactive, pc, cv, lastexpire, round>>
      /\ IF Expired(mem[cx]) THEN remove_cx(cx) /\ UNCHANGED total
         ELSE total' = total + 1 /\ UNCHANGED listvars
  BY DEF Visit
<1>2. PICK s \in [1 .. n -> Live] : Listing(s) /\ Visited(s)
  BY <1>0 DEF Enumerated
<1>3. /\ n \in Nat /\ total \in Nat /\ total + 1 \in 1 .. n
      /\ cx = s[total + 1] /\ cx \in Live /\ cx \in Cells
      /\ \A i \in 1 .. total : ~Expired(mem[s[i]])
  <2>1. n \in Nat /\ total \in Nat
    BY <1>0, LiveFinite DEF TypeOK
  <2>2. /\ total <= n /\ cx = IF total = n THEN Null ELSE s[total + 1]
        /\ \A i \in 1 .. total : ~Expired(mem[s[i]])
    BY <1>1, <1>2 DEF Visited
  <2>3. total + 1 \in 1 .. n /\ cx = s[total + 1]
    BY <2>1, <2>2, <1>1
  <2>4. QED
    BY <2>1, <2>2, <2>3 DEF Live
<1>4. /\ next[cx] = IF total + 1 = n THEN Null ELSE s[total + 2]
      /\ \A i, j \in 1 .. n : s[i] = s[j] => i = j
  BY <1>2, <1>3 DEF Listing
<1>5. /\ cx' \in Cells \cup {Null} /\ total' \in Nat
      /\ mem' \in [Cells -> Entry \cup {Null}]
      /\ next' \in Pointers /\ prev' \in Pointers
      /\ cachelist' \in Cells \cup {Null} /\ lastcache' \in Cells \cup {Null}
  <2>1. cx' \in Cells \cup {Null} /\ total' \in Nat
    BY <1>0, <1>1, <1>3 DEF TypeOK, Pointers
  <2>2. QED
    BY <2>1, <1>0, <1>1, <1>3, RemovedTypes DEF TypeOK, listvars
<1>6. TypeOK'
  BY <1>0, <1>1, <1>5 DEF TypeOK
<1>7. Enumerated'
  <2>1. CASE Expired(mem[cx])
    <3>1. \E t : t = [i \in 1 .. n - 1 |-> IF i < total + 1 THEN s[i] ELSE s[i + 1]]
      OBVIOUS
    <3>2. PICK t : t = [i \in 1 .. n - 1 |-> IF i < total + 1 THEN s[i] ELSE s[i + 1]]
      BY <3>1
    <3>3. remove_cx(s[total + 1]) /\ total' = total
      BY <2>1, <1>1, <1>3
    <3>4. /\ Live' = Live \ {cx} /\ Cardinality(Live') = n - 1
          /\ t \in [1 .. Cardinality(Live') -> Live'] /\ Listing(t)'
      BY <3>2, <3>3, <1>0, <1>2, <1>3, Removed
    <3>5. total <= n - 1 /\ next[cx] = IF total = n - 1 THEN Null ELSE t[total + 1]
      BY <3>2, <1>3, <1>4
    <3>6. ASSUME NEW i \in 1 .. total PROVE ~Expired(mem'[t[i]])
      <4>1. t[i] = s[i] /\ s[i] # cx /\ s[i] \in Cells
        BY <3>2, <1>3, <1>4 DEF Live
      <4>2. mem'[s[i]] = mem[s[i]]
        BY <4>1, <3>3, <1>0, <1>3 DEF remove_cx, TypeOK
      <4>3. QED
        BY <4>1, <4>2, <1>3
    <3>7. Visited(t)'
      BY <3>3, <3>4, <3>5, <3>6, <1>1 DEF Visited, Expired
    <3>8. QED
      BY <3>4, <3>7 DEF Enumerated
  <2>2. CASE ~Expired(mem[cx])
    <3>1. UNCHANGED listvars /\ total' = total + 1
      BY <2>2, <1>1
    <3>2. Live' = Live /\ Cardinality(Live') = n
      BY <3>1 DEF Live, listvars
    <3>3. Listing(s)'
      BY <3>1, <3>2, <1>2, Unmoved DEF listvars
    <3>4. \A i \in 1 .. total + 1 : ~Expired(mem[s[i]])
      BY <2>2, <1>3
    <3>5. next[cx] = IF total + 1 = n THEN Null ELSE s[(total + 1) + 1]
      BY <1>3, <1>4
    <3>6. Visited(s)'
      BY <3>1, <3>2, <3>4, <3>5, <1>1, <1>3 DEF Visited, Expired, listvars
    <3>7. QED
      BY <3>2, <3>3, <3>6, <1>2 DEF Enumerated
  <2>3. QED
    BY <2>1, <2>2
<1>8. (MarksOrdered /\ EvictionExact /\ LoopIdle /\ FreshEnough /\ AgesBounded)'
  BY <1>0, <1>1 DEF MarksOrdered, EvictionExact, LoopIdle, FreshEnough, AgesBounded
<1>9. QED
  BY <1>6, <1>7, <1>8 DEF IInv

\* What is not expired is fresh, however long ago the expiry was.
LEMMA FreshAfterExpiry ==
    ASSUME NEW e \in Entry, ~Expired(e), NEW time \in Nat
    PROVE  Within(e, time)
BY CacheAssumption DEF Entry, Expired, Within, CacheAssumption

LEMMA EndOfWalkKeeps == ASSUME IInv, EndOfWalk PROVE IInv'
<1> DEFINE n == Cardinality(Live)
<1>0. TypeOK /\ MarksOrdered /\ Enumerated /\ EvictionExact /\ LoopIdle /\ AgesBounded
  BY DEF IInv
<1>1. /\ pc = "walk" /\ cx = Null /\ total' = 0 /\ reply' = Null
      /\ UNCHANGED <<listvars, marks, inactive, cx, round>>
      /\ IF Evicts
         THEN cv' \in UsedLast(total - marks[1]) /\ pc' = "oldest" /\ UNCHANGED lastexpire
         ELSE pc' = "run" /\ lastexpire' = 0 /\ UNCHANGED cv
  BY DEF EndOfWalk
<1>2. PICK s \in [1 .. n -> Live] : Listing(s) /\ Visited(s)
  BY <1>0 DEF Enumerated
<1>3. total = n /\ \A c \in Live : ~Expired(mem[c])
  <2>1. n \in Nat /\ total \in Nat /\ Null \notin Live
    BY <1>0, LiveFinite, CacheAssumption DEF TypeOK, CacheAssumption, Live
  <2>2. /\ total <= n /\ Null = IF total = n THEN Null ELSE s[total + 1]
        /\ \A i \in 1 .. total : ~Expired(mem[s[i]])
    BY <1>1, <1>2 DEF Visited
  <2>3. total # n => total + 1 \in 1 .. n
    BY <2>1, <2>2
  <2>4. total = n
    BY <2>1, <2>2, <2>3
  <2>5. \A c \in Live : \E i \in 1 .. n : s[i] = c
    BY <1>2 DEF Listing
  <2>6. QED
    BY <2>2, <2>4, <2>5
<1>m. n \in Nat /\ marks[1] \in Nat /\ marks[2] \in Nat /\ marks[1] <= marks[2]
  BY <1>0, LiveFinite DEF TypeOK, MarksOrdered
<1>4. Live' = Live /\ Cardinality(Live') = n
  BY <1>1 DEF Live, listvars
<1>5. Enumerated'
  <2>1. Listing(s)' /\ Visited(s)'
    BY <1>1, <1>2, <1>4, Unmoved DEF Visited, listvars
  <2>2. QED
    BY <2>1, <1>2, <1>4 DEF Enumerated
<1>6. CASE Evicts
  <2>1. /\ pc' = "oldest" /\ lastexpire' = lastexpire
        /\ cv' \subseteq Live /\ Cardinality(cv') = n - marks[1]
    BY <1>1, <1>3, <1>6 DEF UsedLast
  <2>2. n > marks[1]
    BY <1>3, <1>6, <1>m DEF Evicts
  <2>3. cv' # {}
    <3>1. Cardinality(cv') # 0
      BY <2>1, <2>2, <1>m
    <3>2. Cardinality({}) = 0
      BY FS_EmptySet
    <3>3. QED
      BY <3>1, <3>2
  <2>4. EvictionExact'
    <3>1. /\ cv' # {} /\ cv' \subseteq Live'
          /\ Cardinality(Live') - Cardinality(cv') = marks'[1]
          /\ \A c \in Live' : ~Expired(mem'[c])
      BY <2>1, <2>3, <1>1, <1>3, <1>4, <1>m DEF listvars
    <3>2. QED
      BY <3>1 DEF EvictionExact, Expired
  <2>5. TypeOK'
    BY <2>1, <1>0, <1>1 DEF TypeOK, listvars, Live
  <2>6. (MarksOrdered /\ LoopIdle /\ FreshEnough /\ AgesBounded)'
    BY <2>1, <1>0, <1>1 DEF MarksOrdered, LoopIdle, FreshEnough, AgesBounded
  <2>7. QED
    BY <2>4, <2>5, <2>6, <1>5 DEF IInv
<1>7. CASE ~Evicts
  <2>1. pc' = "run" /\ lastexpire' = 0 /\ cv' = cv /\ cv = {}
    BY <1>0, <1>1, <1>7 DEF LoopIdle
  <2>2. TypeOK'
    BY <2>1, <1>0, <1>1 DEF TypeOK, listvars
  <2>3. Unchecked' \in Nat /\ lastexpire' # Null
    BY <2>1, <1>0, <1>1, CacheAssumption DEF Unchecked, TypeOK, CacheAssumption
  <2>4. ASSUME NEW c \in Live PROVE Within(mem[c], Unchecked')
    BY <2>3, <1>0, <1>3, FreshAfterExpiry DEF TypeOK, Live
  <2>5. AgesBounded'
    BY <2>3, <2>4, <1>0, <1>1, <1>4 DEF AgesBounded, Within, listvars
  <2>6. (MarksOrdered /\ EvictionExact /\ LoopIdle /\ FreshEnough)'
    BY <2>1, <1>0, <1>1 DEF MarksOrdered, EvictionExact, LoopIdle, FreshEnough
  <2>7. QED
    BY <2>2, <2>5, <2>6, <1>5 DEF IInv
<1>8. QED
  BY <1>6, <1>7

\* What one eviction does.
LEMMA Evicted ==
    ASSUME IInv, Evict, NEW c, c = Some(cv)
    PROVE  /\ c \in cv /\ c \in Live /\ remove_cx(c) /\ cv' = cv \ {c}
           /\ Live' = Live \ {c} /\ Cardinality(Live') = Cardinality(Live) - 1
           /\ cv' \subseteq Live' /\ Cardinality(cv') = Cardinality(cv) - 1
           /\ Cardinality(Live') - Cardinality(cv') = marks[1]
           /\ \A d \in Live' : d \in Live /\ mem'[d] = mem[d] /\ ~Expired(mem[d])
           /\ Enumerated'
<1>0. TypeOK /\ Enumerated /\ EvictionExact
  BY DEF IInv
<1>1. pc = "oldest" /\ remove_cx(c) /\ cv' = cv \ {c}
  BY DEF Evict
<1>2. /\ c \in cv /\ cv \subseteq Live
      /\ Cardinality(Live) - Cardinality(cv) = marks[1]
      /\ \A d \in Live : ~Expired(mem[d])
  BY <1>0, <1>1, SomeIn DEF EvictionExact
<1>3. PICK s \in [1 .. Cardinality(Live) -> Live] : Listing(s)
  BY <1>0 DEF Enumerated
<1>4. PICK k \in 1 .. Cardinality(Live) : s[k] = c
  BY <1>2, <1>3 DEF Listing
<1>5. \E t : t = [i \in 1 .. Cardinality(Live) - 1 |-> IF i < k THEN s[i] ELSE s[i + 1]]
  OBVIOUS
<1>6. PICK t : t = [i \in 1 .. Cardinality(Live) - 1 |-> IF i < k THEN s[i] ELSE s[i + 1]]
  BY <1>5
<1>7. /\ Live' = Live \ {c} /\ Cardinality(Live') = Cardinality(Live) - 1
      /\ t \in [1 .. Cardinality(Live') -> Live'] /\ Listing(t)'
  <2>1. remove_cx(s[k])
    BY <1>1, <1>4
  <2>2. QED
    BY <2>1, <1>0, <1>3, <1>4, <1>6, Removed
<1>8. Visited(t)'
  BY <1>1 DEF Visited, Evict
<1>9. Enumerated'
  BY <1>7, <1>8 DEF Enumerated
<1>10. /\ Cardinality(cv) \in Nat /\ Cardinality(Live) \in Nat
       /\ Cardinality(cv') = Cardinality(cv) - 1
  BY <1>1, <1>2, LiveFinite, FS_RemoveElement
<1>11. \A d \in Live' : d \in Live /\ mem'[d] = mem[d] /\ ~Expired(mem[d])
  BY <1>0, <1>1, <1>2, <1>7 DEF remove_cx, TypeOK, Live
<1>12. QED
  BY <1>1, <1>2, <1>7, <1>9, <1>10, <1>11

LEMMA EvictKeeps == ASSUME IInv, Evict PROVE IInv'
<1> DEFINE c == Some(cv)
<1>0. TypeOK /\ MarksOrdered /\ EvictionExact /\ LoopIdle /\ AgesBounded
  BY DEF IInv
<1>1. /\ pc = "oldest" /\ reply' = Null
      /\ UNCHANGED <<marks, inactive, cx, total, round>>
      /\ IF cv' = {} THEN pc' = "run" /\ lastexpire' = 0 ELSE UNCHANGED <<pc, lastexpire>>
  BY DEF Evict
<1>2. /\ c \in cv /\ c \in Live /\ remove_cx(c) /\ cv' = cv \ {c}
      /\ cv' \subseteq Live'
      /\ Cardinality(Live') - Cardinality(cv') = marks[1]
      /\ \A d \in Live' : d \in Live /\ mem'[d] = mem[d] /\ ~Expired(mem[d])
      /\ Enumerated'
  BY Evicted
<1> HIDE DEF c
<1>3. TypeOK'
  <2>1. c \in Cells /\ cv' \subseteq Cells
    BY <1>0, <1>2 DEF TypeOK, Live
  <2>2. QED
    BY <2>1, <1>0, <1>1, <1>2, RemovedTypes DEF TypeOK
<1>4. EvictionExact'
  BY <1>1, <1>2 DEF EvictionExact, Expired
<1>5. AgesBounded'
  <2>1. CASE cv' = {}
    <3>1. Unchecked' \in Nat /\ lastexpire' # Null
      BY <2>1, <1>0, <1>1, CacheAssumption DEF Unchecked, TypeOK, CacheAssumption
    <3>2. ASSUME NEW d \in Live' PROVE Within(mem'[d], Unchecked')
      BY <3>1, <1>0, <1>2, FreshAfterExpiry DEF TypeOK, Live
    <3>3. QED
      BY <3>1, <3>2, <1>0, <1>1 DEF AgesBounded, Within
  <2>2. CASE cv' # {}
    BY <2>2, <1>0, <1>1 DEF AgesBounded
  <2>3. QED
    BY <2>1, <2>2
<1>6. (MarksOrdered /\ LoopIdle /\ FreshEnough)'
  BY <1>0, <1>1 DEF MarksOrdered, LoopIdle, FreshEnough
<1>7. QED
  BY <1>2, <1>3, <1>4, <1>5, <1>6 DEF IInv

LEMMA ServerKeeps == ASSUME IInv, ServerChanges PROVE IInv'
<1>0. TypeOK /\ MarksOrdered /\ Enumerated /\ EvictionExact /\ LoopIdle /\ AgesBounded
  BY DEF IInv
<1>1. /\ pc = "run" /\ reply' = Null /\ inactive' \subseteq Srvs
      /\ UNCHANGED <<listvars, marks, loopvars, round>>
  BY <1>0 DEF ServerChanges, TypeOK
<1>2. Live' = Live /\ Cardinality(Live') = Cardinality(Live)
  BY <1>1 DEF Live, listvars
<1>3. PICK s \in [1 .. Cardinality(Live) -> Live] : Listing(s)
  BY <1>0 DEF Enumerated
<1>4. Listing(s)' /\ Visited(s)'
  BY <1>1, <1>2, <1>3, Unmoved DEF Visited, listvars, loopvars
<1>5. Enumerated'
  BY <1>2, <1>4 DEF Enumerated
<1>6. TypeOK'
  BY <1>0, <1>1 DEF TypeOK, listvars, loopvars
<1>7. AgesBounded'
  BY <1>0, <1>1, <1>2 DEF AgesBounded, Within, Unchecked, listvars, loopvars
<1>8. (MarksOrdered /\ EvictionExact /\ LoopIdle /\ FreshEnough)'
  BY <1>0, <1>1 DEF MarksOrdered, EvictionExact, LoopIdle, FreshEnough, loopvars
<1>9. QED
  BY <1>5, <1>6, <1>7, <1>8 DEF IInv

LEMMA OlderStep ==
    ASSUME NEW age \in Nat, NEW cap \in Nat
    PROVE  Older(age, cap) \in Nat /\ Older(age, cap) <= age + 1
BY DEF Older

LEMMA TickKeeps == ASSUME IInv, Tick PROVE IInv'
<1>0. TypeOK /\ MarksOrdered /\ Enumerated /\ EvictionExact /\ LoopIdle /\ AgesBounded
  BY DEF IInv
<1>1. /\ pc = "run" /\ round < RoundTime /\ round' = round + 1 /\ reply' = Null
      /\ lastexpire' = IF lastexpire = Null THEN Null ELSE Older(lastexpire, MinCycle)
      /\ UNCHANGED <<next, prev, cachelist, lastcache, marks, inactive, pc, cx, total, cv>>
  BY DEF Tick
<1>m. mem' = [c \in Cells |-> IF c \in Live
                THEN [mem[c] EXCEPT !.created = Older(mem[c].created, MaxAge),
                                    !.lastused = Older(mem[c].lastused, MaxAge)]
                ELSE Null]
  BY DEF Tick
<1>a. /\ round \in Nat /\ RoundTime \in Nat /\ MinCycle \in Nat /\ MaxAge \in Nat
      /\ MaxTime \in Nat /\ PosTime \in Nat /\ NegTime \in Nat /\ Null \notin Nat
      /\ lastexpire = Null \/ lastexpire \in Nat
  BY <1>0, CacheAssumption DEF TypeOK, CacheAssumption
<1>2. ASSUME NEW c \in Live
      PROVE  /\ c \in Cells /\ mem[c] \in Entry /\ mem'[c] \in Entry
             /\ mem[c].created \in Nat /\ mem[c].lastused \in Nat
             /\ mem'[c].created \in Nat /\ mem'[c].created <= mem[c].created + 1
             /\ mem'[c].lastused \in Nat /\ mem'[c].lastused <= mem[c].lastused + 1
             /\ mem'[c].positive = mem[c].positive
  <2>1. c \in Cells /\ mem[c] \in Entry
    BY <1>0 DEF TypeOK, Live
  <2>2. mem[c].created \in Nat /\ mem[c].lastused \in Nat
    BY <2>1 DEF Entry
  <2>3. mem'[c] = [mem[c] EXCEPT !.created = Older(mem[c].created, MaxAge),
                                 !.lastused = Older(mem[c].lastused, MaxAge)]
    BY <2>1, <1>m
  <2>4. /\ Older(mem[c].created, MaxAge) \in Nat
        /\ Older(mem[c].created, MaxAge) <= mem[c].created + 1
        /\ Older(mem[c].lastused, MaxAge) \in Nat
        /\ Older(mem[c].lastused, MaxAge) <= mem[c].lastused + 1
    BY <2>2, <1>a, OlderStep
  <2>5. QED
    BY <2>1, <2>2, <2>3, <2>4 DEF Entry
<1>3. Live' = Live /\ mem' \in [Cells -> Entry \cup {Null}]
  <2>1. \A c \in Cells : IF c \in Live THEN mem'[c] \in Entry ELSE mem'[c] = Null
    BY <1>m, <1>2
  <2>2. Live' = Live
    BY <2>1, EntryAssumption DEF Live
  <2>3. QED
    BY <1>m, <2>1, <2>2
<1>4. lastexpire' \in Nat \cup {Null} /\ round' \in Nat /\ round' <= RoundTime
  <2>1. lastexpire' \in Nat \cup {Null}
    BY <1>1, <1>a, OlderStep
  <2>2. QED
    BY <2>1, <1>1, <1>a
<1>5. TypeOK'
  BY <1>0, <1>1, <1>3, <1>4 DEF TypeOK
<1>6. Enumerated'
  <2>1. PICK s \in [1 .. Cardinality(Live) -> Live] : Listing(s)
    BY <1>0 DEF Enumerated
  <2>2. Listing(s)' /\ Visited(s)'
    BY <2>1, <1>1, <1>3, Unmoved DEF Visited
  <2>3. QED
    BY <2>2, <1>3 DEF Enumerated
<1>7. AgesBounded'
  <2>1. ASSUME NEW c \in Live
        PROVE  IF lastexpire' = Null
               THEN mem'[c].created <= round' /\ mem'[c].lastused <= round'
               ELSE Within(mem'[c], Unchecked')
    <3>1. CASE lastexpire = Null
      <4>1. mem[c].created <= round /\ mem[c].lastused <= round
        BY <3>1, <1>0, <1>1 DEF AgesBounded
      <4>2. mem'[c].created <= round + 1 /\ mem'[c].lastused <= round + 1
        BY <4>1, <1>2, <1>a
      <4>3. QED
        BY <4>2, <3>1, <1>1
    <3>2. CASE lastexpire # Null
      <4>1. Within(mem[c], Unchecked) /\ lastexpire \in Nat
        BY <3>2, <1>0, <1>1, <1>a DEF AgesBounded
      <4>2. lastexpire' = Older(lastexpire, MinCycle) /\ lastexpire' # Null
        BY <4>1, <3>2, <1>1, <1>a, OlderStep
      <4>3. /\ Unchecked \in Nat /\ Unchecked' \in Nat
            /\ Unchecked' >= Unchecked + 1
        BY <4>1, <4>2, <1>1, <1>a DEF Unchecked, Older
      <4>4. Within(mem'[c], Unchecked')
        BY <4>1, <4>3, <1>2, <1>a DEF Within
      <4>5. QED
        BY <4>2, <4>4
    <3>3. QED
      BY <3>1, <3>2
  <2>2. QED
    BY <2>1, <1>3, <1>4 DEF AgesBounded, Within
<1>8. (MarksOrdered /\ EvictionExact /\ LoopIdle /\ FreshEnough)'
  BY <1>0, <1>1 DEF MarksOrdered, EvictionExact, LoopIdle, FreshEnough
<1>9. QED
  BY <1>5, <1>6, <1>7, <1>8 DEF IInv

(* The loop of cache_expire() stands at an entry, and evicts entries.        *)
LEMMA OnList == ASSUME IInv PROVE LoopOnList
<1>1. PICK s \in [1 .. Cardinality(Live) -> Live] : Listing(s) /\ Visited(s)
  BY DEF IInv, Enumerated
<1>2. cx # Null => pc = "walk" /\ cx \in Live
  <2>1. SUFFICES ASSUME cx # Null, pc = "walk" PROVE cx \in Live
    BY DEF IInv, LoopIdle
  <2>2. total \in Nat /\ Cardinality(Live) \in Nat
    BY LiveFinite DEF IInv, TypeOK
  <2>3. total <= Cardinality(Live) /\ cx = s[total + 1] /\ total # Cardinality(Live)
    BY <1>1, <2>1 DEF Visited
  <2>4. total + 1 \in 1 .. Cardinality(Live)
    BY <2>2, <2>3
  <2>5. QED
    BY <2>3, <2>4
<1>3. \A c \in cv : pc = "oldest" /\ c \in Live
  BY DEF IInv, LoopIdle, EvictionExact
<1>4. QED
  BY <1>2, <1>3 DEF LoopOnList, Live

-----------------------------------------------------------------------------
(* The theorems                                                             *)

LEMMA StepHolds == IInv /\ [Next]_vars => IInv'
<1> SUFFICES ASSUME IInv, [Next]_vars PROVE IInv'
  OBVIOUS
<1>1. CASE UNCHANGED vars
  <2>1. Live' = Live
    BY <1>1 DEF Live, vars, listvars
  <2>2. PICK s \in [1 .. Cardinality(Live) -> Live] : Listing(s) /\ Visited(s)
    BY DEF IInv, Enumerated
  <2>3. Listing(s)' /\ Visited(s)'
    BY <2>1, <2>2, <1>1, Unmoved DEF Visited, Expired, vars, listvars, loopvars
  <2>4. Enumerated'
    BY <2>1, <2>3 DEF Enumerated
  <2>5. (TypeOK /\ MarksOrdered /\ LoopIdle /\ FreshEnough)'
    BY <1>1 DEF IInv, TypeOK, MarksOrdered, LoopIdle, FreshEnough, vars, listvars, loopvars
  <2>6. (EvictionExact /\ AgesBounded)'
    BY <2>1, <1>1 DEF IInv, EvictionExact, AgesBounded, Expired, Within, Unchecked,
                      vars, listvars, loopvars
  <2>7. QED
    BY <2>4, <2>5, <2>6 DEF IInv
<1>2. CASE Next
  <2>1. CASE \E key \in Keys, positive \in BOOLEAN, server \in Srvs :
                cache_dnspacket(key, positive, server)
    BY <2>1, StoreKeeps
  <2>2. CASE \E key \in Keys : cache_lookup(key)
    BY <2>2, LookupKeeps
  <2>3. CASE cache_expire
    BY <2>3, TooSoonKeeps, StartKeeps, VisitKeeps, EndOfWalkKeeps, EvictKeeps
       DEF cache_expire
  <2>4. CASE ServerChanges \/ Tick
    BY <2>4, ServerKeeps, TickKeeps
  <2>5. QED
    BY <1>2, <2>1, <2>2, <2>3, <2>4 DEF Next
<1>3. QED
  BY <1>1, <1>2

\* Whatever is stored, looked up, expired and evicted in whatever order, the
\* list of cache.c stays an enumeration of its entries in both directions,
\* cache_expire() stands where it has counted to, and ages are bounded.
THEOREM Invariance == Spec => []IInv
<1>1. QED
  BY InitHolds, StepHolds, PTL DEF Spec

\* The state of the cache has its types.
THEOREM TypeCorrect == Spec => []TypeOK
<1>1. IInv => TypeOK
  BY DEF IInv
<1>2. QED
  BY <1>1, Invariance, PTL

\* Whatever --cache says, the low water mark is not above the high one.
THEOREM MarksInOrder == Spec => []MarksOrdered
<1>1. IInv => MarksOrdered
  BY DEF IInv
<1>2. QED
  BY <1>1, Invariance, PTL

\* cache_expire() never follows a pointer to a freed entry.
THEOREM LoopStaysOnList == Spec => []LoopOnList
<1>1. IInv => LoopOnList
  BY OnList
<1>2. QED
  BY <1>1, Invariance, PTL

\* No lookup gives out an answer that should have been expired before.
THEOREM AnswersFresh == Spec => []FreshEnough
<1>1. IInv => FreshEnough
  BY DEF IInv
<1>2. QED
  BY <1>1, Invariance, PTL

\* After an expiry the list is within the marks of --cache.
THEOREM MarksRespected == Spec => DownToLow
<1>1. ASSUME IInv, [Next]_vars
      PROVE  [pc # "run" /\ pc' = "run" =>
                /\ Cardinality(Live') <= marks[2]
                /\ pc = "oldest" => Cardinality(Live') = marks[1]]_vars
  <2> SUFFICES ASSUME Next, pc # "run", pc' = "run"
               PROVE  /\ Cardinality(Live') <= marks[2]
                      /\ pc = "oldest" => Cardinality(Live') = marks[1]
    BY <1>1 DEF vars, loopvars
  <2>m. marks[1] \in Nat /\ marks[2] \in Nat /\ marks[1] <= marks[2]
    BY <1>1 DEF IInv, TypeOK, MarksOrdered
  <2>1. EndOfWalk \/ Evict
    BY DEF Next, cache_expire, cache_dnspacket, cache_lookup, TooSoon, StartExpiry,
           Visit, ServerChanges, Tick
  <2>2. CASE EndOfWalk
    <3>1. pc = "walk" /\ cx = Null /\ UNCHANGED listvars /\ ~Evicts
      BY <2>2 DEF EndOfWalk
    <3>2. Live' = Live
      BY <3>1 DEF Live, listvars
    <3>3. total = Cardinality(Live)
      <4>1. PICK s \in [1 .. Cardinality(Live) -> Live] : Visited(s)
        BY <1>1 DEF IInv, Enumerated
      <4>2. /\ total <= Cardinality(Live)
            /\ Null = IF total = Cardinality(Live) THEN Null ELSE s[total + 1]
        BY <3>1, <4>1 DEF Visited
      <4>3. total \in Nat /\ Cardinality(Live) \in Nat /\ Null \notin Live
        BY <1>1, LiveFinite, CacheAssumption DEF IInv, TypeOK, CacheAssumption, Live
      <4>4. total # Cardinality(Live) => total + 1 \in 1 .. Cardinality(Live)
        BY <4>2, <4>3
      <4>5. QED
        BY <4>2, <4>3, <4>4
    <3>4. QED
      BY <3>1, <3>2, <3>3, <2>m, LiveFinite DEF Evicts
  <2>3. CASE Evict
    <3>1. cv' = {}
      BY <2>3 DEF Evict
    <3>2. Cardinality(cv') = 0
      BY <3>1, FS_EmptySet
    <3>3. Cardinality(Live') - Cardinality(cv') = marks[1]
      BY <2>3, <1>1, Evicted
    <3>4. Cardinality(Live') = Cardinality(Live) - 1 /\ Cardinality(Live) \in Nat
      BY <2>3, <1>1, Evicted, LiveFinite
    <3>5. QED
      BY <3>2, <3>3, <3>4, <2>m
  <2>4. QED
    BY <2>1, <2>2, <2>3
<1>2. QED
  BY <1>1, Invariance, PTL DEF Spec, DownToLow

-----------------------------------------------------------------------------
(* The list as a sequence, and the store it implements                      *)

\* Following the links meets the entries as they are enumerated, from either end.
LEMMA WalkIs ==
    ASSUME TypeOK, NEW s \in [1 .. Cardinality(Live) -> Live], Listing(s)
    PROVE  Walk = s /\ Chain(lastcache, prev) = Reversed(s)
<1> DEFINE k == Cardinality(Live)
           r == [i \in 1 .. k |-> s[k + 1 - i]]
<1>1. k \in Nat /\ k \in 0 .. Cardinality(Cells) /\ s \in [1 .. k -> Cells] /\ next \in Pointers /\ prev \in Pointers
  <2>1. Cardinality(Live) <= Cardinality(Cells) /\ Live \subseteq Cells
    BY CacheAssumption, FS_Subset DEF CacheAssumption, Live
  <2>2. Cardinality(Cells) \in Nat
    BY CacheAssumption, FS_CardinalityType DEF CacheAssumption
  <2> QED BY <2>1, <2>2, LiveFinite DEF TypeOK
<1>2. /\ cachelist = IF k = 0 THEN Null ELSE s[1]
      /\ lastcache = IF k = 0 THEN Null ELSE s[k]
      /\ \A i \in 1 .. k : /\ next[s[i]] = IF i = k THEN Null ELSE s[i + 1]
                           /\ prev[s[i]] = IF i = 1 THEN Null ELSE s[i - 1]
  BY DEF Listing
<1> HIDE DEF k
<1>3. Walk = s
  <2>1. Leads(cachelist, next, k, s)
    BY <1>2 DEF Leads
  <2> QED BY <2>1, <1>1, ChainFollows DEF Walk
<1>4. r \in [1 .. k -> Cells] /\ lastcache = IF k = 0 THEN Null ELSE r[1]
  <2>1. \A i \in 1 .. k : k + 1 - i \in 1 .. k
    BY <1>1
  <2>2. r \in [1 .. k -> Cells]
    BY <2>1, <1>1
  <2>3. k # 0 => 1 \in 1 .. k /\ k + 1 - 1 = k
    BY <1>1
  <2>4. k # 0 => r[1] = s[k]
    BY <2>3
  <2> QED BY <2>2, <2>4, <1>2
<1>5. ASSUME NEW i \in 1 .. k PROVE prev[r[i]] = IF i = k THEN Null ELSE r[i + 1]
  <2> DEFINE m == k + 1 - i
  <2>1. m \in 1 .. k /\ r[i] = s[m] /\ (m = 1 <=> i = k) /\ (i # k => r[i + 1] = s[m - 1])
    BY <1>1
  <2> HIDE DEF r, m
  <2>2. prev[r[i]] = IF m = 1 THEN Null ELSE s[m - 1]
    BY <2>1, <1>2
  <2> QED BY <2>1, <2>2
<1>6. Chain(lastcache, prev) = r
  <2> HIDE DEF r
  <2>1. Leads(lastcache, prev, k, r)
    BY <1>4, <1>5 DEF Leads
  <2> QED BY <2>1, <1>1, <1>4, ChainFollows
<1>7. Reversed(s) = r
  <2>1. DOMAIN s = 1 .. k /\ Len(s) = k
    BY <1>1
  <2> QED BY <2>1 DEF Reversed
<1> QED BY <1>3, <1>6, <1>7

LEMMA WalkIsAfter ==
    ASSUME TypeOK', NEW s \in [1 .. Cardinality(Live') -> Live'], Listing(s)'
    PROVE  Walk' = s
<1> DEFINE k == Cardinality(Live')
<1>1. k \in 0 .. Cardinality(Cells) /\ s \in [1 .. k -> Cells] /\ next' \in Pointers
  <2>1. Live' \subseteq Cells
    BY DEF Live
  <2>2. Cardinality(Live') <= Cardinality(Cells) /\ IsFiniteSet(Live')
    BY <2>1, CacheAssumption, FS_Subset DEF CacheAssumption
  <2>3. Cardinality(Cells) \in Nat /\ Cardinality(Live') \in Nat
    BY <2>2, CacheAssumption, FS_CardinalityType DEF CacheAssumption
  <2> QED BY <2>1, <2>2, <2>3 DEF TypeOK
<1>2. /\ cachelist' = IF k = 0 THEN Null ELSE s[1]
      /\ \A i \in 1 .. k : next'[s[i]] = IF i = k THEN Null ELSE s[i + 1]
  BY DEF Listing
<1> HIDE DEF k
<1>3. Leads(cachelist', next', k, s)
  BY <1>2 DEF Leads
<1> QED BY <1>1, <1>3, ChainFollows DEF Walk

\* From the first entry and from the last the same entries are met, in opposite
\* orders: all there are, each once, and no cell that remove_cx() has freed.
THEOREM ListStaysWhole == Spec => []ListWhole
<1>1. IInv => ListWhole
  <2> SUFFICES ASSUME IInv PROVE ListWhole
    OBVIOUS
  <2>1. PICK s \in [1 .. Cardinality(Live) -> Live] : Listing(s)
    BY DEF IInv, Enumerated
  <2>2. Walk = s /\ Chain(lastcache, prev) = Reversed(s)
    BY <2>1, WalkIs DEF IInv
  <2>3. Len(s) = Cardinality(Live) /\ DOMAIN s = 1 .. Cardinality(Live)
    BY LiveFinite
  <2>4. {s[i] : i \in DOMAIN s} = Live
    BY <2>1, <2>3 DEF Listing
  <2> QED BY <2>2, <2>3, <2>4 DEF ListWhole
<1> QED BY <1>1, Invariance, PTL

\* What a step of the store leaves to be shown about one of the cache.
LEMMA NothingGiven ==
    ASSUME reply' = Null, Contents(Walk)' = Contents(Walk)
    PROVE  Store!Next
BY DEF Store!Next, Store!GiveNothing

LEMMA SameContents ==
    ASSUME IInv, UNCHANGED <<next, cachelist>>, Live' = Live,
           \A c \in Live : Content(mem'[c]) = Content(mem[c])
    PROVE  Contents(Walk)' = Contents(Walk)
<1>1. PICK s \in [1 .. Cardinality(Live) -> Live] : Listing(s)
  BY DEF IInv, Enumerated
<1>2. Walk = s
  BY <1>1, WalkIs DEF IInv
<1>3. Walk' = Walk
  BY DEF Walk, Chain
<1>4. \A i \in DOMAIN s : s[i] \in Live
  BY <1>1
<1>5. \A i \in DOMAIN s : Content(mem'[s[i]]) = Content(mem[s[i]])
  BY <1>4
<1> QED BY <1>2, <1>3, <1>5 DEF Contents

LEMMA StoreAppends ==
    ASSUME IInv, IInv', NEW key \in Keys, NEW positive \in BOOLEAN, NEW server \in Srvs,
           cache_dnspacket(key, positive, server)
    PROVE  Store!Next
<1> DEFINE n == Cardinality(Live)
           c == Some(Cells \ Live)
           e == [key |-> key, positive |-> positive, server |-> server,
                 created |-> 0, lastused |-> 0]
<1>1. /\ c \in Cells \ Live /\ e \in Entry /\ Content(e) = <<key, positive, server>>
      /\ mem' = [mem EXCEPT ![c] = e] /\ append_cx(c) /\ reply' = Null
  BY SomeIn DEF cache_dnspacket, Entry, Content
<1>2. TypeOK /\ TypeOK' /\ n \in Nat
  BY LiveFinite DEF IInv
<1> HIDE DEF c, e
<1>3. Live' = Live \cup {c} /\ Cardinality(Live') = n + 1
  BY <1>1, <1>2, Stored
<1>4. PICK s \in [1 .. n -> Live] : Listing(s)
  BY DEF IInv, Enumerated
<1>5. \E t : t = [i \in 1 .. n + 1 |-> IF i <= n THEN s[i] ELSE c]
  OBVIOUS
<1>6. PICK t : t = [i \in 1 .. n + 1 |-> IF i <= n THEN s[i] ELSE c]
  BY <1>5
<1>7. t \in [1 .. Cardinality(Live') -> Live'] /\ Listing(t)'
  BY <1>1, <1>2, <1>3, <1>4, <1>6, Appended
<1>8. Walk = s /\ Walk' = t
  BY <1>2, <1>4, <1>7, WalkIs, WalkIsAfter
<1> HIDE DEF n
<1>9. /\ Contents(Walk) = [i \in 1 .. n |-> Content(mem[s[i]])]
      /\ Contents(Walk)' = [i \in 1 .. n + 1 |-> Content(mem'[t[i]])]
  BY <1>4, <1>6, <1>8 DEF Contents
<1>10. /\ \A i \in 1 .. n : mem'[t[i]] = mem[s[i]]
       /\ mem'[t[n + 1]] = e
  BY <1>1, <1>2, <1>4, <1>6 DEF TypeOK, Live
<1>11. Contents(Walk)' = Append(Contents(Walk), <<key, positive, server>>)
  <2> DEFINE a == <<key, positive, server>>
             u == [i \in 1 .. n |-> Content(mem[s[i]])]
             v == [i \in 1 .. n + 1 |-> Content(mem'[t[i]])]
  <2>1. \A i \in 1 .. n : v[i] = u[i]
    BY <1>2, <1>10
  <2>2. v[n + 1] = a
    BY <1>1, <1>2, <1>10
  <2>3. u \in Seq({u[i] : i \in 1 .. n}) /\ Len(u) = n /\ DOMAIN v = 1 .. n + 1
    BY <1>2
  <2>4. v = Append(u, a)
    <3> HIDE DEF a
    <3> DEFINE w == Append(u, a)
    <3>1. DOMAIN w = 1 .. n + 1 /\ w = [i \in 1 .. n + 1 |-> w[i]]
      BY <2>3, <1>2
    <3>2. \A i \in 1 .. n + 1 : w[i] = v[i]
      <4>1. \A i \in 1 .. n : w[i] = u[i]
        BY <2>3, <1>2
      <4>2. w[n + 1] = a
        BY <2>3, <1>2
      <4>3. \A i \in 1 .. n + 1 : i \in 1 .. n \/ i = n + 1
        BY <1>2
      <4> HIDE DEF u, v, w
      <4> QED BY <4>1, <4>2, <4>3, <2>1, <2>2
    <3>3. v = [i \in 1 .. n + 1 |-> v[i]]
      OBVIOUS
    <3> HIDE DEF v, w
    <3> QED BY <3>1, <3>2, <3>3 DEF w
  <2> QED BY <2>4, <1>9
<1>12. Store!Keep
  BY <1>1, <1>11 DEF Store!Keep
<1> QED BY <1>12 DEF Store!Next

LEMMA RemovalForgets ==
    ASSUME IInv, TypeOK', reply' = Null, NEW c \in Live, remove_cx(c)
    PROVE  Store!Next
<1> DEFINE n == Cardinality(Live)
<1>1. TypeOK /\ n \in Nat
  BY LiveFinite DEF IInv
<1>2. PICK s \in [1 .. n -> Live] : Listing(s)
  BY DEF IInv, Enumerated
<1>3. PICK k \in 1 .. n : s[k] = c
  BY <1>2 DEF Listing
<1>4. \E t : t = [i \in 1 .. n - 1 |-> IF i < k THEN s[i] ELSE s[i + 1]]
  OBVIOUS
<1>5. PICK t : t = [i \in 1 .. n - 1 |-> IF i < k THEN s[i] ELSE s[i + 1]]
  BY <1>4
<1>6. /\ Live' = Live \ {c} /\ Cardinality(Live') = n - 1
      /\ t \in [1 .. Cardinality(Live') -> Live'] /\ Listing(t)'
  <2>1. remove_cx(s[k])
    BY <1>3
  <2> QED BY <2>1, <1>1, <1>2, <1>3, <1>5, Removed
<1>7. Walk = s /\ Walk' = t
  BY <1>1, <1>2, <1>6, WalkIs, WalkIsAfter
<1>8. \A i, j \in 1 .. n : s[i] = s[j] => i = j
  BY <1>2 DEF Listing
<1>m. mem' = [mem EXCEPT ![c] = Null]
  BY DEF remove_cx
<1> HIDE DEF n
<1> DEFINE u == [i \in 1 .. n |-> Content(mem[s[i]])]
           v == [i \in 1 .. n - 1 |-> Content(mem'[t[i]])]
<1>9. Contents(Walk) = u /\ Contents(Walk)' = v
  BY <1>2, <1>5, <1>7 DEF Contents
<1>10. \A i \in 1 .. n - 1 : v[i] = IF i < k THEN u[i] ELSE u[i + 1]
  <2> TAKE i \in 1 .. n - 1
  <2>1. t[i] = IF i < k THEN s[i] ELSE s[i + 1]
    BY <1>5
  <2>2. i \in 1 .. n /\ i + 1 \in 1 .. n /\ t[i] # c /\ t[i] \in Cells
    BY <2>1, <1>1, <1>3, <1>8, <1>2 DEF Live
  <2>3. mem'[t[i]] = mem[t[i]]
    BY <2>2, <1>1, <1>m DEF TypeOK
  <2> QED BY <2>1, <2>2, <2>3
<1>11. v = SubSeq(u, 1, k - 1) \o SubSeq(u, k + 1, Len(u))
  <2>1. u \in Seq({u[i] : i \in 1 .. n}) /\ Len(u) = n /\ k \in 1 .. n
    BY <1>1, <1>3
  <2>2. DOMAIN v = 1 .. n - 1 /\ v = [i \in 1 .. n - 1 |-> v[i]]
    OBVIOUS
  <2> HIDE DEF u, v
  <2> DEFINE w == SubSeq(u, 1, k - 1) \o SubSeq(u, k + 1, Len(u))
  <2>3. DOMAIN w = 1 .. n - 1 /\ w = [i \in 1 .. n - 1 |-> w[i]]
    BY <2>1, <1>1
  <2>4. \A i \in 1 .. n - 1 : w[i] = IF i < k THEN u[i] ELSE u[i + 1]
    BY <2>1, <1>1
  <2>5. w = v
    <3> HIDE DEF w
    <3> QED BY <2>2, <2>3, <2>4, <1>10
  <2> QED BY <2>5
<1>12. k \in DOMAIN u
  BY <1>3
<1>13. Contents(Walk)' \in Store!Shorter(Contents(Walk))
  <2> HIDE DEF u, v
  <2> QED BY <1>9, <1>11, <1>12 DEF Store!Shorter
<1> QED BY <1>13 DEF Store!Next, Store!Forget

LEMMA LookupGives ==
    ASSUME IInv, NEW key \in Keys, cache_lookup(key)
    PROVE  Store!Next
<1>1. PICK s \in [1 .. Cardinality(Live) -> Live] : Listing(s)
  BY DEF IInv, Enumerated
<1>2. Walk = s /\ TypeOK
  BY <1>1, WalkIs DEF IInv
<1>u. UNCHANGED <<next, cachelist>>
  BY DEF cache_lookup
<1>e. \A c \in Live : c \in Cells /\ mem[c] \in Entry
  BY <1>2 DEF TypeOK, Live
<1>3. CASE Found(key) = {} /\ reply' = Null /\ UNCHANGED mem
  <2>1. Live' = Live
    BY <1>3 DEF Live
  <2> QED BY <2>1, <1>3, <1>u, SameContents, NothingGiven
<1>4. ASSUME NEW c \in Found(key),
             mem' = IF mem[c].positive THEN [mem EXCEPT ![c].lastused = 0] ELSE mem,
             reply' = [asked |-> key, entry |-> mem[c],
                       hit |-> ~(IgnoreInactive /\ mem[c].server \in inactive)]
      PROVE  Store!Next
  <2>1. c \in Live /\ \E i \in DOMAIN s :
            /\ s[i] = c /\ mem[c].key = key
            /\ \A j \in 1 .. i - 1 : mem[s[j]].key # key
    BY <1>2 DEF Found
  <2>2. PICK i \in DOMAIN s : /\ s[i] = c /\ mem[c].key = key
                              /\ \A j \in 1 .. i - 1 : mem[s[j]].key # key
    BY <2>1
  <2>3. \A d \in Cells : mem'[d] = mem[d] \/ (d = c /\ mem'[d] = [mem[d] EXCEPT !.lastused = 0])
    BY <1>4, <1>2, <1>e, <2>1 DEF TypeOK
  <2>4. ASSUME NEW e \in Entry
        PROVE  /\ Content([e EXCEPT !.lastused = 0]) = Content(e)
               /\ [e EXCEPT !.lastused = 0] \in Entry
    BY DEF Content, Entry
  <2>5. Live' = Live
    <3>1. \A d \in Live : mem'[d] \in Entry
      BY <2>3, <2>4, <1>e
    <3>2. \A d \in Cells : d \notin Live => mem'[d] = Null
      BY <2>1, <2>3 DEF Live
    <3> QED BY <3>1, <3>2, EntryAssumption DEF Live
  <2>6. \A d \in Live : Content(mem'[d]) = Content(mem[d])
    BY <2>3, <2>4, <1>e
  <2>7. Contents(Walk)' = Contents(Walk)
    BY <2>5, <2>6, <1>u, SameContents
  <2> DEFINE u == [j \in DOMAIN s |-> Content(mem[s[j]])]
  <2>8. Contents(Walk) = u /\ DOMAIN u = DOMAIN s
    BY <1>2 DEF Contents
  <2>9. u[i] = Content(mem[c]) /\ u[i][1] = key /\ \A j \in 1 .. i - 1 : u[j][1] # u[i][1]
    <3>1. \A j \in 1 .. i - 1 : j \in DOMAIN s
      BY <2>2, LiveFinite
    <3> QED BY <3>1, <2>2 DEF Content
  <2>10. Content(mem[c]) \in Store!Firsts(Contents(Walk))
    <3> HIDE DEF u
    <3> QED BY <2>2, <2>8, <2>9 DEF Store!Firsts
  <2>11. reply'.entry = mem[c]
    BY <1>4
  <2> QED BY <2>7, <2>10, <2>11 DEF Store!Next, Store!Give, Store!GiveNothing
<1> QED BY <1>3, <1>4 DEF cache_lookup

\* The linked list of cache.c, with the removals of cache_expire() in the middle
\* of it, is a store that keeps answers in the order they came, forgets one at a
\* time, and gives out the first for the question, as it was stored.
THEOREM CacheImplementsStore == Spec => ImplementsStore
<1>1. Init => Store!Init
  <2> SUFFICES ASSUME Init PROVE Store!Init
    OBVIOUS
  <2>1. PICK s \in [1 .. Cardinality(Live) -> Live] : Listing(s)
    BY InitHolds DEF IInv, Enumerated
  <2>2. Walk = s
    BY <2>1, InitHolds, WalkIs DEF IInv
  <2>3. Cardinality(Live) = 0
    BY FS_EmptySet DEF Init, Live
  <2>4. Walk = <<>>
    BY <2>1, <2>2, <2>3
  <2> QED BY <2>4 DEF Init, Store!Init, Contents
<1>2. ASSUME IInv, IInv', [Next]_vars
      PROVE  [Store!Next]_<<Contents(Walk), IF reply # Null /\ reply.hit THEN Content(reply.entry) ELSE Null>>
  <2>1. CASE UNCHANGED vars
    <3>1. UNCHANGED <<mem, next, cachelist, reply>>
      BY <2>1 DEF vars, listvars
    <3> QED BY <3>1 DEF Walk, Chain, Contents
  <2>2. CASE \E key \in Keys, positive \in BOOLEAN, server \in Srvs :
                cache_dnspacket(key, positive, server)
    BY <2>2, <1>2, StoreAppends
  <2>3. CASE \E key \in Keys : cache_lookup(key)
    BY <2>3, <1>2, LookupGives
  <2>4. CASE TooSoon \/ StartExpiry \/ EndOfWalk \/ ServerChanges
    <3>1. UNCHANGED listvars /\ reply' = Null
      BY <2>4 DEF TooSoon, StartExpiry, EndOfWalk, ServerChanges
    <3>2. UNCHANGED <<mem, next, cachelist>> /\ Live' = Live
      BY <3>1 DEF listvars, Live
    <3> QED BY <3>1, <3>2, <1>2, SameContents, NothingGiven
  <2>5. CASE Visit
    <3>1. reply' = Null /\ cx # Null
      BY <2>5 DEF Visit
    <3>2. CASE UNCHANGED listvars
      <4>1. UNCHANGED <<mem, next, cachelist>> /\ Live' = Live
        BY <3>2 DEF listvars, Live
      <4> QED BY <4>1, <3>1, <1>2, SameContents, NothingGiven
    <3>3. CASE remove_cx(cx)
      <4>1. cx \in Live
        BY <3>1, <1>2, OnList DEF LoopOnList, Live, IInv, TypeOK
      <4> QED BY <4>1, <3>1, <3>3, <1>2, RemovalForgets DEF IInv
    <3> QED BY <3>2, <3>3, <2>5 DEF Visit
  <2>6. CASE Evict
    <3>1. Some(cv) \in Live /\ remove_cx(Some(cv))
      BY <2>6, <1>2, Evicted
    <3>2. reply' = Null
      BY <2>6 DEF Evict
    <3> QED BY <3>1, <3>2, <1>2, RemovalForgets DEF IInv
  <2>7. CASE Tick
    <3>1. /\ UNCHANGED <<next, cachelist>> /\ reply' = Null
          /\ mem' = [c \in Cells |-> IF c \in Live
                      THEN [mem[c] EXCEPT !.created = Older(mem[c].created, MaxAge),
                                          !.lastused = Older(mem[c].lastused, MaxAge)]
                      ELSE Null]
      BY <2>7 DEF Tick
    <3>2. \A c \in Live : c \in Cells /\ mem[c] \in Entry
      BY <1>2 DEF IInv, TypeOK, Live
    <3>3. \A c \in Live : Content(mem'[c]) = Content(mem[c])
      BY <3>1, <3>2 DEF Content, Entry
    <3>4. Live' = Live
      <4>1. \A c \in Cells : mem'[c] # Null => c \in Live
        BY <3>1
      <4>2. mem' \in [Cells -> Entry \cup {Null}]
        BY <1>2 DEF IInv, TypeOK
      <4>3. \A c \in Live : DOMAIN mem'[c] = DOMAIN mem[c]
        BY <3>1, <3>2
      <4>4. \A c \in Live : mem'[c] \in Entry
        <5> TAKE c \in Live
        <5>1. mem[c] \in Entry /\ mem[c].created \in Nat /\ mem[c].lastused \in Nat /\ MaxAge \in Nat
          BY <3>2, CacheAssumption DEF Entry, CacheAssumption
        <5>2. Older(mem[c].created, MaxAge) \in Nat /\ Older(mem[c].lastused, MaxAge) \in Nat
          BY <5>1, OlderStep
        <5> QED BY <5>1, <5>2, <3>1, <3>2 DEF Entry
      <4> QED BY <4>1, <4>4, <3>2, EntryAssumption DEF Live
    <3> QED BY <3>1, <3>3, <3>4, <1>2, SameContents, NothingGiven
  <2> QED BY <2>1, <2>2, <2>3, <2>4, <2>5, <2>6, <2>7, <1>2 DEF Next, cache_expire
<1> QED BY <1>1, <1>2, Invariance, PTL DEF Spec, ImplementsStore, Store!Spec
-----------------------------------------------------------------------------
(* Every expiry is finite work                                              *)

\* The turns cache_expire() has left at most: a visit to an entry moves on or
\* frees it, and the entries counted may have to be evicted.
TurnsLeft ==
    CASE pc = "walk" -> 2 * Cardinality(Live) - total + 1
      [] pc = "oldest" -> Cardinality(cv)
      [] OTHER -> 0

\* In the walk no more is counted than there is, at its end all of it.
LEMMA WalkCounts ==
    ASSUME IInv, pc = "walk"
    PROVE  /\ Cardinality(Live) \in Nat /\ total \in 0 .. Cardinality(Live)
           /\ cx # Null <=> total < Cardinality(Live)
           /\ cx # Null => \E s \in [1 .. Cardinality(Live) -> Live],
                               k \in 1 .. Cardinality(Live) : Listing(s) /\ s[k] = cx
<1>1. PICK s \in [1 .. Cardinality(Live) -> Live] : Listing(s) /\ Visited(s)
  BY DEF IInv, Enumerated
<1>2. Cardinality(Live) \in Nat /\ total \in Nat /\ Null \notin Live
  BY LiveFinite, CacheAssumption DEF IInv, TypeOK, CacheAssumption, Live
<1>3. /\ total <= Cardinality(Live)
      /\ cx = IF total = Cardinality(Live) THEN Null ELSE s[total + 1]
  BY <1>1 DEF Visited
<1>4. total # Cardinality(Live) => total + 1 \in 1 .. Cardinality(Live) /\ cx \in Live
  BY <1>1, <1>2, <1>3
<1>5. QED
  BY <1>1, <1>2, <1>3, <1>4

LEMMA StartIsBounded ==
    ASSUME IInv, StartExpiry
    PROVE  TurnsLeft' = 2 * Cardinality(Live) + 1
<1>1. pc' = "walk" /\ total' = 0 /\ mem' = mem
  BY DEF StartExpiry, listvars
<1>2. Live' = Live
  BY <1>1 DEF Live
<1>3. Cardinality(Live) \in Nat
  BY LiveFinite
<1>4. QED
  BY <1>1, <1>2, <1>3 DEF TurnsLeft

LEMMA VisitIsTurn ==
    ASSUME IInv, Visit
    PROVE  TurnsLeft \in Nat /\ TurnsLeft' \in Nat /\ TurnsLeft' < TurnsLeft
<1> DEFINE n == Cardinality(Live)
<1>1. /\ pc = "walk" /\ pc' = "walk" /\ cx # Null
      /\ IF Expired(mem[cx]) THEN remove_cx(cx) /\ total' = total
         ELSE total' = total + 1 /\ mem' = mem
  BY DEF Visit, listvars
<1>2. n \in Nat /\ total \in 0 .. n /\ total < n
  BY <1>1, WalkCounts
<1>3. CASE Expired(mem[cx])
  <2>1. cx \in Live
    BY <1>1, WalkCounts
  <2>2. Cardinality(Live') = n - 1 /\ total' = total
    BY <1>1, <1>3, <2>1, Freed DEF remove_cx, IInv
  <2>3. QED
    BY <1>1, <1>2, <2>2 DEF TurnsLeft
<1>4. CASE ~Expired(mem[cx])
  <2>1. Live' = Live /\ total' = total + 1
    BY <1>1, <1>4 DEF Live
  <2>2. QED
    BY <1>1, <1>2, <2>1 DEF TurnsLeft
<1>5. QED
  BY <1>3, <1>4

LEMMA EndIsTurn ==
    ASSUME IInv, EndOfWalk
    PROVE  TurnsLeft \in Nat /\ TurnsLeft' \in Nat /\ TurnsLeft' < TurnsLeft
<1> DEFINE n == Cardinality(Live)
<1>1. /\ pc = "walk" /\ cx = Null
      /\ \/ pc' = "run"
         \/ pc' = "oldest" /\ cv' \in UsedLast(total - marks[1])
  BY DEF EndOfWalk
<1>2. n \in Nat /\ total = n
  BY <1>1, WalkCounts
<1>3. TurnsLeft = n + 1
  BY <1>1, <1>2 DEF TurnsLeft
<1>4. CASE pc' = "run"
  BY <1>2, <1>3, <1>4 DEF TurnsLeft
<1>5. CASE pc' = "oldest" /\ cv' \in UsedLast(total - marks[1])
  <2>1. Cardinality(cv') = n - marks[1] /\ Cardinality(cv') \in Nat
    BY <1>2, <1>5, LiveFinite DEF UsedLast
  <2>2. marks[1] \in Nat
    BY DEF IInv, TypeOK
  <2>3. TurnsLeft' = n - marks[1] /\ TurnsLeft' \in Nat
    BY <1>5, <2>1 DEF TurnsLeft
  <2>4. QED
    BY <1>2, <1>3, <2>2, <2>3
<1>6. QED
  BY <1>1, <1>4, <1>5

LEMMA EvictIsTurn ==
    ASSUME IInv, Evict
    PROVE  TurnsLeft \in Nat /\ TurnsLeft' \in Nat /\ TurnsLeft' < TurnsLeft
<1>1. pc = "oldest" /\ pc' \in {"run", "oldest"}
  BY DEF Evict
<1>2. Cardinality(cv') = Cardinality(cv) - 1 /\ cv # {} /\ cv \subseteq Live
  BY <1>1, Evicted DEF IInv, EvictionExact
<1>3. Cardinality(cv) \in Nat /\ Cardinality(cv) # 0
  BY <1>2, LiveFinite, FS_EmptySet
<1>4. TurnsLeft = Cardinality(cv)
  BY <1>1 DEF TurnsLeft
<1>5. TurnsLeft' = 0 \/ TurnsLeft' = Cardinality(cv')
  BY <1>1 DEF TurnsLeft
<1>6. QED
  BY <1>2, <1>3, <1>4, <1>5

\* However many entries there are, whatever their ages and the water marks:
\* cache_expire() is through with n entries after 2 * n + 1 turns at most, also
\* where the loop frees the entry it stands at.
THEOREM ExpiryIsBounded ==
    Spec => [][/\ pc = "run" /\ pc' # "run" => TurnsLeft' = 2 * Cardinality(Live) + 1
               /\ pc # "run" => TurnsLeft \in Nat /\ TurnsLeft' \in Nat
                                /\ TurnsLeft' < TurnsLeft]_vars
<1> DEFINE Bounded ==
      /\ pc = "run" /\ pc' # "run" => TurnsLeft' = 2 * Cardinality(Live) + 1
      /\ pc # "run" => TurnsLeft \in Nat /\ TurnsLeft' \in Nat /\ TurnsLeft' < TurnsLeft
<1>1. ASSUME IInv, Next, pc = "run", pc' # "run"
      PROVE  TurnsLeft' = 2 * Cardinality(Live) + 1
  <2>1. StartExpiry
    BY <1>1 DEF Next, cache_expire, cache_dnspacket, cache_lookup, TooSoon, Visit,
                EndOfWalk, Evict, ServerChanges, Tick, loopvars
  <2>2. QED
    BY <1>1, <2>1, StartIsBounded
<1>2. ASSUME IInv, Next, pc # "run"
      PROVE  TurnsLeft \in Nat /\ TurnsLeft' \in Nat /\ TurnsLeft' < TurnsLeft
  <2>1. Visit \/ EndOfWalk \/ Evict
    BY <1>2 DEF Next, cache_expire, cache_dnspacket, cache_lookup, TooSoon, StartExpiry,
                ServerChanges, Tick
  <2>2. QED
    BY <1>2, <2>1, VisitIsTurn, EndIsTurn, EvictIsTurn
<1>3. IInv /\ [Next]_vars => [Bounded]_vars
  BY <1>1, <1>2
<1>4. Spec => [][Bounded]_vars
  <2> HIDE DEF Bounded
  <2>1. QED
    BY <1>3, Invariance, PTL DEF Spec
<1>5. QED
  BY <1>4
=============================================================================
