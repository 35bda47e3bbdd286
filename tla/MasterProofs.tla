---------------------------- MODULE MasterProofs ----------------------------
(* get_objname() stays within the packet and the buffer, for every packet   *)
(* and every size of the buffer, and returns the name that is there; and so *)
(* it does where parse_query() calls it, question after question and with   *)
(* any files.  The table made of any files covers the addresses in it,      *)
(* every question is answered, or forwarded, as the files say, and every    *)
(* reply that fits its buffer reads back as what the table says.            *)
EXTENDS Master, FiniteSetTheorems, SequenceTheorems, Induction, TLAPS

---------------------------------------------------------------------------
(* The loop of get_objname() stays inside *)

(* The bytes of a packet, and the numbers made of them.                    *)
LEMMA BytesOf ==
    ASSUME NEW p \in Seq(Bytes)
    PROVE  Len(p) \in Nat /\ \A k \in 0 .. Len(p) - 1 : p[k + 1] \in 0 .. 255
<1>1. Len(p) \in Nat /\ p \in [1 .. Len(p) -> Bytes]
  OBVIOUS
<1>2. ASSUME NEW k \in 0 .. Len(p) - 1 PROVE p[k + 1] \in 0 .. 255
  <2>1. k + 1 \in 1 .. Len(p)
    BY <1>1
  <2> QED BY <2>1, <1>1 DEF Bytes
<1> QED BY <1>1, <1>2

LEMMA PacketBytes ==
    ASSUME msg \in Packets
    PROVE  /\ Len(msg) \in Nat /\ Len(msg) >= 12
           /\ \A k \in 0 .. Len(msg) - 1 : Byte(k) \in 0 .. 255
<1>1. msg \in Seq(Bytes) /\ Len(msg) >= 12
  BY DnsNameAssumption
<1> QED BY <1>1, BytesOf DEF Byte

(* A pointer of two bytes is a natural number.                             *)
LEMMA PointerNumber ==
    ASSUME NEW b \in 0 .. 255, NEW l \in 0 .. 255
    PROVE  (b % 64) * 256 + l \in Nat
<1>1. b % 64 \in 0 .. 63
  OBVIOUS
<1> QED BY <1>1

(* The loop begins behind the header.                                      *)
THEOREM InitInv == NameInit => NameInv
<1> SUFFICES ASSUME NameInit PROVE NameInv
  OBVIOUS
<1>1. Len(msg) \in Nat /\ DestSize \in Nat \ {0} /\ Len(msg) >= 12
  BY PacketBytes, DnsNameAssumption DEF NameInit
<1>2. dest \in Seq(Bytes)
  BY DEF NameInit
<1>3. NameTypeOK
  BY <1>2 DEF NameInit, NameTypeOK, PACKET_DATABEGIN
<1>4. InBounds
  BY <1>1 DEF NameInit, InBounds, PACKET_DATABEGIN
<1>5. PlaceKept
  BY <1>1 DEF NameInit, PlaceKept, PACKET_DATABEGIN
<1> QED BY <1>3, <1>4, <1>5 DEF NameInv

(* Every turn of the loop keeps it inside.                                 *)
LEMMA StepInv == NameInv /\ [NameNext]_nameVars => NameInv'
<1> SUFFICES ASSUME NameInv, [NameNext]_nameVars PROVE NameInv'
  OBVIOUS
<1>1. /\ Len(msg) \in Nat /\ Len(msg) >= 12 /\ DestSize \in Nat \ {0}
      /\ \A k \in 0 .. Len(msg) - 1 : Byte(k) \in 0 .. 255
  BY PacketBytes, DnsNameAssumption DEF NameInv, NameTypeOK
<1>2. /\ msg \in Packets /\ i \in Nat /\ j \in Nat \cup {-1} /\ depth \in Nat /\ compressed \in Nat
      /\ dest \in Seq(Bytes)
  BY DEF NameInv, NameTypeOK
<1>3. pc = "name" =>
        /\ i \in 0 .. Len(msg) - 1 /\ j \in 0 .. DestSize - 1 /\ depth < Len(msg)
        /\ Byte(i) \in 0 .. 255
        /\ compressed \in {0} \cup (14 .. Len(msg)) /\ (compressed = 0 => i >= 12)
  <2> SUFFICES ASSUME pc = "name"
               PROVE  /\ i \in 0 .. Len(msg) - 1 /\ j \in 0 .. DestSize - 1 /\ depth < Len(msg)
                      /\ Byte(i) \in 0 .. 255
                      /\ compressed \in {0} \cup (14 .. Len(msg)) /\ (compressed = 0 => i >= 12)
    OBVIOUS
  <2>1. i \in 0 .. Len(msg) - 1 /\ j \in 0 .. DestSize - 1 /\ depth < Len(msg)
    BY DEF NameInv, InBounds
  <2>2. Byte(i) \in 0 .. 255
    BY <2>1, <1>1
  <2>3. compressed \in {0} \cup (12 + 2 .. Len(msg)) /\ (compressed = 0 => i >= 12)
    BY DEF NameInv, PlaceKept, PACKET_DATABEGIN
  <2>4. 12 + 2 = 14
    OBVIOUS
  <2> QED BY <2>1, <2>2, <2>3, <2>4
<1>4. CASE EndOfName
  <2>1. /\ msg' = msg /\ depth' = depth /\ compressed' = compressed /\ j' = j - 1
        /\ i' = IF compressed = 0 THEN i + 1 ELSE compressed
        /\ pc' \in {"done", "refused"}
    BY <1>4 DEF EndOfName
  <2>2. pc = "name" /\ dest' = SubSeq(dest, 1, Len(dest) - 1)
    BY <1>4 DEF EndOfName
  <2>3. dest' \in Seq(Bytes)
    BY <2>2, <1>2
  <2>4. i' \in 13 .. Len(msg) /\ j' \in -1 .. DestSize - 2
    BY <2>1, <2>2, <1>1, <1>2, <1>3
  <2>5. NameTypeOK'
    BY <2>1, <2>3, <2>4, <1>1, <1>2 DEF NameTypeOK
  <2>6. InBounds'
    BY <2>1, <2>4 DEF InBounds, PACKET_DATABEGIN
  <2>7. PlaceKept'
    BY <2>1 DEF PlaceKept
  <2> QED BY <2>5, <2>6, <2>7 DEF NameInv
<1>5. CASE FollowPointer
  <2> DEFINE t == Target(Byte(i))
  <2>1. /\ pc = "name" /\ msg' = msg /\ j' = j /\ dest' = dest /\ pc' = pc
        /\ i' = t /\ depth' = depth + 1 /\ compressed' = FirstPointer
        /\ ~Truncated /\ ~TooDeep /\ t < Len(msg)
    BY <1>5 DEF FollowPointer, Deeper
  <2>2. i + 1 \in 0 .. Len(msg) - 1
    BY <2>1, <1>1, <1>3 DEF Truncated
  <2>3. Byte(i + 1) \in 0 .. 255
    BY <2>2, <1>1
  <2>4. t \in 0 .. Len(msg) - 1
    <3>1. Byte(i) \in 0 .. 255
      BY <1>3, <2>1
    <3>2. t \in Nat
      BY <3>1, <2>3, PointerNumber DEF Target
    <3> QED BY <3>2, <2>1, <1>1
  <2> HIDE DEF t
  <2>5. depth' < Len(msg) /\ depth' \in Nat
    BY <2>1, <1>1, <1>2 DEF TooDeep, Deeper
  <2>6. compressed' \in 14 .. Len(msg)
    BY <2>1, <2>2, <1>1, <1>2, <1>3 DEF FirstPointer
  <2>7. NameTypeOK'
    BY <2>1, <2>4, <2>5, <2>6, <1>2, <1>1 DEF NameTypeOK
  <2>8. InBounds'
    BY <2>1, <2>4, <2>5, <1>3 DEF InBounds
  <2>9. PlaceKept'
    BY <2>1, <2>6, <1>1 DEF PlaceKept, PACKET_DATABEGIN
  <2> QED BY <2>7, <2>8, <2>9 DEF NameInv
<1>6. CASE CopyLabel
  <2> DEFINE c == Byte(i)
  <2>1. /\ pc = "name" /\ msg' = msg /\ depth' = depth /\ compressed' = compressed /\ pc' = pc
        /\ j' = j + c + 1 /\ i' = i + 1 + c /\ c \in 1 .. 63 /\ ~LabelCrosses(c)
    BY <1>6 DEF CopyLabel
  <2>2. dest' = dest \o SubSeq(msg, i + 2, i + 1 + c) \o <<Dot>>
    BY <1>6 DEF CopyLabel
  <2> HIDE DEF c
  <2>3. dest' \in Seq(Bytes)
    <3> DEFINE label == SubSeq(msg, i + 2, i + 1 + c)
    <3>1. msg \in Seq(Bytes)
      BY <1>2, DnsNameAssumption
    <3>2. i + 1 + c < Len(msg) /\ i \in Nat /\ c \in Nat
      BY <2>1, <1>1, <1>2, <1>3 DEF LabelCrosses
    <3>3. label \in Seq(Bytes)
      BY <3>1, <3>2
    <3>4. <<Dot>> \in Seq(Bytes)
      BY DEF Dot, Bytes
    <3> HIDE DEF label
    <3> QED BY <2>2, <1>2, <3>3, <3>4 DEF label
  <2>4. /\ i' \in 0 .. Len(msg) - 1 /\ j' \in 0 .. DestSize - 1
        /\ i' \in Nat /\ j' \in Nat /\ (i >= 12 => i' >= 12)
    BY <2>1, <1>1, <1>2, <1>3 DEF LabelCrosses
  <2>5. NameTypeOK'
    BY <2>1, <2>3, <2>4, <1>2 DEF NameTypeOK
  <2>6. InBounds'
    BY <2>1, <2>4, <1>3 DEF InBounds
  <2>7. PlaceKept'
    BY <2>1, <2>4, <1>3 DEF PlaceKept, PACKET_DATABEGIN
  <2> QED BY <2>5, <2>6, <2>7 DEF NameInv
<1>7. CASE RefuseName
  <2>1. pc' = "refused" /\ UNCHANGED <<msg, i, j, depth, compressed, dest>>
    BY <1>7 DEF RefuseName, Refuse
  <2> QED BY <2>1, <1>2 DEF NameInv, NameTypeOK, InBounds, PlaceKept
<1>8. CASE UNCHANGED nameVars
  BY <1>8 DEF nameVars, NameInv, NameTypeOK, InBounds, PlaceKept
<1> QED BY <1>4, <1>5, <1>6, <1>7, <1>8 DEF NameNext, get_objname

(* The inductive invariant of the loop, for every packet.                  *)
THEOREM NameInvariance == NameSpec => []NameInv
<1>1. NameInit => NameInv
  BY InitInv
<1>2. NameInv /\ [NameNext]_nameVars => NameInv'
  BY StepInv
<1> QED BY <1>1, <1>2, PTL DEF NameSpec

(* No read outside the packet and no write outside the buffer, whatever    *)
(* labels and pointers a packet is made of.                                *)
THEOREM StaysInBounds == NameSpec => []InBounds
<1>1. NameInv => InBounds
  BY DEF NameInv
<1> QED BY <1>1, NameInvariance, PTL

---------------------------------------------------------------------------
(* What the recursive definitions compute *)

(* The four ways of NamesHere.                                             *)
LEMMA HereOf ==
    ASSUME NEW p \in Seq(Bytes), NEW k \in 0 .. Len(p) - 1, NEW names
    PROVE  /\ p[k + 1] = 0 => NamesHere(p, k, names) = {<< >>}
           /\ LabelAt(p, k) => NamesHere(p, k, names) =
                {SubSeq(p, k + 2, k + 1 + p[k + 1]) \o <<Dot>> \o rest : rest \in names[k + 1 + p[k + 1]]}
           /\ PointerAt(p, k) => NamesHere(p, k, names) = names[Led(p, k)]
           /\ p[k + 1] # 0 /\ ~LabelAt(p, k) /\ ~PointerAt(p, k) => NamesHere(p, k, names) = {}
<1>1. p[k + 1] \in 0 .. 255
  BY BytesOf
<1>2. ~(p[k + 1] = 0 /\ LabelAt(p, k)) /\ ~(p[k + 1] = 0 /\ PointerAt(p, k)) /\ ~(LabelAt(p, k) /\ PointerAt(p, k))
  <2>1. LabelAt(p, k) => p[k + 1] \in 1 .. 63
    BY DEF LabelAt
  <2>2. PointerAt(p, k) => p[k + 1] >= 192
    BY DEF PointerAt
  <2> DEFINE c == p[k + 1]
  <2>3. \A b \in 0 .. 255 : ~(b = 0 /\ b \in 1 .. 63) /\ ~(b = 0 /\ b >= 192) /\ ~(b \in 1 .. 63 /\ b >= 192)
    OBVIOUS
  <2>4. ~(c = 0 /\ c \in 1 .. 63) /\ ~(c = 0 /\ c >= 192) /\ ~(c \in 1 .. 63 /\ c >= 192)
    BY <1>1, <2>3
  <2> QED BY <2>1, <2>2, <2>4, Zenon
<1>3. p[k + 1] = 0 => NamesHere(p, k, names) = {<< >>}
  BY <1>2 DEF NamesHere
<1>4. LabelAt(p, k) => NamesHere(p, k, names) =
        {SubSeq(p, k + 2, k + 1 + p[k + 1]) \o <<Dot>> \o rest : rest \in names[k + 1 + p[k + 1]]}
  BY <1>2 DEF NamesHere
<1>5. PointerAt(p, k) => NamesHere(p, k, names) = names[Led(p, k)]
  BY <1>2 DEF NamesHere
<1>6. p[k + 1] # 0 /\ ~LabelAt(p, k) /\ ~PointerAt(p, k) => NamesHere(p, k, names) = {}
  BY <1>2 DEF NamesHere
<1> QED BY <1>3, <1>4, <1>5, <1>6

(* Where a pointer leads that does not lead behind the packet.             *)
LEMMA LedNumber ==
    ASSUME NEW p \in Seq(Bytes), NEW k \in 0 .. Len(p) - 1, k + 1 < Len(p), Led(p, k) < Len(p)
    PROVE  Led(p, k) \in 0 .. Len(p) - 1
<1>1. Len(p) \in Nat /\ k + 1 \in 0 .. Len(p) - 1 /\ k + 1 + 1 = k + 2
  BY BytesOf
<1>2. p[k + 1] \in 0 .. 255 /\ p[k + 2] \in 0 .. 255
  BY <1>1, BytesOf
<1>3. Led(p, k) \in Nat
  BY <1>2, PointerNumber DEF Led
<1> QED BY <1>1, <1>3

(* What names of NamesAt() has to be, and that there is one.               *)
IsNames(names, p) ==
    names = [n \in 0 .. Len(p) |->
                [k \in 0 .. Len(p) - 1 |-> IF n = 0 THEN {} ELSE NamesHere(p, k, names[n - 1])]]

NameTables(p) == [0 .. Len(p) - 1 -> SUBSET Seq(Bytes)]

LEMMA NamesHereTyped ==
    ASSUME NEW p \in Seq(Bytes), NEW k \in 0 .. Len(p) - 1, NEW names \in NameTables(p)
    PROVE  NamesHere(p, k, names) \in SUBSET Seq(Bytes)
<1> DEFINE c == p[k + 1]
<1>1. Len(p) \in Nat /\ k \in Nat /\ c \in 0 .. 255
  BY BytesOf
<1>2. CASE c = 0
  <2>1. NamesHere(p, k, names) = {<< >>}
    BY <1>2, HereOf
  <2>2. << >> \in Seq(Bytes)
    OBVIOUS
  <2> QED BY <2>1, <2>2
<1>3. CASE LabelAt(p, k)
  <2> DEFINE label == SubSeq(p, k + 2, k + 1 + c)
  <2>1. NamesHere(p, k, names) = {label \o <<Dot>> \o rest : rest \in names[k + 1 + c]}
    BY <1>3, HereOf
  <2>2. c \in 1 .. 63 /\ k + 1 + c < Len(p)
    BY <1>3 DEF LabelAt
  <2> HIDE DEF c
  <2>3. label \in Seq(Bytes) /\ k + 1 + c \in 0 .. Len(p) - 1
    BY <1>1, <2>2
  <2>4. <<Dot>> \in Seq(Bytes)
    BY DEF Dot, Bytes
  <2>5. names[k + 1 + c] \in SUBSET Seq(Bytes)
    BY <2>3 DEF NameTables
  <2> HIDE DEF label
  <2>6. label \o <<Dot>> \in Seq(Bytes)
    BY <2>3, <2>4
  <2>7. \A rest \in names[k + 1 + c] : label \o <<Dot>> \o rest \in Seq(Bytes)
    <3> DEFINE start == label \o <<Dot>>
    <3> HIDE DEF start
    <3>1. \A rest \in Seq(Bytes) : start \o rest \in Seq(Bytes)
      BY <2>6 DEF start
    <3> QED BY <2>5, <3>1 DEF start
  <2> QED BY <2>1, <2>7
<1>4. CASE PointerAt(p, k)
  <2>1. Led(p, k) \in 0 .. Len(p) - 1
    BY <1>4, LedNumber DEF PointerAt
  <2>2. names[Led(p, k)] \in SUBSET Seq(Bytes)
    BY <2>1 DEF NameTables
  <2>3. NamesHere(p, k, names) = names[Led(p, k)]
    BY <1>4, HereOf
  <2> QED BY <2>2, <2>3
<1>5. CASE c # 0 /\ ~LabelAt(p, k) /\ ~PointerAt(p, k)
  BY <1>5, HereOf
<1> QED BY <1>2, <1>3, <1>4, <1>5

LEMMA NamesExist ==
    ASSUME NEW p \in Seq(Bytes)
    PROVE  \E names \in [0 .. Len(p) -> NameTables(p)] : IsNames(names, p)
<1> DEFINE N == Len(p)
           none == [k \in 0 .. N - 1 |-> {}]
           turn == [n \in 1 .. N |-> [t \in NameTables(p) |->
                        [k \in 0 .. N - 1 |-> NamesHere(p, k, t)]]]
<1>1. N \in Nat /\ none \in NameTables(p)
  BY DEF NameTables
<1>2. ASSUME NEW t \in NameTables(p)
      PROVE  [k \in 0 .. N - 1 |-> NamesHere(p, k, t)] \in NameTables(p)
  BY NamesHereTyped DEF NameTables
<1>3. turn \in [1 .. N -> [NameTables(p) -> NameTables(p)]]
  BY <1>2
<1>4. PICK f \in [0 .. N -> NameTables(p)] : IsHistory(f, N, none, turn)
  <2> HIDE DEF N, turn, none
  <2> QED BY <1>1, <1>3, HistoryExists
<1>5. f[0] = none /\ \A n \in 1 .. N : f[n] = turn[n][f[n - 1]]
  BY <1>4 DEF IsHistory
<1>6. ASSUME NEW n \in 0 .. N
      PROVE  f[n] = [k \in 0 .. N - 1 |-> IF n = 0 THEN {} ELSE NamesHere(p, k, f[n - 1])]
  <2>1. CASE n = 0
    BY <2>1, <1>5
  <2>2. CASE n # 0
    <3>1. n \in 1 .. N /\ n - 1 \in 0 .. N
      BY <2>2, <1>1
    <3>2. f[n - 1] \in NameTables(p)
      BY <3>1, <1>4
    <3>3. f[n] = [k \in 0 .. N - 1 |-> NamesHere(p, k, f[n - 1])]
      BY <3>1, <3>2, <1>5
    <3> HIDE DEF turn, none
    <3> QED BY <2>2, <3>3
  <2> QED BY <2>1, <2>2
<1> HIDE DEF turn, none
<1>7. f = [n \in 0 .. N |-> [k \in 0 .. N - 1 |-> IF n = 0 THEN {} ELSE NamesHere(p, k, f[n - 1])]]
  BY <1>4, <1>6
<1> QED BY <1>4, <1>7 DEF IsNames

(* The equation of NamesAt(), turn by turn, and its type.                  *)
LEMMA NamesAtTurns ==
    ASSUME NEW p \in Seq(Bytes)
    PROVE  /\ NamesAt(p) \in [0 .. Len(p) -> NameTables(p)]
           /\ \A k \in 0 .. Len(p) - 1 : NamesAt(p)[0][k] = {}
           /\ \A n \in 1 .. Len(p) : \A k \in 0 .. Len(p) - 1 :
                NamesAt(p)[n][k] = NamesHere(p, k, NamesAt(p)[n - 1])
<1> DEFINE N == Len(p)
           names == CHOOSE names : IsNames(names, p)
           S == {n \in 0 .. N : names[n] \in NameTables(p)}
<1>1. IsNames(names, p)
  BY NamesExist
<1>2. NamesAt(p) = names
  BY DEF NamesAt, IsNames
<1> HIDE DEF names
<1>3. /\ N \in Nat
      /\ \A n \in 0 .. N : names[n] =
            [k \in 0 .. N - 1 |-> IF n = 0 THEN {} ELSE NamesHere(p, k, names[n - 1])]
      /\ names = [n \in 0 .. N |-> names[n]]
  <2>1. N \in Nat
    BY BytesOf
  <2> HIDE DEF N
  <2> QED BY <1>1, <2>1 DEF IsNames, N
<1>4. 0 \in 0 .. N /\ names[0] = [k \in 0 .. N - 1 |-> {}]
  BY <1>3
<1>5. ASSUME NEW n \in 1 .. N
      PROVE  names[n] = [k \in 0 .. N - 1 |-> NamesHere(p, k, names[n - 1])]
  <2>1. n \in 0 .. N /\ n # 0
    BY <1>3
  <2> QED BY <2>1, <1>3
<1>6. 0 \in S
  BY <1>4 DEF NameTables
<1>7. ASSUME NEW n \in 1 .. N, n - 1 \in S PROVE n \in S
  <2>1. n \in 0 .. N /\ names[n - 1] \in NameTables(p)
    BY <1>3, <1>7
  <2>2. \A k \in 0 .. N - 1 : NamesHere(p, k, names[n - 1]) \in SUBSET Seq(Bytes)
    BY <2>1, NamesHereTyped
  <2>3. names[n] \in NameTables(p)
    BY <1>5, <2>2 DEF NameTables
  <2> QED BY <2>1, <2>3
<1>8. \A n \in 0 .. N : n \in S
  <2> HIDE DEF N, S
  <2> QED BY <1>3, <1>6, <1>7, BoundedInduction
<1>9. names \in [0 .. N -> NameTables(p)]
  BY <1>3, <1>8
<1>10. \A k \in 0 .. N - 1 : names[0][k] = {}
  BY <1>4
<1>11. \A n \in 1 .. N : \A k \in 0 .. N - 1 : names[n][k] = NamesHere(p, k, names[n - 1])
  BY <1>5
<1> QED BY <1>2, <1>9, <1>10, <1>11

(* Where names end in their place: each place needs later ones only.       *)
LEMMA EndHereLater ==
    ASSUME NEW p \in Seq(Bytes), NEW k \in 0 .. Len(p) - 1, NEW e, NEW f,
           \A l \in k + 1 .. Len(p) - 1 : e[l] \in Nat /\ f[l] = e[l]
    PROVE  EndHere(p, k, e) \in Nat /\ EndHere(p, k, f) = EndHere(p, k, e)
<1> DEFINE c == p[k + 1]
<1>1. Len(p) \in Nat /\ k \in Nat /\ c \in 0 .. 255
  BY BytesOf
<1>2. EndHere(p, k, e) = IF c = 0 THEN k + 1 ELSE IF c >= 192 THEN k + 2
                         ELSE IF k + 1 + c < Len(p) THEN e[k + 1 + c] ELSE Len(p)
  BY DEF EndHere
<1>3. EndHere(p, k, f) = IF c = 0 THEN k + 1 ELSE IF c >= 192 THEN k + 2
                         ELSE IF k + 1 + c < Len(p) THEN f[k + 1 + c] ELSE Len(p)
  BY DEF EndHere
<1> HIDE DEF c
<1>4. k + 1 + c < Len(p) => k + 1 + c \in k + 1 .. Len(p) - 1
  BY <1>1
<1>5. k + 1 + c < Len(p) => e[k + 1 + c] \in Nat /\ f[k + 1 + c] = e[k + 1 + c]
  BY <1>4
<1>6. k + 1 \in Nat /\ k + 2 \in Nat
  BY <1>1
<1> QED BY <1>1, <1>2, <1>3, <1>5, <1>6

EndsFrom(e, p, m) ==
    e \in [m .. Len(p) - 1 -> Nat] /\ \A k \in m .. Len(p) - 1 : e[k] = EndHere(p, k, e)

LEMMA EndsExist ==
    ASSUME NEW p \in Seq(Bytes)
    PROVE  \E e : EndsFrom(e, p, 0)
<1> DEFINE N == Len(p)
           S == {n \in 0 .. N : \E e : EndsFrom(e, p, N - n)}
<1>1. N \in Nat
  BY BytesOf
<1>2. 0 \in S
  <2> DEFINE e == [k \in N .. N - 1 |-> 0]
  <2>1. N - 0 = N /\ N .. N - 1 = {}
    BY <1>1
  <2>2. EndsFrom(e, p, N)
    BY <2>1 DEF EndsFrom
  <2>3. \E f : EndsFrom(f, p, N - 0)
    BY <2>1, <2>2
  <2> QED BY <1>1, <2>3
<1>3. ASSUME NEW n \in 1 .. N, n - 1 \in S PROVE n \in S
  <2>1. PICK e : EndsFrom(e, p, N - (n - 1))
    BY <1>3
  <2> DEFINE m == N - n
             f == [k \in m .. N - 1 |-> IF k = m THEN EndHere(p, m, e) ELSE e[k]]
  <2>2. m \in 0 .. N - 1 /\ N - (n - 1) = m + 1
    BY <1>1
  <2>3. e \in [m + 1 .. N - 1 -> Nat] /\ \A k \in m + 1 .. N - 1 : e[k] = EndHere(p, k, e)
    BY <2>1, <2>2 DEF EndsFrom
  <2> HIDE DEF m
  <2>4. ASSUME NEW k \in m .. N - 1
        PROVE  EndHere(p, k, e) \in Nat /\ EndHere(p, k, f) = EndHere(p, k, e)
    <3>1. k \in 0 .. N - 1 /\ k \in Nat
      BY <2>2
    <3>2. \A l \in k + 1 .. N - 1 : l \in m + 1 .. N - 1 /\ l \in m .. N - 1 /\ l # m
      BY <1>1, <2>2, <3>1
    <3>3. \A l \in k + 1 .. N - 1 : e[l] \in Nat /\ f[l] = e[l]
      BY <2>3, <3>2
    <3> HIDE DEF f
    <3> QED BY <3>1, <3>3, EndHereLater
  <2>5. ASSUME NEW k \in m .. N - 1
        PROVE  f[k] \in Nat /\ f[k] = EndHere(p, k, f)
    <3>1. k # m => k \in m + 1 .. N - 1
      BY <1>1, <2>2
    <3>2. f[k] = IF k = m THEN EndHere(p, m, e) ELSE e[k]
      OBVIOUS
    <3>3. k # m => e[k] = EndHere(p, k, e)
      BY <2>3, <3>1
    <3>4. f[k] = EndHere(p, k, e)
      BY <3>2, <3>3
    <3> QED BY <2>4, <3>4
  <2>6. f \in [m .. N - 1 -> Nat]
    BY <2>5
  <2>7. EndsFrom(f, p, m)
    <3> HIDE DEF f
    <3> QED BY <2>5, <2>6 DEF EndsFrom
  <2>8. \E g : EndsFrom(g, p, N - n)
    <3> HIDE DEF f
    <3> QED BY <2>7 DEF m
  <2> QED BY <2>8
<1>4. \A n \in 0 .. N : n \in S
  <2> HIDE DEF N, S
  <2> QED BY <1>1, <1>2, <1>3, BoundedInduction
<1>5. N \in 0 .. N /\ N - N = 0
  BY <1>1
<1> QED BY <1>4, <1>5

(* The equation of InPlaceEnd().                                           *)
LEMMA EndsOf ==
    ASSUME NEW p \in Seq(Bytes)
    PROVE  \A k \in 0 .. Len(p) - 1 : InPlaceEnd(p)[k] = EndHere(p, k, InPlaceEnd(p))
<1> DEFINE Is(f) == f = [k \in 0 .. Len(p) - 1 |-> EndHere(p, k, f)]
           end == CHOOSE f : Is(f)
<1>1. \E f : Is(f)
  <2>1. PICK e : EndsFrom(e, p, 0)
    BY EndsExist
  <2>2. Is(e)
    BY <2>1 DEF EndsFrom
  <2> QED BY <2>2
<1>2. Is(end)
  BY <1>1
<1>3. InPlaceEnd(p) = end
  BY DEF InPlaceEnd
<1> HIDE DEF end
<1> QED BY <1>2, <1>3

---------------------------------------------------------------------------
(* The loop decodes the name *)

(* The place l follows k in a name, by a label or by a pointer.            *)
Onward(p, k, l) ==
    \/ p[k + 1] \in 1 .. 63 /\ l = k + 1 + p[k + 1]
    \/ p[k + 1] >= 192 /\ l = Led(p, k)

(* path is the way of the loop from the start to i, in s turns.            *)
Way(path, s) ==
    /\ path \in [0 .. s -> 0 .. Len(msg) - 1]
    /\ path[0] = PACKET_DATABEGIN /\ path[s] = i
    /\ \A n \in 1 .. s : Onward(msg, path[n - 1], path[n])

(* After s turns, the names of the question are the text so far with the   *)
(* names at i behind it; after more turns than places there is none.        *)
Continues(s) ==
    QuestionNames = IF s <= Len(msg) THEN {dest \o rest : rest \in NamesAt(msg)[Len(msg) - s][i]} ELSE {}

CameFrom(s) == depth <= s /\ Continues(s) /\ \E path : Way(path, s)

(* What the loop knows while it reads: the text ends with a dot, some way   *)
(* has led to i, and where the record goes on.                              *)
Reading ==
    pc = "name" =>
        /\ Len(dest) = j /\ (j # 0 => dest[j] = Dot)
        /\ \E s \in Nat : CameFrom(s)
        /\ InPlaceEnd(msg)[PACKET_DATABEGIN] = IF compressed = 0 THEN InPlaceEnd(msg)[i] ELSE compressed

DecodeInv == Reading /\ DecodesTheName

(* One place follows another, and none the end of a name.                  *)
LEMMA OnwardOnce ==
    ASSUME NEW p \in Seq(Bytes), NEW k \in 0 .. Len(p) - 1
    PROVE  /\ \A l, m : Onward(p, k, l) /\ Onward(p, k, m) => l = m
           /\ p[k + 1] = 0 => \A l : ~Onward(p, k, l)
<1> DEFINE c == p[k + 1]
<1>1. c \in 0 .. 255
  BY BytesOf
<1>2. ~(c \in 1 .. 63 /\ c >= 192) /\ ~(c = 0 /\ c \in 1 .. 63) /\ ~(c = 0 /\ c >= 192)
  <2> HIDE DEF c
  <2> QED BY <1>1
<1> QED BY <1>2, Zenon DEF Onward

(* A way that comes to the end of a name visits no place twice: from two    *)
(* visits of a place it would go on in the same way, and one of them would  *)
(* come to the end early.                                                   *)
LEMMA WayShort ==
    ASSUME msg \in Packets, NEW s \in Nat, NEW path, Way(path, s), Byte(i) = 0
    PROVE  s < Len(msg)
<1> DEFINE N == Len(msg)
<1>1. N \in Nat /\ msg \in Seq(Bytes)
  BY DnsNameAssumption
<1>2. /\ path \in [0 .. s -> 0 .. N - 1] /\ path[s] = i
      /\ \A n \in 1 .. s : Onward(msg, path[n - 1], path[n])
  BY DEF Way
<1>3. SUFFICES ASSUME s >= N PROVE FALSE
  BY <1>1
<1>4. PICK x \in 0 .. s, y \in 0 .. s : x # y /\ path[x] = path[y]
  <2>1. IsFiniteSet(0 .. s) /\ Cardinality(0 .. s) = s + 1
    BY FS_Interval
  <2>2. IsFiniteSet(0 .. N - 1) /\ Cardinality(0 .. N - 1) = N
    <3>1. 0 \in Int /\ N - 1 \in Int
      BY <1>1
    <3>2. IsFiniteSet(0 .. N - 1) /\ Cardinality(0 .. N - 1) = IF 0 > N - 1 THEN 0 ELSE (N - 1) - 0 + 1
      BY <3>1, FS_Interval
    <3> QED BY <1>1, <3>2
  <2>3. Cardinality(0 .. N - 1) < Cardinality(0 .. s)
    BY <1>1, <1>3, <2>1, <2>2
  <2> DEFINE S == 0 .. s
             P == 0 .. N - 1
  <2>4. path \in [S -> P]
    BY <1>2
  <2> HIDE DEF S, P, N
  <2>5. \E x, y \in S : x # y /\ path[x] = path[y]
    <3>1. IsFiniteSet(S) /\ IsFiniteSet(P) /\ Cardinality(P) < Cardinality(S)
      BY <2>1, <2>2, <2>3 DEF S, P
    <3> QED BY <2>4, <3>1, FS_PigeonHole
  <2> QED BY <2>5 DEF S
<1>5. PICK a \in 0 .. s, b \in 0 .. s : a < b /\ path[a] = path[b]
  <2>1. CASE x < y
    BY <1>4, <2>1
  <2>2. CASE y < x
    BY <1>4, <2>2
  <2> QED BY <1>4, <2>1, <2>2
<1> DEFINE T == {t \in 0 .. s - b : path[a + t] = path[b + t]}
<1>6. 0 \in T
  BY <1>5
<1>7. ASSUME NEW t \in 1 .. s - b, t - 1 \in T PROVE t \in T
  <2>1. a + t \in 1 .. s /\ b + t \in 1 .. s /\ a + t - 1 = a + (t - 1) /\ b + t - 1 = b + (t - 1)
    BY <1>5
  <2>2. path[a + t - 1] = path[b + t - 1] /\ path[a + t - 1] \in 0 .. N - 1
    <3>1. a + t - 1 \in 0 .. s
      BY <2>1
    <3> QED BY <2>1, <1>2, <1>7, <3>1
  <2>3. Onward(msg, path[a + t - 1], path[a + t]) /\ Onward(msg, path[b + t - 1], path[b + t])
    BY <2>1, <1>2
  <2>4. path[a + t] = path[b + t]
    BY <1>1, <2>2, <2>3, OnwardOnce
  <2> QED BY <2>4
<1>8. s - b \in T
  <2>1. \A t \in 0 .. s - b : t \in T
    <3>1. s - b \in Nat
      BY <1>5
    <3> HIDE DEF T
    <3> QED BY <1>6, <1>7, <3>1, BoundedInduction
  <2>2. s - b \in 0 .. s - b
    BY <1>5
  <2> QED BY <2>1, <2>2
<1> DEFINE k == a + (s - b)
<1>9. k \in 0 .. s /\ k + 1 \in 1 .. s /\ k + 1 - 1 = k /\ b + (s - b) = s
  BY <1>5
<1>10. path[k] = i
  BY <1>2, <1>8, <1>9
<1>11. Onward(msg, i, path[k + 1]) /\ i \in 0 .. N - 1
  <2> HIDE DEF k
  <2> QED BY <1>2, <1>9, <1>10
<1>12. msg[i + 1] = 0
  BY DEF Byte
<1> HIDE DEF k
<1> QED BY <1>1, <1>11, <1>12, OnwardOnce

(* The text so far, a part, and what follows the part.                     *)
LEMMA Reassociate ==
    ASSUME NEW a \in Seq(Bytes), NEW b \in Seq(Bytes), NEW X \in SUBSET Seq(Bytes)
    PROVE  {a \o rest : rest \in {b \o more : more \in X}} = {(a \o b) \o more : more \in X}
<1>1. \A c \in Seq(Bytes) : a \o (b \o c) = (a \o b) \o c
  OBVIOUS
<1>2. \A c \in X : a \o (b \o c) = (a \o b) \o c
  BY <1>1
<1> DEFINE L == {a \o rest : rest \in {b \o more : more \in X}}
           R == {(a \o b) \o more : more \in X}
<1>3. ASSUME NEW x \in L PROVE x \in R
  <2>1. PICK more \in X : x = a \o (b \o more)
    OBVIOUS
  <2> QED BY <2>1, <1>2
<1>4. ASSUME NEW more \in X PROVE (a \o b) \o more \in L
  <2>1. b \o more \in {b \o m : m \in X}
    OBVIOUS
  <2>2. a \o (b \o more) \in L
    BY <2>1
  <2> QED BY <2>2, <1>2
<1> QED BY <1>3, <1>4

(* A label or a pointer that is followed: part of the name comes to the     *)
(* text, and the rest of the name is at the next place.                     *)
LEMMA StepOn ==
    ASSUME NameInv, pc = "name", NEW s \in Nat, CameFrom(s),
           msg' = msg, depth' \in {depth, depth + 1}, i' \in 0 .. Len(msg) - 1, Onward(msg, i, i'),
           NEW part \in Seq(Bytes), dest' = dest \o part,
           \A t \in NameTables(msg) : NamesHere(msg, i, t) = {part \o rest : rest \in t[i']}
    PROVE  CameFrom(s + 1)'
<1> DEFINE N == Len(msg)
           names == NamesAt(msg)
<1>1. /\ N \in Nat /\ msg \in Seq(Bytes) /\ i \in 0 .. N - 1 /\ dest \in Seq(Bytes) /\ depth \in Nat
  BY DnsNameAssumption DEF NameInv, NameTypeOK, InBounds
<1>2. (depth <= s + 1)'
  BY <1>1 DEF CameFrom
<1>3. \E path : Way(path, s + 1)'
  <2>1. PICK path : Way(path, s)
    BY DEF CameFrom
  <2> DEFINE on == [n \in 0 .. s + 1 |-> IF n = s + 1 THEN i' ELSE path[n]]
  <2>2. /\ path \in [0 .. s -> 0 .. N - 1] /\ path[0] = PACKET_DATABEGIN /\ path[s] = i
        /\ \A n \in 1 .. s : Onward(msg, path[n - 1], path[n])
    BY <2>1 DEF Way
  <2>3. on \in [0 .. s + 1 -> 0 .. N - 1] /\ on[0] = PACKET_DATABEGIN /\ on[s + 1] = i'
    BY <2>2
  <2>4. ASSUME NEW n \in 1 .. s + 1 PROVE Onward(msg, on[n - 1], on[n])
    <3>1. CASE n = s + 1
      <4>1. on[n] = i' /\ on[n - 1] = i
        BY <3>1, <2>2
      <4> HIDE DEF on
      <4> QED BY <4>1
    <3>2. CASE n \in 1 .. s
      <4>1. on[n] = path[n] /\ on[n - 1] = path[n - 1]
        BY <3>2
      <4> HIDE DEF on
      <4> QED BY <3>2, <4>1, <2>2
    <3> QED BY <3>1, <3>2
  <2> HIDE DEF on
  <2>5. PICK f : /\ f \in [0 .. s + 1 -> 0 .. N - 1] /\ f[0] = PACKET_DATABEGIN /\ f[s + 1] = i'
                 /\ \A n \in 1 .. s + 1 : Onward(msg, f[n - 1], f[n])
    BY <2>3, <2>4
  <2>6. Way(f, s + 1)'
    BY <2>5 DEF Way
  <2> QED BY <2>6
<1>4. QuestionNames' = QuestionNames
  BY DEF QuestionNames
<1>5. names \in [0 .. N -> NameTables(msg)]
  BY <1>1, NamesAtTurns
<1>6. CASE s < N
  <2>1. N - s \in 1 .. N /\ N - s - 1 = N - (s + 1) /\ N - (s + 1) \in 0 .. N /\ s <= N /\ s + 1 <= N
    BY <1>1, <1>6
  <2> DEFINE X == names[N - (s + 1)][i']
  <2>2. QuestionNames = {dest \o rest : rest \in names[N - s][i]}
    BY <2>1 DEF CameFrom, Continues
  <2>3. names[N - s][i] = NamesHere(msg, i, names[N - (s + 1)])
    <3>1. names[N - s][i] = NamesHere(msg, i, names[N - s - 1])
      BY <1>1, <2>1, NamesAtTurns
    <3> QED BY <2>1, <3>1
  <2>4. names[N - (s + 1)] \in NameTables(msg)
    BY <1>5, <2>1
  <2>5. names[N - s][i] = {part \o more : more \in X} /\ X \in SUBSET Seq(Bytes)
    BY <2>3, <2>4 DEF NameTables
  <2> HIDE DEF X
  <2>6. QuestionNames = {dest' \o more : more \in X}
    <3>1. QuestionNames = {dest \o rest : rest \in {part \o more : more \in X}}
      BY <2>2, <2>5
    <3>2. QuestionNames = {(dest \o part) \o more : more \in X}
      BY <3>1, <2>5, <1>1, Reassociate
    <3> QED BY <3>2
  <2>7. Continues(s + 1)'
    BY <1>4, <2>1, <2>6 DEF Continues, X
  <2> QED BY <1>2, <1>3, <2>7 DEF CameFrom
<1>7. CASE s >= N
  <2>1. QuestionNames = {}
    <3>1. CASE s = N
      <4>1. N - s = 0 /\ names[0][i] = {}
        BY <3>1, <1>1, NamesAtTurns
      <4>2. QuestionNames = {dest \o rest : rest \in names[N - s][i]}
        BY <3>1, <1>1 DEF CameFrom, Continues
      <4> QED BY <4>1, <4>2
    <3>2. CASE s > N
      BY <3>2, <1>1 DEF CameFrom, Continues
    <3> QED BY <3>1, <3>2, <1>7, <1>1
  <2>2. ~(s + 1 <= N)
    BY <1>7, <1>1
  <2>3. Continues(s + 1)'
    BY <1>4, <2>1, <2>2 DEF Continues
  <2> QED BY <1>2, <1>3, <2>3 DEF CameFrom
<1> QED BY <1>1, <1>6, <1>7

(* What a place that is refused leaves of the name.                        *)
LEMMA NothingMore ==
    ASSUME NameInv, pc = "name", NEW s \in Nat, CameFrom(s),
           \/ Byte(i) # 0 /\ ~LabelAt(msg, i) /\ ~PointerAt(msg, i)
           \/ PointerAt(msg, i) /\ depth + 1 >= Len(msg)
    PROVE  QuestionNames = {}
<1> DEFINE N == Len(msg)
           names == NamesAt(msg)
<1>1. /\ N \in Nat /\ msg \in Seq(Bytes) /\ i \in 0 .. N - 1 /\ depth \in Nat
  BY DnsNameAssumption DEF NameInv, NameTypeOK, InBounds
<1>2. /\ depth <= s
      /\ QuestionNames = IF s <= N THEN {dest \o rest : rest \in names[N - s][i]} ELSE {}
  BY DEF CameFrom, Continues
<1>3. SUFFICES ASSUME s <= N PROVE names[N - s][i] = {}
  BY <1>2
<1>4. CASE s = N
  BY <1>4, <1>1, NamesAtTurns
<1>5. CASE s < N
  <2>1. N - s \in 1 .. N
    BY <1>1, <1>5
  <2>2. names[N - s][i] = NamesHere(msg, i, names[N - s - 1])
    BY <1>1, <2>1, NamesAtTurns
  <2>3. CASE Byte(i) # 0 /\ ~LabelAt(msg, i) /\ ~PointerAt(msg, i)
    BY <2>2, <2>3, <1>1, HereOf DEF Byte
  <2>4. CASE PointerAt(msg, i) /\ depth + 1 >= Len(msg)
    <3>1. N - s - 1 = 0
      BY <1>1, <1>2, <1>5, <2>4
    <3>2. Led(msg, i) \in 0 .. N - 1
      BY <1>1, <2>4, LedNumber DEF PointerAt
    <3>3. NamesHere(msg, i, names[N - s - 1]) = names[0][Led(msg, i)]
      BY <3>1, <2>4, <1>1, HereOf
    <3> QED BY <2>2, <3>2, <3>3, <1>1, NamesAtTurns
  <2> QED BY <2>3, <2>4
<1> QED BY <1>3, <1>4, <1>5, <1>1

(* The dot that the terminator overwrites.                                 *)
LEMMA LastBack ==
    ASSUME NEW s \in Seq(Bytes), s # << >>
    PROVE  SubSeq(s, 1, Len(s) - 1) \o <<s[Len(s)]>> = s
<1> DEFINE n == Len(s)
           f == SubSeq(s, 1, n - 1)
           l == <<s[n]>>
<1>1. n \in Nat \ {0} /\ \A k \in 1 .. n : s[k] \in Bytes
  OBVIOUS
<1>2. /\ f \in Seq(Bytes) /\ Len(f) = n - 1 /\ \A k \in 1 .. n - 1 : f[k] = s[k]
  <2> HIDE DEF n
  <2>1. 1 \in Int /\ n - 1 \in Int /\ \A k \in 1 .. n - 1 : s[k] \in Bytes
    BY <1>1
  <2>2. /\ f \in Seq(Bytes) /\ Len(f) = IF 1 <= n - 1 THEN n - 1 - 1 + 1 ELSE 0
        /\ \A k \in 1 .. n - 1 - 1 + 1 : f[k] = s[1 + k - 1]
    BY <2>1, SubSeqProperties
  <2> HIDE DEF f
  <2>3. n - 1 - 1 + 1 = n - 1 /\ \A k \in 1 .. n - 1 : 1 + k - 1 = k
    BY <1>1
  <2> QED BY <1>1, <2>2, <2>3
<1>3. s[n] \in Bytes
  BY <1>1
<1>4. l \in Seq(Bytes) /\ Len(l) = 1 /\ l[1] = s[n]
  <2> HIDE DEF n
  <2> QED BY <1>3
<1> HIDE DEF f, l, n
<1>5. /\ f \o l \in Seq(Bytes) /\ Len(f \o l) = n - 1 + 1
      /\ \A k \in 1 .. n - 1 + 1 : (f \o l)[k] = IF k <= n - 1 THEN f[k] ELSE l[k - (n - 1)]
  <2>1. /\ f \o l \in Seq(Bytes) /\ Len(f \o l) = Len(f) + Len(l)
        /\ \A k \in 1 .. Len(f) + Len(l) : (f \o l)[k] = IF k <= Len(f) THEN f[k] ELSE l[k - Len(f)]
    BY <1>2, <1>4, ConcatProperties
  <2>2. Len(f) = n - 1 /\ Len(l) = 1
    BY <1>2, <1>4
  <2> QED BY <2>1, <2>2
<1>6. Len(f \o l) = n /\ \A k \in 1 .. n : (f \o l)[k] = s[k]
  <2>1. n - 1 + 1 = n /\ n - (n - 1) = 1 /\ \A k \in 1 .. n : k <= n - 1 \/ k = n
    BY <1>1
  <2> QED BY <1>1, <1>2, <1>4, <1>5, <2>1
<1> QED BY <1>5, <1>6, SeqEqual DEF f, l, n

(* The end of a name is at the end of a way, which is short enough.        *)
LEMMA DecodeEnd ==
    ASSUME NameInv, DecodeInv, EndOfName
    PROVE  DecodeInv'
<1> DEFINE N == Len(msg)
           names == NamesAt(msg)
<1>1. /\ N \in Nat /\ msg \in Seq(Bytes) /\ i \in 0 .. N - 1 /\ i \in Nat /\ dest \in Seq(Bytes)
      /\ j \in 0 .. DestSize - 1 /\ DestSize \in Nat \ {0} /\ compressed \in Nat /\ msg \in Packets
  BY DnsNameAssumption DEF NameInv, NameTypeOK, InBounds, EndOfName
<1>2. /\ pc = "name" /\ Byte(i) = 0 /\ msg' = msg /\ j' = j - 1
      /\ i' = IF compressed = 0 THEN i + 1 ELSE compressed
      /\ dest' = SubSeq(dest, 1, Len(dest) - 1)
  BY DEF EndOfName
<1>3. pc' = "done"
  BY <1>1 DEF EndOfName
<1>4. PICK s \in Nat : CameFrom(s)
  BY <1>2 DEF DecodeInv, Reading
<1>5. s < N
  BY <1>1, <1>2, <1>4, WayShort DEF CameFrom
<1>6. N - s \in 1 .. N /\ s <= N
  BY <1>1, <1>5
<1>7. names[N - s][i] = {<< >>}
  <2>1. names[N - s][i] = NamesHere(msg, i, names[N - s - 1])
    BY <1>1, <1>6, NamesAtTurns
  <2> QED BY <2>1, <1>1, <1>2, HereOf DEF Byte
<1>8. dest \in QuestionNames
  <2>1. QuestionNames = {dest \o rest : rest \in names[N - s][i]}
    BY <1>4, <1>6 DEF CameFrom, Continues
  <2>2. dest \o << >> = dest
    BY <1>1
  <2> QED BY <2>1, <2>2, <1>7
<1>9. QuestionNames' = QuestionNames
  BY <1>2 DEF QuestionNames
<1>10. dest' \o <<Dot>> \in QuestionNames \/ (j' = -1 /\ << >> \in QuestionNames)
  <2>1. Len(dest) = j /\ (j # 0 => dest[j] = Dot)
    BY <1>2 DEF DecodeInv, Reading
  <2>2. CASE j = 0
    <3>1. dest = << >> /\ j' = -1
      BY <2>1, <2>2, <1>1, <1>2
    <3> QED BY <3>1, <1>8
  <2>3. CASE j # 0
    <3>1. dest # << >> /\ dest[Len(dest)] = Dot
      BY <2>1, <2>3
    <3>2. dest' \o <<Dot>> = dest
      BY <3>1, <1>1, <1>2, LastBack
    <3> QED BY <3>2, <1>8
  <2> QED BY <2>2, <2>3
<1>11. i' = InPlaceEnd(msg)[PACKET_DATABEGIN]
  <2>1. InPlaceEnd(msg)[PACKET_DATABEGIN] = IF compressed = 0 THEN InPlaceEnd(msg)[i] ELSE compressed
    BY <1>2 DEF DecodeInv, Reading
  <2>2. InPlaceEnd(msg)[i] = i + 1
    BY <1>1, <1>2, EndsOf DEF EndHere, Byte
  <2> QED BY <2>1, <2>2, <1>2
<1>12. DecodesTheName'
  BY <1>2, <1>3, <1>9, <1>10, <1>11 DEF DecodesTheName
<1>13. Reading'
  BY <1>3 DEF Reading
<1> QED BY <1>12, <1>13 DEF DecodeInv

(* A pointer adds nothing to the text.                                     *)
LEMMA DecodePointer ==
    ASSUME NameInv, DecodeInv, FollowPointer
    PROVE  DecodeInv'
<1> DEFINE N == Len(msg)
<1>1. /\ N \in Nat /\ msg \in Seq(Bytes) /\ i \in 0 .. N - 1 /\ i \in Nat /\ dest \in Seq(Bytes)
      /\ compressed \in Nat /\ depth \in Nat
  BY DnsNameAssumption DEF NameInv, NameTypeOK, InBounds, FollowPointer
<1>2. /\ pc = "name" /\ msg' = msg /\ j' = j /\ dest' = dest /\ pc' = pc
      /\ depth' = depth + 1 /\ compressed' = IF compressed = 0 THEN i + 2 ELSE compressed
      /\ Byte(i) >= 192 /\ i + 1 < N /\ i' = Target(Byte(i)) /\ Target(Byte(i)) < N
  BY <1>1 DEF FollowPointer, Deeper, FirstPointer, IsPointer, Truncated
<1>3. Target(Byte(i)) = Led(msg, i)
  <2>1. i + 1 + 1 = i + 2
    BY <1>1
  <2> QED BY <2>1 DEF Target, Led, Byte
<1>4. PointerAt(msg, i) /\ Onward(msg, i, i')
  BY <1>2, <1>3 DEF PointerAt, Onward, Byte
<1>5. i' \in 0 .. N - 1
  BY <1>1, <1>2, <1>3, LedNumber
<1>6. PICK s \in Nat : CameFrom(s)
  BY <1>2 DEF DecodeInv, Reading
<1>7. << >> \in Seq(Bytes) /\ dest' = dest \o << >>
  BY <1>1, <1>2
<1>8. ASSUME NEW t \in NameTables(msg)
      PROVE  NamesHere(msg, i, t) = {<< >> \o rest : rest \in t[i']}
  <2>1. NamesHere(msg, i, t) = t[i']
    BY <1>1, <1>2, <1>3, <1>4, HereOf
  <2>2. t[i'] \in SUBSET Seq(Bytes)
    BY <1>5 DEF NameTables
  <2>3. \A r \in Seq(Bytes) : << >> \o r = r
    OBVIOUS
  <2>4. \A r \in t[i'] : << >> \o r = r
    BY <2>2, <2>3
  <2> QED BY <2>1, <2>4
<1>9. CameFrom(s + 1)'
  BY <1>1, <1>2, <1>4, <1>5, <1>6, <1>7, <1>8, StepOn
<1>10. s + 1 \in Nat
  OBVIOUS
<1>11. InPlaceEnd(msg)[PACKET_DATABEGIN] = compressed' /\ compressed' # 0
  <2>1. InPlaceEnd(msg)[PACKET_DATABEGIN] = IF compressed = 0 THEN InPlaceEnd(msg)[i] ELSE compressed
    BY <1>2 DEF DecodeInv, Reading
  <2>2. InPlaceEnd(msg)[i] = i + 2
    <3>1. InPlaceEnd(msg)[i] = EndHere(msg, i, InPlaceEnd(msg)) /\ Byte(i) # 0
      BY <1>1, <1>2, EndsOf
    <3> QED BY <3>1, <1>2 DEF EndHere, Byte
  <2> QED BY <2>1, <2>2, <1>1, <1>2
<1>12. Len(dest) = j /\ (j # 0 => dest[j] = Dot)
  BY <1>2 DEF DecodeInv, Reading
<1>13. Reading'
  BY <1>2, <1>9, <1>10, <1>11, <1>12 DEF Reading
<1>14. DecodesTheName'
  BY <1>2 DEF DecodesTheName
<1> QED BY <1>13, <1>14 DEF DecodeInv

(* A label that lies within the packet.                                    *)
LEMMA LabelOf ==
    ASSUME msg \in Seq(Bytes), i \in Nat, NEW c \in 1 .. 63, i + 1 + c < Len(msg)
    PROVE  /\ SubSeq(msg, i + 2, i + 1 + c) \in Seq(Bytes)
           /\ Len(SubSeq(msg, i + 2, i + 1 + c)) = c
<1> DEFINE N == Len(msg)
           label == SubSeq(msg, i + 2, i + 1 + c)
<1>1. N \in Nat /\ \A k \in 1 .. N : msg[k] \in Bytes
  OBVIOUS
<1> HIDE DEF N
<1>2. i + 2 \in Int /\ i + 1 + c \in Int /\ i + 2 .. i + 1 + c \subseteq 1 .. N /\ i + 2 <= i + 1 + c
      /\ i + 1 + c - (i + 2) + 1 = c
  BY <1>1 DEF N
<1>3. \A k \in i + 2 .. i + 1 + c : msg[k] \in Bytes
  BY <1>1, <1>2
<1>4. label \in Seq(Bytes)
      /\ Len(label) = IF i + 2 <= i + 1 + c THEN i + 1 + c - (i + 2) + 1 ELSE 0
  <2>1. i + 2 \in Int /\ i + 1 + c \in Int
    BY <1>2
  <2> QED BY <1>3, <2>1, SubSeqProperties
<1> QED BY <1>2, <1>4

(* A label adds itself and a dot.                                          *)
LEMMA DecodeLabel ==
    ASSUME NameInv, DecodeInv, CopyLabel
    PROVE  DecodeInv'
<1> DEFINE N == Len(msg)
           c == Byte(i)
           label == SubSeq(msg, i + 2, i + 1 + c)
           part == label \o <<Dot>>
<1>1. /\ N \in Nat /\ msg \in Seq(Bytes) /\ i \in 0 .. N - 1 /\ i \in Nat /\ dest \in Seq(Bytes)
      /\ compressed \in Nat /\ depth \in Nat /\ j \in Nat
  BY DnsNameAssumption DEF NameInv, NameTypeOK, InBounds, CopyLabel
<1>2. /\ pc = "name" /\ msg' = msg /\ pc' = pc /\ depth' = depth /\ compressed' = compressed
      /\ c \in 1 .. 63 /\ ~LabelCrosses(c) /\ j' = j + c + 1 /\ i' = i + 1 + c
  BY DEF CopyLabel
<1>d. dest' = dest \o label \o <<Dot>>
  BY DEF CopyLabel
<1>c. c = msg[i + 1]
  BY DEF Byte
<1> HIDE DEF c
<1>3. c \in 1 .. 63 /\ i + 1 + c < N
  <2>1. ~(i + 1 + c >= N) /\ c \in 1 .. 63
    BY <1>2 DEF LabelCrosses
  <2> QED BY <2>1, <1>1
<1>4. LabelAt(msg, i) /\ Onward(msg, i, i')
  BY <1>c, <1>2, <1>3 DEF LabelAt, Onward
<1>5. i' \in 0 .. N - 1 /\ c \in Nat
  <2> HIDE DEF N
  <2>1. i + 1 + c \in 0 .. N - 1
    BY <1>1, <1>3
  <2> QED BY <2>1, <1>2, <1>3
<1>6. PICK s \in Nat : CameFrom(s)
  BY <1>2 DEF DecodeInv, Reading
<1>7. label \in Seq(Bytes) /\ Len(label) = c
  BY <1>1, <1>3, LabelOf
<1>8. <<Dot>> \in Seq(Bytes) /\ Len(<<Dot>>) = 1 /\ <<Dot>>[1] = Dot
  BY DEF Dot, Bytes
<1>9. ASSUME NEW t \in NameTables(msg)
      PROVE  NamesHere(msg, i, t) = {part \o rest : rest \in t[i']}
  <2>1. NamesHere(msg, i, t) =
          {SubSeq(msg, i + 2, i + 1 + msg[i + 1]) \o <<Dot>> \o rest : rest \in t[i + 1 + msg[i + 1]]}
    BY <1>1, <1>4, HereOf
  <2>2. i' = i + 1 + msg[i + 1] /\ part = SubSeq(msg, i + 2, i + 1 + msg[i + 1]) \o <<Dot>>
    BY <1>2, <1>c
  <2> QED BY <2>1, <2>2
<1> HIDE DEF label
<1>10. part \in Seq(Bytes) /\ Len(part) = c + 1 /\ part[c + 1] = Dot
  BY <1>5, <1>7, <1>8
<1>11. dest' = dest \o part
  BY <1>1, <1>d, <1>7, <1>8
<1> HIDE DEF part
<1>12. CameFrom(s + 1)'
  BY <1>1, <1>2, <1>4, <1>5, <1>6, <1>9, <1>10, <1>11, StepOn
<1>13. s + 1 \in Nat
  OBVIOUS
<1>14. InPlaceEnd(msg)[PACKET_DATABEGIN] = IF compressed = 0 THEN InPlaceEnd(msg)[i'] ELSE compressed
  <2>1. InPlaceEnd(msg)[PACKET_DATABEGIN] = IF compressed = 0 THEN InPlaceEnd(msg)[i] ELSE compressed
    BY <1>2 DEF DecodeInv, Reading
  <2>2. InPlaceEnd(msg)[i] = InPlaceEnd(msg)[i']
    <3>1. InPlaceEnd(msg)[i] = EndHere(msg, i, InPlaceEnd(msg))
      BY <1>1, EndsOf
    <3>2. ~(c = 0) /\ ~(c >= 192)
      BY <1>2
    <3> QED BY <3>1, <3>2, <1>c, <1>2, <1>3 DEF EndHere
  <2> QED BY <2>1, <2>2
<1>15. Len(dest') = j' /\ dest'[j'] = Dot
  <2>1. Len(dest) = j
    BY <1>2 DEF DecodeInv, Reading
  <2>2. j' = j + (c + 1) /\ j' > Len(dest) /\ j' - Len(dest) = c + 1
    BY <1>1, <1>2, <1>5, <2>1
  <2>3. Len(dest \o part) = Len(dest) + Len(part)
    BY <1>1, <1>10
  <2>4. j' \in 1 .. Len(dest) + Len(part)
    BY <2>1, <2>2, <1>1, <1>5, <1>10
  <2>5. (dest \o part)[j'] = part[j' - Len(dest)]
    BY <1>1, <1>10, <2>2, <2>4, SMTT(30)
  <2> QED BY <1>10, <1>11, <2>1, <2>2, <2>3, <2>5
<1>16. Reading'
  BY <1>2, <1>12, <1>13, <1>14, <1>15 DEF Reading
<1>17. DecodesTheName'
  BY <1>2 DEF DecodesTheName
<1> QED BY <1>16, <1>17 DEF DecodeInv

(* Every refusal is of a packet without a name, or with one too long.      *)
LEMMA DecodeRefuse ==
    ASSUME NameInv, DecodeInv, RefuseName
    PROVE  DecodeInv'
<1> DEFINE N == Len(msg)
           c == Byte(i)
           label == SubSeq(msg, i + 2, i + 1 + c)
<1>1. /\ N \in Nat /\ msg \in Seq(Bytes) /\ i \in 0 .. N - 1 /\ i \in Nat /\ dest \in Seq(Bytes)
      /\ depth \in Nat /\ j \in Nat /\ DestSize \in Nat /\ UdpMaxSize \in Nat /\ N <= UdpMaxSize
  BY DnsNameAssumption DEF NameInv, NameTypeOK, InBounds, RefuseName
<1>2. pc = "name" /\ pc' = "refused" /\ msg' = msg /\ c # 0
  BY DEF RefuseName, Refuse
<1>3. PICK s \in Nat : CameFrom(s)
  BY <1>2 DEF DecodeInv, Reading
<1>c. c = msg[i + 1]
  BY DEF Byte
<1>r. c \in 0 .. 255
  BY <1>1, BytesOf DEF Byte
<1>n. N \in Nat /\ i \in Nat
  BY <1>1
<1>4. QuestionNames' = QuestionNames
  BY <1>2 DEF QuestionNames
<1>5. SUFFICES \A name \in QuestionNames : Len(name) >= DestSize
  BY <1>2, <1>4 DEF DecodeInv, Reading, DecodesTheName
<1>6. CASE ~LabelAt(msg, i) /\ ~PointerAt(msg, i)
  BY <1>2, <1>3, <1>6, NothingMore
<1>7. CASE PointerAt(msg, i)
  <2>1. c >= 192 /\ i + 1 < N /\ Led(msg, i) < N /\ c \notin 1 .. 63 /\ c \notin 64 .. 191
    <3>1. c >= 192 /\ i + 1 < N /\ Led(msg, i) < N
      BY <1>c, <1>7 DEF PointerAt
    <3> HIDE DEF c
    <3>2. c >= 192 => c \notin 1 .. 63 /\ c \notin 64 .. 191
      BY <1>r
    <3> QED BY <3>1, <3>2
  <2>2. Target(c) = Led(msg, i)
    <3>1. i + 1 + 1 = i + 2
      BY <1>1
    <3> QED BY <3>1 DEF Target, Led, Byte
  <2>3. Led(msg, i) \in 0 .. N - 1
    BY <1>1, <2>1, LedNumber
  <2>4. ~Truncated /\ ~(Target(c) >= N)
    <3> HIDE DEF c, N
    <3>1. ~(i + 1 >= N) /\ ~(Led(msg, i) >= N)
      <4>1. i + 1 < N
        BY <2>1
      <4>2. ~(i + 1 >= N)
        BY <1>n, <4>1
      <4>3. \A l \in 0 .. N - 1 : ~(l >= N)
        BY <1>n
      <4> QED BY <2>3, <4>2, <4>3
    <3> QED BY <2>2, <3>1 DEF Truncated, N
  <2>5. TooDeep
    <3> HIDE DEF c
    <3> QED BY <2>1, <2>4 DEF RefuseName, c
  <2>6. depth + 1 >= Len(msg)
    BY <1>1, <2>5 DEF TooDeep, Deeper
  <2>7. QuestionNames = {}
    BY <1>2, <1>3, <1>7, <2>6, NothingMore
  <2> QED BY <2>7
<1>8. CASE LabelAt(msg, i)
  <2>1. c \in 1 .. 63 /\ i + 1 + c < N /\ c \notin 64 .. 191 /\ ~(c >= 192)
    <3>1. c \in 1 .. 63 /\ i + 1 + c < N
      BY <1>c, <1>8 DEF LabelAt
    <3> HIDE DEF c
    <3> QED BY <3>1
  <2>2. ~Truncated
    <3> HIDE DEF c
    <3> QED BY <1>1, <2>1 DEF Truncated
  <2>3. LabelCrosses(c)
    <3> HIDE DEF c
    <3> QED BY <2>1, <2>2 DEF RefuseName, c, IsPointer
  <2> HIDE DEF c
  <2>4. j + c + 1 >= DestSize
    BY <1>1, <2>1, <2>3 DEF LabelCrosses
  <2>5. label \in Seq(Bytes) /\ Len(label) = c
    BY <1>1, <2>1, LabelOf
  <2>6. Len(dest) = j
    BY <1>2 DEF DecodeInv, Reading
  <2>7. SUFFICES ASSUME s < N, NEW name \in {dest \o rest : rest \in NamesAt(msg)[N - s][i]}
                 PROVE  Len(name) >= DestSize
    <3>1. QuestionNames = IF s <= N THEN {dest \o rest : rest \in NamesAt(msg)[N - s][i]} ELSE {}
      BY <1>3 DEF CameFrom, Continues
    <3>2. s = N => N - s = 0 /\ NamesAt(msg)[0][i] = {}
      BY <1>1, NamesAtTurns
    <3>3. s < N \/ s = N \/ ~(s <= N)
      BY <1>1
    <3> QED BY <3>1, <3>2, <3>3
  <2>8. N - s \in 1 .. N /\ N - s - 1 \in 0 .. N
    BY <1>1, <2>7
  <2>9. PICK rest \in NamesHere(msg, i, NamesAt(msg)[N - s - 1]) : name = dest \o rest
    BY <1>1, <2>7, <2>8, NamesAtTurns
  <2> DEFINE X == NamesAt(msg)[N - s - 1][i + 1 + c]
  <2>10. PICK more \in X : rest = label \o <<Dot>> \o more
    <3>1. NamesHere(msg, i, NamesAt(msg)[N - s - 1]) = {label \o <<Dot>> \o more : more \in X}
      <4>1. NamesHere(msg, i, NamesAt(msg)[N - s - 1]) =
                {SubSeq(msg, i + 2, i + 1 + msg[i + 1]) \o <<Dot>> \o more :
                    more \in NamesAt(msg)[N - s - 1][i + 1 + msg[i + 1]]}
        BY <1>1, <1>8, HereOf
      <4> QED BY <4>1, <1>c
    <3> QED BY <2>9, <3>1
  <2>11. more \in Seq(Bytes)
    <3>1. NamesAt(msg)[N - s - 1] \in NameTables(msg)
      BY <1>1, <2>8, NamesAtTurns
    <3>2. i + 1 + c \in 0 .. N - 1
      <4> HIDE DEF N
      <4> QED BY <1>n, <2>1
    <3> QED BY <3>1, <3>2, <2>10 DEF NameTables
  <2>12. <<Dot>> \in Seq(Bytes) /\ Len(<<Dot>>) = 1
    BY DEF Dot, Bytes
  <2> HIDE DEF label
  <2>13. Len(name) = j + (c + 1 + Len(more)) /\ Len(more) \in Nat
    <3> DEFINE part == label \o <<Dot>>
    <3>1. part \in Seq(Bytes) /\ Len(part) = c + 1
      <4>1. label \in Seq(Bytes) /\ <<Dot>> \in Seq(Bytes)
        BY <2>5, <2>12
      <4>2. part \in Seq(Bytes) /\ Len(part) = Len(label) + Len(<<Dot>>)
        BY <4>1, ConcatProperties
      <4> QED BY <2>5, <2>12, <4>2
    <3> HIDE DEF part
    <3>2. rest = part \o more
      BY <2>10 DEF part
    <3>3. rest \in Seq(Bytes) /\ Len(rest) = c + 1 + Len(more) /\ Len(more) \in Nat
      BY <3>1, <3>2, <2>11
    <3>4. Len(name) = Len(dest) + Len(rest)
      BY <1>1, <2>9, <3>3, ConcatProperties
    <3> QED BY <2>6, <3>3, <3>4
  <2> QED BY <1>1, <2>1, <2>4, <2>13
<1> QED BY <1>6, <1>7, <1>8

(* At the start the names of the question are those at the start.          *)
LEMMA InitDecode == NameInit => DecodeInv
<1> SUFFICES ASSUME NameInit PROVE DecodeInv
  OBVIOUS
<1> DEFINE N == Len(msg)
<1>1. /\ msg \in Packets /\ i = 12 /\ j = 0 /\ depth = 0 /\ compressed = 0 /\ dest = << >>
      /\ pc = IF N > 12 THEN "name" ELSE "refused"
  BY DEF NameInit, PACKET_DATABEGIN
<1>2. msg \in Seq(Bytes) /\ N \in Nat
  BY <1>1, DnsNameAssumption
<1>3. DecodesTheName
  <2>1. pc = "refused" => QuestionNames = {}
    BY <1>1, <1>2 DEF QuestionNames, PACKET_DATABEGIN
  <2> QED BY <2>1, <1>1 DEF DecodesTheName
<1>4. ASSUME pc = "name" PROVE CameFrom(0)
  <2>1. N > 12 /\ 12 \in 0 .. N - 1 /\ N - 0 = N /\ 0 <= N /\ N \in 0 .. N
    BY <1>1, <1>2, <1>4
  <2> DEFINE path == [n \in 0 .. 0 |-> 12]
  <2>2. Way(path, 0)
    BY <1>1, <2>1 DEF Way, PACKET_DATABEGIN
  <2>3. NamesAt(msg)[N][12] \in SUBSET Seq(Bytes)
    <3>1. NamesAt(msg)[N] \in NameTables(msg)
      BY <1>2, <2>1, NamesAtTurns
    <3> QED BY <2>1, <3>1 DEF NameTables
  <2>4. QuestionNames = NamesAt(msg)[N][12]
    BY <2>1 DEF QuestionNames, PACKET_DATABEGIN
  <2>5. \A rest \in Seq(Bytes) : dest \o rest = rest
    BY <1>1
  <2>6. \A rest \in NamesAt(msg)[N][12] : dest \o rest = rest
    BY <2>3, <2>5
  <2>7. QuestionNames = {dest \o rest : rest \in NamesAt(msg)[N - 0][i]}
    BY <1>1, <2>1, <2>4, <2>6
  <2>8. Continues(0)
    BY <2>1, <2>7 DEF Continues
  <2>9. \E f : Way(f, 0)
    <3> HIDE DEF path
    <3> QED BY <2>2
  <2> QED BY <1>1, <2>8, <2>9 DEF CameFrom
<1>5. Reading
  BY <1>1, <1>4 DEF Reading, PACKET_DATABEGIN
<1> QED BY <1>3, <1>5 DEF DecodeInv

(* Every turn keeps it.                                                    *)
LEMMA DecodeStep == NameInv /\ DecodeInv /\ [NameNext]_nameVars => DecodeInv'
<1> SUFFICES ASSUME NameInv, DecodeInv, [NameNext]_nameVars PROVE DecodeInv'
  OBVIOUS
<1>1. CASE UNCHANGED nameVars
  <2>1. QuestionNames' = QuestionNames /\ \A s : Continues(s)' = Continues(s)
    BY <1>1 DEF nameVars, QuestionNames, Continues
  <2>2. ASSUME NEW s \in Nat, CameFrom(s) PROVE CameFrom(s)'
    BY <1>1, <2>1, <2>2 DEF nameVars, CameFrom, Way
  <2>3. Reading'
    BY <1>1, <2>2 DEF DecodeInv, Reading, nameVars
  <2>4. DecodesTheName'
    BY <1>1, <2>1 DEF DecodeInv, DecodesTheName, nameVars
  <2> QED BY <2>3, <2>4 DEF DecodeInv
<1> QED BY <1>1, DecodeEnd, DecodePointer, DecodeLabel, DecodeRefuse DEF NameNext, get_objname

(* Whatever the packet and the size of the buffer, the loop returns the     *)
(* name the packet holds and the place behind it, or refuses a packet that  *)
(* holds none or one too long.                                              *)
THEOREM NameDecoded == NameSpec => []DecodesTheName
<1>1. NameInit => NameInv /\ DecodeInv
  BY InitInv, InitDecode
<1>2. (NameInv /\ DecodeInv) /\ [NameNext]_nameVars => (NameInv /\ DecodeInv)'
  BY StepInv, DecodeStep
<1>3. DecodeInv => DecodesTheName
  BY DEF DecodeInv
<1> QED BY <1>1, <1>2, <1>3, PTL DEF NameSpec

---------------------------------------------------------------------------
(* Its place in the master *)

(* The call leaves the loop at the start of a packet that may arrive.       *)
LEMMA BeginIsInit ==
    ASSUME NEW p \in Packets, Begin(p, PACKET_DATABEGIN)
    PROVE  NameInit'
<1>1. Len(p) \in Nat
  BY DnsNameAssumption
<1> QED BY <1>1 DEF Begin, NameInit, PACKET_DATABEGIN
LEMMA SomePacket == NoPacket \in Packets
BY MasterAssumption DEF NoPacket, PACKET_DATABEGIN

(* Every step of the master calls the loop, runs one turn of it, or leaves  *)
(* its variables alone.                                                     *)
LEMMA MasterStep == [Next]_vars => [NameNext]_nameVars \/ NameInit'
<1> SUFFICES ASSUME [Next]_vars PROVE [NameNext]_nameVars \/ NameInit'
  OBVIOUS
<1>1. CASE chroot \/ master_reinit \/ parse_query \/ Lookup \/ DontKnow
  BY <1>1 DEF chroot, master_reinit, parse_query, Lookup, DontKnow
<1>2. ASSUME NEW p \in Packets, Arrive(p)
      PROVE  UNCHANGED nameVars \/ NameInit'
  <2>1. UNCHANGED nameVars \/ Begin(p, PACKET_DATABEGIN)
    BY <1>2 DEF Arrive
  <2> QED BY <2>1, BeginIsInit
<1>3. CASE ReadName
  BY <1>3 DEF ReadName, NameNext
<1>4. CASE Return
  <2>1. Begin(NoPacket, PACKET_DATABEGIN)
    BY <1>4 DEF Return
  <2> QED BY <2>1, SomePacket, BeginIsInit
<1>5. CASE UNCHANGED vars
  BY <1>5 DEF vars
<1> QED BY <1>1, <1>2, <1>3, <1>4, <1>5 DEF Next

(* For every packet and every size of the buffer, over any sequence of      *)
(* questions and reloads: no name is read or written out of bounds.         *)
THEOREM NamesStayInBounds == Spec => []NameInv
<1>1. Init => NameInv
  BY InitInv DEF Init
<1>2. NameInv /\ [Next]_vars => NameInv'
  BY MasterStep, StepInv, InitInv, PTL
<1> QED BY <1>1, <1>2, PTL DEF Spec

(* And every question is parsed as the name its packet holds.               *)
THEOREM NamesDecoded == Spec => []DecodesTheName
<1>1. Init => DecodeInv
  BY InitDecode DEF Init
<1>2. NameInv /\ DecodeInv /\ [Next]_vars => DecodeInv'
  BY MasterStep, DecodeStep, InitDecode, PTL
<1>3. DecodeInv => DecodesTheName
  BY DEF DecodeInv
<1> QED BY <1>1, <1>2, <1>3, NamesStayInBounds, PTL DEF Spec

---------------------------------------------------------------------------
(* Every name ends *)

(* What the turns of the loop take from: the pointers still allowed and the *)
(* room in the buffer.                                                      *)
NameTurnsLeft == IF pc = "name" THEN (Len(msg) - depth) + (DestSize - j) ELSE 0

(* At no time are more turns left than a call has at first.                 *)
LEMMA NameTurnsCounted ==
    NameInv => NameTurnsLeft \in Nat /\ NameTurnsLeft <= Len(msg) + DestSize
<1> SUFFICES ASSUME NameInv
             PROVE  NameTurnsLeft \in Nat /\ NameTurnsLeft <= Len(msg) + DestSize
  OBVIOUS
<1>1. Len(msg) \in Nat /\ DestSize \in Nat /\ depth \in Nat
  BY PacketBytes, DnsNameAssumption DEF NameInv, NameTypeOK
<1>2. pc = "name" => j \in 0 .. DestSize - 1 /\ depth < Len(msg)
  BY DEF NameInv, InBounds
<1> QED BY <1>1, <1>2 DEF NameTurnsLeft

(* A pointer takes one of the pointers, a label the room for it.            *)
LEMMA NameTurn ==
    ASSUME NameInv, get_objname
    PROVE  NameTurnsLeft' < NameTurnsLeft
<1>1. /\ Len(msg) \in Nat /\ DestSize \in Nat /\ depth \in Nat
      /\ pc = "name" /\ j \in 0 .. DestSize - 1 /\ depth < Len(msg)
  <2>1. pc = "name"
    BY DEF get_objname, EndOfName, FollowPointer, CopyLabel, RefuseName
  <2> QED BY <2>1, PacketBytes, DnsNameAssumption DEF NameInv, NameTypeOK, InBounds
<1>2. CASE EndOfName \/ RefuseName
  <2>1. pc' # "name"
    BY <1>2 DEF EndOfName, RefuseName, Refuse
  <2> QED BY <1>1, <2>1 DEF NameTurnsLeft
<1>3. CASE FollowPointer
  <2>1. msg' = msg /\ j' = j /\ pc' = pc /\ depth' = depth + 1
    BY <1>3 DEF FollowPointer, Deeper
  <2> QED BY <1>1, <2>1 DEF NameTurnsLeft
<1>4. CASE CopyLabel
  <2>1. PICK c \in 1 .. 63 : msg' = msg /\ depth' = depth /\ pc' = pc /\ j' = j + c + 1
    BY <1>4 DEF CopyLabel
  <2> QED BY <1>1, <2>1 DEF NameTurnsLeft
<1> QED BY <1>2, <1>3, <1>4 DEF get_objname

(* Labels and pointers that lead in a circle do not keep the program in the *)
(* loop: with a packet and a buffer of any size, get_objname() is through   *)
(* after as many turns as both together have bytes, and until then the      *)
(* program does nothing else.                                               *)
THEOREM NamesAreBounded ==
    Spec => /\ [](NameTurnsLeft \in Nat /\ NameTurnsLeft <= Len(msg) + DestSize)
            /\ [][stage = "parse" /\ stage' = "parse" => NameTurnsLeft' < NameTurnsLeft]_vars
<1> DEFINE Counted == NameTurnsLeft \in Nat /\ NameTurnsLeft <= Len(msg) + DestSize
           Falls == stage = "parse" /\ stage' = "parse" => NameTurnsLeft' < NameTurnsLeft
<1>1. NameInv => Counted
  BY NameTurnsCounted
<1>2. ASSUME NameInv, Next, stage = "parse", stage' = "parse"
      PROVE  NameTurnsLeft' < NameTurnsLeft
  <2>1. get_objname
    BY <1>2 DEF Next, chroot, master_reinit, Arrive, ReadName, parse_query, Lookup, DontKnow, Return
  <2> QED BY <1>2, <2>1, NameTurn
<1>3. NameInv /\ [Next]_vars => [Falls]_vars
  BY <1>2
<1>4. Spec => []Counted /\ [][Falls]_vars
  <2> HIDE DEF Counted, Falls
  <2> QED BY <1>1, <1>3, NamesStayInBounds, PTL DEF Spec
<1> QED BY <1>4

---------------------------------------------------------------------------
(* The table *)

(* Bytes that strnlwr() leaves alone.                                      *)
LowerBytes == Bytes \ (65 .. 90)

LEMMA Lowered ==
    ASSUME NEW s \in Texts
    PROVE  strnlwr(s) \in Texts /\ strnlwr(s) \in Seq(LowerBytes)
<1>1. Len(s) \in Nat /\ s \in [1 .. Len(s) -> Bytes] /\ DOMAIN s = 1 .. Len(s)
  BY DEF Texts
<1>2. ASSUME NEW b \in Bytes
      PROVE  (IF b \in 65 .. 90 THEN b + 32 ELSE b) \in LowerBytes
  BY <1>2 DEF Bytes, LowerBytes
<1>3. strnlwr(s) \in [1 .. Len(s) -> LowerBytes]
  BY <1>1, <1>2 DEF strnlwr
<1>4. strnlwr(s) \in Seq(LowerBytes)
  BY <1>1, <1>3
<1>5. LowerBytes \subseteq Bytes
  BY DEF LowerBytes
<1> QED BY <1>4, <1>5 DEF Texts

(* Texts of such bytes are what strnlwr() makes, and left alone by it.     *)
LEMMA Unchanged ==
    ASSUME NEW s \in Seq(LowerBytes)
    PROVE  strnlwr(s) = s /\ s \in Texts
<1>1. Len(s) \in Nat /\ s \in [1 .. Len(s) -> LowerBytes] /\ DOMAIN s = 1 .. Len(s)
  OBVIOUS
<1>2. \A b \in LowerBytes : b \notin 65 .. 90
  BY DEF LowerBytes
<1>3. strnlwr(s) = [k \in 1 .. Len(s) |-> s[k]]
  BY <1>1, <1>2 DEF strnlwr
<1>4. LowerBytes \subseteq Bytes
  BY DEF LowerBytes
<1> QED BY <1>1, <1>3, <1>4 DEF Texts

(* Min() of a set of naturals is in it.                                    *)
LEMMA LeastOf ==
    ASSUME NEW S \in SUBSET Nat, S # {}
    PROVE  Min(S) \in S /\ \A y \in S : Min(S) <= y
<1>1. PICK x \in S : \A y \in S : ~ (<<y, x>> \in OpToRel(<, Nat))
  BY NatLessThanWellFounded, WFMin
<1>2. ASSUME NEW y \in S PROVE x <= y
  <2>1. x \in Nat /\ y \in Nat
    OBVIOUS
  <2>2. ~(y < x)
    BY <1>1, <2>1, Zenon DEF OpToRel
  <2> QED BY <2>1, <2>2
<1> QED BY <1>2 DEF Min

(* What lies behind the first dot.                                         *)
LEMMA BehindDot ==
    ASSUME NEW s \in Seq(LowerBytes)
    PROVE  AfterDot(s) \in Seq(LowerBytes)
<1>1. CASE Dots(s) = {}
  <2>1. << >> \in Seq(LowerBytes)
    OBVIOUS
  <2> QED BY <1>1, <2>1 DEF AfterDot
<1>2. CASE Dots(s) # {}
  <2> DEFINE m == Min(Dots(s))
  <2>1. Len(s) \in Nat /\ Dots(s) \in SUBSET Nat /\ Dots(s) \subseteq 1 .. Len(s)
    BY DEF Dots
  <2>2. m \in 1 .. Len(s)
    BY <1>2, <2>1, LeastOf
  <2> HIDE DEF m
  <2>3. SubSeq(s, m + 1, Len(s)) \in Seq(LowerBytes)
    BY <2>1, <2>2
  <2> QED BY <1>2, <2>3 DEF AfterDot, m
<1> QED BY <1>1, <1>2

(* Sequences put together.                                                 *)
LEMMA Joined ==
    ASSUME NEW R, NEW s \in Seq(R), NEW t \in Seq(R)
    PROVE  s \o t \in Seq(R)
OBVIOUS

(* Digits are in lower case.                                               *)
LEMMA DigitsLower ==
    ASSUME NEW n \in Bytes
    PROVE  Decimal(n) \in Seq(LowerBytes)
<1>1. \A d \in 0 .. 9 : 48 + d \in LowerBytes
  BY DEF LowerBytes, Bytes
<1>2. n \div 100 \in 0 .. 9 /\ n % 10 \in 0 .. 9 /\ n \div 10 \in Nat
  BY DEF Bytes
<1>3. (n \div 10) % 10 \in 0 .. 9
  BY <1>2
<1> DEFINE a == IF n >= 100 THEN <<48 + (n \div 100)>> ELSE << >>
           b == IF n >= 10 THEN <<48 + ((n \div 10) % 10)>> ELSE << >>
           c == <<48 + (n % 10)>>
<1>4. << >> \in Seq(LowerBytes)
  OBVIOUS
<1>5. \A x \in LowerBytes : <<x>> \in Seq(LowerBytes)
  OBVIOUS
<1>6. a \in Seq(LowerBytes) /\ b \in Seq(LowerBytes) /\ c \in Seq(LowerBytes)
  BY <1>1, <1>2, <1>3, <1>4, <1>5
<1>7. Decimal(n) = a \o b \o c
  BY DEF Decimal
<1> HIDE DEF a, b, c
<1> QED BY <1>6, <1>7, Joined

(* The zone of an address is in lower case.                                *)
LEMMA ZoneLower ==
    ASSUME NEW ip \in [1 .. 4 -> Bytes]
    PROVE  ReverseZone(ip) \in Texts /\ strnlwr(ReverseZone(ip)) = ReverseZone(ip)
<1> DEFINE L == Seq(LowerBytes)
<1>1. <<Dot>> \in L
  BY DEF Dot, LowerBytes, Bytes
<1>2. /\ Decimal(ip[1]) \in L /\ Decimal(ip[2]) \in L /\ Decimal(ip[3]) \in L /\ Decimal(ip[4]) \in L
  <2>1. ip[1] \in Bytes /\ ip[2] \in Bytes /\ ip[3] \in Bytes /\ ip[4] \in Bytes
    OBVIOUS
  <2> QED BY <2>1, DigitsLower
<1>3. ARPADOMAIN \in L
  BY MasterAssumption, Lowered
<1> HIDE DEF L
<1>j. \A s \in L, t \in L : s \o t \in L
  BY Joined DEF L
<1>4. Arpa(ip) \in L
  BY <1>1, <1>2, <1>j DEF Arpa
<1>5. Arpa(ip) \o ARPADOMAIN \in L
  BY <1>3, <1>4, <1>j
<1>6. ReverseZone(ip) \in L
  BY <1>5, BehindDot DEF ReverseZone, L
<1> QED BY <1>6, Unchanged DEF L

(* A name with or without the domain is a text.                            *)
LEMMA HostnameTyped ==
    ASSUME NEW word \in Texts \ {<< >>}, NEW domain \in Texts
    PROVE  get_hostname(word, domain) \in Texts
<1>1. Len(word) \in Nat \ {0}
  BY EmptySeq DEF Texts
<1>2. Front(word) \in Texts
  <2>1. SubSeq(word, 1, Len(word) - 1) \in Texts
    BY <1>1 DEF Texts
  <2> QED BY <2>1 DEF Front
<1>3. ASSUME NEW w \in Texts PROVE WithDomain(w, domain) \in Texts
  <2>1. <<Dot>> \in Texts
    BY DEF Dot, Texts, Bytes
  <2>2. w \o <<Dot>> \o domain \in Texts
    BY <2>1, Joined DEF Texts
  <2> QED BY <2>2 DEF WithDomain
<1>4. /\ word \in Texts /\ Front(word) \in Texts
      /\ WithDomain(word, domain) \in Texts /\ WithDomain(Front(word), domain) \in Texts
  BY <1>2, <1>3
<1> DEFINE A == Head(word) = Plus
           B == Head(word) # Plus /\ Last(word) = Plus
           C == Head(word) # Plus /\ Last(word) = Dot
           D == Dots(word) = {} /\ Plus \notin {Head(word), Last(word)}
<1>5. Last(word) = Dot => Dots(word) # {}
  <2>1. Last(word) = Dot => Len(word) \in Dots(word)
    BY <1>1 DEF Last, Dots, Texts
  <2> QED BY <2>1
<1>6. get_hostname(word, domain) =
        CASE A -> word
          [] B -> WithDomain(Front(word), domain)
          [] C -> Front(word)
          [] D -> WithDomain(word, domain)
          [] OTHER -> word
  BY DEF get_hostname
<1>7. ~(A /\ B) /\ ~(A /\ C) /\ ~(A /\ D) /\ ~(B /\ C) /\ ~(B /\ D) /\ ~(C /\ D)
  BY <1>5 DEF Plus, Dot
<1> HIDE DEF A, B, C, D
<1>8. CASE A
  BY <1>4, <1>6, <1>7, <1>8
<1>9. CASE B
  BY <1>4, <1>6, <1>7, <1>9
<1>10. CASE C
  BY <1>4, <1>6, <1>7, <1>10
<1>11. CASE D
  BY <1>4, <1>6, <1>7, <1>11
<1>12. CASE ~A /\ ~B /\ ~C /\ ~D
  BY <1>4, <1>6, <1>12
<1> QED BY <1>8, <1>9, <1>10, <1>11, <1>12

(* And so are the names of a line.                                         *)
LEMMA HostnamesTyped ==
    ASSUME NEW words \in Seq(Texts \ {<< >>}), NEW domain \in Texts
    PROVE  Hostnames(words, domain) \in Seq(Texts)
<1> DEFINE names == [n \in DOMAIN words |-> get_hostname(words[n], domain)]
           ends == {n \in DOMAIN names : names[n] = << >>}
<1>1. Len(words) \in Nat /\ DOMAIN words = 1 .. Len(words) /\ \A n \in 1 .. Len(words) : words[n] \in Texts \ {<< >>}
  OBVIOUS
<1>2. names \in [1 .. Len(words) -> Texts]
  BY <1>1, HostnameTyped
<1>3. names \in Seq(Texts) /\ ends \subseteq 1 .. Len(words) /\ Len(names) = Len(words)
  <2> HIDE DEF names
  <2> QED BY <1>1, <1>2
<1>4. Hostnames(words, domain) = IF ends = {} THEN names ELSE SubSeq(names, 1, Min(ends) - 1)
  BY DEF Hostnames
<1> HIDE DEF names, ends
<1>5. ends # {} => Min(ends) \in 1 .. Len(words)
  <2>1. ends \in SUBSET Nat
    BY <1>1, <1>3
  <2> QED BY <1>3, <2>1, LeastOf
<1>6. ends # {} => SubSeq(names, 1, Min(ends) - 1) \in Seq(Texts)
  BY <1>1, <1>3, <1>5
<1> QED BY <1>3, <1>4, <1>6

(* What FlattenSeq() makes of the first so many sequences.                  *)
IsFlattened(f, seqs) ==
    f = [k \in 1 .. Len(seqs) |-> IF k = 1 THEN seqs[k] ELSE f[k - 1] \o seqs[k]]

(* There is such a function, and all its values are sequences of the same. *)
LEMMA FlattenExists ==
    ASSUME NEW R, NEW seqs \in Seq(Seq(R))
    PROVE  /\ \E f : IsFlattened(f, seqs)
           /\ \A f : IsFlattened(f, seqs) => \A k \in 1 .. Len(seqs) : f[k] \in Seq(R)
<1> DEFINE N == Len(seqs)
           D == Seq(R)
           turn == [n \in 1 .. N |-> [x \in D |-> x \o seqs[n]]]
<1>1. N \in Nat /\ << >> \in D /\ \A n \in 1 .. N : seqs[n] \in D
  OBVIOUS
<1>2. \A x \in D, y \in D : x \o y \in D
  BY Joined
<1>3. \A x \in D : << >> \o x = x
  OBVIOUS
<1> HIDE DEF N, D
<1>4. turn \in [1 .. N -> [D -> D]]
  BY <1>1, <1>2
<1>5. PICK h \in [0 .. N -> D] : IsHistory(h, N, << >>, turn)
  <2> HIDE DEF turn
  <2> QED BY <1>1, <1>4, HistoryExists
<1>6. h[0] = << >> /\ \A n \in 1 .. N : h[n] = h[n - 1] \o seqs[n]
  <2>1. \A n \in 1 .. N : h[n - 1] \in D
    BY <1>1, <1>5
  <2> QED BY <2>1, <1>5 DEF IsHistory
<1> HIDE DEF turn
<1> DEFINE f == [k \in 1 .. N |-> h[k]]
<1>7. IsFlattened(f, seqs)
  <2>1. ASSUME NEW k \in 1 .. N
        PROVE  h[k] = IF k = 1 THEN seqs[k] ELSE f[k - 1] \o seqs[k]
    <3>1. CASE k = 1
      BY <1>1, <1>3, <1>6, <3>1
    <3>2. CASE k # 1
      <4>1. k - 1 \in 1 .. N
        BY <1>1, <3>2
      <4> QED BY <1>6, <3>2, <4>1
    <3> QED BY <3>1, <3>2
  <2> QED BY <2>1 DEF IsFlattened, N
<1>8. ASSUME NEW g, IsFlattened(g, seqs)
      PROVE  \A k \in 1 .. N : g[k] \in D
  <2> DEFINE S == {k \in 0 .. N : k = 0 \/ g[k] \in D}
  <2>1. 0 \in S
    BY <1>1
  <2>2. ASSUME NEW k \in 1 .. N, k - 1 \in S PROVE k \in S
    <3>1. g[k] = IF k = 1 THEN seqs[k] ELSE g[k - 1] \o seqs[k]
      BY <1>8 DEF IsFlattened, N
    <3>2. CASE k = 1
      BY <1>1, <3>1, <3>2
    <3>3. CASE k # 1
      <4>1. g[k - 1] \in D
        BY <1>1, <2>2, <3>3
      <4>2. g[k - 1] \o seqs[k] \in D
        BY <1>1, <1>2, <4>1
      <4>3. g[k] \in D
        BY <3>1, <3>3, <4>2
      <4> QED BY <1>1, <4>3
    <3> QED BY <3>2, <3>3
  <2>3. \A k \in 0 .. N : k \in S
    <3> HIDE DEF S
    <3> QED BY <1>1, <2>1, <2>2, BoundedInduction
  <2> QED BY <1>1, <2>3
<1>9. \E g : IsFlattened(g, seqs)
  <2> HIDE DEF f
  <2> QED BY <1>7
<1> QED BY <1>8, <1>9 DEF N, D

(* So FlattenSeq() gives a sequence of the same.                           *)
LEMMA FlattenTyped ==
    ASSUME NEW R, NEW seqs \in Seq(Seq(R))
    PROVE  FlattenSeq(seqs) \in Seq(R)
<1> DEFINE f == CHOOSE f : IsFlattened(f, seqs)
<1>1. IsFlattened(f, seqs)
  BY FlattenExists
<1>2. FlattenSeq(seqs) = IF Len(seqs) = 0 THEN seqs ELSE f[Len(seqs)]
  BY DEF FlattenSeq, IsFlattened
<1> HIDE DEF f
<1>3. Len(seqs) \in Nat /\ (Len(seqs) = 0 => seqs \in Seq(R))
  <2>1. Len(seqs) = 0 => seqs = << >>
    BY EmptySeq
  <2>2. << >> \in Seq(R)
    OBVIOUS
  <2> QED BY <2>1, <2>2
<1>4. Len(seqs) # 0 => f[Len(seqs)] \in Seq(R)
  <2>1. Len(seqs) # 0 => Len(seqs) \in 1 .. Len(seqs)
    BY <1>3
  <2> QED BY <1>1, <2>1, FlattenExists
<1> QED BY <1>2, <1>3, <1>4

(* A sequence of sequences, put together.                                  *)
LEMMA FlattenOf ==
    ASSUME NEW R, NEW s, NEW N \in Nat, s \in [1 .. N -> Seq(R)]
    PROVE  FlattenSeq(s) \in Seq(R)
<1>1. s \in Seq(Seq(R))
  OBVIOUS
<1> QED BY <1>1, FlattenTyped

(* The records of the table: objects are in lower case, and what is called  *)
(* an address is one.                                                      *)
Ips == [1 .. 4 -> Bytes]

TableRecord ==
    [type : {"nameip"}, object : Seq(LowerBytes), data : Ips]
    \cup [type : {"dns", "authority"}, object : Seq(LowerBytes), data : Texts]

Tables == Seq(TableRecord)

(* What the functions that add records add.                                *)
LEMMA AddTyped ==
    ASSUME NEW name \in Texts
    PROVE  /\ \A ip \in {Invalid} \cup Ips : add_nameip(name, ip) \in Tables
           /\ \A dns \in Texts : add_dns(name, dns) \in Tables
           /\ add_authority(name) \in Tables
<1>1. << >> \in Texts /\ << >> \in Tables
  BY DEF Texts, Tables
<1>2. \A r \in TableRecord : <<r>> \in Tables
  BY DEF Tables
<1>3. strnlwr(name) \in Seq(LowerBytes)
  BY Lowered
<1>4. ASSUME NEW ip \in {Invalid} \cup Ips PROVE add_nameip(name, ip) \in Tables
  <2>1. CASE ip = Invalid
    BY <1>1, <2>1 DEF add_nameip
  <2>2. CASE ip # Invalid
    <3>1. ip \in Ips
      BY <2>2
    <3>2. Rec("nameip", name, ip) \in TableRecord
      BY <1>3, <3>1 DEF Rec, TableRecord
    <3> QED BY <1>2, <2>2, <3>2 DEF add_nameip
  <2> QED BY <2>1, <2>2
<1>5. ASSUME NEW dns \in Texts PROVE add_dns(name, dns) \in Tables
  <2>1. strnlwr(dns) \in Texts
    BY Lowered
  <2>2. Rec("dns", name, strnlwr(dns)) \in TableRecord
    BY <1>3, <2>1 DEF Rec, TableRecord
  <2> QED BY <1>2, <2>2 DEF add_dns
<1>6. add_authority(name) \in Tables
  <2>1. Rec("authority", name, << >>) \in TableRecord
    BY <1>1, <1>3 DEF Rec, TableRecord
  <2> QED BY <1>2, <2>1 DEF add_authority
<1> QED BY <1>4, <1>5, <1>6

(* The names of a line with an address.                                    *)
LEMMA NameipsTyped ==
    ASSUME NEW names \in Seq(Texts), NEW ip \in {Invalid} \cup Ips
    PROVE  add_nameips(names, ip) \in Tables
<1> DEFINE s == [n \in DOMAIN names |-> add_nameip(names[n], ip)]
<1>1. Len(names) \in Nat /\ DOMAIN names = 1 .. Len(names) /\ \A n \in 1 .. Len(names) : names[n] \in Texts
  OBVIOUS
<1>2. s \in [1 .. Len(names) -> Tables]
  BY <1>1, AddTyped
<1> HIDE DEF s
<1>3. FlattenSeq(s) \in Tables
  BY <1>1, <1>2, FlattenOf DEF Tables
<1> QED BY <1>3 DEF add_nameips, s

(* What a line is made of.                                                 *)
LEMMA LineOf ==
    ASSUME NEW line \in Line
    PROVE  /\ line.words \in Seq(Texts \ {<< >>}) /\ line.ip \in {Invalid} \cup Ips
           /\ line.file \in HostsFiles
BY DEF Line, Ips

(* A hosts file.                                                           *)
LEMMA HostsTyped ==
    ASSUME NEW lines \in Seq(Line), NEW domain \in Texts
    PROVE  read_hosts(lines, domain) \in Tables
<1> DEFINE of(n) == IF lines[n].directive = "ip"
                    THEN add_nameips(Hostnames(lines[n].words, domain), lines[n].ip) ELSE << >>
           s == [n \in DOMAIN lines |-> of(n)]
<1>1. Len(lines) \in Nat /\ DOMAIN lines = 1 .. Len(lines) /\ \A n \in 1 .. Len(lines) : lines[n] \in Line
  OBVIOUS
<1>2. ASSUME NEW n \in 1 .. Len(lines) PROVE of(n) \in Tables
  <2>1. << >> \in Tables
    BY DEF Tables
  <2>2. Hostnames(lines[n].words, domain) \in Seq(Texts)
    BY <1>1, LineOf, HostnamesTyped
  <2>3. add_nameips(Hostnames(lines[n].words, domain), lines[n].ip) \in Tables
    BY <1>1, <2>2, LineOf, NameipsTyped
  <2> QED BY <2>1, <2>3
<1>3. s \in [1 .. Len(lines) -> Tables]
  <2> HIDE DEF of
  <2> QED BY <1>1, <1>2
<1>4. read_hosts(lines, domain) = FlattenSeq(s)
  BY DEF read_hosts
<1> HIDE DEF s
<1>5. FlattenSeq(s) \in Tables
  BY <1>1, <1>3, FlattenOf DEF Tables
<1> QED BY <1>4, <1>5

(* A table with localhost in front.                                        *)
Home == Rec("nameip", Localhost, <<127, 0, 0, 1>>)

HomeTables == {db \in Tables : Len(db) >= 1 /\ db[1] = Home}

(* Whatever is put behind it, the front stays.                             *)
LEMMA HomeKept ==
    ASSUME NEW db \in HomeTables, NEW more \in Tables
    PROVE  /\ db \o more \in HomeTables
           /\ Len(db \o more) = Len(db) + Len(more)
           /\ \A k \in 1 .. Len(db) : (db \o more)[k] = db[k]
           /\ \A k \in 1 .. Len(more) : (db \o more)[Len(db) + k] = more[k]
<1>1. /\ db \in Seq(TableRecord) /\ more \in Seq(TableRecord)
      /\ Len(db) \in Nat /\ Len(db) >= 1 /\ db[1] = Home
  BY DEF HomeTables, Tables
<1>2. /\ db \o more \in Seq(TableRecord) /\ Len(db \o more) = Len(db) + Len(more)
      /\ \A k \in 1 .. Len(db) : (db \o more)[k] = db[k]
      /\ \A k \in 1 .. Len(more) : (db \o more)[Len(db) + k] = more[k]
  BY <1>1
<1>3. 1 \in 1 .. Len(db) /\ Len(more) \in Nat
  BY <1>1
<1>4. Len(db \o more) >= 1 /\ (db \o more)[1] = Home
  BY <1>1, <1>2, <1>3
<1> QED BY <1>2, <1>4 DEF HomeTables, Tables

(* The table and the domain, line after line.                              *)
Readings == [dbv : HomeTables, domain : Texts]

(* One line of the master file, whatever it is.                            *)
LEMMA LineRead ==
    ASSUME NEW s \in Readings, NEW line \in Line, NEW files \in [HostsFiles -> Seq(Line)]
    PROVE  read_line(s, line, files) \in Readings
<1> DEFINE names == Hostnames(line.words, s.domain)
           ofDomain == Hostnames(Tail(line.words), Head(line.words))
           servers == [n \in DOMAIN ofDomain |->
                        IF ofDomain[n] = AuthOption THEN add_authority(Head(line.words))
                        ELSE add_dns(Head(line.words), ofDomain[n])]
           mine == add_nameips(IF names = << >> THEN <<s.domain>> ELSE names, line.ip)
           theirs == read_hosts(files[line.file], IF line.words = << >> THEN s.domain ELSE Head(line.words))
           A == line.directive = "ip"
           B == line.directive = "domain" /\ line.words = << >>
           C == line.directive = "domain" /\ line.words # << >>
           D == line.directive = "hosts"
<1>1. /\ s.dbv \in HomeTables /\ s.domain \in Texts /\ s = [dbv |-> s.dbv, domain |-> s.domain]
  BY DEF Readings
<1>2. line.words \in Seq(Texts \ {<< >>}) /\ line.ip \in {Invalid} \cup Ips /\ line.file \in HostsFiles
  BY LineOf
<1>3. line.words # << >> => Head(line.words) \in Texts /\ Tail(line.words) \in Seq(Texts \ {<< >>})
  BY <1>2, EmptySeq
<1>4. ASSUME NEW more \in Tables, NEW domain \in Texts
      PROVE  [dbv |-> s.dbv \o more, domain |-> domain] \in Readings
  BY <1>1, HomeKept DEF Readings
<1>5. read_line(s, line, files) =
        CASE A -> [s EXCEPT !.dbv = @ \o mine]
          [] B -> [s EXCEPT !.domain = << >>]
          [] C -> [domain |-> Head(line.words), dbv |-> s.dbv \o FlattenSeq(servers)]
          [] D -> [s EXCEPT !.dbv = @ \o theirs]
          [] OTHER -> s
  BY DEF read_line
<1>6. ~(A /\ B) /\ ~(A /\ C) /\ ~(A /\ D) /\ ~(B /\ C) /\ ~(B /\ D) /\ ~(C /\ D)
  OBVIOUS
<1>7. mine \in Tables
  <2>1. names \in Seq(Texts)
    BY <1>1, <1>2, HostnamesTyped
  <2>2. <<s.domain>> \in Seq(Texts)
    BY <1>1
  <2> HIDE DEF names
  <2>3. (IF names = << >> THEN <<s.domain>> ELSE names) \in Seq(Texts)
    BY <2>1, <2>2
  <2> QED BY <2>3, <1>2, NameipsTyped
<1>8. theirs \in Tables
  <2>1. files[line.file] \in Seq(Line)
    BY <1>2
  <2>2. (IF line.words = << >> THEN s.domain ELSE Head(line.words)) \in Texts
    BY <1>1, <1>3
  <2> QED BY <2>1, <2>2, HostsTyped
<1>9. ASSUME C PROVE Head(line.words) \in Texts /\ FlattenSeq(servers) \in Tables
  <2>1. Head(line.words) \in Texts /\ ofDomain \in Seq(Texts)
    BY <1>3, <1>9, HostnamesTyped
  <2> HIDE DEF ofDomain
  <2>2. /\ Len(ofDomain) \in Nat /\ DOMAIN ofDomain = 1 .. Len(ofDomain)
        /\ \A n \in 1 .. Len(ofDomain) : ofDomain[n] \in Texts
    BY <2>1
  <2>3. servers \in [1 .. Len(ofDomain) -> Tables]
    BY <2>1, <2>2, AddTyped
  <2> HIDE DEF servers
  <2>4. FlattenSeq(servers) \in Tables
    BY <2>2, <2>3, FlattenOf DEF Tables
  <2> QED BY <2>1, <2>4
<1> HIDE DEF A, B, C, D, mine, theirs, servers, ofDomain, names
<1>10. CASE A
  <2>1. read_line(s, line, files) = [s EXCEPT !.dbv = @ \o mine]
    BY <1>5, <1>6, <1>10
  <2>2. s.dbv \o mine \in HomeTables
    BY <1>1, <1>7, HomeKept
  <2> QED BY <2>1, <2>2 DEF Readings
<1>11. CASE B
  <2>1. read_line(s, line, files) = [s EXCEPT !.domain = << >>]
    BY <1>5, <1>6, <1>11
  <2>2. << >> \in Texts
    BY DEF Texts
  <2> QED BY <2>1, <2>2, <1>1 DEF Readings
<1>12. CASE C
  <2>1. read_line(s, line, files) = [domain |-> Head(line.words), dbv |-> s.dbv \o FlattenSeq(servers)]
    BY <1>5, <1>6, <1>12
  <2>2. read_line(s, line, files) = [dbv |-> s.dbv \o FlattenSeq(servers), domain |-> Head(line.words)]
    BY <2>1
  <2> QED BY <2>2, <1>4, <1>9, <1>12
<1>13. CASE D
  <2>1. read_line(s, line, files) = [s EXCEPT !.dbv = @ \o theirs]
    BY <1>5, <1>6, <1>13
  <2>2. s.dbv \o theirs \in HomeTables
    BY <1>1, <1>8, HomeKept
  <2> QED BY <2>1, <2>2 DEF Readings
<1>14. CASE ~A /\ ~B /\ ~C /\ ~D
  BY <1>5, <1>14
<1> QED BY <1>10, <1>11, <1>12, <1>13, <1>14

(* What after of read_configuration() is.                                  *)
IsAfter(f, disk, domain, db) ==
    f = [n \in 0 .. Len(disk.master) |->
            IF n = 0 THEN [dbv |-> db, domain |-> domain]
            ELSE read_line(f[n - 1], disk.master[n], disk.files)]

(* What the files are made of.                                             *)
LEMMA DiskOf ==
    ASSUME NEW disk \in Disk
    PROVE  /\ disk.master \in Seq(Line) /\ Len(disk.master) \in Nat
           /\ \A n \in 1 .. Len(disk.master) : disk.master[n] \in Line
           /\ disk.files \in [HostsFiles -> Seq(Line)]
           /\ disk.blacklist \in Seq(Texts)
BY DEF Disk

(* There is such a function: every line makes one table of another.        *)
LEMMA FilesExist ==
    ASSUME NEW disk \in Disk, NEW domain \in Texts, NEW db \in HomeTables
    PROVE  \E f : IsAfter(f, disk, domain, db)
<1> DEFINE N == Len(disk.master)
           a == [dbv |-> db, domain |-> domain]
           turn == [n \in 1 .. N |-> [s \in Readings |-> read_line(s, disk.master[n], disk.files)]]
<1>1. N \in Nat /\ a \in Readings
  BY DiskOf DEF Readings
<1>2. turn \in [1 .. N -> [Readings -> Readings]]
  <2>1. \A n \in 1 .. N, s \in Readings : read_line(s, disk.master[n], disk.files) \in Readings
    BY DiskOf, LineRead
  <2> QED BY <2>1
<1>3. PICK f \in [0 .. N -> Readings] : IsHistory(f, N, a, turn)
  <2> HIDE DEF N, turn, a
  <2> QED BY <1>1, <1>2, HistoryExists
<1>4. f[0] = a /\ \A n \in 1 .. N : f[n] = turn[n][f[n - 1]]
  BY <1>3 DEF IsHistory
<1> HIDE DEF a
<1>5. ASSUME NEW n \in 0 .. N
      PROVE  f[n] = IF n = 0 THEN a ELSE read_line(f[n - 1], disk.master[n], disk.files)
  <2>1. CASE n = 0
    BY <2>1, <1>4
  <2>2. CASE n # 0
    <3>1. n \in 1 .. N /\ n - 1 \in 0 .. N
      BY <2>2, <1>1
    <3>2. f[n - 1] \in Readings
      BY <3>1, <1>3
    <3> QED BY <2>2, <3>1, <3>2, <1>4
  <2> QED BY <2>1, <2>2
<1>6. f = [n \in 0 .. N |-> f[n]]
  BY <1>3
<1> HIDE DEF turn
<1>7. IsAfter(f, disk, domain, db)
  BY <1>5, <1>6 DEF IsAfter, a
<1> QED BY <1>7

(* The master file, line after line.                                       *)
LEMMA FilesRead ==
    ASSUME NEW disk \in Disk, NEW domain \in Texts, NEW db \in HomeTables
    PROVE  read_configuration(disk, domain, db) \in HomeTables
<1> DEFINE N == Len(disk.master)
           f == CHOOSE f : IsAfter(f, disk, domain, db)
           S == {n \in 0 .. N : f[n] \in Readings}
<1>1. IsAfter(f, disk, domain, db)
  BY FilesExist
<1>2. read_configuration(disk, domain, db) = f[N].dbv
  BY DEF read_configuration, IsAfter
<1> HIDE DEF f
<1>3. N \in Nat
  BY DiskOf
<1>4. f[0] = [dbv |-> db, domain |-> domain]
  BY <1>1, <1>3 DEF IsAfter
<1>5. 0 \in S
  BY <1>3, <1>4 DEF Readings
<1>6. ASSUME NEW n \in 1 .. N, n - 1 \in S PROVE n \in S
  <2>1. n \in 0 .. N /\ n # 0
    BY <1>3
  <2>2. f[n] = read_line(f[n - 1], disk.master[n], disk.files)
    BY <1>1, <2>1 DEF IsAfter
  <2>3. f[n] \in Readings
    BY <1>6, <2>2, DiskOf, LineRead
  <2> QED BY <2>1, <2>3
<1>7. \A n \in 0 .. N : n \in S
  <2> HIDE DEF N, S
  <2> QED BY <1>3, <1>5, <1>6, BoundedInduction
<1>8. f[N] \in Readings
  BY <1>3, <1>7
<1> QED BY <1>2, <1>8 DEF Readings

(* Every address has the authority for its zone.                           *)
ZoneOf(db, rec) == rec.type = "nameip" => authority_lookup(db, ReverseZone(rec.data))

Covered(db) == \A k \in DOMAIN db : ZoneOf(db, db[k])

(* A record that is added for an address in the table.                     *)
Added(rec, db) ==
    /\ rec.type = "authority"
    /\ \E k \in 1 .. Len(db) : db[k].type = "nameip" /\ rec.object = ReverseZone(db[k].data)

(* all, after n turns of auto_authority(): db with authorities behind it,  *)
(* those for the first n records among them.                               *)
Extended(all, db, n) ==
    /\ all \in HomeTables /\ Len(db) <= Len(all)
    /\ \A k \in 1 .. Len(db) : all[k] = db[k]
    /\ \A k \in Len(db) + 1 .. Len(all) : Added(all[k], db)
    /\ \A k \in 1 .. n : ZoneOf(all, db[k])

(* What a record is, and a table.                                          *)
LEMMA RecordOf ==
    ASSUME NEW rec \in TableRecord
    PROVE  /\ rec.type \in {"nameip", "dns", "authority"}
           /\ strnlwr(rec.object) = rec.object
           /\ rec.type = "nameip" => rec.data \in Ips
<1>1. rec.type \in {"nameip", "dns", "authority"} /\ rec.object \in Seq(LowerBytes)
      /\ (rec.type = "nameip" => rec.data \in Ips)
  BY DEF TableRecord
<1> QED BY <1>1, Unchanged

LEMMA TableOf ==
    ASSUME NEW db \in HomeTables
    PROVE  /\ Len(db) \in Nat /\ Len(db) >= 1 /\ DOMAIN db = 1 .. Len(db) /\ db[1] = Home
           /\ \A k \in 1 .. Len(db) : db[k] \in TableRecord
BY DEF HomeTables, Tables

(* One turn of auto_authority(): the zone of the next address is there, or *)
(* is added behind.                                                        *)
LEMMA TurnExtends ==
    ASSUME NEW db \in HomeTables, NEW n \in 1 .. Len(db), NEW all, Extended(all, db, n - 1)
    PROVE  Extended(add_zone(all, db[n]), db, n)
<1> DEFINE rec == db[n]
           zone == ReverseZone(rec.data)
           new == add_zone(all, rec)
<1>1. /\ all \in HomeTables /\ Len(db) \in Nat /\ Len(all) \in Nat /\ Len(db) <= Len(all)
      /\ DOMAIN all = 1 .. Len(all)
      /\ \A k \in 1 .. Len(db) : all[k] = db[k]
      /\ \A k \in Len(db) + 1 .. Len(all) : Added(all[k], db)
      /\ \A k \in 1 .. n - 1 : ZoneOf(all, db[k])
  BY TableOf DEF Extended
<1>2. \A k \in 1 .. n : k \in 1 .. n - 1 \/ k = n
  OBVIOUS
<1>3. CASE rec.type = "nameip" /\ ~authority_lookup(all, zone)
  <2>1. zone \in Texts /\ strnlwr(zone) = zone
    <3>1. rec.data \in Ips
      BY <1>3, TableOf, RecordOf
    <3> QED BY <3>1, ZoneLower DEF Ips
  <2> DEFINE more == add_authority(zone)
  <2>2. more \in Tables /\ Len(more) = 1 /\ more[1].type = "authority" /\ more[1].object = zone
    BY <2>1, AddTyped DEF add_authority, Rec
  <2>3. new = all \o more
    BY <1>3 DEF add_zone
  <2> HIDE DEF new, more
  <2>4. /\ new \in HomeTables /\ Len(new) = Len(all) + 1 /\ DOMAIN new = 1 .. Len(all) + 1
        /\ \A k \in 1 .. Len(all) : new[k] = all[k]
        /\ new[Len(all) + 1].type = "authority" /\ new[Len(all) + 1].object = zone
    <3>1. /\ all \o more \in HomeTables /\ Len(all \o more) = Len(all) + Len(more)
          /\ \A k \in 1 .. Len(all) : (all \o more)[k] = all[k]
          /\ \A k \in 1 .. Len(more) : (all \o more)[Len(all) + k] = more[k]
      BY <1>1, <2>2, HomeKept, Zenon
    <3>2. \A k \in 1 .. Len(all) : new[k] = all[k]
      BY <2>3, <3>1
    <3>3. 1 \in 1 .. Len(more)
      BY <2>2
    <3>4. new \in HomeTables /\ Len(new) = Len(all) + 1 /\ new[Len(all) + 1] = more[1]
      BY <2>2, <2>3, <3>1, <3>3
    <3>5. DOMAIN new = 1 .. Len(new)
      BY <3>4, TableOf
    <3> QED BY <2>2, <3>2, <3>4, <3>5
  <2>5. authority_lookup(new, zone)
    <3>1. Len(all) + 1 \in DOMAIN new
      BY <1>1, <2>4
    <3> QED BY <2>4, <3>1 DEF authority_lookup
  <2>6. \A z : authority_lookup(all, z) => authority_lookup(new, z)
    <3>1. \A k \in DOMAIN all : k \in DOMAIN new /\ new[k] = all[k]
      BY <1>1, <2>4
    <3> QED BY <3>1 DEF authority_lookup
  <2>7. \A k \in 1 .. n : ZoneOf(new, db[k])
    BY <1>1, <1>2, <2>5, <2>6 DEF ZoneOf
  <2>8. \A k \in 1 .. Len(db) : new[k] = db[k]
    BY <1>1, <2>4
  <2>9. \A k \in Len(db) + 1 .. Len(new) : Added(new[k], db)
    <3>2. Added(new[Len(all) + 1], db)
      BY <1>3, <2>4 DEF Added
    <3>1. \A k \in Len(db) + 1 .. Len(all) + 1 :
            (k \in 1 .. Len(all) /\ k \in Len(db) + 1 .. Len(all)) \/ k = Len(all) + 1
      BY <1>1
    <3> QED BY <1>1, <2>4, <3>1, <3>2
  <2> QED BY <1>1, <2>4, <2>7, <2>8, <2>9 DEF Extended, new
<1>4. CASE ~(rec.type = "nameip" /\ ~authority_lookup(all, zone))
  <2>1. new = all
    BY <1>4 DEF add_zone
  <2>2. ZoneOf(all, rec)
    BY <1>4 DEF ZoneOf
  <2>3. \A k \in 1 .. n : ZoneOf(all, db[k])
    BY <1>1, <1>2, <2>2
  <2> QED BY <1>1, <2>1, <2>3 DEF Extended
<1> QED BY <1>3, <1>4

IsAll(f, db) == f = [n \in 0 .. Len(db) |-> IF n = 0 THEN db ELSE add_zone(f[n - 1], db[n])]

(* It makes a table of a table.                                            *)
LEMMA ZoneTyped ==
    ASSUME NEW all \in HomeTables, NEW rec \in TableRecord
    PROVE  add_zone(all, rec) \in HomeTables
<1> DEFINE zone == ReverseZone(rec.data)
<1>1. CASE rec.type = "nameip" /\ ~authority_lookup(all, zone)
  <2>1. add_authority(zone) \in Tables
    BY <1>1, RecordOf, ZoneLower, AddTyped DEF Ips
  <2>2. add_zone(all, rec) = all \o add_authority(zone)
    BY <1>1 DEF add_zone
  <2> QED BY <2>1, <2>2, HomeKept
<1>2. CASE ~(rec.type = "nameip" /\ ~authority_lookup(all, zone))
  BY <1>2 DEF add_zone
<1> QED BY <1>1, <1>2

(* So the recursion has a solution.                                        *)
LEMMA AllExists ==
    ASSUME NEW db \in HomeTables
    PROVE  \E f : IsAll(f, db)
<1> DEFINE N == Len(db)
           turn == [n \in 1 .. N |-> [all \in HomeTables |-> add_zone(all, db[n])]]
<1>1. N \in Nat /\ \A n \in 1 .. N : db[n] \in TableRecord
  BY TableOf
<1>2. turn \in [1 .. N -> [HomeTables -> HomeTables]]
  BY <1>1, ZoneTyped
<1>3. PICK f \in [0 .. N -> HomeTables] : IsHistory(f, N, db, turn)
  <2> HIDE DEF N, turn
  <2> QED BY <1>1, <1>2, HistoryExists
<1>4. f[0] = db /\ \A n \in 1 .. N : f[n] = turn[n][f[n - 1]]
  BY <1>3 DEF IsHistory
<1>5. ASSUME NEW n \in 0 .. N
      PROVE  f[n] = IF n = 0 THEN db ELSE add_zone(f[n - 1], db[n])
  <2>1. CASE n = 0
    BY <2>1, <1>4
  <2>2. CASE n # 0
    <3>1. n \in 1 .. N /\ n - 1 \in 0 .. N
      BY <2>2, <1>1
    <3>2. f[n - 1] \in HomeTables
      BY <3>1, <1>3
    <3> QED BY <2>2, <3>1, <3>2, <1>4
  <2> QED BY <2>1, <2>2
<1>6. f = [n \in 0 .. N |-> f[n]]
  BY <1>3
<1> HIDE DEF turn
<1>7. IsAll(f, db)
  BY <1>5, <1>6 DEF IsAll
<1> QED BY <1>7

(* Behind the loop every address is covered: those of db, and the new      *)
(* records are none.                                                       *)
LEMMA AllCovered ==
    ASSUME NEW db \in HomeTables
    PROVE  /\ auto_authority(db) \in HomeTables /\ Covered(auto_authority(db))
           /\ Extended(auto_authority(db), db, Len(db))
<1> DEFINE N == Len(db)
           f == CHOOSE f : IsAll(f, db)
           S == {n \in 0 .. N : Extended(f[n], db, n)}
<1>1. IsAll(f, db)
  BY AllExists
<1>2. auto_authority(db) = f[N]
  BY DEF auto_authority, IsAll
<1> HIDE DEF f
<1>3. N \in Nat /\ DOMAIN db = 1 .. N
  BY TableOf
<1>4. f[0] = db
  BY <1>1, <1>3 DEF IsAll
<1>5. 0 \in S
  <2>1. N + 1 .. N = {} /\ 1 .. 0 = {} /\ N <= N
    BY <1>3
  <2>2. Extended(db, db, 0)
    BY <2>1 DEF Extended
  <2> QED BY <1>3, <1>4, <2>2
<1>6. ASSUME NEW n \in 1 .. N, n - 1 \in S PROVE n \in S
  <2>1. n \in 0 .. N /\ n # 0
    BY <1>3
  <2>2. f[n] = add_zone(f[n - 1], db[n])
    BY <1>1, <2>1 DEF IsAll
  <2>3. Extended(f[n], db, n)
    BY <1>6, <2>2, TurnExtends
  <2> QED BY <2>1, <2>3
<1>7. \A n \in 0 .. N : n \in S
  <2> HIDE DEF N, S
  <2> QED BY <1>3, <1>5, <1>6, BoundedInduction
<1> DEFINE all == f[N]
<1>8. Extended(all, db, N)
  BY <1>3, <1>7
<1> HIDE DEF all
<1>9. /\ all \in HomeTables /\ N <= Len(all) /\ Len(all) \in Nat /\ DOMAIN all = 1 .. Len(all)
      /\ \A k \in 1 .. N : all[k] = db[k]
      /\ \A k \in N + 1 .. Len(all) : all[k].type = "authority"
      /\ \A k \in 1 .. N : ZoneOf(all, db[k])
  BY <1>8, TableOf DEF Extended, Added
<1>10. ASSUME NEW k \in 1 .. Len(all) PROVE ZoneOf(all, all[k])
  <2>1. k \in 1 .. N \/ k \in N + 1 .. Len(all)
    BY <1>3, <1>9
  <2>2. CASE k \in 1 .. N
    BY <1>9, <2>2
  <2>3. CASE k \in N + 1 .. Len(all)
    BY <1>9, <2>3 DEF ZoneOf
  <2> QED BY <2>1, <2>2, <2>3
<1> QED BY <1>2, <1>8, <1>9, <1>10 DEF Covered, all

LEMMA HomeIp == <<127, 0, 0, 1>> \in Ips
BY DEF Ips, Bytes

(* The first record of every table.                                        *)
LEMMA HomeIsTable ==
    /\ add_nameip(Localhost, <<127, 0, 0, 1>>) = <<Home>>
    /\ <<Home>> \in HomeTables
<1> DEFINE ip == <<127, 0, 0, 1>>
<1>1. ip \in Ips /\ ip # Invalid
  BY HomeIp DEF Invalid
<1>2. Localhost \in Texts
  BY MasterAssumption
<1>3. add_nameip(Localhost, ip) = <<Home>>
  BY <1>1 DEF add_nameip, Home
<1> HIDE DEF ip
<1>4. <<Home>> \in Tables
  BY <1>1, <1>2, <1>3, AddTyped
<1>5. Len(<<Home>>) = 1 /\ <<Home>>[1] = Home
  OBVIOUS
<1> QED BY <1>3, <1>4, <1>5 DEF HomeTables, ip

(* The records there are before the master file is read.                   *)
HomeDns == Rec("dns", Loopback, Localhost)

Ground(disk) ==
    << >> \o add_nameip(Localhost, <<127, 0, 0, 1>>) \o add_dns(Loopback, Localhost)
          \o read_blacklist(disk.blacklist)

LEMMA GroundTyped ==
    ASSUME NEW disk \in Disk
    PROVE  /\ Ground(disk) \in HomeTables
           /\ Ground(disk) = <<Home>> \o <<HomeDns>> \o read_blacklist(disk.blacklist)
           /\ HomeDns \in TableRecord
           /\ LET names == disk.blacklist IN
                [n \in 1 .. Len(names) |-> add_authority(names[n])] \in [1 .. Len(names) -> Tables]
<1> DEFINE dns == add_dns(Loopback, Localhost)
           names == disk.blacklist
           s == [n \in DOMAIN names |-> add_authority(names[n])]
           black == read_blacklist(names)
           home == add_nameip(Localhost, <<127, 0, 0, 1>>)
<1>1. dns \in Tables
  <2>1. Localhost \in Texts /\ Loopback \in Texts
    BY MasterAssumption, HomeIp, ZoneLower DEF Ips
  <2> QED BY <2>1, AddTyped
<1>2. dns = <<HomeDns>>
  BY MasterAssumption DEF add_dns, HomeDns
<1>3. HomeDns \in TableRecord
  <2>1. <<HomeDns>> \in Seq(TableRecord) /\ Len(<<HomeDns>>) = 1 /\ <<HomeDns>>[1] = HomeDns
    BY <1>1, <1>2 DEF Tables
  <2> HIDE DEF dns
  <2> QED BY <2>1
<1>4. Len(names) \in Nat /\ DOMAIN names = 1 .. Len(names) /\ \A n \in 1 .. Len(names) : names[n] \in Texts
  BY DiskOf
<1>5. s \in [1 .. Len(names) -> Tables] /\ s = [n \in 1 .. Len(names) |-> add_authority(names[n])]
  BY <1>4, AddTyped
<1>6. black \in Tables
  <2>1. black = FlattenSeq(s)
    BY DEF read_blacklist
  <2> HIDE DEF s, names, black
  <2>2. FlattenSeq(s) \in Tables
    BY <1>4, <1>5, FlattenOf DEF Tables
  <2> QED BY <2>1, <2>2
<1>7. home \in HomeTables /\ << >> \o home = home /\ home = <<Home>>
  <2>1. home \in HomeTables /\ home = <<Home>>
    BY HomeIsTable
  <2>2. home \in Seq(TableRecord)
    BY <2>1 DEF HomeTables, Tables
  <2> HIDE DEF home
  <2> QED BY <2>1, <2>2
<1>8. Ground(disk) = << >> \o home \o dns \o black
  BY DEF Ground
<1> HIDE DEF dns, black, home
<1>9. Ground(disk) \in HomeTables
  BY <1>1, <1>6, <1>7, <1>8, HomeKept
<1> QED BY <1>2, <1>3, <1>5, <1>7, <1>8, <1>9 DEF black

LEMMA DatabaseOf ==
    ASSUME NEW disk \in Disk, NEW domain \in Texts
    PROVE  /\ Database(disk, domain, << >>) = auto_authority(read_configuration(disk, domain, Ground(disk)))
           /\ read_configuration(disk, domain, Ground(disk)) \in HomeTables
BY GroundTyped, FilesRead DEF Database, Ground

(* Whatever the files hold, the table begins with localhost and covers the *)
(* addresses in it.                                                        *)
LEMMA DatabaseCovered ==
    ASSUME NEW disk \in Disk, NEW domain \in Texts
    PROVE  Database(disk, domain, << >>) \in HomeTables /\ Covered(Database(disk, domain, << >>))
BY DatabaseOf, AllCovered

(* What is left of the files behind chroot().                              *)
LEMMA ReadableDisk ==
    ASSUME NEW disk \in Disk, NEW r
    PROVE  Readable(disk, r) \in Disk
<1>1. "system" \in HostsFiles /\ << >> \in Seq(Line)
  BY MasterAssumption
<1>2. disk.files \in [HostsFiles -> Seq(Line)]
  BY DiskOf
<1>3. [disk.files EXCEPT !["system"] = << >>] \in [HostsFiles -> Seq(Line)]
  BY <1>1, <1>2
<1>4. [disk EXCEPT !.files["system"] = << >>] \in Disk
  BY <1>3 DEF Disk
<1> QED BY <1>4 DEF Readable

(* What the table and the steps of a question keep.                        *)
TableInv == dbv \in HomeTables /\ Covered(dbv)

StageInv ==
    /\ rooted \in {0, 1}
    /\ stage \in {"idle", "parse", "lookup", "answered", "forward", "dontknow"}
    /\ stage \in {"idle", "parse", "lookup", "forward"} => reply = NoReply
    /\ stage = "answered" => reply # NoReply /\ Usual(query)

(* main() reads the files.                                                 *)
LEMMA TableInit == Init => TableInv
<1> SUFFICES ASSUME Init PROVE TableInv
  OBVIOUS
<1>1. PICK disk \in Disks, g \in Garbage : dbv = Database(disk, g, << >>)
  BY DEF Init
<1>2. disk \in Disk /\ g \in Texts
  BY MasterAssumption
<1> QED BY <1>1, <1>2, DatabaseCovered DEF TableInv

(* A SIGHUP reads them again, whatever they have become; nothing else      *)
(* touches the table.                                                      *)
LEMMA TableStep == TableInv /\ [Next]_vars => TableInv'
<1> SUFFICES ASSUME TableInv, [Next]_vars PROVE TableInv'
  OBVIOUS
<1>1. CASE master_reinit
  <2>1. PICK disk \in Disks, g \in Garbage : dbv' = Database(Readable(disk, 1), g, << >>)
    BY <1>1 DEF master_reinit, master_init, reset_master
  <2>2. g \in Texts /\ disk \in Disk
    BY MasterAssumption
  <2>3. Readable(disk, 1) \in Disk
    BY <2>2, ReadableDisk
  <2> QED BY <2>1, <2>2, <2>3, DatabaseCovered DEF TableInv
<1>2. ASSUME UNCHANGED dbv PROVE TableInv'
  BY <1>2 DEF TableInv
<1>3. CASE chroot
  BY <1>2, <1>3 DEF chroot
<1>4. CASE \E p \in Packets : Arrive(p)
  BY <1>2, <1>4 DEF Arrive, tableVars
<1>5. CASE ReadName \/ parse_query \/ Lookup \/ DontKnow \/ Return
  BY <1>2, <1>5 DEF ReadName, parse_query, Lookup, DontKnow, Return, tableVars
<1>6. CASE UNCHANGED vars
  BY <1>2, <1>6 DEF vars, tableVars
<1> QED BY <1>1, <1>3, <1>4, <1>5, <1>6 DEF Next

(* Only a usual question gets a reply from the table.                      *)
LEMMA LookupUsual ==
    ASSUME NEW q, NEW id, ~Usual(q)
    PROVE  master_lookup(q, id) = NoReply
BY DEF master_lookup

(* A question has not begun.                                               *)
LEMMA StageInit == Init => StageInv
BY DEF Init, StageInv

(* Every step of a question.                                               *)
LEMMA StageStep == StageInv /\ [Next]_vars => StageInv'
<1> SUFFICES ASSUME StageInv, [Next]_vars PROVE StageInv'
  OBVIOUS
<1> USE DEF StageInv
<1>1. CASE chroot
  BY <1>1 DEF chroot
<1>2. CASE master_reinit
  BY <1>2 DEF master_reinit
<1>3. CASE \E p \in Packets : Arrive(p)
  BY <1>3 DEF Arrive, tableVars
<1>4. CASE ReadName
  BY <1>4 DEF ReadName, tableVars
<1>5. CASE parse_query
  BY <1>5 DEF parse_query, tableVars
<1>6. CASE Lookup
  <2>1. /\ stage = "lookup" /\ rooted' = rooted /\ query' = query
        /\ reply' = master_lookup(query, SubSeq(msg, 1, 2))
        /\ stage' = IF reply' = NoReply THEN "forward" ELSE "answered"
    BY <1>6 DEF Lookup, tableVars
  <2>2. reply' # NoReply => Usual(query)
    BY <2>1, LookupUsual
  <2>3. Usual(query)' <=> Usual(query)
    BY <2>1 DEF Usual
  <2> QED BY <2>1, <2>2, <2>3
<1>7. CASE DontKnow
  BY <1>7 DEF DontKnow, tableVars
<1>8. CASE Return
  BY <1>8 DEF Return, tableVars
<1>9. CASE UNCHANGED vars
  BY <1>9 DEF vars, tableVars, Usual
<1> QED BY <1>1, <1>2, <1>3, <1>4, <1>5, <1>6, <1>7, <1>8, <1>9 DEF Next

(* Whatever the files hold, and however often they are read again: the     *)
(* table begins with localhost, holds objects in lower case and, for every *)
(* address, the authority for its zone; and a reply is made of it only for *)
(* a question of the usual kind.                                           *)
THEOREM TableInvariance == Spec => []MasterInv
<1>1. Init => TableInv /\ StageInv
  BY TableInit, StageInit
<1>2. (TableInv /\ StageInv) /\ [Next]_vars => (TableInv /\ StageInv)'
  BY TableStep, StageStep
<1>3. TableInv /\ StageInv => MasterInv
  <2> SUFFICES ASSUME TableInv, StageInv PROVE MasterInv
    OBVIOUS
  <2>1. \A n \in DOMAIN dbv :
          /\ dbv[n].type \in {"nameip", "dns", "authority"}
          /\ dbv[n].object = strnlwr(dbv[n].object)
          /\ dbv[n].type = "nameip" => authority_lookup(dbv, ReverseZone(dbv[n].data))
    BY TableOf, RecordOf DEF TableInv, Covered, ZoneOf
  <2>2. dbv[1] = Rec("nameip", Localhost, <<127, 0, 0, 1>>)
    BY TableOf DEF TableInv, Home
  <2> QED BY <2>1, <2>2 DEF MasterInv, StageInv
<1> QED BY <1>1, <1>2, <1>3, PTL DEF Spec

---------------------------------------------------------------------------
(* The first record of a kind *)

(* The first member of M in a sequence, as a set of one record or none.     *)
Places(s, M) == {k \in DOMAIN s : s[k] \in M}
First(s, M) == {s[k] : k \in {n \in Places(s, M) : \A l \in Places(s, M) : n <= l}}

(* It is the one the least place holds, and there is one where M is met.    *)
LEMMA FirstIs ==
    ASSUME NEW R, NEW s \in Seq(R), NEW M
    PROVE  /\ Places(s, M) = {} => First(s, M) = {}
           /\ Places(s, M) # {} => /\ Min(Places(s, M)) \in Places(s, M)
                                   /\ First(s, M) = {s[Min(Places(s, M))]}
<1>1. Places(s, M) \in SUBSET Nat
  BY DEF Places
<1>2. CASE Places(s, M) = {}
  BY <1>2 DEF First
<1>3. CASE Places(s, M) # {}
  <2> DEFINE m == Min(Places(s, M))
  <2>1. m \in Places(s, M) /\ \A l \in Places(s, M) : m <= l
    BY <1>1, <1>3, LeastOf
  <2> HIDE DEF m
  <2>2. \A n \in Places(s, M) : (\A l \in Places(s, M) : n <= l) <=> n = m
    BY <1>1, <2>1
  <2>3. First(s, M) = {s[m]}
    BY <2>1, <2>2 DEF First
  <2> QED BY <1>3, <2>1, <2>3 DEF m
<1> QED BY <1>2, <1>3

LEMMA PlacesOf ==
    ASSUME NEW R, NEW s \in Seq(R), NEW M
    PROVE  /\ First(s, M) = {} <=> \A k \in 1 .. Len(s) : s[k] \notin M
           /\ First(s, M) \subseteq M /\ First(s, M) \subseteq R
<1>1. DOMAIN s = 1 .. Len(s) /\ \A k \in 1 .. Len(s) : s[k] \in R
  OBVIOUS
<1>2. Places(s, M) = {} <=> \A k \in 1 .. Len(s) : s[k] \notin M
  BY <1>1 DEF Places
<1>3. First(s, M) = {} <=> Places(s, M) = {}
  BY FirstIs
<1>4. First(s, M) \subseteq M /\ First(s, M) \subseteq R
  BY <1>1 DEF First, Places
<1> QED BY <1>2, <1>3, <1>4

(* How it goes on where sequences are put together.                         *)
Else(x, y) == IF x # {} THEN x ELSE y

LEMMA FirstJoined ==
    ASSUME NEW R, NEW s \in Seq(R), NEW t \in Seq(R), NEW M
    PROVE  First(s \o t, M) = Else(First(s, M), First(t, M))
<1> DEFINE u == s \o t
<1>1. /\ Len(s) \in Nat /\ Len(t) \in Nat /\ DOMAIN s = 1 .. Len(s) /\ DOMAIN t = 1 .. Len(t)
      /\ u \in Seq(R) /\ Len(u) = Len(s) + Len(t) /\ DOMAIN u = 1 .. Len(u)
      /\ \A k \in 1 .. Len(s) : u[k] = s[k]
      /\ \A k \in 1 .. Len(t) : u[Len(s) + k] = t[k]
  OBVIOUS
<1> HIDE DEF u
<1>2. \A k \in 1 .. Len(s) : k \in Places(u, M) <=> k \in Places(s, M)
  BY <1>1 DEF Places
<1>3. \A k \in 1 .. Len(t) : Len(s) + k \in Places(u, M) <=> k \in Places(t, M)
  BY <1>1 DEF Places
<1>4. \A k \in Places(u, M) : k \in 1 .. Len(s) \/ (k - Len(s) \in 1 .. Len(t) /\ k = Len(s) + (k - Len(s)))
  BY <1>1 DEF Places
<1>5. Places(s, M) \subseteq 1 .. Len(s) /\ Places(t, M) \subseteq 1 .. Len(t)
  BY <1>1 DEF Places
<1> DEFINE Best(r) == {n \in Places(r, M) : \A l \in Places(r, M) : n <= l}
<1>6. CASE Places(s, M) # {}
  <2>1. Best(u) = Best(s)
    <3>1. ASSUME NEW k \in Best(u) PROVE k \in Best(s)
      <4>1. PICK l \in Places(s, M) : TRUE
        BY <1>6
      <4>2. l \in Places(u, M) /\ l \in 1 .. Len(s) /\ k \in Places(u, M) /\ k <= l
        BY <1>2, <1>5, <4>1, <3>1
      <4>3. k \in 1 .. Len(s)
        <5>1. CASE k \in 1 .. Len(s)
          BY <5>1
        <5>2. CASE k - Len(s) \in 1 .. Len(t) /\ k = Len(s) + (k - Len(s))
          BY <1>1, <4>2, <5>2
        <5> QED BY <1>4, <4>2, <5>1, <5>2
      <4> QED BY <1>2, <1>5, <3>1, <4>2, <4>3
    <3>2. ASSUME NEW k \in Best(s) PROVE k \in Best(u)
      <4>1. k \in Places(u, M) /\ k \in 1 .. Len(s)
        BY <1>2, <1>5, <3>2
      <4>2. ASSUME NEW l \in Places(u, M) PROVE k <= l
        <5>1. CASE l \in 1 .. Len(s)
          BY <1>2, <3>2, <5>1
        <5>2. CASE l - Len(s) \in 1 .. Len(t) /\ l = Len(s) + (l - Len(s))
          BY <1>1, <4>1, <5>2
        <5> QED BY <1>4, <5>1, <5>2
      <4> QED BY <4>1, <4>2
    <3> QED BY <3>1, <3>2
  <2>2. \A k \in Best(s) : u[k] = s[k]
    BY <1>1, <1>5
  <2>3. First(u, M) = First(s, M)
    <3>1. First(u, M) = {u[k] : k \in Best(u)} /\ First(s, M) = {s[k] : k \in Best(s)}
      BY DEF First
    <3> HIDE DEF Best
    <3> QED BY <2>1, <2>2, <3>1
  <2>4. First(s, M) # {}
    BY <1>6, FirstIs
  <2> QED BY <2>3, <2>4 DEF Else, u
<1>7. CASE Places(s, M) = {}
  <2>1. ASSUME NEW k \in Best(u)
        PROVE  k - Len(s) \in Best(t) /\ u[k] = t[k - Len(s)]
    <3>1. k \in Places(u, M) /\ k - Len(s) \in 1 .. Len(t) /\ k = Len(s) + (k - Len(s))
      BY <1>2, <1>4, <1>7, <2>1
    <3>2. k - Len(s) \in Places(t, M) /\ u[k] = t[k - Len(s)]
      BY <1>1, <1>3, <3>1
    <3>3. ASSUME NEW l \in Places(t, M) PROVE k - Len(s) <= l
      <4>1. Len(s) + l \in Places(u, M) /\ l \in 1 .. Len(t)
        BY <1>3, <1>5
      <4>2. k <= Len(s) + l
        BY <2>1, <4>1
      <4> QED BY <1>1, <3>1, <4>1, <4>2
    <3> QED BY <3>2, <3>3
  <2>2. ASSUME NEW k \in Best(t)
        PROVE  Len(s) + k \in Best(u) /\ u[Len(s) + k] = t[k]
    <3>1. k \in 1 .. Len(t) /\ Len(s) + k \in Places(u, M)
      BY <1>3, <1>5
    <3>2. ASSUME NEW l \in Places(u, M) PROVE Len(s) + k <= l
      <4>1. l - Len(s) \in 1 .. Len(t) /\ l = Len(s) + (l - Len(s))
        BY <1>2, <1>4, <1>7
      <4>2. l - Len(s) \in Places(t, M)
        BY <1>3, <4>1
      <4>3. k <= l - Len(s)
        BY <2>2, <4>2
      <4> QED BY <1>1, <3>1, <4>1, <4>3
    <3> QED BY <1>1, <3>1, <3>2
  <2>3. First(u, M) = First(t, M)
    <3>1. First(u, M) = {u[k] : k \in Best(u)} /\ First(t, M) = {t[k] : k \in Best(t)}
      BY DEF First
    <3> HIDE DEF Best
    <3>2. \A x \in First(u, M) : x \in First(t, M)
      BY <2>1, <3>1
    <3>3. \A x \in First(t, M) : x \in First(u, M)
      BY <2>2, <3>1
    <3> QED BY <3>2, <3>3
  <2>4. First(s, M) = {}
    BY <1>7, FirstIs
  <2> QED BY <2>3, <2>4 DEF Else, u
<1> QED BY <1>6, <1>7

LEMMA FirstNone ==
    ASSUME NEW M
    PROVE  First(<< >>, M) = {}
BY DEF First, Places

LEMMA FirstOne ==
    ASSUME NEW r, NEW M
    PROVE  First(<<r>>, M) = IF r \in M THEN {r} ELSE {}
<1> DEFINE s == <<r>>
<1>1. s \in Seq({r}) /\ Len(s) = 1 /\ DOMAIN s = {1} /\ s[1] = r
  OBVIOUS
<1> HIDE DEF s
<1>2. CASE r \in M
  <2>1. Places(s, M) = {1}
    BY <1>1, <1>2 DEF Places
  <2>2. First(s, M) = {s[Min({1})]} /\ Min({1}) \in {1}
    BY <1>1, <2>1, FirstIs
  <2> QED BY <1>1, <1>2, <2>2 DEF s
<1>3. CASE r \notin M
  <2>1. Places(s, M) = {}
    BY <1>1, <1>3 DEF Places
  <2> QED BY <2>1, <1>3 DEF First, s
<1> QED BY <1>2, <1>3

(* x is what the first of the lines that has something has: of[l] is what   *)
(* line l has.                                                             *)
FirstLine(x, of, lines) ==
    \/ x = {} /\ \A l \in lines : of[l] = {}
    \/ \E l \in lines : x = of[l] /\ x # {} /\ \A k \in lines : Before(k, l) => of[k] = {}

NoneBefore(lines, others) == \A l \in lines, k \in others : ~Before(k, l)

LEMMA FirstOfBoth ==
    ASSUME NEW x, NEW y, NEW of, NEW lines, NEW others, NoneBefore(lines, others),
           FirstLine(x, of, lines), FirstLine(y, of, others)
    PROVE  FirstLine(Else(x, y), of, lines \cup others)
<1>1. CASE x = {}
  <2>1. \A l \in lines : of[l] = {}
    BY <1>1 DEF FirstLine
  <2>2. Else(x, y) = y
    BY <1>1 DEF Else
  <2> QED BY <2>1, <2>2 DEF FirstLine
<1>2. CASE x # {}
  <2>1. PICK l \in lines : x = of[l] /\ \A k \in lines : Before(k, l) => of[k] = {}
    BY <1>2 DEF FirstLine
  <2>2. \A k \in lines \cup others : Before(k, l) => of[k] = {}
    BY <2>1 DEF NoneBefore
  <2>3. Else(x, y) = x
    BY <1>2 DEF Else
  <2> QED BY <1>2, <2>1, <2>2, <2>3 DEF FirstLine
<1> QED BY <1>1, <1>2

(* A loop that puts one sequence after the other behind h[0].               *)
Appends(h, N, seqs, R) ==
    /\ h[0] \in Seq(R)
    /\ \A n \in 1 .. N : seqs[n] \in Seq(R) /\ h[n] = h[n - 1] \o seqs[n]

(* Which lines each of them is made of: those of one come before those of   *)
(* the next.                                                               *)
MadeOf(seqs, N, M, of, lines) ==
    /\ \A n \in 1 .. N : FirstLine(First(seqs[n], M), of, lines[n])
    /\ \A n, m \in 1 .. N : n < m => NoneBefore(lines[n], lines[m])

UpTo(lines, n) == UNION {lines[k] : k \in 1 .. n}

LEMMA OneMore ==
    ASSUME NEW lines, NEW n \in Nat \ {0}
    PROVE  UpTo(lines, n) = UpTo(lines, n - 1) \cup lines[n]
<1>1. \A k \in 1 .. n : k \in 1 .. n - 1 \/ k = n
  OBVIOUS
<1>2. \A k \in 1 .. n - 1 : k \in 1 .. n
  OBVIOUS
<1>3. n \in 1 .. n
  OBVIOUS
<1> QED BY <1>1, <1>2, <1>3 DEF UpTo

\* what there was before the lines, and else what they have
FirstBehind(y, before, of, lines) ==
    \E x : y = Else(before, x) /\ FirstLine(x, of, lines)

LEMMA FirstOfLoop ==
    ASSUME NEW R, NEW N \in Nat, NEW h, NEW seqs, NEW M, NEW of, NEW lines,
           Appends(h, N, seqs, R), MadeOf(seqs, N, M, of, lines)
    PROVE  h[N] \in Seq(R) /\ FirstBehind(First(h[N], M), First(h[0], M), of, UpTo(lines, N))
<1> DEFINE Good(n) == /\ h[n] \in Seq(R)
                      /\ \E x : First(h[n], M) = Else(First(h[0], M), x) /\ FirstLine(x, of, UpTo(lines, n))
           S == {n \in 0 .. N : Good(n)}
<1>1. 0 \in S
  <2>1. First(h[0], M) = Else(First(h[0], M), {})
    BY DEF Else
  <2>2. UpTo(lines, 0) = {}
    BY DEF UpTo
  <2>3. FirstLine({}, of, UpTo(lines, 0))
    BY <2>2 DEF FirstLine
  <2>4. h[0] \in Seq(R)
    BY DEF Appends
  <2> QED BY <2>1, <2>3, <2>4
<1>2. ASSUME NEW n \in 1 .. N, n - 1 \in S PROVE n \in S
  <2>1. Good(n - 1)
    BY <1>2
  <2>2. PICK x : First(h[n - 1], M) = Else(First(h[0], M), x) /\ FirstLine(x, of, UpTo(lines, n - 1))
    BY <2>1
  <2>3. h[n - 1] \in Seq(R) /\ seqs[n] \in Seq(R) /\ h[n] = h[n - 1] \o seqs[n]
    BY <2>1 DEF Appends
  <2> DEFINE y == First(seqs[n], M)
  <2>4. h[n] \in Seq(R)
    BY <2>3, Joined
  <2>5. First(h[n], M) = Else(First(h[n - 1], M), y)
    BY <2>3, FirstJoined
  <2>6. FirstLine(y, of, lines[n])
    BY DEF MadeOf
  <2>7. NoneBefore(UpTo(lines, n - 1), lines[n])
    <3>1. \A k \in 1 .. n - 1 : k \in 1 .. N /\ k < n
      OBVIOUS
    <3>2. \A k \in 1 .. n - 1 : NoneBefore(lines[k], lines[n])
      BY <3>1 DEF MadeOf
    <3> QED BY <3>2 DEF NoneBefore, UpTo
  <2> HIDE DEF y
  <2>8. FirstLine(Else(x, y), of, UpTo(lines, n - 1) \cup lines[n])
    BY <2>2, <2>6, <2>7, FirstOfBoth
  <2>9. FirstLine(Else(x, y), of, UpTo(lines, n))
    <3>1. UpTo(lines, n) = UpTo(lines, n - 1) \cup lines[n]
      BY OneMore
    <3> QED BY <2>8, <3>1
  <2>10. First(h[n], M) = Else(First(h[0], M), Else(x, y))
    BY <2>2, <2>5 DEF Else
  <2>11. n \in 0 .. N
    OBVIOUS
  <2> QED BY <2>4, <2>9, <2>10, <2>11
<1>3. \A n \in 0 .. N : n \in S
  <2> HIDE DEF S
  <2> QED BY <1>1, <1>2, BoundedInduction
<1> QED BY <1>3 DEF FirstBehind

(* FlattenSeq() is such a loop.                                            *)
LEMMA FlattenLoop ==
    ASSUME NEW R, NEW N \in Nat, NEW seqs, seqs \in [1 .. N -> Seq(R)]
    PROVE  \E h : Appends(h, N, seqs, R) /\ h[0] = << >> /\ h[N] = FlattenSeq(seqs)
<1> DEFINE f == CHOOSE f : IsFlattened(f, seqs)
           h == [n \in 0 .. N |-> IF n = 0 THEN << >> ELSE f[n]]
<1>1. seqs \in Seq(Seq(R)) /\ Len(seqs) = N
  OBVIOUS
<1>2. IsFlattened(f, seqs)
  BY <1>1, FlattenExists
<1>3. FlattenSeq(seqs) = IF N = 0 THEN seqs ELSE f[N]
  BY <1>1 DEF FlattenSeq, IsFlattened
<1> HIDE DEF f
<1>4. h[0] = << >> /\ << >> \in Seq(R)
  OBVIOUS
<1>5. h[N] = FlattenSeq(seqs)
  <2>1. CASE N = 0
    <3>1. seqs = << >>
      BY <1>1, <2>1, EmptySeq
    <3> QED BY <1>3, <2>1, <3>1
  <2>2. CASE N # 0
    BY <1>3, <2>2
  <2> QED BY <2>1, <2>2
<1>6. ASSUME NEW n \in 1 .. N PROVE seqs[n] \in Seq(R) /\ h[n] = h[n - 1] \o seqs[n]
  <2>1. f[n] = IF n = 1 THEN seqs[n] ELSE f[n - 1] \o seqs[n]
    BY <1>1, <1>2 DEF IsFlattened
  <2>2. seqs[n] \in Seq(R)
    OBVIOUS
  <2>3. << >> \o seqs[n] = seqs[n]
    BY <2>2
  <2>4. CASE n = 1
    BY <2>1, <2>2, <2>3, <2>4
  <2>5. CASE n # 1
    <3>1. n \in 0 .. N /\ n - 1 \in 0 .. N /\ n # 0 /\ n - 1 # 0
      BY <2>5
    <3>2. h[n] = f[n] /\ h[n - 1] = f[n - 1]
      BY <3>1
    <3> HIDE DEF h
    <3> QED BY <2>1, <2>2, <2>5, <3>2
  <2> QED BY <2>4, <2>5
<1>7. Appends(h, N, seqs, R)
  <2> HIDE DEF h
  <2> QED BY <1>4, <1>6 DEF Appends
<1> HIDE DEF h
<1> QED BY <1>4, <1>5, <1>7

LEMMA FirstOfFlattened ==
    ASSUME NEW R, NEW N \in Nat, NEW seqs, NEW M, NEW of, NEW lines,
           seqs \in [1 .. N -> Seq(R)], MadeOf(seqs, N, M, of, lines)
    PROVE  FirstLine(First(FlattenSeq(seqs), M), of, UpTo(lines, N))
<1>1. PICK h : Appends(h, N, seqs, R) /\ h[0] = << >> /\ h[N] = FlattenSeq(seqs)
  BY FlattenLoop
<1>b. FirstBehind(First(h[N], M), First(h[0], M), of, UpTo(lines, N))
  BY <1>1, FirstOfLoop
<1>2. PICK x : First(h[N], M) = Else(First(h[0], M), x) /\ FirstLine(x, of, UpTo(lines, N))
  BY <1>b DEF FirstBehind
<1>3. First(h[0], M) = {}
  BY <1>1, FirstNone
<1>4. First(h[N], M) = x
  BY <1>2, <1>3 DEF Else
<1> QED BY <1>1, <1>2, <1>4

(* What such a loop says where each sequence is a line of its own.          *)
FirstOfAll(x, seqs, N, M) ==
    \/ x = {} /\ \A n \in 1 .. N : First(seqs[n], M) = {}
    \/ \E n \in 1 .. N : /\ x = First(seqs[n], M) /\ x # {}
                         /\ \A k \in 1 .. n - 1 : First(seqs[k], M) = {}

LEMMA FirstOfEach ==
    ASSUME NEW R, NEW N \in Nat, NEW seqs, NEW M, seqs \in [1 .. N -> Seq(R)]
    PROVE  FirstOfAll(First(FlattenSeq(seqs), M), seqs, N, M)
<1> DEFINE lines == [n \in 1 .. N |-> {<<n, 0>>}]
           of == [l \in (1 .. N) \X {0} |-> First(seqs[l[1]], M)]
           x == First(FlattenSeq(seqs), M)
<1> SUFFICES FirstOfAll(x, seqs, N, M)
  OBVIOUS
<1>1. \A n \in 1 .. N : of[<<n, 0>>] = First(seqs[n], M) /\ lines[n] = {<<n, 0>>}
  OBVIOUS
<1>2. \A n, m \in 1 .. N : Before(<<n, 0>>, <<m, 0>>) <=> n < m
  BY DEF Before
<1>3. UpTo(lines, N) = {<<n, 0>> : n \in 1 .. N}
  BY <1>1 DEF UpTo
<1> HIDE DEF of, lines
<1>4. MadeOf(seqs, N, M, of, lines)
  <2>1. ASSUME NEW n \in 1 .. N PROVE FirstLine(First(seqs[n], M), of, lines[n])
    <3>1. lines[n] = {<<n, 0>>} /\ of[<<n, 0>>] = First(seqs[n], M) /\ ~Before(<<n, 0>>, <<n, 0>>)
      BY <1>1, <1>2
    <3> QED BY <3>1 DEF FirstLine
  <2>2. ASSUME NEW n \in 1 .. N, NEW m \in 1 .. N, n < m PROVE NoneBefore(lines[n], lines[m])
    <3>1. ~Before(<<m, 0>>, <<n, 0>>)
      BY <1>2, <2>2
    <3> QED BY <1>1, <3>1 DEF NoneBefore
  <2> QED BY <2>1, <2>2 DEF MadeOf
<1>5. FirstLine(x, of, UpTo(lines, N))
  BY <1>4, FirstOfFlattened
<1> HIDE DEF x
<1>6. CASE x = {}
  <2>1. \A l \in {<<n, 0>> : n \in 1 .. N} : of[l] = {}
    BY <1>3, <1>5, <1>6 DEF FirstLine
  <2> QED BY <1>1, <1>6, <2>1 DEF FirstOfAll
<1>7. CASE x # {}
  <2>1. PICK n \in 1 .. N : /\ x = of[<<n, 0>>]
                            /\ \A k \in {<<m, 0>> : m \in 1 .. N} : Before(k, <<n, 0>>) => of[k] = {}
    BY <1>3, <1>5, <1>7 DEF FirstLine
  <2>2. \A k \in 1 .. n - 1 : k \in 1 .. N /\ k < n
    OBVIOUS
  <2>3. \A k \in 1 .. n - 1 : of[<<k, 0>>] = {}
    BY <1>2, <2>1, <2>2
  <2> QED BY <1>1, <1>7, <2>1, <2>2, <2>3 DEF FirstOfAll
<1> QED BY <1>6, <1>7

---------------------------------------------------------------------------
(* What the files say *)

(* The files as they were last read.                                       *)
FilesLoaded == loaded.disk \in Disk /\ loaded.domain \in Texts

LEMMA MasterOf ==
    ASSUME FilesLoaded
    PROVE  /\ Master \in Seq(Line) /\ Len(Master) \in Nat /\ DOMAIN Master = 1 .. Len(Master)
           /\ \A n \in 1 .. Len(Master) : Master[n] \in Line /\ HostsOf(n) \in Seq(Line)
           /\ loaded.disk.blacklist \in Seq(Texts)
<1>1. /\ Master \in Seq(Line) /\ loaded.disk.files \in [HostsFiles -> Seq(Line)]
      /\ loaded.disk.blacklist \in Seq(Texts)
  BY DiskOf DEF FilesLoaded, Master
<1>2. ASSUME NEW n \in 1 .. Len(Master) PROVE Master[n] \in Line /\ HostsOf(n) \in Seq(Line)
  <2>1. Master[n] \in Line
    BY <1>1
  <2>2. Master[n].file \in HostsFiles
    BY <2>1, LineOf
  <2> QED BY <1>1, <2>1, <2>2 DEF HostsOf
<1> QED BY <1>1, <1>2

(* The domain behind a line.                                               *)
LEMMA NextDomain ==
    ASSUME FilesLoaded, NEW n \in 1 .. Len(Master)
    PROVE  DomainAt(n + 1) = IF Master[n].directive = "domain"
                             THEN IF Master[n].words = << >> THEN << >> ELSE Master[n].words[1]
                             ELSE DomainAt(n)
<1> DEFINE D == Master[n].directive = "domain"
<1>1. \A k \in 1 .. n + 1 - 1 : k \in 1 .. n - 1 \/ k = n
  OBVIOUS
<1>2. \A k \in 1 .. n - 1 : k \in 1 .. n + 1 - 1
  OBVIOUS
<1>3. n \in 1 .. n + 1 - 1
  OBVIOUS
<1>4. CASE ~D
  <2>1. DomainsBefore(n + 1) = DomainsBefore(n)
    BY <1>1, <1>2, <1>4 DEF DomainsBefore
  <2> QED BY <1>4, <2>1 DEF DomainAt
<1>5. CASE D
  <2> DEFINE S == DomainsBefore(n + 1)
  <2>1. n \in S /\ \A k \in S : k \in Nat /\ n >= k
    BY <1>1, <1>3, <1>5 DEF DomainsBefore
  <2> HIDE DEF S
  <2>2. Max(S) = n
    <3>1. \A x \in S : (\A y \in S : x >= y) => x = n
      BY <2>1
    <3> QED BY <2>1, <3>1 DEF Max
  <2>3. S # {}
    BY <2>1
  <2>4. DomainAt(n + 1) = LET words == Master[Max(S)].words IN IF words = << >> THEN words ELSE words[1]
    BY <2>3 DEF DomainAt, S
  <2>5. DomainAt(n + 1) = IF Master[n].words = << >> THEN << >> ELSE Master[n].words[1]
    BY <2>2, <2>4
  <2> QED BY <1>5, <2>5
<1> QED BY <1>4, <1>5

LEMMA DomainTyped ==
    ASSUME FilesLoaded
    PROVE  \A n \in 0 .. Len(Master) : DomainAt(n + 1) \in Texts
<1> DEFINE N == Len(Master)
           S == {n \in 0 .. N : DomainAt(n + 1) \in Texts}
<1>1. N \in Nat /\ \A n \in 1 .. N : Master[n] \in Line
  BY MasterOf
<1>2. 0 \in S
  <2>1. DomainsBefore(1) = {}
    BY DEF DomainsBefore
  <2>2. DomainAt(1) = loaded.domain
    BY <2>1 DEF DomainAt
  <2> QED BY <1>1, <2>2 DEF FilesLoaded
<1>3. ASSUME NEW n \in 1 .. N, n - 1 \in S PROVE n \in S
  <2>1. DomainAt(n) \in Texts /\ n \in 0 .. N
    BY <1>1, <1>3
  <2>2. << >> \in Texts
    BY DEF Texts
  <2>3. Master[n].words # << >> => Master[n].words[1] \in Texts
    <3>1. Master[n].words \in Seq(Texts \ {<< >>})
      BY <1>1, LineOf
    <3> QED BY <3>1, EmptySeq
  <2>4. DomainAt(n + 1) \in Texts
    BY <2>1, <2>2, <2>3, NextDomain
  <2> QED BY <2>1, <2>4
<1>4. \A n \in 0 .. N : n \in S
  <2> HIDE DEF N, S
  <2> QED BY <1>1, <1>2, <1>3, BoundedInduction
<1> QED BY <1>4

(* What a line puts into the table: its names, or servers and authority.   *)
Servers(n) ==
    LET ofDomain == Hostnames(Tail(Master[n].words), Head(Master[n].words))
    IN [k \in DOMAIN ofDomain |->
            IF ofDomain[k] = AuthOption THEN add_authority(Head(Master[n].words))
            ELSE add_dns(Head(Master[n].words), ofDomain[k])]

Said(l) ==
    IF l \in HostLines THEN add_nameips(GivenOn(l), Address(l))
    ELSE IF l[2] = 0 /\ l[1] \in DomainLines THEN FlattenSeq(Servers(l[1])) ELSE << >>

(* The lines that line n of the master file stands for.                     *)
LinesOf(n) ==
    IF Master[n].directive = "hosts" THEN {<<n, m>> : m \in 1 .. Len(HostsOf(n))} ELSE {<<n, 0>>}

AllLines == UNION {LinesOf(n) : n \in 1 .. Len(Master)}

Block(n) ==
    IF Master[n].directive = "hosts"
    THEN FlattenSeq([m \in 1 .. Len(HostsOf(n)) |-> Said(<<n, m>>)])
    ELSE Said(<<n, 0>>)

(* Which of them have an address.                                          *)
LEMMA HostLineOf ==
    ASSUME FilesLoaded
    PROVE  /\ \A n \in 1 .. Len(Master) : <<n, 0>> \in HostLines <=> Master[n].directive = "ip"
           /\ \A n \in 1 .. Len(Master) : Master[n].directive = "hosts" =>
                \A m \in 1 .. Len(HostsOf(n)) : <<n, m>> \in HostLines <=> HostsOf(n)[m].directive = "ip"
           /\ HostLines \subseteq AllLines
           /\ \A n \in DomainLines : <<n, 0>> \in AllLines
<1>1. /\ DOMAIN Master = 1 .. Len(Master)
      /\ \A n \in 1 .. Len(Master) : Len(HostsOf(n)) \in Nat /\ DOMAIN HostsOf(n) = 1 .. Len(HostsOf(n))
  BY MasterOf
<1>2. \A l : l \in HostLines <=>
        \/ \E n \in 1 .. Len(Master) : Master[n].directive = "ip" /\ l = <<n, 0>>
        \/ \E n \in 1 .. Len(Master) : \E m \in 1 .. Len(HostsOf(n)) :
              Master[n].directive = "hosts" /\ HostsOf(n)[m].directive = "ip" /\ l = <<n, m>>
  BY <1>1 DEF HostLines
<1>3. \A n \in 1 .. Len(Master) : <<n, 0>> \in HostLines <=> Master[n].directive = "ip"
  <2>1. ASSUME NEW n \in 1 .. Len(Master), <<n, 0>> \in HostLines PROVE Master[n].directive = "ip"
    <3>1. \A m \in 1 .. Len(HostsOf(n)) : m # 0
      OBVIOUS
    <3> QED BY <1>2, <2>1, <3>1
  <2> QED BY <1>2, <2>1
<1>4. ASSUME NEW n \in 1 .. Len(Master), Master[n].directive = "hosts", NEW m \in 1 .. Len(HostsOf(n))
      PROVE  <<n, m>> \in HostLines <=> HostsOf(n)[m].directive = "ip"
  <2>1. m # 0
    OBVIOUS
  <2> QED BY <1>2, <1>4, <2>1
<1>5. HostLines \subseteq AllLines
  <2>1. ASSUME NEW l \in HostLines PROVE \E n \in 1 .. Len(Master) : l \in LinesOf(n)
    <3>1. CASE \E n \in 1 .. Len(Master) : Master[n].directive = "ip" /\ l = <<n, 0>>
      BY <3>1 DEF LinesOf
    <3>2. CASE \E n \in 1 .. Len(Master) : \E m \in 1 .. Len(HostsOf(n)) :
              Master[n].directive = "hosts" /\ HostsOf(n)[m].directive = "ip" /\ l = <<n, m>>
      BY <3>2 DEF LinesOf
    <3> QED BY <1>2, <3>1, <3>2
  <2> QED BY <2>1 DEF AllLines
<1>6. \A n \in DomainLines : <<n, 0>> \in AllLines
  <2>1. ASSUME NEW n \in DomainLines PROVE n \in 1 .. Len(Master) /\ <<n, 0>> \in LinesOf(n)
    BY <1>1 DEF DomainLines, LinesOf
  <2> QED BY <2>1 DEF AllLines
<1> QED BY <1>3, <1>4, <1>5, <1>6

(* The words of a line of the master file, and its domain.                 *)
LEMMA WordsOf ==
    ASSUME FilesLoaded, NEW n \in 1 .. Len(Master)
    PROVE  /\ Master[n].words \in Seq(Texts \ {<< >>})
           /\ Master[n].words # << >> =>
                /\ Head(Master[n].words) = Master[n].words[1] /\ Master[n].words[1] \in Texts
                /\ Tail(Master[n].words) \in Seq(Texts \ {<< >>})
           /\ DomainAt(n) \in Texts
<1>1. Master[n].words \in Seq(Texts \ {<< >>})
  BY MasterOf, LineOf
<1>2. Master[n].words # << >> =>
        /\ Head(Master[n].words) = Master[n].words[1] /\ Master[n].words[1] \in Texts
        /\ Tail(Master[n].words) \in Seq(Texts \ {<< >>})
  BY <1>1, EmptySeq
<1>3. n - 1 \in 0 .. Len(Master) /\ n - 1 + 1 = n
  BY MasterOf
<1>4. DomainAt(n - 1 + 1) \in Texts
  BY <1>3, DomainTyped
<1> QED BY <1>1, <1>2, <1>3, <1>4

(* The names and the address of a line.                                    *)
LEMMA GivenTyped ==
    ASSUME FilesLoaded, NEW l \in AllLines
    PROVE  GivenOn(l) \in Seq(Texts) /\ Address(l) \in {Invalid} \cup Ips
<1>1. PICK n \in 1 .. Len(Master) : l \in LinesOf(n)
  BY DEF AllLines
<1>2. Master[n] \in Line /\ HostsOf(n) \in Seq(Line)
  BY MasterOf
<1>3. CASE l = <<n, 0>>
  <2>1. Hostnames(Master[n].words, DomainAt(n)) \in Seq(Texts) /\ <<DomainAt(n)>> \in Seq(Texts)
    <3> DEFINE words == Master[n].words
               domain == DomainAt(n)
    <3>1. words \in Seq(Texts \ {<< >>}) /\ domain \in Texts
      BY WordsOf
    <3>2. Hostnames(words, domain) \in Seq(Texts)
      <4> HIDE DEF words, domain
      <4> QED BY <3>1, HostnamesTyped
    <3>3. <<domain>> \in Seq(Texts)
      BY <3>1
    <3> QED BY <3>2, <3>3
  <2>2. Master[n].ip \in {Invalid} \cup Ips
    BY <1>2, LineOf
  <2>3. l[1] = n /\ l[2] = 0
    BY <1>3
  <2> QED BY <2>1, <2>2, <2>3 DEF GivenOn, Address
<1>4. CASE \E m \in 1 .. Len(HostsOf(n)) : l = <<n, m>>
  <2>1. PICK m \in 1 .. Len(HostsOf(n)) : l = <<n, m>>
    BY <1>4
  <2>2. HostsOf(n)[m] \in Line /\ l[1] = n /\ l[2] = m /\ m # 0
    BY <1>2, <2>1
  <2>3. HostsOf(n)[m].words \in Seq(Texts \ {<< >>}) /\ HostsOf(n)[m].ip \in {Invalid} \cup Ips
    BY <2>2, LineOf
  <2>4. (IF Master[n].words = << >> THEN DomainAt(n) ELSE Master[n].words[1]) \in Texts
    BY WordsOf
  <2>5. Hostnames(HostsOf(n)[m].words, IF Master[n].words = << >> THEN DomainAt(n) ELSE Master[n].words[1])
            \in Seq(Texts)
    BY <2>3, <2>4, HostnamesTyped
  <2> QED BY <2>2, <2>3, <2>5 DEF GivenOn, Address
<1> QED BY <1>1, <1>3, <1>4 DEF LinesOf

LEMMA ServersTyped ==
    ASSUME FilesLoaded, NEW n \in DomainLines
    PROVE  /\ n \in 1 .. Len(Master) /\ Master[n].words # << >> /\ Master[n].words[1] \in Texts
           /\ Head(Master[n].words) = Master[n].words[1]
           /\ Len(Servers(n)) \in Nat /\ Servers(n) \in [1 .. Len(Servers(n)) -> Tables]
           /\ \E names \in Seq(Texts) :
                /\ names = Hostnames(Tail(Master[n].words), Master[n].words[1])
                /\ Len(names) = Len(Servers(n))
                /\ \A k \in 1 .. Len(names) :
                    Servers(n)[k] = IF names[k] = AuthOption THEN add_authority(Master[n].words[1])
                                    ELSE add_dns(Master[n].words[1], names[k])
<1> DEFINE w == Master[n].words[1]
           names == Hostnames(Tail(Master[n].words), w)
<1>1. n \in 1 .. Len(Master) /\ Master[n].words # << >>
  BY MasterOf DEF DomainLines
<1>2. w \in Texts /\ Head(Master[n].words) = w /\ Tail(Master[n].words) \in Seq(Texts \ {<< >>})
  BY <1>1, WordsOf
<1>3. names \in Seq(Texts)
  BY <1>2, HostnamesTyped
<1>4. Servers(n) = [k \in DOMAIN names |-> IF names[k] = AuthOption THEN add_authority(w) ELSE add_dns(w, names[k])]
  BY <1>2 DEF Servers
<1> HIDE DEF names
<1>5. Len(names) \in Nat /\ DOMAIN names = 1 .. Len(names) /\ \A k \in 1 .. Len(names) : names[k] \in Texts
  BY <1>3
<1>6. Servers(n) \in [1 .. Len(names) -> Tables]
  <2> HIDE DEF w
  <2> QED BY <1>2, <1>4, <1>5, AddTyped
<1>7. Len(Servers(n)) = Len(names)
  <2>1. Servers(n) \in Seq(Tables) /\ DOMAIN Servers(n) = 1 .. Len(names)
    BY <1>5, <1>6
  <2> QED BY <1>5, <2>1
<1>8. names = Hostnames(Tail(Master[n].words), w)
  BY DEF names
<1> HIDE DEF w
<1>9. \A k \in 1 .. Len(names) :
        Servers(n)[k] = IF names[k] = AuthOption THEN add_authority(w) ELSE add_dns(w, names[k])
  BY <1>4, <1>5
<1> USE DEF w
<1> QED BY <1>1, <1>2, <1>3, <1>5, <1>6, <1>7, <1>8, <1>9

LEMMA SaidTyped ==
    ASSUME FilesLoaded, NEW l \in AllLines
    PROVE  Said(l) \in Tables
<1>1. add_nameips(GivenOn(l), Address(l)) \in Tables
  BY GivenTyped, NameipsTyped
<1>2. l[1] \in DomainLines => FlattenSeq(Servers(l[1])) \in Tables
  BY ServersTyped, FlattenOf DEF Tables
<1>3. << >> \in Tables
  BY DEF Tables
<1> QED BY <1>1, <1>2, <1>3 DEF Said

LEMMA BlockTyped ==
    ASSUME FilesLoaded, NEW n \in 1 .. Len(Master)
    PROVE  /\ Block(n) \in Tables
           /\ Master[n].directive = "hosts" =>
                [m \in 1 .. Len(HostsOf(n)) |-> Said(<<n, m>>)] \in [1 .. Len(HostsOf(n)) -> Tables]
<1>1. Len(HostsOf(n)) \in Nat
  BY MasterOf
<1>2. \A l \in LinesOf(n) : Said(l) \in Tables
  BY SaidTyped DEF AllLines
<1>3. CASE Master[n].directive = "hosts"
  <2> DEFINE said == [m \in 1 .. Len(HostsOf(n)) |-> Said(<<n, m>>)]
  <2>1. said \in [1 .. Len(HostsOf(n)) -> Tables]
    BY <1>2, <1>3 DEF LinesOf
  <2> HIDE DEF said
  <2>2. FlattenSeq(said) \in Tables
    BY <1>1, <2>1, FlattenOf DEF Tables
  <2> QED BY <1>3, <2>1, <2>2 DEF Block, said
<1>4. CASE Master[n].directive # "hosts"
  BY <1>2, <1>4 DEF LinesOf, Block
<1> QED BY <1>3, <1>4

(* read_line() puts the block of the line behind the table.                 *)
LEMMA BlockRead ==
    ASSUME FilesLoaded, NEW n \in 1 .. Len(Master), NEW s \in Readings, s.domain = DomainAt(n)
    PROVE  LET t == read_line(s, Master[n], loaded.disk.files)
           IN t.dbv = s.dbv \o Block(n) /\ t.domain = DomainAt(n + 1)
<1> DEFINE line == Master[n]
           words == line.words
           files == loaded.disk.files
           names == Hostnames(words, s.domain)
           ofDomain == Hostnames(Tail(words), Head(words))
           servers == [k \in DOMAIN ofDomain |->
                        IF ofDomain[k] = AuthOption THEN add_authority(Head(words))
                        ELSE add_dns(Head(words), ofDomain[k])]
           mine == add_nameips(IF names = << >> THEN <<s.domain>> ELSE names, line.ip)
           theirs == read_hosts(files[line.file], IF words = << >> THEN s.domain ELSE Head(words))
           A == line.directive = "ip"
           B == line.directive = "domain" /\ words = << >>
           C == line.directive = "domain" /\ words # << >>
           D == line.directive = "hosts"
           t == read_line(s, line, files)
<1> SUFFICES t.dbv = s.dbv \o Block(n) /\ t.domain = DomainAt(n + 1)
  OBVIOUS
<1>1. s.dbv \in Tables /\ s = [dbv |-> s.dbv, domain |-> s.domain]
  BY DEF Readings, HomeTables
<1>2. s.dbv \o << >> = s.dbv
  BY <1>1 DEF Tables
<1>3. t = CASE A -> [s EXCEPT !.dbv = @ \o mine]
            [] B -> [s EXCEPT !.domain = << >>]
            [] C -> [domain |-> Head(words), dbv |-> s.dbv \o FlattenSeq(servers)]
            [] D -> [s EXCEPT !.dbv = @ \o theirs]
            [] OTHER -> s
  BY DEF read_line
<1>4. ~(A /\ B) /\ ~(A /\ C) /\ ~(A /\ D) /\ ~(B /\ C) /\ ~(B /\ D) /\ ~(C /\ D)
  OBVIOUS
<1>5. /\ <<n, 0>> \in HostLines <=> A
      /\ n \in DomainLines <=> C
      /\ <<n, 0>>[1] = n /\ <<n, 0>>[2] = 0
  BY HostLineOf, MasterOf DEF DomainLines
<1>6. A => Said(<<n, 0>>) = mine
  BY <1>5 DEF Said, GivenOn, Address
<1>7. C => Said(<<n, 0>>) = FlattenSeq(servers)
  BY <1>4, <1>5 DEF Said, Servers
<1>8. ~A /\ ~C => Said(<<n, 0>>) = << >>
  BY <1>5 DEF Said
<1>9. ~D => Block(n) = Said(<<n, 0>>)
  BY DEF Block
<1>10. DomainAt(n + 1) = IF line.directive = "domain" THEN IF words = << >> THEN << >> ELSE words[1] ELSE s.domain
  BY NextDomain
<1>11. words # << >> => Head(words) = words[1]
  BY WordsOf
<1>12. D => Block(n) = theirs
  <2> SUFFICES ASSUME D PROVE Block(n) = theirs
    OBVIOUS
  <2> DEFINE domain == IF words = << >> THEN DomainAt(n) ELSE words[1]
             lines == HostsOf(n)
             told == [m \in 1 .. Len(lines) |-> Said(<<n, m>>)]
             read == [m \in DOMAIN lines |->
                        IF lines[m].directive = "ip" THEN add_nameips(Hostnames(lines[m].words, domain), lines[m].ip)
                        ELSE << >>]
  <2>1. DOMAIN lines = 1 .. Len(lines) /\ Len(lines) \in Nat
    BY MasterOf
  <2>2. theirs = FlattenSeq(read)
    <3>1. (IF words = << >> THEN s.domain ELSE Head(words)) = domain
      BY <1>11
    <3>2. files[line.file] = lines
      BY DEF HostsOf
    <3>3. theirs = read_hosts(lines, domain)
      BY <3>1, <3>2
    <3> QED BY <3>3 DEF read_hosts
  <2>3. ASSUME NEW m \in 1 .. Len(lines)
        PROVE  Said(<<n, m>>) = IF lines[m].directive = "ip"
                                THEN add_nameips(Hostnames(lines[m].words, domain), lines[m].ip) ELSE << >>
    <3>1. <<n, m>>[1] = n /\ <<n, m>>[2] = m /\ m # 0
      OBVIOUS
    <3>2. <<n, m>> \in HostLines <=> lines[m].directive = "ip"
      BY HostLineOf
    <3>3. GivenOn(<<n, m>>) = Hostnames(lines[m].words, domain)
      BY <3>1 DEF GivenOn
    <3>4. Address(<<n, m>>) = lines[m].ip
      BY <3>1 DEF Address
    <3> QED BY <3>1, <3>2, <3>3, <3>4 DEF Said
  <2>4. told = read
    BY <2>1, <2>3
  <2>5. Block(n) = FlattenSeq(told)
    BY DEF Block
  <2> HIDE DEF told, read
  <2> QED BY <2>2, <2>4, <2>5
<1> HIDE DEF mine, theirs, servers, names, ofDomain, t
<1>13. CASE A
  <2>1. t = [s EXCEPT !.dbv = @ \o mine] /\ line.directive # "domain"
    BY <1>3, <1>4, <1>13
  <2>2. t.dbv = s.dbv \o mine /\ t.domain = s.domain
    BY <1>1, <2>1
  <2> QED BY <1>4, <1>6, <1>9, <1>10, <1>13, <2>1, <2>2
<1>14. CASE B
  <2>1. t = [s EXCEPT !.domain = << >>]
    BY <1>3, <1>4, <1>14
  <2>2. t.dbv = s.dbv /\ t.domain = << >>
    BY <1>1, <2>1
  <2> QED BY <1>2, <1>4, <1>8, <1>9, <1>10, <1>14, <2>2
<1>15. CASE C
  <2>1. t = [domain |-> Head(words), dbv |-> s.dbv \o FlattenSeq(servers)]
    BY <1>3, <1>4, <1>15
  <2>2. t.dbv = s.dbv \o FlattenSeq(servers) /\ t.domain = Head(words)
    BY <2>1
  <2> QED BY <1>4, <1>7, <1>9, <1>10, <1>11, <1>15, <2>2
<1>16. CASE D
  <2>1. t = [s EXCEPT !.dbv = @ \o theirs] /\ line.directive # "domain"
    BY <1>3, <1>4, <1>16
  <2>2. t.dbv = s.dbv \o theirs /\ t.domain = s.domain
    BY <1>1, <2>1
  <2> QED BY <1>10, <1>12, <1>16, <2>1, <2>2
<1>17. CASE ~A /\ ~B /\ ~C /\ ~D
  <2>1. t = s /\ line.directive # "domain"
    BY <1>3, <1>17
  <2> QED BY <1>2, <1>8, <1>9, <1>10, <1>17, <2>1
<1> QED BY <1>13, <1>14, <1>15, <1>16, <1>17

(* What each line has of M.                                                *)
Says(M) == [l \in AllLines |-> First(Said(l), M)]

LEMMA OneLine ==
    ASSUME NEW of, NEW x, NEW n \in Int, NEW m \in Int, x = of[<<n, m>>]
    PROVE  FirstLine(x, of, {<<n, m>>})
<1> DEFINE l == <<n, m>>
<1>1. ~Before(l, l)
  BY DEF Before
<1>2. x = of[l]
  OBVIOUS
<1> SUFFICES FirstLine(x, of, {l})
  OBVIOUS
<1> HIDE DEF l
<1> QED BY <1>1, <1>2 DEF FirstLine

LEMMA BlockMade ==
    ASSUME FilesLoaded, NEW n \in 1 .. Len(Master), NEW M
    PROVE  FirstLine(First(Block(n), M), Says(M), LinesOf(n))
<1>1. \A l \in LinesOf(n) : l \in AllLines /\ Says(M)[l] = First(Said(l), M)
  BY DEF AllLines, Says
<1>2. CASE Master[n].directive = "hosts"
  <2> DEFINE N == Len(HostsOf(n))
             said == [m \in 1 .. N |-> Said(<<n, m>>)]
             lines == [m \in 1 .. N |-> {<<n, m>>}]
  <2>1. N \in Nat /\ n \in Int
    BY MasterOf
  <2>2. said \in [1 .. N -> Seq(TableRecord)]
    BY <1>2, BlockTyped DEF Tables
  <2>3. LinesOf(n) = {<<n, m>> : m \in 1 .. N}
    BY <1>2 DEF LinesOf
  <2>4. UpTo(lines, N) = LinesOf(n)
    BY <2>3 DEF UpTo
  <2>5. MadeOf(said, N, M, Says(M), lines)
    <3>1. ASSUME NEW m \in 1 .. N PROVE FirstLine(First(said[m], M), Says(M), lines[m])
      <4>1. Says(M)[<<n, m>>] = First(said[m], M) /\ lines[m] = {<<n, m>>}
        BY <1>1, <2>3
      <4>2. m \in Int
        BY <2>1
      <4>3. FirstLine(First(said[m], M), Says(M), {<<n, m>>})
        <5> HIDE DEF said
        <5> QED BY <2>1, <4>1, <4>2, OneLine
      <4> QED BY <4>1, <4>3
    <3>2. ASSUME NEW k \in 1 .. N, NEW m \in 1 .. N, k < m PROVE NoneBefore(lines[k], lines[m])
      <4>1. ~Before(<<n, m>>, <<n, k>>)
        BY <2>1, <3>2 DEF Before
      <4> QED BY <4>1 DEF NoneBefore
    <3> QED BY <3>1, <3>2 DEF MadeOf
  <2>6. Block(n) = FlattenSeq(said)
    BY <1>2 DEF Block
  <2> HIDE DEF N, said, lines
  <2>7. FirstLine(First(FlattenSeq(said), M), Says(M), UpTo(lines, N))
    BY <2>1, <2>2, <2>5, FirstOfFlattened
  <2> QED BY <2>4, <2>6, <2>7
<1>3. CASE Master[n].directive # "hosts"
  <2>1. LinesOf(n) = {<<n, 0>>} /\ Block(n) = Said(<<n, 0>>)
    BY <1>3 DEF LinesOf, Block
  <2>2. First(Block(n), M) = Says(M)[<<n, 0>>]
    BY <1>1, <2>1
  <2>3. n \in Int
    BY MasterOf
  <2>4. FirstLine(First(Block(n), M), Says(M), {<<n, 0>>})
    <3> DEFINE x == First(Block(n), M)
               zero == 0
    <3>1. x = Says(M)[<<n, zero>>] /\ zero \in Int
      BY <2>2
    <3>2. FirstLine(x, Says(M), {<<n, zero>>})
      <4> HIDE DEF x, zero
      <4> QED BY <2>3, <3>1, OneLine
    <3> QED BY <3>2
  <2> QED BY <2>1, <2>4
<1> QED BY <1>2, <1>3

(* What is first in the table read from the files: what was there before,   *)
(* and else what the first line has.                                       *)
LEMMA FilesSay ==
    ASSUME FilesLoaded, NEW db \in HomeTables, NEW M
    PROVE  FirstBehind(First(read_configuration(loaded.disk, loaded.domain, db), M), First(db, M),
                       Says(M), AllLines)
<1> DEFINE N == Len(Master)
           f == CHOOSE f : IsAfter(f, loaded.disk, loaded.domain, db)
           S == {n \in 0 .. N : f[n] \in Readings /\ f[n].domain = DomainAt(n + 1)}
           h == [n \in 0 .. N |-> f[n].dbv]
           seqs == [n \in 1 .. N |-> Block(n)]
           lines == [n \in 1 .. N |-> LinesOf(n)]
<1>1. IsAfter(f, loaded.disk, loaded.domain, db)
  BY FilesExist DEF FilesLoaded
<1>2. read_configuration(loaded.disk, loaded.domain, db) = f[N].dbv
  BY DEF read_configuration, IsAfter, Master
<1> HIDE DEF f
<1>3. N \in Nat /\ Master = loaded.disk.master /\ loaded.disk \in Disk
  BY MasterOf DEF FilesLoaded, Master
<1>4. f[0] = [dbv |-> db, domain |-> loaded.domain]
  BY <1>1, <1>3 DEF IsAfter
<1>5. \A n \in 1 .. N : f[n] = read_line(f[n - 1], Master[n], loaded.disk.files)
  <2>1. \A n \in 1 .. N : n \in 0 .. N /\ n # 0
    BY <1>3
  <2> QED BY <1>1, <1>3, <2>1 DEF IsAfter
<1>6. 0 \in S
  <2>1. DomainAt(1) = loaded.domain
    <3>1. DomainsBefore(1) = {}
      BY DEF DomainsBefore
    <3> QED BY <3>1 DEF DomainAt
  <2> QED BY <1>3, <1>4, <2>1 DEF Readings, FilesLoaded
<1>7. ASSUME NEW n \in 1 .. N, n - 1 \in S PROVE n \in S
  <2>1. f[n - 1] \in Readings /\ f[n - 1].domain = DomainAt(n) /\ n \in 0 .. N
    BY <1>3, <1>7
  <2>2. f[n].domain = DomainAt(n + 1)
    BY <1>5, <2>1, BlockRead
  <2>3. f[n] \in Readings
    <3>1. Master[n] \in Line /\ loaded.disk.files \in [HostsFiles -> Seq(Line)]
      BY <1>3, MasterOf, DiskOf
    <3> QED BY <1>5, <2>1, <3>1, LineRead
  <2> QED BY <2>1, <2>2, <2>3
<1>8. \A n \in 0 .. N : n \in S
  <2> HIDE DEF N, S
  <2> QED BY <1>3, <1>6, <1>7, BoundedInduction
<1>9. \A n \in 1 .. N : f[n].dbv = f[n - 1].dbv \o Block(n)
  <2>1. ASSUME NEW n \in 1 .. N PROVE f[n].dbv = f[n - 1].dbv \o Block(n)
    <3>1. n - 1 \in 0 .. N /\ n - 1 + 1 = n
      BY <1>3
    <3>2. f[n - 1] \in Readings /\ f[n - 1].domain = DomainAt(n)
      BY <1>8, <3>1
    <3> QED BY <1>5, <3>2, BlockRead
  <2> QED BY <2>1
<1>10. Appends(h, N, seqs, TableRecord)
  <2>1. h[0] = db /\ db \in Seq(TableRecord)
    BY <1>3, <1>4 DEF HomeTables, Tables
  <2>2. ASSUME NEW n \in 1 .. N PROVE seqs[n] \in Seq(TableRecord) /\ h[n] = h[n - 1] \o seqs[n]
    <3>1. n \in 0 .. N /\ n - 1 \in 0 .. N
      BY <1>3
    <3>2. Block(n) \in Seq(TableRecord)
      BY BlockTyped DEF Tables
    <3> QED BY <1>9, <3>1, <3>2
  <2> HIDE DEF h, seqs
  <2> QED BY <2>1, <2>2 DEF Appends
<1>11. MadeOf(seqs, N, M, Says(M), lines)
  <2>1. ASSUME NEW n \in 1 .. N, NEW m \in 1 .. N, n < m PROVE NoneBefore(lines[n], lines[m])
    <3>1. \A l \in LinesOf(n) : l[1] = n
      BY DEF LinesOf
    <3>2. \A l \in LinesOf(m) : l[1] = m
      BY DEF LinesOf
    <3>3. ~(m < n) /\ m # n
      BY <2>1, <1>3
    <3> QED BY <3>1, <3>2, <3>3 DEF NoneBefore, Before
  <2>2. \A n \in 1 .. N : FirstLine(First(seqs[n], M), Says(M), lines[n])
    BY BlockMade
  <2> QED BY <2>1, <2>2 DEF MadeOf
<1>12. UpTo(lines, N) = AllLines
  BY DEF UpTo, AllLines
<1>13. h[0] = db /\ h[N] = f[N].dbv
  BY <1>3, <1>4
<1> HIDE DEF N, h, seqs, lines
<1>14. FirstBehind(First(h[N], M), First(h[0], M), Says(M), UpTo(lines, N))
  BY <1>3, <1>10, <1>11, FirstOfLoop
<1> QED BY <1>2, <1>12, <1>13, <1>14

(* A name of a line with an address, in the table.                         *)
NameOf(l, n) == [type |-> "nameip", object |-> NamesOn(l)[n], data |-> Address(l)]

(* What a line with an address has.                                        *)
HostSays(x, l, M) ==
    \/ x = {} /\ (Address(l) # Invalid => \A n \in 1 .. Len(NamesOn(l)) : NameOf(l, n) \notin M)
    \/ /\ Address(l) # Invalid
       /\ \E n \in 1 .. Len(NamesOn(l)) : /\ x = {NameOf(l, n)} /\ NameOf(l, n) \in M
                                          /\ \A k \in 1 .. n - 1 : NameOf(l, k) \notin M

LEMMA HostSaid ==
    ASSUME FilesLoaded, NEW l \in HostLines, NEW M
    PROVE  l \in AllLines /\ HostSays(First(Said(l), M), l, M)
<1> DEFINE given == GivenOn(l)
           ip == Address(l)
           N == Len(given)
           seqs == [n \in 1 .. N |-> add_nameip(given[n], ip)]
           x == First(FlattenSeq(seqs), M)
<1>1. l \in AllLines
  BY HostLineOf
<1>2. given \in Seq(Texts) /\ ip \in {Invalid} \cup Ips
  BY <1>1, GivenTyped
<1>3. N \in Nat /\ DOMAIN given = 1 .. N /\ \A n \in 1 .. N : given[n] \in Texts
  <2> HIDE DEF given
  <2> QED BY <1>2
<1>4. NamesOn(l) = [n \in 1 .. N |-> strnlwr(given[n])] /\ Len(NamesOn(l)) = N
  <2>1. NamesOn(l) = [n \in 1 .. N |-> strnlwr(given[n])]
    BY <1>3 DEF NamesOn
  <2> HIDE DEF given
  <2>2. NamesOn(l) \in Seq({strnlwr(given[n]) : n \in 1 .. N}) /\ DOMAIN NamesOn(l) = 1 .. N
    BY <1>3, <2>1
  <2> QED BY <1>3, <2>1, <2>2
<1>5. First(Said(l), M) = x
  BY <1>3 DEF Said, add_nameips
<1>6. \A n \in 1 .. N : seqs[n] = IF ip = Invalid THEN << >> ELSE <<NameOf(l, n)>>
  BY <1>4 DEF add_nameip, Rec, NameOf
<1> HIDE DEF given, ip, N
<1>7. seqs \in [1 .. N -> Seq(TableRecord)]
  BY <1>2, <1>3, AddTyped DEF Tables
<1> HIDE DEF seqs
<1>8. FirstOfAll(x, seqs, N, M)
  BY <1>3, <1>7, FirstOfEach
<1> HIDE DEF x
<1>9. CASE ip = Invalid
  <2>1. \A n \in 1 .. N : First(seqs[n], M) = {}
    BY <1>6, <1>9, FirstNone
  <2>2. x = {}
    BY <1>8, <2>1 DEF FirstOfAll
  <2> QED BY <1>1, <1>5, <1>9, <2>2 DEF HostSays, ip
<1>10. CASE ip # Invalid
  <2>1. \A n \in 1 .. N : First(seqs[n], M) = IF NameOf(l, n) \in M THEN {NameOf(l, n)} ELSE {}
    BY <1>6, <1>10, FirstOne
  <2>2. CASE x = {}
    <3>1. \A n \in 1 .. N : First(seqs[n], M) = {}
      BY <1>8, <2>2 DEF FirstOfAll
    <3> QED BY <1>1, <1>4, <1>5, <2>1, <2>2, <3>1 DEF HostSays
  <2>3. CASE x # {}
    <3>1. PICK n \in 1 .. N : x = First(seqs[n], M) /\ \A k \in 1 .. n - 1 : First(seqs[k], M) = {}
      BY <1>8, <2>3 DEF FirstOfAll
    <3>2. x = {NameOf(l, n)} /\ NameOf(l, n) \in M
      BY <2>1, <2>3, <3>1
    <3>3. \A k \in 1 .. n - 1 : k \in 1 .. N
      BY <1>3
    <3>4. \A k \in 1 .. n - 1 : NameOf(l, k) \notin M
      BY <2>1, <3>1, <3>3
    <3> QED BY <1>1, <1>4, <1>5, <1>10, <3>2, <3>4 DEF HostSays, ip
  <2> QED BY <2>2, <2>3
<1> QED BY <1>9, <1>10

(* What a line with a domain has: its servers, or that it is ours.          *)
ServerOf(n, word) ==
    IF word = AuthOption THEN Rec("authority", Master[n].words[1], << >>)
    ELSE Rec("dns", Master[n].words[1], strnlwr(word))

LEMMA DomainSaid ==
    ASSUME FilesLoaded, NEW n \in DomainLines, NEW M
    PROVE  /\ <<n, 0>> \in AllLines
           /\ First(Said(<<n, 0>>), M) # {} <=> \E word \in Behind(n) : ServerOf(n, word) \in M
<1> DEFINE N == Len(Servers(n))
           x == First(FlattenSeq(Servers(n)), M)
           w == Master[n].words[1]
<1>1. /\ N \in Nat /\ Servers(n) \in [1 .. N -> Seq(TableRecord)]
      /\ n \in 1 .. Len(Master)
  BY ServersTyped DEF Tables
<1>2. PICK names \in Seq(Texts) :
        /\ names = Hostnames(Tail(Master[n].words), w)
        /\ Len(names) = N
        /\ \A k \in 1 .. Len(names) :
             Servers(n)[k] = IF names[k] = AuthOption THEN add_authority(w) ELSE add_dns(w, names[k])
  BY ServersTyped
<1>3. \A k \in 1 .. N : Servers(n)[k] = <<ServerOf(n, names[k])>>
  BY <1>2 DEF add_authority, add_dns, ServerOf
<1>4. Behind(n) = {names[k] : k \in 1 .. N}
  <2>1. DOMAIN names = 1 .. N
    BY <1>2
  <2> QED BY <1>2, <2>1 DEF Behind, ToSet
<1>5. Said(<<n, 0>>) = FlattenSeq(Servers(n)) /\ <<n, 0>> \in AllLines
  <2>1. <<n, 0>> \notin HostLines
    <3>1. Master[n].directive = "domain"
      BY DEF DomainLines
    <3> QED BY <1>1, <3>1, HostLineOf
  <2> QED BY <2>1, HostLineOf DEF Said
<1> HIDE DEF N, w
<1>6. FirstOfAll(x, Servers(n), N, M)
  BY <1>1, FirstOfEach
<1> HIDE DEF x
<1>7. \A k \in 1 .. N : First(Servers(n)[k], M) = IF ServerOf(n, names[k]) \in M THEN {ServerOf(n, names[k])} ELSE {}
  BY <1>3, FirstOne
<1>8. x # {} <=> \E k \in 1 .. N : ServerOf(n, names[k]) \in M
  <2>1. CASE x = {}
    <3>1. \A k \in 1 .. N : First(Servers(n)[k], M) = {}
      BY <1>6, <2>1 DEF FirstOfAll
    <3> QED BY <1>7, <2>1, <3>1
  <2>2. CASE x # {}
    <3>1. PICK k \in 1 .. N : x = First(Servers(n)[k], M)
      BY <1>6, <2>2 DEF FirstOfAll
    <3> QED BY <1>7, <2>2, <3>1
  <2> QED BY <2>1, <2>2
<1> QED BY <1>4, <1>5, <1>8 DEF x

(* The records there were before: one is first.                            *)
Black == {Rec("authority", name, << >>) : name \in ToSet(loaded.disk.blacklist)}

LEMMA GroundSays ==
    ASSUME FilesLoaded, NEW M
    PROVE  /\ Home \in M => First(Ground(loaded.disk), M) = {Home}
           /\ First(Ground(loaded.disk), M) # {} <=> Home \in M \/ HomeDns \in M \/ Black \cap M # {}
<1> DEFINE names == loaded.disk.blacklist
           N == Len(names)
           seqs == [n \in 1 .. N |-> add_authority(names[n])]
           black == read_blacklist(names)
           x == First(FlattenSeq(seqs), M)
<1>1. names \in Seq(Texts) /\ N \in Nat /\ DOMAIN names = 1 .. N
  BY MasterOf
<1>2. loaded.disk \in Disk
  BY DEF FilesLoaded
<1>3. seqs \in [1 .. N -> Seq(TableRecord)]
  BY <1>2, GroundTyped DEF Tables
<1>4. black = FlattenSeq(seqs)
  BY <1>1 DEF read_blacklist
<1>5. Ground(loaded.disk) = <<Home>> \o <<HomeDns>> \o black
  BY <1>2, GroundTyped
<1>6. \A n \in 1 .. N : seqs[n] = <<Rec("authority", names[n], << >>)>>
  BY DEF add_authority
<1>7. Black = {Rec("authority", names[n], << >>) : n \in 1 .. N}
  BY <1>1 DEF Black, ToSet
<1> HIDE DEF N, names, seqs, black
<1>8. FirstOfAll(x, seqs, N, M)
  BY <1>1, <1>3, FirstOfEach
<1>9. black \in Seq(TableRecord)
  BY <1>1, <1>3, <1>4, FlattenOf
<1> HIDE DEF x
<1>10. x # {} <=> Black \cap M # {}
  <2>1. \A n \in 1 .. N : First(seqs[n], M) # {} <=> Rec("authority", names[n], << >>) \in M
    BY <1>6, FirstOne
  <2>2. CASE x = {}
    <3>1. \A k \in 1 .. N : First(seqs[k], M) = {}
      BY <1>8, <2>2 DEF FirstOfAll
    <3> QED BY <1>7, <2>1, <2>2, <3>1
  <2>3. CASE x # {}
    <3>1. PICK k \in 1 .. N : x = First(seqs[k], M)
      BY <1>8, <2>3 DEF FirstOfAll
    <3>2. Rec("authority", names[k], << >>) \in Black \cap M
      BY <1>7, <2>1, <2>3, <3>1
    <3> QED BY <2>3, <3>2
  <2> QED BY <2>2, <2>3
<1>11. <<Home>> \in Seq(TableRecord) /\ <<HomeDns>> \in Seq(TableRecord)
  <2>1. Home \in TableRecord
    BY HomeIsTable, TableOf
  <2> QED BY <1>2, <2>1, GroundTyped
<1>12. First(Ground(loaded.disk), M) = Else(Else(First(<<Home>>, M), First(<<HomeDns>>, M)), x)
  <2>1. <<Home>> \o <<HomeDns>> \in Seq(TableRecord)
    BY <1>11
  <2>2. First(<<Home>> \o <<HomeDns>>, M) = Else(First(<<Home>>, M), First(<<HomeDns>>, M))
    BY <1>11, FirstJoined
  <2>3. First(<<Home>> \o <<HomeDns>> \o black, M) = Else(First(<<Home>> \o <<HomeDns>>, M), First(black, M))
    BY <1>9, <2>1, FirstJoined
  <2>4. First(black, M) = x
    BY <1>4 DEF x
  <2> QED BY <1>5, <2>2, <2>3, <2>4
<1>13. /\ First(<<Home>>, M) = IF Home \in M THEN {Home} ELSE {}
       /\ First(<<HomeDns>>, M) = IF HomeDns \in M THEN {HomeDns} ELSE {}
  BY FirstOne
<1> QED BY <1>10, <1>12, <1>13 DEF Else

(* The names of a line, in lower case.                                     *)
LEMMA NamesTyped ==
    ASSUME FilesLoaded, NEW l \in HostLines
    PROVE  /\ NamesOn(l) \in Seq(Seq(LowerBytes))
           /\ DOMAIN NamesOn(l) = 1 .. Len(NamesOn(l)) /\ Len(NamesOn(l)) \in Nat
<1>1. GivenOn(l) \in Seq(Texts)
  BY GivenTyped, HostLineOf
<1>2. \A n \in DOMAIN GivenOn(l) : strnlwr(GivenOn(l)[n]) \in Seq(LowerBytes)
  BY <1>1, Lowered
<1>3. DOMAIN GivenOn(l) = 1 .. Len(GivenOn(l)) /\ Len(GivenOn(l)) \in Nat
  BY <1>1
<1>4. NamesOn(l) \in Seq(Seq(LowerBytes))
  BY <1>2, <1>3 DEF NamesOn
<1> QED BY <1>4

(* All of these are records of the table.                                  *)
LEMMA RecordsTyped ==
    ASSUME FilesLoaded
    PROVE  /\ Home \in TableRecord /\ HomeDns \in TableRecord /\ Black \subseteq TableRecord
           /\ \A l \in HostLines : Address(l) # Invalid =>
                Address(l) \in Ips /\ \A n \in 1 .. Len(NamesOn(l)) : NameOf(l, n) \in TableRecord
           /\ \A n \in DomainLines : \A word \in Behind(n) : ServerOf(n, word) \in TableRecord
<1>1. Home \in TableRecord /\ HomeDns \in TableRecord
  BY HomeIsTable, TableOf, GroundTyped DEF FilesLoaded
<1>2. ASSUME NEW name \in Texts, NEW dns \in Texts
      PROVE  Rec("authority", name, << >>) \in TableRecord /\ Rec("dns", name, strnlwr(dns)) \in TableRecord
  <2>1. /\ strnlwr(name) \in Seq(LowerBytes) /\ strnlwr(dns) \in Texts /\ << >> \in Texts
    BY Lowered DEF Texts
  <2> QED BY <2>1 DEF Rec, TableRecord
<1>3. Black \subseteq TableRecord
  <2>1. \A name \in ToSet(loaded.disk.blacklist) : name \in Texts
    BY MasterOf DEF ToSet
  <2> QED BY <1>2, <2>1, MasterAssumption DEF Black
<1>4. ASSUME NEW l \in HostLines, Address(l) # Invalid
      PROVE  Address(l) \in Ips /\ \A n \in 1 .. Len(NamesOn(l)) : NameOf(l, n) \in TableRecord
  <2>1. Address(l) \in Ips
    BY <1>4, GivenTyped, HostLineOf
  <2>3. NamesOn(l) \in Seq(Seq(LowerBytes))
    BY NamesTyped
  <2>4. \A n \in 1 .. Len(NamesOn(l)) : NamesOn(l)[n] \in Seq(LowerBytes)
    BY <2>3
  <2> QED BY <2>1, <2>4 DEF NameOf, TableRecord
<1>5. ASSUME NEW n \in DomainLines, NEW word \in Behind(n) PROVE ServerOf(n, word) \in TableRecord
  <2>1. Master[n].words[1] \in Texts
    BY ServersTyped
  <2>2. PICK names \in Seq(Texts) : names = Hostnames(Tail(Master[n].words), Master[n].words[1])
    BY ServersTyped
  <2>3. word \in Texts
    BY <2>2 DEF Behind, ToSet
  <2> QED BY <1>2, <2>1, <2>3 DEF ServerOf
<1> QED BY <1>1, <1>3, <1>4, <1>5

(* Whether a line has something of M.                                      *)
HostMeets(l, M) == Address(l) # Invalid /\ \E n \in 1 .. Len(NamesOn(l)) : NameOf(l, n) \in M

DomainMeets(n, M) == \E word \in Behind(n) : ServerOf(n, word) \in M

LEMMA LineMeets ==
    ASSUME FilesLoaded, NEW M
    PROVE  /\ \A l \in HostLines : l \in AllLines /\ (First(Said(l), M) # {} <=> HostMeets(l, M))
           /\ \A l \in AllLines \ HostLines :
                First(Said(l), M) # {} => \E n \in DomainLines : l = <<n, 0>> /\ DomainMeets(n, M)
<1>1. ASSUME NEW l \in HostLines PROVE l \in AllLines /\ (First(Said(l), M) # {} <=> HostMeets(l, M))
  BY HostSaid DEF HostSays, HostMeets
<1>2. ASSUME NEW l \in AllLines \ HostLines, First(Said(l), M) # {}
      PROVE  \E n \in DomainLines : l = <<n, 0>> /\ DomainMeets(n, M)
  <2>1. Said(l) # << >>
    BY <1>2, FirstNone
  <2>2. l[2] = 0 /\ l[1] \in DomainLines
    BY <1>2, <2>1 DEF Said
  <2>3. \E n : l = <<n, 0>>
    BY <2>2 DEF AllLines, LinesOf
  <2>4. l = <<l[1], 0>>
    BY <2>3
  <2> QED BY <1>2, <2>2, <2>4, DomainSaid DEF DomainMeets
<1> QED BY <1>1, <1>2

(* The table, before auto_authority() adds the zones and after.             *)
Read == read_configuration(loaded.disk, loaded.domain, Ground(loaded.disk))
Table == Database(loaded.disk, loaded.domain, << >>)

LEMMA ReadTable ==
    ASSUME FilesLoaded
    PROVE  /\ Read \in HomeTables /\ Read \in Seq(TableRecord)
           /\ Table \in HomeTables /\ Table \in Seq(TableRecord) /\ Extended(Table, Read, Len(Read))
<1>1. Read \in HomeTables /\ Table = auto_authority(Read)
  BY DatabaseOf DEF FilesLoaded, Read, Table
<1> QED BY <1>1, AllCovered DEF HomeTables, Tables

(* What is in the table before.                                            *)
LEMMA ReadMeets ==
    ASSUME FilesLoaded, NEW M
    PROVE  (\E k \in DOMAIN Read : Read[k] \in M) <=>
                \/ Home \in M \/ HomeDns \in M \/ Black \cap M # {}
                \/ \E l \in HostLines : HostMeets(l, M)
                \/ \E n \in DomainLines : DomainMeets(n, M)
<1> DEFINE ground == First(Ground(loaded.disk), M)
<1>1. Ground(loaded.disk) \in HomeTables
  BY GroundTyped DEF FilesLoaded
<1>2. FirstBehind(First(Read, M), ground, Says(M), AllLines)
  BY <1>1, FilesSay DEF Read
<1>3. PICK x : First(Read, M) = Else(ground, x) /\ FirstLine(x, Says(M), AllLines)
  BY <1>2 DEF FirstBehind
<1>4. ground # {} <=> Home \in M \/ HomeDns \in M \/ Black \cap M # {}
  BY GroundSays
<1> HIDE DEF ground
<1>5. \A l \in AllLines : Says(M)[l] = First(Said(l), M)
  BY DEF Says
<1>6. x # {} <=> \E l \in AllLines : First(Said(l), M) # {}
  BY <1>3, <1>5 DEF FirstLine
<1>7. (\E l \in AllLines : First(Said(l), M) # {}) <=>
          (\E l \in HostLines : HostMeets(l, M)) \/ (\E n \in DomainLines : DomainMeets(n, M))
  <2>1. \A n \in DomainLines : <<n, 0>> \in AllLines /\ (First(Said(<<n, 0>>), M) # {} <=> DomainMeets(n, M))
    BY DomainSaid DEF DomainMeets
  <2> QED BY <2>1, LineMeets
<1>8. First(Read, M) # {} <=> \E k \in DOMAIN Read : Read[k] \in M
  <2>1. Read \in Seq(TableRecord) /\ DOMAIN Read = 1 .. Len(Read)
    BY ReadTable, TableOf
  <2> QED BY <2>1, PlacesOf
<1> QED BY <1>3, <1>4, <1>6, <1>7, <1>8 DEF Else

(* What a lookup that is not for authorities finds is there before.        *)
LEMMA SameFirst ==
    ASSUME FilesLoaded, NEW M, \A r \in M : r.type # "authority"
    PROVE  Places(Table, M) = Places(Read, M) /\ First(Table, M) = First(Read, M)
<1>1. /\ DOMAIN Read = 1 .. Len(Read) /\ DOMAIN Table = 1 .. Len(Table)
      /\ Len(Read) \in Nat /\ Len(Table) \in Nat /\ Len(Read) <= Len(Table)
      /\ \A k \in 1 .. Len(Read) : Table[k] = Read[k]
      /\ \A k \in Len(Read) + 1 .. Len(Table) : Table[k].type = "authority"
  BY ReadTable, TableOf DEF Extended, Added
<1>2. \A k \in 1 .. Len(Table) : k \in 1 .. Len(Read) \/ k \in Len(Read) + 1 .. Len(Table)
  BY <1>1
<1>3. \A k \in 1 .. Len(Read) : k \in 1 .. Len(Table)
  BY <1>1
<1>4. Places(Table, M) = Places(Read, M)
  BY <1>1, <1>2, <1>3 DEF Places
<1>5. \A k \in Places(Read, M) : Table[k] = Read[k]
  BY <1>1 DEF Places
<1>6. First(Table, M) = First(Read, M)
  BY <1>4, <1>5 DEF First
<1> QED BY <1>4, <1>6

---------------------------------------------------------------------------
(* What lookups find *)

(* What a lookup for an address or a name finds first: localhost, or what   *)
(* the earliest of the lines that match has.                               *)
LEMMA FirstOfLines ==
    ASSUME FilesLoaded, NEW M, \A r \in M : r.type = "nameip",
           NEW K, K \subseteq HostLines, \A l \in HostLines : HostMeets(l, M) <=> l \in K
    PROVE  /\ Home \in M => First(Table, M) = {Home}
           /\ Home \notin M =>
                \/ First(Table, M) = {} /\ Earliest(K) = {}
                \/ First(Table, M) # {} /\ \E l \in Earliest(K) : HostSays(First(Table, M), l, M)
<1> DEFINE ground == First(Ground(loaded.disk), M)
<1>1. Ground(loaded.disk) \in HomeTables
  BY GroundTyped DEF FilesLoaded
<1>2. FirstBehind(First(Read, M), ground, Says(M), AllLines)
  BY <1>1, FilesSay DEF Read
<1>3. First(Table, M) = First(Read, M)
  BY SameFirst
<1>4. PICK x : First(Table, M) = Else(ground, x) /\ FirstLine(x, Says(M), AllLines)
  BY <1>2, <1>3 DEF FirstBehind
<1>5. HomeDns \notin M /\ Black \cap M = {}
  BY DEF HomeDns, Black, Rec
<1>6. (Home \in M => ground = {Home}) /\ (Home \notin M => ground = {})
  BY <1>5, GroundSays
<1> HIDE DEF ground
<1>7. ASSUME NEW l \in AllLines
      PROVE  /\ Says(M)[l] = First(Said(l), M)
             /\ Says(M)[l] # {} <=> l \in K
  <2>1. Says(M)[l] = First(Said(l), M)
    BY DEF Says
  <2>2. CASE l \in HostLines
    BY <2>1, <2>2, LineMeets
  <2>3. CASE l \notin HostLines
    <3>1. \A n \in DomainLines : ~DomainMeets(n, M)
      BY DEF DomainMeets, ServerOf, Rec
    <3> QED BY <2>1, <2>3, <3>1, LineMeets
  <2> QED BY <2>2, <2>3
<1>8. HostLines \subseteq AllLines
  BY HostLineOf
<1>9. CASE Home \in M
  BY <1>4, <1>6, <1>9 DEF Else
<1>10. CASE Home \notin M
  <2>1. First(Table, M) = x
    BY <1>4, <1>6, <1>10 DEF Else
  <2>2. CASE x = {}
    <3>1. \A l \in AllLines : Says(M)[l] = {}
      BY <1>4, <2>2 DEF FirstLine
    <3>2. K = {}
      BY <1>7, <1>8, <3>1
    <3> QED BY <1>10, <2>1, <2>2, <3>2 DEF Earliest
  <2>3. CASE x # {}
    <3>1. PICK l \in AllLines : x = Says(M)[l] /\ \A k \in AllLines : Before(k, l) => Says(M)[k] = {}
      BY <1>4, <2>3 DEF FirstLine
    <3>2. l \in K /\ l \in HostLines /\ \A k \in K : ~Before(k, l)
      BY <1>7, <1>8, <2>3, <3>1
    <3>3. l \in Earliest(K)
      BY <3>2 DEF Earliest
    <3>4. HostSays(x, l, M)
      BY <1>7, <3>1, <3>2, HostSaid
    <3> QED BY <1>10, <2>1, <2>3, <3>3, <3>4
  <2> QED BY <2>2, <2>3
<1> QED BY <1>9, <1>10

(* The table is the one of the files.                                      *)
Built == FilesLoaded /\ dbv = Table

LEMMA HomeRecord ==
    /\ Home.type = "nameip" /\ Home.object = Localhost /\ Home.data = <<127, 0, 0, 1>>
    /\ Home \in TableRecord
<1>1. strnlwr(Localhost) = Localhost
  BY MasterAssumption
<1>2. Home \in TableRecord
  BY HomeIsTable, TableOf
<1> QED BY <1>1, <1>2 DEF Home, Rec

(* An A question finds the first line with the name.                       *)
LEMMA AddressFound ==
    ASSUME Built, NEW name
    PROVE  /\ name_lookup(name) = {} <=> Addresses(name) = {}
           /\ name_lookup(name) # {} => dbv[Min(name_lookup(name))].data \in Addresses(name)
<1> DEFINE M == {r \in TableRecord : r.type = "nameip" /\ r.object = name}
           K == {k \in Used : \E n \in DOMAIN NamesOn(k) : NamesOn(k)[n] = name}
           x == First(Table, M)
<1>1. FilesLoaded /\ dbv = Table /\ Table \in Seq(TableRecord)
  BY ReadTable DEF Built
<1>2. Places(Table, M) = name_lookup(name)
  <2>1. \A k \in DOMAIN Table : Table[k] \in TableRecord
    BY <1>1
  <2> QED BY <1>1, <2>1 DEF Places, name_lookup
<1>3. K \subseteq HostLines
  BY DEF Used
<1>4. ASSUME NEW l \in HostLines PROVE HostMeets(l, M) <=> l \in K
  <2>1. DOMAIN NamesOn(l) = 1 .. Len(NamesOn(l))
    BY <1>1, NamesTyped
  <2>2. CASE Address(l) = Invalid
    BY <2>2 DEF HostMeets, Used
  <2>3. CASE Address(l) # Invalid
    <3>1. \A n \in 1 .. Len(NamesOn(l)) : NameOf(l, n) \in M <=> NamesOn(l)[n] = name
      BY <1>1, <2>3, RecordsTyped DEF NameOf
    <3>2. (\E n \in DOMAIN NamesOn(l) : NamesOn(l)[n] = name) => NamesOn(l) # << >>
      OBVIOUS
    <3> QED BY <2>1, <2>3, <3>1, <3>2 DEF HostMeets, Used
  <2> QED BY <2>2, <2>3
<1>5. Home \in M <=> name = Localhost
  BY HomeRecord
<1>6. \A r \in M : r.type = "nameip"
  OBVIOUS
<1>7. Addresses(name) = IF name = Localhost THEN {<<127, 0, 0, 1>>} ELSE {Address(l) : l \in Earliest(K)}
  BY DEF Addresses
<1> HIDE DEF K
<1>8. /\ Home \in M => x = {Home}
      /\ Home \notin M => \/ x = {} /\ Earliest(K) = {}
                          \/ x # {} /\ \E l \in Earliest(K) : HostSays(x, l, M)
  <2> HIDE DEF M
  <2> QED BY <1>1, <1>3, <1>4, <1>6, FirstOfLines
<1>9. /\ name_lookup(name) = {} => x = {}
      /\ name_lookup(name) # {} => x = {dbv[Min(name_lookup(name))]}
  <2> HIDE DEF M
  <2> QED BY <1>1, <1>2, FirstIs
<1> HIDE DEF M, x
<1>10. CASE name = Localhost
  <2>1. x = {Home}
    BY <1>5, <1>8, <1>10
  <2>2. name_lookup(name) # {} /\ dbv[Min(name_lookup(name))] = Home
    BY <1>9, <2>1
  <2> QED BY <1>7, <1>10, <2>2, HomeRecord
<1>11. CASE name # Localhost
  <2>1. CASE x = {} /\ Earliest(K) = {}
    BY <1>7, <1>9, <1>11, <2>1
  <2>2. CASE x # {} /\ \E l \in Earliest(K) : HostSays(x, l, M)
    <3>1. PICK l \in Earliest(K) : HostSays(x, l, M)
      BY <2>2
    <3>2. PICK n : x = {NameOf(l, n)}
      BY <2>2, <3>1 DEF HostSays
    <3>3. name_lookup(name) # {} /\ dbv[Min(name_lookup(name))] = NameOf(l, n)
      BY <1>9, <3>2
    <3>4. dbv[Min(name_lookup(name))].data = Address(l)
      BY <3>3 DEF NameOf
    <3> QED BY <1>7, <1>11, <3>3, <3>4
  <2> QED BY <1>5, <1>8, <1>11, <2>1, <2>2
<1> QED BY <1>10, <1>11

(* A PTR question finds the first name of the first line with the address.  *)
LEMMA NameFound ==
    ASSUME Built, NEW arpanum
    PROVE  /\ ptr_lookup(arpanum) = {} <=> NamesFor(arpanum) = {}
           /\ ptr_lookup(arpanum) # {} => dbv[Min(ptr_lookup(arpanum))].object \in NamesFor(arpanum)
<1> DEFINE M == {r \in TableRecord : r.type = "nameip" /\ Arpa(r.data) = arpanum}
           K == {k \in Used : Arpa(Address(k)) = arpanum}
           x == First(Table, M)
<1>1. FilesLoaded /\ dbv = Table /\ Table \in Seq(TableRecord)
  BY ReadTable DEF Built
<1>2. Places(Table, M) = ptr_lookup(arpanum)
  <2>1. \A k \in DOMAIN Table : Table[k] \in TableRecord
    BY <1>1
  <2> QED BY <1>1, <2>1 DEF Places, ptr_lookup
<1>3. K \subseteq HostLines
  BY DEF Used
<1>a. ASSUME NEW l \in HostLines, Address(l) # Invalid
      PROVE  \A n \in 1 .. Len(NamesOn(l)) : NameOf(l, n) \in M <=> Arpa(Address(l)) = arpanum
  BY <1>1, <1>a, RecordsTyped DEF NameOf
<1>4. ASSUME NEW l \in HostLines PROVE HostMeets(l, M) <=> l \in K
  <2>1. NamesOn(l) # << >> <=> \E n \in 1 .. Len(NamesOn(l)) : TRUE
    <3>1. NamesOn(l) \in Seq(Seq(LowerBytes)) /\ Len(NamesOn(l)) \in Nat
      BY <1>1, NamesTyped
    <3>2. Len(NamesOn(l)) # 0 <=> NamesOn(l) # << >>
      BY <3>1, EmptySeq
    <3> QED BY <3>1, <3>2
  <2>2. CASE Address(l) = Invalid
    BY <2>2 DEF HostMeets, Used
  <2>3. CASE Address(l) # Invalid
    <3>1. \A n \in 1 .. Len(NamesOn(l)) : NameOf(l, n) \in M <=> Arpa(Address(l)) = arpanum
      BY <1>a, <2>3
    <3>2. HostMeets(l, M) <=> NamesOn(l) # << >> /\ Arpa(Address(l)) = arpanum
      BY <2>1, <2>3, <3>1 DEF HostMeets
    <3> QED BY <2>3, <3>2 DEF Used
  <2> QED BY <2>2, <2>3
<1>5. Home \in M <=> arpanum = Arpa(<<127, 0, 0, 1>>)
  BY HomeRecord
<1>6. \A r \in M : r.type = "nameip"
  OBVIOUS
<1>7. NamesFor(arpanum) = IF arpanum = Arpa(<<127, 0, 0, 1>>) THEN {Localhost}
                          ELSE {NamesOn(l)[1] : l \in Earliest(K)}
  BY DEF NamesFor
<1>b. \A l \in Earliest(K) : l \in HostLines /\ Arpa(Address(l)) = arpanum
  BY DEF Earliest, Used
<1> HIDE DEF K
<1>8. /\ Home \in M => x = {Home}
      /\ Home \notin M => \/ x = {} /\ Earliest(K) = {}
                          \/ x # {} /\ \E l \in Earliest(K) : HostSays(x, l, M)
  <2> HIDE DEF M
  <2> QED BY <1>1, <1>3, <1>4, <1>6, FirstOfLines
<1>9. /\ ptr_lookup(arpanum) = {} => x = {}
      /\ ptr_lookup(arpanum) # {} => x = {dbv[Min(ptr_lookup(arpanum))]}
  <2> HIDE DEF M
  <2> QED BY <1>1, <1>2, FirstIs
<1> HIDE DEF M, x
<1>10. CASE arpanum = Arpa(<<127, 0, 0, 1>>)
  <2>1. x = {Home}
    BY <1>5, <1>8, <1>10
  <2>2. ptr_lookup(arpanum) # {} /\ dbv[Min(ptr_lookup(arpanum))] = Home
    BY <1>9, <2>1
  <2> QED BY <1>7, <1>10, <2>2, HomeRecord
<1>11. CASE arpanum # Arpa(<<127, 0, 0, 1>>)
  <2>1. CASE x = {} /\ Earliest(K) = {}
    BY <1>7, <1>9, <1>11, <2>1
  <2>2. CASE x # {} /\ \E l \in Earliest(K) : HostSays(x, l, M)
    <3>1. PICK l \in Earliest(K) : HostSays(x, l, M)
      BY <2>2
    <3>2. PICK n \in 1 .. Len(NamesOn(l)) :
            /\ x = {NameOf(l, n)} /\ Address(l) # Invalid
            /\ \A k \in 1 .. n - 1 : NameOf(l, k) \notin M
      BY <2>2, <3>1 DEF HostSays
    <3>3. n = 1
      <4>1. Len(NamesOn(l)) \in Nat
        BY <1>1, <1>b, NamesTyped
      <4>2. n # 1 => 1 \in 1 .. n - 1 /\ 1 \in 1 .. Len(NamesOn(l))
        BY <4>1
      <4>3. n # 1 => NameOf(l, 1) \in M
        BY <1>a, <1>b, <3>2, <4>2
      <4> QED BY <3>2, <4>2, <4>3
    <3>4. ptr_lookup(arpanum) # {} /\ dbv[Min(ptr_lookup(arpanum))] = NameOf(l, 1)
      BY <1>9, <3>2, <3>3
    <3>5. dbv[Min(ptr_lookup(arpanum))].object = NamesOn(l)[1]
      BY <3>4 DEF NameOf
    <3> QED BY <1>7, <1>11, <3>4, <3>5
  <2> QED BY <1>5, <1>8, <1>11, <2>1, <2>2
<1> QED BY <1>10, <1>11

(* An NS question finds the servers of its domains.                        *)
LEMMA ServersFound ==
    ASSUME Built, NEW name
    PROVE  ServersFor(name) = {dbv[n].data : n \in dns_lookup(name)}
<1>1. FilesLoaded /\ dbv = Table /\ Table \in Seq(TableRecord)
  BY ReadTable DEF Built
<1>2. HomeDns.type = "dns" /\ HomeDns.object = Loopback /\ HomeDns.data = Localhost
  <2>1. strnlwr(Loopback) = Loopback /\ strnlwr(Localhost) = Localhost
    BY MasterAssumption, HomeIp, ZoneLower DEF Ips
  <2> QED BY <2>1 DEF HomeDns, Rec
<1>3. ASSUME NEW s PROVE s \in ServersFor(name) <=> s \in {dbv[n].data : n \in dns_lookup(name)}
  <2> DEFINE M == {r \in TableRecord : r.type = "dns" /\ InDomain(name, r.object) /\ r.data = s}
  <2>1. s \in {dbv[n].data : n \in dns_lookup(name)} <=> \E k \in DOMAIN Table : Table[k] \in M
    <3>1. \A k \in DOMAIN Table : Table[k] \in TableRecord
      BY <1>1
    <3> QED BY <1>1, <3>1 DEF dns_lookup
  <2>2. Places(Table, M) = Places(Read, M)
    <3>1. \A r \in M : r.type # "authority"
      OBVIOUS
    <3> HIDE DEF M
    <3> QED BY <1>1, <3>1, SameFirst
  <2>3. (\E k \in DOMAIN Table : Table[k] \in M) <=> \E k \in DOMAIN Read : Read[k] \in M
    <3> HIDE DEF M
    <3> QED BY <2>2 DEF Places
  <2>4. (\E k \in DOMAIN Read : Read[k] \in M) <=>
                \/ Home \in M \/ HomeDns \in M \/ Black \cap M # {}
                \/ \E l \in HostLines : HostMeets(l, M)
                \/ \E n \in DomainLines : DomainMeets(n, M)
    <3> HIDE DEF M
    <3> QED BY <1>1, ReadMeets
  <2>5. Home \notin M /\ Black \cap M = {} /\ \A l \in HostLines : ~HostMeets(l, M)
    <3>1. \A r \in M : r.type = "dns"
      OBVIOUS
    <3> HIDE DEF M
    <3>2. Home \notin M
      BY <3>1, HomeRecord
    <3>3. \A r \in Black : r.type = "authority"
      BY DEF Black, Rec
    <3>4. \A l, n : NameOf(l, n).type = "nameip"
      BY DEF NameOf
    <3>5. \A l \in HostLines : ~HostMeets(l, M)
      BY <3>1, <3>4 DEF HostMeets
    <3> QED BY <3>1, <3>2, <3>3, <3>5
  <2>6. HomeDns \in M <=> InDomain(name, Loopback) /\ s = Localhost
    BY <1>1, <1>2, RecordsTyped
  <2>7. ASSUME NEW n \in DomainLines
        PROVE  DomainMeets(n, M) <=>
                /\ InDomain(name, strnlwr(Master[n].words[1]))
                /\ s \in {strnlwr(word) : word \in Behind(n) \ {AuthOption}}
    <3>1. \A word \in Behind(n) : ServerOf(n, word) \in M <=>
            /\ word # AuthOption /\ InDomain(name, strnlwr(Master[n].words[1])) /\ strnlwr(word) = s
      <4>1. \A word \in Behind(n) : ServerOf(n, word) \in TableRecord
        BY <1>1, RecordsTyped
      <4> QED BY <4>1 DEF ServerOf, Rec
    <3> HIDE DEF M
    <3> QED BY <3>1 DEF DomainMeets
  <2>8. s \in ServersFor(name) <=>
            \/ \E n \in DomainLines : /\ InDomain(name, strnlwr(Master[n].words[1]))
                                      /\ s \in {strnlwr(word) : word \in Behind(n) \ {AuthOption}}
            \/ InDomain(name, Loopback) /\ s = Localhost
    <3> DEFINE T(n) == {strnlwr(word) : word \in Behind(n) \ {AuthOption}}
               D == {k \in DomainLines : InDomain(name, strnlwr(Master[k].words[1]))}
               H == IF InDomain(name, Loopback) THEN {Localhost} ELSE {}
    <3>1. ServersFor(name) = H \cup UNION {T(n) : n \in D}
      BY DEF ServersFor
    <3>2. s \in H <=> InDomain(name, Loopback) /\ s = Localhost
      OBVIOUS
    <3>3. \A n : n \in D <=> n \in DomainLines /\ InDomain(name, strnlwr(Master[n].words[1]))
      OBVIOUS
    <3> HIDE DEF T, D, H
    <3>4. s \in ServersFor(name) <=> (\E n \in D : s \in T(n)) \/ s \in H
      BY <3>1
    <3>5. s \in ServersFor(name) <=>
            \/ \E n \in DomainLines : InDomain(name, strnlwr(Master[n].words[1])) /\ s \in T(n)
            \/ InDomain(name, Loopback) /\ s = Localhost
      BY <3>2, <3>3, <3>4
    <3> QED BY <3>5 DEF T
  <2> HIDE DEF M
  <2> QED BY <2>1, <2>3, <2>4, <2>5, <2>6, <2>7, <2>8
<1> QED BY <1>3

(* An authority is there for a zone the files make ours, and for no other. *)
LEMMA ZoneFound ==
    ASSUME Built, NEW z
    PROVE  authority_lookup(dbv, z) <=> z \in {strnlwr(zone) : zone \in Zones}
<1> DEFINE M == {r \in TableRecord : r.type = "authority" /\ r.object = z}
           A == {r \in TableRecord : r.type = "nameip" /\ ReverseZone(r.data) = z}
<1>1. FilesLoaded /\ dbv = Table /\ Read \in Seq(TableRecord) /\ Extended(Table, Read, Len(Read))
  BY ReadTable DEF Built
<1>2. /\ DOMAIN Read = 1 .. Len(Read) /\ DOMAIN Table = 1 .. Len(Table)
      /\ Len(Read) \in Nat /\ Len(Table) \in Nat /\ Len(Read) <= Len(Table)
      /\ \A k \in 1 .. Len(Read) : Table[k] = Read[k] /\ Read[k] \in TableRecord
      /\ \A k \in Len(Read) + 1 .. Len(Table) : Added(Table[k], Read)
      /\ \A k \in 1 .. Len(Read) : ZoneOf(Table, Read[k])
  BY <1>1, ReadTable, TableOf DEF Extended
<1>3. authority_lookup(dbv, z) <=> \/ \E k \in DOMAIN Read : Read[k] \in M
                                  \/ \E k \in DOMAIN Read : Read[k] \in A
  <2>1. ASSUME NEW k \in 1 .. Len(Table), Table[k].type = "authority", Table[k].object = z
        PROVE  (\E n \in DOMAIN Read : Read[n] \in M) \/ (\E n \in DOMAIN Read : Read[n] \in A)
    <3>1. k \in 1 .. Len(Read) \/ k \in Len(Read) + 1 .. Len(Table)
      BY <1>2
    <3>2. CASE k \in 1 .. Len(Read)
      BY <1>2, <2>1, <3>2
    <3>3. CASE k \in Len(Read) + 1 .. Len(Table)
      <4>1. PICK n \in 1 .. Len(Read) : Read[n].type = "nameip" /\ z = ReverseZone(Read[n].data)
        BY <1>2, <2>1, <3>3 DEF Added
      <4> QED BY <1>2, <4>1
    <3> QED BY <3>1, <3>2, <3>3
  <2>2. ASSUME NEW k \in 1 .. Len(Read), Read[k] \in M PROVE authority_lookup(dbv, z)
    <3>1. k \in DOMAIN dbv /\ dbv[k] = Read[k]
      BY <1>1, <1>2
    <3> QED BY <2>2, <3>1 DEF authority_lookup
  <2>3. ASSUME NEW k \in 1 .. Len(Read), Read[k] \in A PROVE authority_lookup(dbv, z)
    BY <1>1, <1>2, <2>3 DEF ZoneOf
  <2>4. authority_lookup(dbv, z) => \E k \in 1 .. Len(Table) : Table[k].type = "authority" /\ Table[k].object = z
    BY <1>1, <1>2 DEF authority_lookup
  <2> HIDE DEF M, A
  <2> QED BY <1>2, <2>1, <2>2, <2>3, <2>4
<1>4. /\ (\E k \in DOMAIN Read : Read[k] \in M) <=>
            \/ Home \in M \/ HomeDns \in M \/ Black \cap M # {}
            \/ \E l \in HostLines : HostMeets(l, M)
            \/ \E n \in DomainLines : DomainMeets(n, M)
      /\ (\E k \in DOMAIN Read : Read[k] \in A) <=>
            \/ Home \in A \/ HomeDns \in A \/ Black \cap A # {}
            \/ \E l \in HostLines : HostMeets(l, A)
            \/ \E n \in DomainLines : DomainMeets(n, A)
  <2> HIDE DEF M, A
  <2> QED BY <1>1, ReadMeets
<1>5. /\ HomeDns.type = "dns" /\ \A r \in Black : r.type = "authority"
      /\ \A l, n : NameOf(l, n).type = "nameip"
      /\ \A n, word : ServerOf(n, word).type = IF word = AuthOption THEN "authority" ELSE "dns"
  BY DEF HomeDns, Black, Rec, NameOf, ServerOf
<1>6. (\A r \in M : r.type = "authority") /\ (\A r \in A : r.type = "nameip")
  OBVIOUS
<1>7. /\ Home \notin M /\ HomeDns \notin M /\ HomeDns \notin A /\ Black \cap A = {}
      /\ \A l \in HostLines : ~HostMeets(l, M)
      /\ \A n \in DomainLines : ~DomainMeets(n, A)
  <2> HIDE DEF M, A
  <2> QED BY <1>5, <1>6, HomeRecord DEF HostMeets, DomainMeets
<1>8. Black \cap M # {} <=> z \in {strnlwr(name) : name \in ToSet(loaded.disk.blacklist)}
  <2>1. \A name \in ToSet(loaded.disk.blacklist) :
            /\ Rec("authority", name, << >>) \in TableRecord
            /\ Rec("authority", name, << >>).type = "authority"
            /\ Rec("authority", name, << >>).object = strnlwr(name)
    BY <1>1, RecordsTyped DEF Black, Rec
  <2>2. \A name \in ToSet(loaded.disk.blacklist) : Rec("authority", name, << >>) \in M <=> strnlwr(name) = z
    BY <2>1
  <2> HIDE DEF M
  <2> QED BY <2>2 DEF Black
<1>9. ASSUME NEW n \in DomainLines
      PROVE  DomainMeets(n, M) <=> AuthOption \in Behind(n) /\ strnlwr(Master[n].words[1]) = z
  <2>1. \A word \in Behind(n) : ServerOf(n, word) \in M <=> word = AuthOption /\ strnlwr(Master[n].words[1]) = z
    <3>1. \A word \in Behind(n) : ServerOf(n, word) \in TableRecord
      BY <1>1, RecordsTyped
    <3> QED BY <3>1 DEF ServerOf, Rec
  <2> HIDE DEF M
  <2> QED BY <2>1 DEF DomainMeets
<1>10. Home \in A <=> z = Loopback
  <2>1. Loopback = ReverseZone(<<127, 0, 0, 1>>)
    BY MasterAssumption
  <2> QED BY <2>1, HomeRecord
<1>11. ASSUME NEW l \in HostLines
       PROVE  HostMeets(l, A) <=> l \in Used /\ ReverseZone(Address(l)) = z
  <2>1. NamesOn(l) # << >> <=> \E n \in 1 .. Len(NamesOn(l)) : TRUE
    <3>1. NamesOn(l) \in Seq(Seq(LowerBytes)) /\ Len(NamesOn(l)) \in Nat
      BY <1>1, NamesTyped
    <3>2. Len(NamesOn(l)) # 0 <=> NamesOn(l) # << >>
      BY <3>1, EmptySeq
    <3> QED BY <3>1, <3>2
  <2>2. CASE Address(l) = Invalid
    BY <2>2 DEF HostMeets, Used
  <2>3. CASE Address(l) # Invalid
    <3>1. \A n \in 1 .. Len(NamesOn(l)) : NameOf(l, n) \in A <=> ReverseZone(Address(l)) = z
      BY <1>1, <2>3, RecordsTyped DEF NameOf
    <3> HIDE DEF A
    <3>2. HostMeets(l, A) <=> NamesOn(l) # << >> /\ ReverseZone(Address(l)) = z
      BY <2>1, <2>3, <3>1 DEF HostMeets
    <3> QED BY <2>3, <3>2 DEF Used
  <2> QED BY <2>2, <2>3
<1>12. /\ strnlwr(Loopback) = Loopback
       /\ \A l \in Used : l \in HostLines /\ strnlwr(ReverseZone(Address(l))) = ReverseZone(Address(l))
  <2>1. strnlwr(Loopback) = Loopback
    BY MasterAssumption, HomeIp, ZoneLower DEF Ips
  <2>2. \A l \in Used : l \in HostLines /\ Address(l) \in [1 .. 4 -> Bytes]
    BY <1>1, RecordsTyped DEF Used, Ips
  <2> QED BY <2>1, <2>2, ZoneLower
<1> HIDE DEF M, A
<1>13. z \in {strnlwr(zone) : zone \in Zones} <=>
            \/ z \in {strnlwr(name) : name \in ToSet(loaded.disk.blacklist)}
            \/ \E n \in DomainLines : AuthOption \in Behind(n) /\ strnlwr(Master[n].words[1]) = z
            \/ \E l \in Used : ReverseZone(Address(l)) = z
            \/ z = Loopback
  <2> DEFINE B == ToSet(loaded.disk.blacklist)
             D == {Master[n].words[1] : n \in {k \in DomainLines : AuthOption \in Behind(k)}}
             R == {ReverseZone(Address(l)) : l \in Used}
  <2>1. Zones = B \cup D \cup R \cup {Loopback}
    BY DEF Zones
  <2>2. (\E zone \in D : strnlwr(zone) = z) <=>
            \E n \in DomainLines : AuthOption \in Behind(n) /\ strnlwr(Master[n].words[1]) = z
    OBVIOUS
  <2>3. (\E zone \in R : strnlwr(zone) = z) <=> \E l \in Used : ReverseZone(Address(l)) = z
    BY <1>12
  <2> HIDE DEF B, D, R
  <2>4. z \in {strnlwr(zone) : zone \in Zones} <=>
            \/ \E zone \in B : strnlwr(zone) = z
            \/ \E zone \in D : strnlwr(zone) = z
            \/ \E zone \in R : strnlwr(zone) = z
            \/ strnlwr(Loopback) = z
    BY <2>1
  <2> QED BY <1>12, <2>2, <2>3, <2>4 DEF B
<1>14. \A l \in Used : l \in HostLines
  BY DEF Used
<1> QED BY <1>3, <1>4, <1>7, <1>8, <1>9, <1>10, <1>11, <1>13, <1>14

(* So a name is ours in the table where it is in the files.                *)
LEMMA ZonesFound ==
    ASSUME Built, NEW name
    PROVE  OurAuthority(name) <=> OwnZone(name)
BY ZoneFound DEF OurAuthority, OwnZone

---------------------------------------------------------------------------
(* Replies are there *)

(* Texts cut at the first dot.                                             *)
LEMMA CutAtDot ==
    ASSUME NEW s \in Texts
    PROVE  /\ BeforeDot(s) \in Texts /\ AfterDot(s) \in Texts
           /\ Len(s) \in Nat /\ Len(AfterDot(s)) \in Nat
           /\ BeforeDot(s) # << >> => Len(AfterDot(s)) < Len(s)
<1>1. s \in Seq(Bytes) /\ Len(s) \in Nat /\ << >> \in Seq(Bytes) /\ Len(<< >>) = 0
  BY DEF Texts
<1>2. CASE Dots(s) = {}
  <2>1. BeforeDot(s) = s /\ AfterDot(s) = << >>
    BY <1>2 DEF BeforeDot, AfterDot
  <2>2. s # << >> => Len(s) > 0
    BY <1>1, EmptySeq
  <2> QED BY <1>1, <2>1, <2>2 DEF Texts
<1>3. CASE Dots(s) # {}
  <2> DEFINE m == Min(Dots(s))
  <2>1. Dots(s) \in SUBSET Nat /\ Dots(s) \subseteq 1 .. Len(s)
    BY <1>1 DEF Dots
  <2>2. m \in 1 .. Len(s)
    BY <1>3, <2>1, LeastOf
  <2> HIDE DEF m
  <2>3. /\ SubSeq(s, m + 1, Len(s)) \in Seq(Bytes) /\ Len(SubSeq(s, m + 1, Len(s))) = Len(s) - m
        /\ SubSeq(s, 1, m - 1) \in Seq(Bytes)
    BY <1>1, <2>2
  <2>4. BeforeDot(s) = SubSeq(s, 1, m - 1) /\ AfterDot(s) = SubSeq(s, m + 1, Len(s))
    BY <1>3 DEF BeforeDot, AfterDot, m
  <2> QED BY <1>1, <2>2, <2>3, <2>4 DEF Texts
<1> QED BY <1>2, <1>3

(* The labels of every text: each but the last one asks for a shorter text. *)
LabelsOf(f, s) ==
    IF BeforeDot(s) = << >> THEN <<0>>
    ELSE <<Len(BeforeDot(s)) % 64>> \o BeforeDot(s) \o f[AfterDot(s)]

IsLabels(f) == f = [s \in Texts |-> LET label == BeforeDot(s) IN
                        IF label = << >> THEN <<0>> ELSE <<Len(label) % 64>> \o label \o f[AfterDot(s)]]

LEMMA LabelsTyped ==
    ASSUME NEW s \in Texts, NEW f, f[AfterDot(s)] \in Seq(Bytes)
    PROVE  LabelsOf(f, s) \in Seq(Bytes)
<1>1. <<0>> \in Seq(Bytes)
  BY DEF Bytes
<1>2. BeforeDot(s) \in Seq(Bytes) /\ <<Len(BeforeDot(s)) % 64>> \in Seq(Bytes)
  <2>1. BeforeDot(s) \in Seq(Bytes)
    BY CutAtDot DEF Texts
  <2>2. \A n \in Nat : n % 64 \in Bytes
    BY DEF Bytes
  <2>3. Len(BeforeDot(s)) % 64 \in Bytes
    BY <2>1, <2>2
  <2> QED BY <2>1, <2>3
<1>3. <<Len(BeforeDot(s)) % 64>> \o BeforeDot(s) \o f[AfterDot(s)] \in Seq(Bytes)
  BY <1>2, Joined
<1> QED BY <1>1, <1>3 DEF LabelsOf

LEMMA LabelsExist == \E f \in [Texts -> Seq(Bytes)] : IsLabels(f)
<1> DEFINE D == Seq(Bytes)
           size == [s \in Texts |-> Len(s)]
           start == [s \in Texts |-> << >>]
           turn == [f \in [Texts -> D] |-> [s \in Texts |-> LabelsOf(f, s)]]
<1>1. size \in [Texts -> Nat] /\ start \in [Texts -> D]
  BY CutAtDot
<1>2. \A f \in [Texts -> D], s \in Texts : LabelsOf(f, s) \in D
  BY LabelsTyped, CutAtDot
<1>3. turn \in [[Texts -> D] -> [Texts -> D]]
  <2> HIDE DEF D
  <2> QED BY <1>2
<1>4. ASSUME NEW f \in [Texts -> D], NEW g \in [Texts -> D], NEW s \in Texts,
             \A y \in Texts : size[y] < size[s] => f[y] = g[y]
      PROVE  turn[f][s] = turn[g][s]
  <2>1. BeforeDot(s) # << >> => f[AfterDot(s)] = g[AfterDot(s)]
    BY <1>4, CutAtDot
  <2>2. LabelsOf(f, s) = LabelsOf(g, s)
    BY <2>1 DEF LabelsOf
  <2> HIDE DEF D
  <2> QED BY <2>2
<1> HIDE DEF D, size, start, turn
<1>a. AsksSmaller(turn, size, Texts, D)
  BY <1>4 DEF AsksSmaller
<1>5. PICK f : f \in [Texts -> D] /\ f = turn[f]
  <2>1. \E f : Solves(f, turn, Texts, D)
    BY <1>1, <1>3, <1>a, RecursionExists
  <2> QED BY <2>1 DEF Solves
<1>6. f = [s \in Texts |-> LabelsOf(f, s)]
  BY <1>5 DEF turn
<1>7. IsLabels(f)
  BY <1>6 DEF IsLabels, LabelsOf
<1> QED BY <1>5, <1>7 DEF D

(* So every text is compiled to a sequence.                                *)
LEMMA NameCompiled ==
    ASSUME NEW name \in Texts
    PROVE  compile_name(name) \in Seq(Bytes)
<1> DEFINE f == CHOOSE f : IsLabels(f)
           size == [s \in Texts |-> Len(s)]
           S == {n \in Nat : \A s \in Texts : Len(s) <= n => f[s] \in Seq(Bytes)}
<1>1. IsLabels(f)
  BY LabelsExist
<1>2. compile_name(name) = f[name]
  BY DEF compile_name, IsLabels
<1> HIDE DEF f
<1>3. \A s \in Texts : f[s] = LabelsOf(f, s)
  BY <1>1 DEF IsLabels, LabelsOf
<1>4. ASSUME NEW s \in Texts, BeforeDot(s) # << >> => f[AfterDot(s)] \in Seq(Bytes)
      PROVE  f[s] \in Seq(Bytes)
  <2>1. CASE BeforeDot(s) = << >>
    <3>1. f[s] = LabelsOf(f, s)
      BY <1>3
    <3>2. LabelsOf(f, s) = <<0>>
      BY <2>1 DEF LabelsOf
    <3>3. <<0>> \in Seq(Bytes)
      BY DEF Bytes
    <3> QED BY <3>1, <3>2, <3>3
  <2>2. CASE BeforeDot(s) # << >>
    BY <1>3, <1>4, <2>2, LabelsTyped
  <2> QED BY <2>1, <2>2
<1>5. 0 \in S
  <2>1. ASSUME NEW s \in Texts, Len(s) <= 0 PROVE f[s] \in Seq(Bytes)
    <3>1. ~(BeforeDot(s) # << >>)
      BY <2>1, CutAtDot
    <3> QED BY <1>4, <3>1
  <2> QED BY <2>1
<1>6. ASSUME NEW n \in Nat, n \in S PROVE n + 1 \in S
  <2>1. ASSUME NEW s \in Texts, Len(s) <= n + 1 PROVE f[s] \in Seq(Bytes)
    <3>1. BeforeDot(s) # << >> => AfterDot(s) \in Texts /\ Len(AfterDot(s)) <= n
      BY <2>1, CutAtDot
    <3> QED BY <1>4, <1>6, <3>1
  <2> QED BY <2>1
<1>7. \A n \in Nat : n \in S
  <2> HIDE DEF S
  <2> QED BY <1>5, <1>6, NatSetInduction
<1>8. Len(name) \in Nat /\ Len(name) <= Len(name)
  BY CutAtDot
<1>9. f[name] \in Seq(Bytes)
  BY <1>7, <1>8
<1> QED BY <1>2, <1>9

(* The k-th place of a set of places.                                      *)
LEMMA RankExists ==
    ASSUME NEW N \in Nat, NEW S \in SUBSET (1 .. N), NEW k \in 1 .. Cardinality(S)
    PROVE  \E n \in S : Cardinality({m \in S : m <= n}) = k
<1> DEFINE upto(n) == {m \in S : m <= n}
           g(n) == Cardinality(upto(n))
           T == {n \in Nat : g(n) >= k}
<1>1. IsFiniteSet(S) /\ \A n \in Nat : IsFiniteSet(upto(n)) /\ g(n) \in Nat
  <2>1. IsFiniteSet(S)
    <3>1. IsFiniteSet(1 .. N)
      BY FS_Interval
    <3> QED BY <3>1, FS_Subset
  <2>2. \A n \in Nat : upto(n) \subseteq S
    OBVIOUS
  <2> HIDE DEF upto
  <2> QED BY <2>1, <2>2, FS_Subset, FS_CardinalityType
<1>2. upto(0) = {} /\ upto(N) = S
  <2>1. \A m \in S : m \in Nat /\ ~(m <= 0) /\ m <= N
    OBVIOUS
  <2>2. upto(0) = {}
    BY <2>1
  <2>3. upto(N) = S
    BY <2>1
  <2> QED BY <2>2, <2>3
<1>3. ASSUME NEW n \in Nat \ {0}
      PROVE  /\ n \in S => g(n) = g(n - 1) + 1
             /\ n \notin S => g(n) = g(n - 1)
  <2>1. n - 1 \in Nat /\ n \notin upto(n - 1)
    OBVIOUS
  <2>2. \A m \in S : m <= n <=> m <= n - 1 \/ m = n
    OBVIOUS
  <2>3. n \in S => upto(n) = upto(n - 1) \cup {n}
    BY <2>2
  <2>4. n \notin S => upto(n) = upto(n - 1)
    BY <2>2
  <2> HIDE DEF upto
  <2> QED BY <1>1, <2>1, <2>3, <2>4, FS_AddElement
<1>4. N \in T
  BY <1>2
<1>5. g(0) = 0
  BY <1>2, FS_EmptySet
<1> DEFINE n == Min(T)
<1>6. n \in T /\ \A y \in T : n <= y
  <2>1. T \in SUBSET Nat /\ T # {}
    BY <1>4
  <2> HIDE DEF T
  <2> QED BY <2>1, LeastOf
<1> HIDE DEF n
<1>7. n \in Nat \ {0} /\ n - 1 \in Nat /\ n - 1 \notin T
  <2>1. n \in Nat /\ g(n) >= k
    BY <1>6
  <2>2. n # 0
    BY <1>5, <2>1
  <2>3. n - 1 \in Nat /\ ~(n <= n - 1)
    BY <2>1, <2>2
  <2> HIDE DEF T
  <2> QED BY <1>6, <2>1, <2>2, <2>3
<1>8. n \in S /\ g(n) = k
  <2>0. g(n) \in Nat /\ g(n - 1) \in Nat
    BY <1>1, <1>7
  <2>1. g(n) >= k /\ g(n - 1) < k
    <3>1. g(n) >= k
      BY <1>6
    <3>2. ~(g(n - 1) >= k)
      BY <1>7
    <3> HIDE DEF g
    <3> QED BY <2>0, <3>1, <3>2
  <2> HIDE DEF g
  <2> QED BY <1>3, <1>7, <2>0, <2>1
<1> QED BY <1>8

LEMMA InOrderTyped ==
    ASSUME NEW N \in Nat, NEW places \in SUBSET (1 .. N)
    PROVE  /\ Cardinality(places) \in Nat
           /\ DOMAIN InOrder(places) = 1 .. Cardinality(places)
           /\ \A k \in 1 .. Cardinality(places) : \E n \in places : InOrder(places)[k] = dbv[n]
<1>1. Cardinality(places) \in Nat
  <2>1. IsFiniteSet(1 .. N)
    BY FS_Interval
  <2> QED BY <2>1, FS_Subset, FS_CardinalityType
<1>2. ASSUME NEW k \in 1 .. Cardinality(places)
      PROVE  \E n \in places : InOrder(places)[k] = dbv[n]
  <2>1. \E n \in places : Cardinality({m \in places : m <= n}) = k
    BY RankExists
  <2> DEFINE n == CHOOSE n \in places : Cardinality({m \in places : m <= n}) = k
  <2>2. n \in places
    BY <2>1
  <2>3. InOrder(places)[k] = dbv[n]
    BY DEF InOrder
  <2> HIDE DEF n
  <2> QED BY <2>2, <2>3
<1>3. DOMAIN InOrder(places) = 1 .. Cardinality(places)
  BY DEF InOrder
<1> QED BY <1>1, <1>2, <1>3

(* Sequences, of whatever.                                                 *)
IsSeq(s) == s \in Seq(ToSet(s))
NonEmpty(s) == IsSeq(s) /\ s # << >>

LEMMA SeqIs ==
    ASSUME NEW R, NEW s \in Seq(R)
    PROVE  IsSeq(s)
<1>1. Len(s) \in Nat /\ DOMAIN s = 1 .. Len(s) /\ s = [k \in 1 .. Len(s) |-> s[k]]
  OBVIOUS
<1>2. \A k \in 1 .. Len(s) : s[k] \in ToSet(s)
  BY <1>1 DEF ToSet
<1>3. s \in Seq(ToSet(s))
  <2> DEFINE T == ToSet(s)
  <2> HIDE DEF T
  <2>1. \A k \in 1 .. Len(s) : s[k] \in T
    BY <1>2 DEF T
  <2>2. s \in Seq(T)
    BY <1>1, <2>1
  <2> QED BY <2>2 DEF T
<1> QED BY <1>3 DEF IsSeq

LEMMA SeqsJoined ==
    ASSUME NEW s, NEW t, IsSeq(s), IsSeq(t)
    PROVE  IsSeq(s \o t) /\ (s \o t # << >> <=> s # << >> \/ t # << >>)
<1> DEFINE R == ToSet(s) \cup ToSet(t)
<1>1. s \in Seq(R) /\ t \in Seq(R)
  <2> DEFINE S == ToSet(s)
             T == ToSet(t)
  <2>1. s \in Seq(S) /\ t \in Seq(T)
    BY DEF IsSeq
  <2> HIDE DEF S, T
  <2>2. s \in Seq(S \cup T) /\ t \in Seq(S \cup T)
    BY <2>1
  <2> QED BY <2>2 DEF S, T
<1> HIDE DEF R
<1>2. s \o t \in Seq(R) /\ Len(s \o t) = Len(s) + Len(t) /\ Len(s) \in Nat /\ Len(t) \in Nat
  BY <1>1
<1>3. /\ s # << >> <=> Len(s) # 0
      /\ t # << >> <=> Len(t) # 0
      /\ s \o t # << >> <=> Len(s \o t) # 0
  BY <1>1, <1>2, EmptySeq
<1>4. IsSeq(s \o t)
  BY <1>2, SeqIs
<1> QED BY <1>2, <1>3, <1>4

LEMMA PairIs ==
    ASSUME NEW a, NEW b
    PROVE  NonEmpty(<<a, b>>)
<1>1. <<a, b>> \in Seq({a, b}) /\ <<a, b>> # << >>
  OBVIOUS
<1> QED BY <1>1, SeqIs DEF NonEmpty

LEMMA SeqFlattened ==
    ASSUME NEW N \in Nat, NEW seqs, DOMAIN seqs = 1 .. N, seqs = [n \in 1 .. N |-> seqs[n]],
           \A n \in 1 .. N : IsSeq(seqs[n])
    PROVE  IsSeq(FlattenSeq(seqs))
<1> DEFINE R == UNION {ToSet(seqs[n]) : n \in 1 .. N}
<1>1. \A n \in 1 .. N : seqs[n] \in Seq(R)
  <2>1. ASSUME NEW n \in 1 .. N PROVE seqs[n] \in Seq(R)
    <3> DEFINE T == ToSet(seqs[n])
    <3>1. seqs[n] \in Seq(T) /\ T \subseteq R
      BY DEF IsSeq
    <3> HIDE DEF T, R
    <3>2. Len(seqs[n]) \in Nat /\ seqs[n] \in [1 .. Len(seqs[n]) -> T]
      BY <3>1
    <3>3. seqs[n] \in [1 .. Len(seqs[n]) -> R]
      BY <3>1, <3>2
    <3> QED BY <3>2, <3>3
  <2> QED BY <2>1
<1> HIDE DEF R
<1>2. seqs \in [1 .. N -> Seq(R)]
  BY <1>1
<1> QED BY <1>2, FlattenOf, SeqIs

(* A reply is a sequence with something in it.                              *)
LEMMA EndNonEmpty ==
    ASSUME NEW id, NEW aa, NEW rcode, NEW question, NEW answers, NEW servers,
           IsSeq(id), IsSeq(question), IsSeq(FlattenSeq(answers)), IsSeq(FlattenSeq(servers))
    PROVE  end_assembly(id, aa, rcode, question, answers, servers) # NoReply
<1> DEFINE a == <<128 + 4 * aa, rcode>>
           b == compile_int(1)
           c == compile_int(Len(answers))
           d == compile_int(Len(servers))
           e == compile_int(0)
           f == FlattenSeq(answers)
           g == FlattenSeq(servers)
<1>1. end_assembly(id, aa, rcode, question, answers, servers)
        = id \o a \o b \o c \o d \o e \o question \o f \o g
  BY DEF end_assembly
<1>2. NonEmpty(a) /\ IsSeq(b) /\ IsSeq(c) /\ IsSeq(d) /\ IsSeq(e)
  BY PairIs DEF compile_int, NonEmpty
<1> HIDE DEF a, b, c, d, e, f, g
<1>3. \A s, t : NonEmpty(s) /\ IsSeq(t) => NonEmpty(s \o t)
  BY SeqsJoined DEF NonEmpty
<1>4. NonEmpty(id \o a)
  BY <1>2, SeqsJoined DEF NonEmpty
<1>5. NonEmpty(id \o a \o b)
  BY <1>2, <1>3, <1>4
<1>6. NonEmpty(id \o a \o b \o c)
  BY <1>2, <1>3, <1>5
<1>7. NonEmpty(id \o a \o b \o c \o d)
  BY <1>2, <1>3, <1>6
<1>8. NonEmpty(id \o a \o b \o c \o d \o e)
  BY <1>2, <1>3, <1>7
<1>9. NonEmpty(id \o a \o b \o c \o d \o e \o question)
  BY <1>3, <1>8
<1>10. NonEmpty(id \o a \o b \o c \o d \o e \o question \o f)
  BY <1>3, <1>9 DEF f
<1>11. NonEmpty(id \o a \o b \o c \o d \o e \o question \o f \o g)
  BY <1>3, <1>10 DEF g
<1> QED BY <1>1, <1>11 DEF NonEmpty, NoReply

LEMMA RecordIs ==
    ASSUME NEW owner, NEW type, NEW rdata, IsSeq(owner), IsSeq(rdata)
    PROVE  IsSeq(Record(owner, type, rdata))
<1> DEFINE a == compile_int(type)
           b == compile_int(DNS_CLASS_INET)
           d == compile_int(Len(rdata))
<1>1. IsSeq(a) /\ IsSeq(b) /\ IsSeq(d)
  BY PairIs DEF compile_int, NonEmpty
<1>2. IsSeq(DEFAULT_TTL)
  <2>1. DEFAULT_TTL \in Seq(Nat)
    BY DEF DEFAULT_TTL
  <2> QED BY <2>1, SeqIs
<1>3. Record(owner, type, rdata) = owner \o a \o b \o DEFAULT_TTL \o d \o rdata
  BY DEF Record
<1> HIDE DEF a, b, d
<1>4. IsSeq(owner \o a \o b)
  BY <1>1, SeqsJoined
<1>5. IsSeq(owner \o a \o b \o DEFAULT_TTL)
  BY <1>2, <1>4, SeqsJoined
<1>6. IsSeq(owner \o a \o b \o DEFAULT_TTL \o d)
  BY <1>1, <1>5, SeqsJoined
<1> QED BY <1>3, <1>6, SeqsJoined

LEMMA CompiledIs ==
    ASSUME NEW name \in Texts
    PROVE  IsSeq(compile_name(name))
BY NameCompiled, SeqIs

LEMMA OnlyOne ==
    ASSUME NEW s, IsSeq(s)
    PROVE  IsSeq(FlattenSeq(<<s>>)) /\ IsSeq(FlattenSeq(<< >>))
<1>1. IsSeq(FlattenSeq(<<s>>))
  <2> DEFINE t == <<s>>
  <2>1. DOMAIN t = 1 .. 1 /\ t = [n \in 1 .. 1 |-> t[n]] /\ \A n \in 1 .. 1 : IsSeq(t[n])
    OBVIOUS
  <2> HIDE DEF t
  <2>2. IsSeq(FlattenSeq(t))
    BY <2>1, SeqFlattened
  <2> QED BY <2>2 DEF t
<1>2. IsSeq(FlattenSeq(<< >>))
  <2> DEFINE t == << >>
  <2>1. DOMAIN t = 1 .. 0 /\ t = [n \in 1 .. 0 |-> t[n]] /\ \A n \in 1 .. 0 : IsSeq(t[n])
    OBVIOUS
  <2> HIDE DEF t
  <2>2. IsSeq(FlattenSeq(t))
    BY <2>1, SeqFlattened
  <2> QED BY <2>2 DEF t
<1> QED BY <1>1, <1>2

(* What the places of lookups hold.                                         *)
LEMMA PlacesTyped ==
    ASSUME dbv \in HomeTables, NEW name
    PROVE  /\ Len(dbv) \in Nat
           /\ name_lookup(name) \subseteq 1 .. Len(dbv) /\ ptr_lookup(name) \subseteq 1 .. Len(dbv)
           /\ dns_lookup(name) \subseteq 1 .. Len(dbv)
           /\ \A n \in name_lookup(name) : dbv[n].data \in Ips
           /\ \A n \in ptr_lookup(name) : dbv[n].object \in Texts
           /\ \A n \in dns_lookup(name) : dbv[n].object \in Texts /\ dbv[n].data \in Texts
<1>1. Len(dbv) \in Nat /\ DOMAIN dbv = 1 .. Len(dbv) /\ \A k \in 1 .. Len(dbv) : dbv[k] \in TableRecord
  BY TableOf
<1>2. ASSUME NEW rec \in TableRecord
      PROVE  /\ rec.object \in Texts
             /\ rec.type = "nameip" => rec.data \in Ips
             /\ rec.type = "dns" => rec.data \in Texts
  <2>1. rec.object \in Seq(LowerBytes)
    BY DEF TableRecord
  <2>2. rec.type = "dns" => rec.data \in Texts
    BY DEF TableRecord
  <2> QED BY <2>1, <2>2, Unchanged, RecordOf
<1> QED BY <1>1, <1>2 DEF name_lookup, ptr_lookup, dns_lookup

(* The parts of a reply.                                                    *)
LEMMA QuestionIs ==
    ASSUME NEW q, q.name \in Texts
    PROVE  IsSeq(begin_assembly(q))
<1> DEFINE a == compile_name(q.name)
           b == compile_int(q.type)
           c == compile_int(q.class)
<1>1. IsSeq(a)
  BY CompiledIs
<1>2. IsSeq(b) /\ IsSeq(c)
  BY PairIs DEF compile_int, NonEmpty
<1>3. begin_assembly(q) = a \o b \o c
  BY DEF begin_assembly
<1> HIDE DEF a, b, c
<1>4. IsSeq(a \o b)
  BY <1>1, <1>2, SeqsJoined
<1> QED BY <1>2, <1>3, <1>4, SeqsJoined

(* The records of lookups, one after the other, are those of domains.       *)
LEMMA FoundTyped ==
    ASSUME dbv \in HomeTables, NEW name
    PROVE  LET found == InOrder(dns_lookup(name))
               N == Cardinality(dns_lookup(name))
           IN /\ N \in Nat /\ DOMAIN found = 1 .. N
              /\ \A n \in 1 .. N : found[n].object \in Texts /\ found[n].data \in Texts
<1> DEFINE places == dns_lookup(name)
           found == InOrder(places)
           N == Cardinality(places)
<1>1. Len(dbv) \in Nat /\ places \in SUBSET (1 .. Len(dbv))
      /\ \A n \in places : dbv[n].object \in Texts /\ dbv[n].data \in Texts
  BY PlacesTyped
<1> HIDE DEF places
<1>2. N \in Nat /\ DOMAIN found = 1 .. N /\ \A k \in 1 .. N : \E n \in places : found[k] = dbv[n]
  BY <1>1, InOrderTyped
<1> HIDE DEF found, N
<1>3. \A n \in 1 .. N : found[n].object \in Texts /\ found[n].data \in Texts
  BY <1>1, <1>2
<1> QED BY <1>2, <1>3 DEF places, found, N

LEMMA ServersCompiled ==
    ASSUME dbv \in HomeTables, NEW name, NEW offset
    PROVE  /\ IsSeq(FlattenSeq(compile_dnsrecords(offset, name)))
           /\ LET found == InOrder(dns_lookup(name)) IN
                IsSeq(FlattenSeq([n \in DOMAIN found |->
                    Record(compile_objectname, DNS_TYPE_NS, compile_name(found[n].data))]))
<1> DEFINE found == InOrder(dns_lookup(name))
           N == Cardinality(dns_lookup(name))
           owner(n) == IF n = 1 THEN compile_name(found[1].object) ELSE compile_namepointer(offset)
           s == [n \in DOMAIN found |-> Record(owner(n), DNS_TYPE_NS, compile_name(found[n].data))]
           t == [n \in DOMAIN found |-> Record(compile_objectname, DNS_TYPE_NS, compile_name(found[n].data))]
<1>1. /\ N \in Nat /\ DOMAIN found = 1 .. N
      /\ \A n \in 1 .. N : found[n].object \in Texts /\ found[n].data \in Texts
  BY FoundTyped
<1>2. compile_dnsrecords(offset, name) = s
  BY DEF compile_dnsrecords
<1> HIDE DEF found, N
<1>3. ASSUME NEW n \in 1 .. N
      PROVE  /\ IsSeq(Record(owner(n), DNS_TYPE_NS, compile_name(found[n].data)))
             /\ IsSeq(Record(compile_objectname, DNS_TYPE_NS, compile_name(found[n].data)))
  <2>1. IsSeq(compile_name(found[n].data))
    BY <1>1, CompiledIs
  <2>2. IsSeq(compile_objectname) /\ IsSeq(compile_namepointer(offset))
    BY PairIs DEF compile_objectname, compile_namepointer, NonEmpty
  <2>3. n = 1 => IsSeq(compile_name(found[1].object))
    BY <1>1, CompiledIs
  <2>4. IsSeq(owner(n))
    BY <2>2, <2>3
  <2> HIDE DEF owner
  <2> QED BY <2>1, <2>2, <2>4, RecordIs
<1>4. DOMAIN s = 1 .. N /\ s = [n \in 1 .. N |-> s[n]] /\ \A n \in 1 .. N : IsSeq(s[n])
  <2> HIDE DEF owner
  <2> QED BY <1>1, <1>3
<1>5. DOMAIN t = 1 .. N /\ t = [n \in 1 .. N |-> t[n]] /\ \A n \in 1 .. N : IsSeq(t[n])
  <2> HIDE DEF owner
  <2> QED BY <1>1, <1>3
<1>6. N \in Nat
  BY <1>1
<1> HIDE DEF owner, s, t
<1>7. IsSeq(FlattenSeq(s)) /\ IsSeq(FlattenSeq(t))
  BY <1>4, <1>5, <1>6, SeqFlattened
<1> QED BY <1>2, <1>7 DEF t, found

(* The four kinds of replies are replies.                                   *)
LEMMA RepliesNonEmpty ==
    ASSUME dbv \in HomeTables, NEW q, q.name \in Texts, NEW id, IsSeq(id)
    PROVE  /\ \A rdata : IsSeq(rdata) => Assemble(id, q, rdata) # NoReply
           /\ AssembleServers(id, q) # NoReply
           /\ Negative(id, q) # NoReply
<1> DEFINE question == begin_assembly(q)
<1>1. IsSeq(question)
  BY QuestionIs
<1>2. IsSeq(FlattenSeq(<< >>))
  BY PairIs, OnlyOne DEF NonEmpty
<1> HIDE DEF question
<1>3. ASSUME NEW rdata, IsSeq(rdata) PROVE Assemble(id, q, rdata) # NoReply
  <2> DEFINE answer == Record(compile_objectname, q.type, rdata)
             offset == PACKET_DATABEGIN + Len(question) + Len(answer)
             servers == compile_dnsrecords(offset, q.name)
             aa == IF servers = << >> THEN 0 ELSE 1
             answers == <<answer>>
  <2>1. IsSeq(answer)
    <3>1. IsSeq(compile_objectname)
      BY PairIs DEF compile_objectname, NonEmpty
    <3> QED BY <1>3, <3>1, RecordIs
  <2>2. Assemble(id, q, rdata) = end_assembly(id, aa, 0, question, answers, servers)
    BY DEF Assemble, question
  <2> HIDE DEF answer
  <2>3. IsSeq(FlattenSeq(answers))
    BY <2>1, OnlyOne
  <2> HIDE DEF offset
  <2>4. IsSeq(FlattenSeq(servers))
    BY ServersCompiled
  <2> HIDE DEF servers, aa, answers
  <2> QED BY <1>1, <2>2, <2>3, <2>4, EndNonEmpty
<1>4. AssembleServers(id, q) # NoReply
  <2> DEFINE found == InOrder(dns_lookup(q.name))
             answers == [n \in DOMAIN found |->
                            Record(compile_objectname, DNS_TYPE_NS, compile_name(found[n].data))]
  <2>1. AssembleServers(id, q) = end_assembly(id, 1, 0, question, answers, << >>)
    BY DEF AssembleServers, question
  <2>2. IsSeq(FlattenSeq(answers))
    BY ServersCompiled
  <2> HIDE DEF answers
  <2> QED BY <1>1, <1>2, <2>1, <2>2, EndNonEmpty
<1>5. Negative(id, q) # NoReply
  <2>1. Negative(id, q) = end_assembly(id, 1, 0, question, << >>, << >>)
    BY DEF Negative, question
  <2> QED BY <1>1, <1>2, <2>1, EndNonEmpty
<1> QED BY <1>3, <1>4, <1>5

(* A question is answered when the table has something to say of it.        *)
Known(q) == Usual(q) /\ (Answers(q) # {} \/ (Handled(q) /\ OurAuthority(q.name)))

\* the kinds of questions
AskedFor(q) ==
    /\ q.type = DNS_TYPE_A => Answers(q) = name_lookup(q.name)
    /\ q.type = DNS_TYPE_NS => Answers(q) = dns_lookup(q.name)
    /\ q.type = DNS_TYPE_PTR /\ IsArpa(q.name) => Answers(q) = ptr_lookup(ArpaNumber(q.name))
    /\ ~Handled(q) => Answers(q) = {}

LEMMA KindsOf ==
    ASSUME NEW q
    PROVE  AskedFor(q)
<1>1. DNS_TYPE_A # DNS_TYPE_NS /\ DNS_TYPE_A # DNS_TYPE_PTR /\ DNS_TYPE_NS # DNS_TYPE_PTR
  BY DEF DNS_TYPE_A, DNS_TYPE_NS, DNS_TYPE_PTR
<1>2. CASE q.type = DNS_TYPE_A
  BY <1>1, <1>2 DEF AskedFor, Answers, Handled
<1>3. CASE q.type = DNS_TYPE_NS
  BY <1>1, <1>3 DEF AskedFor, Answers, Handled
<1>4. CASE q.type = DNS_TYPE_PTR /\ IsArpa(q.name)
  BY <1>1, <1>4 DEF AskedFor, Answers, Handled
<1>5. CASE ~Handled(q)
  BY <1>1, <1>5 DEF AskedFor, Answers, Handled
<1> QED BY <1>2, <1>3, <1>4, <1>5 DEF Handled

(* What the first record says can be sent.                                  *)
LEMMA ToldTyped ==
    ASSUME dbv \in HomeTables, NEW q, Answers(q) # {}
    PROVE  /\ q.type = DNS_TYPE_A => Told(q) \in Seq(Bytes)
           /\ q.type = DNS_TYPE_PTR => Told(q) \in Texts
<1>1. DNS_TYPE_A # DNS_TYPE_PTR /\ AskedFor(q)
  BY KindsOf DEF DNS_TYPE_A, DNS_TYPE_PTR
<1>2. CASE q.type = DNS_TYPE_A
  <2> DEFINE places == name_lookup(q.name)
  <2>1. Answers(q) = places
    BY <1>1, <1>2 DEF AskedFor
  <2>2. places \in SUBSET Nat /\ \A n \in places : dbv[n].data \in Ips
    <3>1. Len(dbv) \in Nat /\ places \subseteq 1 .. Len(dbv) /\ \A n \in places : dbv[n].data \in Ips
      BY PlacesTyped
    <3> HIDE DEF places
    <3> QED BY <3>1
  <2> HIDE DEF places
  <2>3. Min(places) \in places
    BY <2>1, <2>2, LeastOf
  <2>4. Told(q) = dbv[Min(places)].data
    BY <1>1, <1>2, <2>1 DEF Told
  <2>5. Told(q) \in Ips
    BY <2>2, <2>3, <2>4
  <2>6. Told(q) \in Seq(Bytes)
    <3>1. \A N \in Nat : \A f \in [1 .. N -> Bytes] : f \in Seq(Bytes)
      OBVIOUS
    <3> QED BY <2>5, <3>1 DEF Ips
  <2> QED BY <1>1, <1>2, <2>6
<1>3. CASE q.type = DNS_TYPE_PTR
  <2> DEFINE places == ptr_lookup(ArpaNumber(q.name))
  <2>1. Answers(q) = places
    <3>1. DNS_TYPE_PTR \notin {DNS_TYPE_A, DNS_TYPE_NS}
      BY DEF DNS_TYPE_A, DNS_TYPE_NS, DNS_TYPE_PTR
    <3>2. Handled(q)
      BY <1>1 DEF AskedFor
    <3>3. IsArpa(q.name)
      BY <1>3, <3>1, <3>2 DEF Handled
    <3> QED BY <1>1, <1>3, <3>3 DEF AskedFor
  <2>2. places \in SUBSET Nat /\ \A n \in places : dbv[n].object \in Texts
    <3>1. Len(dbv) \in Nat /\ places \subseteq 1 .. Len(dbv) /\ \A n \in places : dbv[n].object \in Texts
      BY PlacesTyped
    <3> HIDE DEF places
    <3> QED BY <3>1
  <2> HIDE DEF places
  <2>3. Min(places) \in places
    BY <2>1, <2>2, LeastOf
  <2>4. Told(q) = dbv[Min(places)].object
    BY <1>3, <2>1 DEF Told
  <2>5. Told(q) \in Texts
    BY <2>2, <2>3, <2>4
  <2> QED BY <1>1, <1>3, <2>5
<1> QED BY <1>2, <1>3

(* So there is an answer to be put into a reply.                            *)
LEMMA ToldIs ==
    ASSUME dbv \in HomeTables, NEW q, Answers(q) # {}
    PROVE  /\ q.type = DNS_TYPE_A => IsSeq(Told(q))
           /\ q.type = DNS_TYPE_PTR => IsSeq(compile_name(Told(q)))
BY ToldTyped, SeqIs, CompiledIs

LEMMA LookupKnown ==
    ASSUME dbv \in HomeTables, NEW q, q.name \in Texts, NEW id, IsSeq(id)
    PROVE  master_lookup(q, id) # NoReply <=> Known(q)
<1>1. DNS_TYPE_A # DNS_TYPE_NS /\ DNS_TYPE_A # DNS_TYPE_PTR /\ DNS_TYPE_NS # DNS_TYPE_PTR /\ AskedFor(q)
  BY KindsOf DEF DNS_TYPE_A, DNS_TYPE_NS, DNS_TYPE_PTR
<1>2. CASE ~Usual(q)
  BY <1>2, LookupUsual DEF Known
<1>3. CASE Usual(q) /\ Answers(q) # {} /\ q.type = DNS_TYPE_A
  <2>1. master_lookup(q, id) = Assemble(id, q, Told(q))
    BY <1>1, <1>3 DEF master_lookup
  <2> QED BY <1>3, <2>1, ToldIs, RepliesNonEmpty DEF Known
<1>4. CASE Usual(q) /\ Answers(q) # {} /\ q.type = DNS_TYPE_PTR
  <2>1. master_lookup(q, id) = Assemble(id, q, compile_name(Told(q)))
    BY <1>1, <1>4 DEF master_lookup
  <2> QED BY <1>4, <2>1, ToldIs, RepliesNonEmpty DEF Known
<1>5. CASE Usual(q) /\ Answers(q) # {} /\ q.type = DNS_TYPE_NS
  <2>1. master_lookup(q, id) = AssembleServers(id, q)
    BY <1>1, <1>5 DEF master_lookup
  <2> QED BY <1>5, <2>1, RepliesNonEmpty DEF Known
<1>6. CASE Usual(q) /\ Answers(q) = {} /\ Handled(q) /\ OurAuthority(q.name)
  <2>1. master_lookup(q, id) = Negative(id, q)
    BY <1>6 DEF master_lookup
  <2> QED BY <1>6, <2>1, RepliesNonEmpty DEF Known
<1>7. CASE Usual(q) /\ Answers(q) = {} /\ ~(Handled(q) /\ OurAuthority(q.name))
  <2>1. master_lookup(q, id) = NoReply
    BY <1>7 DEF master_lookup
  <2> QED BY <1>7, <2>1 DEF Known
<1>8. Answers(q) # {} => q.type \in {DNS_TYPE_A, DNS_TYPE_PTR, DNS_TYPE_NS}
  BY <1>1 DEF AskedFor, Handled
<1> QED BY <1>2, <1>3, <1>4, <1>5, <1>6, <1>7, <1>8

---------------------------------------------------------------------------
(* Every question *)

(* The files are what the table was made of, however often they are read.   *)
LEMMA BuiltInit == Init => Built
<1> SUFFICES ASSUME Init PROVE Built
  OBVIOUS
<1>1. PICK disk \in Disks, g \in Garbage :
        dbv = Database(disk, g, << >>) /\ loaded = [disk |-> disk, domain |-> g]
  BY DEF Init
<1>2. disk \in Disk /\ g \in Texts
  BY MasterAssumption
<1> QED BY <1>1, <1>2 DEF Built, FilesLoaded, Table

LEMMA BuiltStep == Built /\ [Next]_vars => Built'
<1> SUFFICES ASSUME Built, [Next]_vars PROVE Built'
  OBVIOUS
<1>1. CASE master_reinit
  <2>1. PICK disk \in Disks, g \in Garbage :
            /\ dbv' = Database(Readable(disk, 1), g, << >>)
            /\ loaded' = [disk |-> Readable(disk, 1), domain |-> g]
    BY <1>1 DEF master_reinit, master_init, reset_master
  <2>2. g \in Texts /\ Readable(disk, 1) \in Disk
    BY MasterAssumption, ReadableDisk
  <2> QED BY <2>1, <2>2 DEF Built, FilesLoaded, Table
<1>2. ASSUME UNCHANGED <<dbv, loaded>> PROVE Built'
  BY <1>2 DEF Built, FilesLoaded, Table
<1>3. CASE chroot
  BY <1>2, <1>3 DEF chroot
<1>4. CASE \E p \in Packets : Arrive(p)
  BY <1>2, <1>4 DEF Arrive, tableVars
<1>5. CASE ReadName \/ parse_query \/ Lookup \/ DontKnow \/ Return
  BY <1>2, <1>5 DEF ReadName, parse_query, Lookup, DontKnow, Return, tableVars
<1>6. CASE UNCHANGED vars
  BY <1>2, <1>6 DEF vars, tableVars
<1> QED BY <1>1, <1>3, <1>4, <1>5, <1>6 DEF Next

(* The name of a question is a text, and it is answered exactly when the    *)
(* table knows something of it.                                             *)
LookupInv ==
    /\ query.name \in Texts
    /\ stage \in {"idle", "parse"} => query = NoQuery
    /\ stage = "answered" => Known(query)
    /\ stage = "forward" => ~Known(query)

LEMMA NameRead ==
    ASSUME NEW s \in Texts
    PROVE  strnlwr(WithoutDot(CString(s))) \in Texts
<1>1. CString(s) \in Texts
  <2> DEFINE zeros == {k \in DOMAIN s : s[k] = 0}
  <2>1. CASE zeros = {}
    BY <2>1 DEF CString
  <2>2. CASE zeros # {}
    <3>1. Len(s) \in Nat /\ zeros \subseteq 1 .. Len(s) /\ zeros \in SUBSET Nat
      BY DEF Texts
    <3>2. Min(zeros) \in 1 .. Len(s)
      BY <2>2, <3>1, LeastOf
    <3> HIDE DEF zeros
    <3>3. SubSeq(s, 1, Min(zeros) - 1) \in Texts
      BY <3>2 DEF Texts
    <3> QED BY <2>2, <3>3 DEF CString, zeros
  <2> QED BY <2>1, <2>2
<1>2. ASSUME NEW t \in Texts PROVE WithoutDot(t) \in Texts
  <2>1. CASE t # << >> /\ Last(t) = Dot
    <3>1. Len(t) \in Nat \ {0}
      BY <2>1, EmptySeq DEF Texts
    <3>2. SubSeq(t, 1, Len(t) - 1) \in Texts
      BY <3>1 DEF Texts
    <3> QED BY <2>1, <3>2 DEF WithoutDot, Front
  <2>2. CASE ~(t # << >> /\ Last(t) = Dot)
    BY <2>2 DEF WithoutDot
  <2> QED BY <2>1, <2>2
<1> QED BY <1>1, <1>2, Lowered

LEMMA NothingKnown == NoQuery.name \in Texts /\ ~Known(NoQuery)
BY DEF NoQuery, Known, Usual, Texts

LEMMA LookupInit == Init => LookupInv
BY NothingKnown DEF Init, LookupInv

\* a question of which nothing changes but the stage
Kept == query' = query /\ dbv' = dbv

LEMMA KnownKept ==
    ASSUME Kept
    PROVE  Known(query)' <=> Known(query)
BY DEF Kept, Known, Usual, Answers, Handled, OurAuthority, authority_lookup, ptr_lookup, name_lookup, dns_lookup

LEMMA LookupStep == NameInv /\ TableInv /\ LookupInv /\ [Next]_vars => LookupInv'
<1> SUFFICES ASSUME NameInv, TableInv, LookupInv, [Next]_vars PROVE LookupInv'
  OBVIOUS
<1>1. CASE chroot
  <2>1. Kept /\ stage' = stage
    BY <1>1 DEF chroot, Kept
  <2> QED BY <2>1, KnownKept DEF LookupInv, Kept
<1>2. CASE master_reinit
  <2>1. stage = "idle" /\ stage' = "idle" /\ query' = query
    BY <1>2 DEF master_reinit
  <2> QED BY <2>1 DEF LookupInv
<1>3. ASSUME NEW p \in Packets, Arrive(p) PROVE LookupInv'
  <2>1. stage = "idle" /\ query' = query /\ stage' \in {"forward", "parse"} /\ Kept
    BY <1>3 DEF Arrive, tableVars, Kept
  <2>2. query = NoQuery
    BY <2>1 DEF LookupInv
  <2> QED BY <2>1, <2>2, KnownKept, NothingKnown DEF LookupInv
<1>4. CASE ReadName
  <2>1. Kept /\ stage' = stage
    BY <1>4 DEF ReadName, Kept, tableVars
  <2> QED BY <2>1, KnownKept DEF LookupInv, Kept
<1>5. CASE parse_query
  <2>1. stage' = "lookup"
    BY <1>5 DEF parse_query
  <2>2. query'.name \in Texts
    <3>1. \/ query' = NoQuery
          \/ \E name \in IF j = -1 THEN Garbage ELSE {dest} :
                query'.name = strnlwr(WithoutDot(CString(name)))
      BY <1>5 DEF parse_query
    <3>2. Garbage \subseteq Texts /\ dest \in Texts
      BY MasterAssumption DEF NameInv, NameTypeOK, Texts
    <3> QED BY <3>1, <3>2, NameRead, NothingKnown
  <2> QED BY <2>1, <2>2 DEF LookupInv
<1>6. CASE Lookup
  <2> DEFINE id == SubSeq(msg, 1, 2)
  <2>1. /\ Kept /\ reply' = master_lookup(query, id)
        /\ stage' = IF reply' = NoReply THEN "forward" ELSE "answered"
    BY <1>6 DEF Lookup, Kept, tableVars
  <2>2. IsSeq(id)
    <3>1. msg \in Seq(Bytes) /\ Len(msg) >= 12
      BY DnsNameAssumption DEF NameInv, NameTypeOK
    <3>2. id \in Seq(Bytes)
      BY <3>1
    <3> QED BY <3>2, SeqIs
  <2> HIDE DEF id
  <2>3. reply' # NoReply <=> Known(query)
    BY <2>1, <2>2, LookupKnown DEF TableInv, LookupInv
  <2> QED BY <2>1, <2>3, KnownKept DEF LookupInv, Kept
<1>7. CASE DontKnow
  <2>1. stage' = "dontknow" /\ query' = query
    BY <1>7 DEF DontKnow
  <2> QED BY <2>1 DEF LookupInv
<1>8. CASE Return
  <2>1. stage' = "idle" /\ query' = NoQuery
    BY <1>8 DEF Return
  <2> QED BY <2>1, NothingKnown DEF LookupInv
<1>9. CASE UNCHANGED vars
  <2>1. Kept /\ stage' = stage
    BY <1>9 DEF vars, tableVars, Kept
  <2> QED BY <2>1, KnownKept DEF LookupInv, Kept
<1> QED BY <1>1, <1>2, <1>3, <1>4, <1>5, <1>6, <1>7, <1>8, <1>9 DEF Next

(* What the table says of a question is what the files say of it.           *)
FoundOf(q) ==
    CASE q.type = DNS_TYPE_A -> Addresses(q.name)
      [] q.type = DNS_TYPE_PTR /\ IsArpa(q.name) -> NamesFor(ArpaNumber(q.name))
      [] q.type = DNS_TYPE_NS -> ServersFor(q.name)
      [] OTHER -> {}

LEMMA AnswersFound ==
    ASSUME Built, TableInv, NEW q
    PROVE  /\ Answers(q) = {} <=> FoundOf(q) = {}
           /\ FoundOf(q) # {} => Told(q) \in FoundOf(q)
<1>1. DNS_TYPE_A # DNS_TYPE_NS /\ DNS_TYPE_A # DNS_TYPE_PTR /\ DNS_TYPE_NS # DNS_TYPE_PTR /\ AskedFor(q)
  BY KindsOf DEF DNS_TYPE_A, DNS_TYPE_NS, DNS_TYPE_PTR
<1>2. CASE q.type = DNS_TYPE_A
  <2>1. FoundOf(q) = Addresses(q.name) /\ Answers(q) = name_lookup(q.name)
    BY <1>1, <1>2 DEF FoundOf, AskedFor
  <2>2. Told(q) = dbv[Min(name_lookup(q.name))].data
    BY <1>1, <1>2, <2>1 DEF Told
  <2> QED BY <2>1, <2>2, AddressFound
<1>3. CASE q.type = DNS_TYPE_PTR /\ IsArpa(q.name)
  <2> DEFINE arpanum == ArpaNumber(q.name)
  <2>1. FoundOf(q) = NamesFor(arpanum) /\ Answers(q) = ptr_lookup(arpanum)
    BY <1>1, <1>3 DEF FoundOf, AskedFor
  <2>2. Told(q) = dbv[Min(ptr_lookup(arpanum))].object
    BY <1>3, <2>1 DEF Told
  <2> HIDE DEF arpanum
  <2> QED BY <2>1, <2>2, NameFound
<1>4. CASE q.type = DNS_TYPE_NS
  <2> DEFINE places == dns_lookup(q.name)
             said == {dbv[n].data : n \in places}
  <2>1. FoundOf(q) = said /\ Answers(q) = places
    BY <1>1, <1>4, ServersFound DEF FoundOf, AskedFor
  <2>2. Told(q) = dbv[Min(places)].data
    BY <1>1, <1>4, <2>1 DEF Told
  <2>3. places \in SUBSET Nat
    <3>1. Len(dbv) \in Nat /\ places \subseteq 1 .. Len(dbv)
      BY PlacesTyped DEF TableInv
    <3> HIDE DEF places
    <3> QED BY <3>1
  <2> HIDE DEF places
  <2>4. places # {} => Min(places) \in places
    BY <2>3, LeastOf
  <2> QED BY <2>1, <2>2, <2>4
<1>5. CASE ~Handled(q)
  <2>1. FoundOf(q) = {} /\ Answers(q) = {}
    BY <1>1, <1>5 DEF FoundOf, AskedFor, Handled
  <2> QED BY <2>1
<1> QED BY <1>2, <1>3, <1>4, <1>5 DEF Handled

LEMMA ZonesAnsweredOf == Built /\ TableInv /\ LookupInv => ZoneAnswers
<1> SUFFICES ASSUME Built, TableInv, LookupInv, stage \in {"answered", "forward"}
             PROVE  LET found == FoundOf(query)
                        ours == found # {} \/ (Handled(query) /\ OwnZone(query.name))
                    IN /\ stage = "answered" <=> Usual(query) /\ ours
                       /\ Answers(query) = {} <=> found = {}
                       /\ found # {} => Told(query) \in found
  BY DEF ZoneAnswers, FoundOf
<1>1. /\ Answers(query) = {} <=> FoundOf(query) = {}
      /\ FoundOf(query) # {} => Told(query) \in FoundOf(query)
  BY AnswersFound
<1>2. OurAuthority(query.name) <=> OwnZone(query.name)
  BY ZonesFound
<1>3. stage = "answered" <=> Known(query)
  BY DEF LookupInv
<1> QED BY <1>1, <1>2, <1>3 DEF Known

(* With any files, any packets and any number of reloads, every question is *)
(* answered with the first line of the files that has its name or address,  *)
(* negatively in the zones they make ours, and else forwarded.              *)
THEOREM ZonesAnswered == Spec => []ZoneAnswers
<1>1. Init => Built /\ TableInv /\ LookupInv
  BY BuiltInit, TableInit, LookupInit
<1>2. NameInv /\ (Built /\ TableInv /\ LookupInv) /\ [Next]_vars => (Built /\ TableInv /\ LookupInv)'
  BY BuiltStep, TableStep, LookupStep
<1>3. Built /\ TableInv /\ LookupInv => ZoneAnswers
  BY ZonesAnsweredOf
<1> QED BY <1>1, <1>2, <1>3, NamesStayInBounds, PTL DEF Spec

---------------------------------------------------------------------------
(* What stands in a packet *)

(* What stands in a packet at an offset.                                   *)
Holds(p, k, s) ==
    /\ k \in Nat /\ s \in Seq(Bytes) /\ k + Len(s) <= Len(p)
    /\ \A m \in 1 .. Len(s) : p[k + m] = s[m]

(* What two texts put together are.                                         *)
LEMMA Appended ==
    ASSUME NEW s \in Seq(Bytes), NEW t \in Seq(Bytes)
    PROVE  s \o t \in Seq(Bytes) /\ Len(s \o t) = Len(s) + Len(t) /\ Len(s) \in Nat /\ Len(t) \in Nat
BY ConcatProperties

(* Two texts, one behind the other.                                         *)
LEMMA HoldsBoth ==
    ASSUME NEW p \in Seq(Bytes), NEW k, NEW s \in Seq(Bytes), NEW t \in Seq(Bytes), Holds(p, k, s \o t)
    PROVE  /\ Holds(p, k, s) /\ Holds(p, k + Len(s), t)
           /\ Len(s \o t) = Len(s) + Len(t) /\ s \o t \in Seq(Bytes)
<1> DEFINE st == s \o t
<1>1. /\ Len(s) \in Nat /\ Len(t) \in Nat /\ Len(p) \in Nat
      /\ st \in Seq(Bytes) /\ Len(st) = Len(s) + Len(t)
      /\ \A m \in 1 .. Len(s) + Len(t) : st[m] = IF m <= Len(s) THEN s[m] ELSE t[m - Len(s)]
  BY ConcatProperties
<1>2. k \in Nat /\ k + Len(st) <= Len(p) /\ \A m \in 1 .. Len(st) : p[k + m] = st[m]
  BY DEF Holds
<1> HIDE DEF st
<1>3. ASSUME NEW m \in 1 .. Len(s) PROVE p[k + m] = s[m]
  <2>1. m \in 1 .. Len(s) + Len(t) /\ m <= Len(s)
    BY <1>1
  <2> QED BY <1>1, <1>2, <2>1
<1>4. ASSUME NEW m \in 1 .. Len(t) PROVE p[k + Len(s) + m] = t[m]
  <2> DEFINE n == Len(s) + m
  <2>1. n \in 1 .. Len(s) + Len(t) /\ ~(n <= Len(s)) /\ n - Len(s) = m /\ k + n = k + Len(s) + m
    BY <1>1, <1>2
  <2> HIDE DEF n
  <2>2. p[k + n] = st[n] /\ st[n] = t[n - Len(s)]
    BY <1>1, <1>2, <2>1
  <2> QED BY <2>1, <2>2
<1>5. Holds(p, k, s)
  BY <1>1, <1>2, <1>3 DEF Holds
<1>6. Holds(p, k + Len(s), t)
  BY <1>1, <1>2, <1>4 DEF Holds
<1> QED BY <1>1, <1>5, <1>6 DEF st

(* A packet stands in itself.                                               *)
LEMMA HoldsAll ==
    ASSUME NEW p \in Seq(Bytes)
    PROVE  Holds(p, 0, p)
<1>1. Len(p) \in Nat /\ \A m \in 1 .. Len(p) : 0 + m = m
  OBVIOUS
<1> QED BY <1>1 DEF Holds

(* The text that stands there, taken out.                                   *)
LEMMA HeldText ==
    ASSUME NEW p \in Seq(Bytes), NEW k, NEW s, Holds(p, k, s)
    PROVE  SubSeq(p, k + 1, k + Len(s)) = s
<1> DEFINE c == Len(s)
           t == SubSeq(p, k + 1, k + c)
<1>1. /\ k \in Nat /\ s \in Seq(Bytes) /\ c \in Nat /\ Len(p) \in Nat /\ k + c <= Len(p)
      /\ \A m \in 1 .. c : p[k + m] = s[m]
  BY DEF Holds
<1>2. s = [m \in 1 .. c |-> s[m]]
  BY <1>1
<1> HIDE DEF c
<1>3. \A l \in k + 1 .. k + c : p[l] \in Bytes
  <2>1. \A l \in k + 1 .. k + c : l \in 1 .. Len(p)
    BY <1>1
  <2>2. \A l \in 1 .. Len(p) : p[l] \in Bytes
    OBVIOUS
  <2> QED BY <2>1, <2>2
<1>4. t \in Seq(Bytes) /\ Len(t) = c /\ \A m \in 1 .. c : t[m] = p[k + m]
  <2>1. k + 1 \in Int /\ k + c \in Int /\ (k + c) - (k + 1) + 1 = c
    BY <1>1
  <2>2. /\ t \in Seq(Bytes) /\ Len(t) = IF k + 1 <= k + c THEN (k + c) - (k + 1) + 1 ELSE 0
        /\ \A m \in 1 .. (k + c) - (k + 1) + 1 : t[m] = p[((k + 1) + m) - 1]
    BY <1>3, <2>1, SubSeqProperties
  <2> HIDE DEF t
  <2>3. Len(t) = c
    BY <1>1, <2>1, <2>2
  <2>4. \A m \in 1 .. c : ((k + 1) + m) - 1 = k + m
    BY <1>1
  <2> QED BY <2>1, <2>2, <2>3, <2>4
<1> HIDE DEF t
<1>5. t = [m \in 1 .. c |-> t[m]]
  BY <1>4
<1>6. t = s
  BY <1>1, <1>2, <1>4, <1>5
<1> QED BY <1>6 DEF t, c

(* Numbers of two bytes, put into a packet and read.                       *)
LEMMA IntCompiled ==
    ASSUME NEW n \in Nat
    PROVE  compile_int(n) \in Seq(Bytes) /\ Len(compile_int(n)) = 2
<1>1. (n \div 256) % 256 \in Bytes /\ n % 256 \in Bytes
  <2>1. \A m \in Nat : m % 256 \in Bytes
    BY DEF Bytes
  <2>2. n \div 256 \in Nat
    OBVIOUS
  <2> QED BY <2>1, <2>2
<1> QED BY <1>1 DEF compile_int

(* A number of two bytes is its high byte and its low one.                  *)
LEMMA TwoBytes ==
    ASSUME NEW n \in Nat, n < 65536
    PROVE  (n \div 256) % 256 = n \div 256 /\ (n \div 256) * 256 + (n % 256) = n
OBVIOUS

(* What compile_int() wrote is the number that is read there.               *)
LEMMA IntRead ==
    ASSUME NEW p \in Seq(Bytes), NEW k, NEW n \in Nat, n < 65536, Holds(p, k, compile_int(n))
    PROVE  Short(p, k) = n
<1>1. k \in Nat /\ p[k + 1] = (n \div 256) % 256 /\ p[k + 2] = n % 256
  <2>1. Len(compile_int(n)) = 2 /\ compile_int(n)[1] = (n \div 256) % 256 /\ compile_int(n)[2] = n % 256
    BY DEF compile_int
  <2>2. 1 \in 1 .. 2 /\ 2 \in 1 .. 2
    OBVIOUS
  <2> QED BY <2>1, <2>2 DEF Holds
<1> QED BY <1>1, TwoBytes DEF Short

(* What holds of a text when it holds of the text behind its first label,   *)
(* if it has one, holds of all texts.                                       *)
LEMMA TextInduction ==
    ASSUME NEW S,
           \A s \in Texts : (BeforeDot(s) # << >> => AfterDot(s) \in S) => s \in S
    PROVE  \A s \in Texts : s \in S
<1> DEFINE T == {n \in Nat : \A s \in Texts : Len(s) <= n => s \in S}
<1>1. 0 \in T
  <2>1. ASSUME NEW s \in Texts, Len(s) <= 0 PROVE s \in S
    <3>1. ~(BeforeDot(s) # << >>)
      BY <2>1, CutAtDot
    <3> QED BY <3>1
  <2> QED BY <2>1
<1>2. ASSUME NEW n \in Nat, n \in T PROVE n + 1 \in T
  <2>1. ASSUME NEW s \in Texts, Len(s) <= n + 1 PROVE s \in S
    <3>1. BeforeDot(s) # << >> => AfterDot(s) \in Texts /\ Len(AfterDot(s)) <= n
      BY <2>1, CutAtDot
    <3> QED BY <1>2, <3>1
  <2> QED BY <2>1
<1>3. \A n \in Nat : n \in T
  <2> HIDE DEF T
  <2> QED BY <1>1, <1>2, NatSetInduction
<1> QED BY <1>3, CutAtDot

(* The equation of compile_name().                                          *)
LEMMA CompiledOf ==
    ASSUME NEW name \in Texts
    PROVE  compile_name(name) =
             IF BeforeDot(name) = << >> THEN <<0>>
             ELSE <<Len(BeforeDot(name)) % 64>> \o BeforeDot(name) \o compile_name(AfterDot(name))
<1> DEFINE f == CHOOSE f : IsLabels(f)
<1>1. IsLabels(f)
  BY LabelsExist
<1>2. \A s : compile_name(s) = f[s]
  BY DEF compile_name, IsLabels
<1> HIDE DEF f
<1>3. f[name] = LabelsOf(f, name)
  BY <1>1 DEF IsLabels, LabelsOf
<1> QED BY <1>2, <1>3 DEF LabelsOf

(* Places of dots.                                                          *)
LEMMA FirstDot ==
    ASSUME NEW s \in Texts, Dots(s) # {}
    PROVE  LET m == Min(Dots(s)) IN
           /\ m \in 1 .. Len(s) /\ m \in Dots(s) /\ \A k \in Dots(s) : m <= k
           /\ BeforeDot(s) \in Texts /\ Len(BeforeDot(s)) = m - 1
           /\ \A k \in 1 .. m - 1 : BeforeDot(s)[k] = s[k]
           /\ AfterDot(s) \in Texts /\ Len(AfterDot(s)) = Len(s) - m
           /\ \A k \in 1 .. Len(s) - m : AfterDot(s)[k] = s[m + k]
           /\ \A k \in 1 .. Len(s) - m : k \in Dots(AfterDot(s)) <=> m + k \in Dots(s)
<1> DEFINE m == Min(Dots(s))
<1>1. s \in Seq(Bytes) /\ Len(s) \in Nat /\ DOMAIN s = 1 .. Len(s)
  BY DEF Texts
<1>2. Dots(s) \in SUBSET Nat /\ Dots(s) \subseteq 1 .. Len(s)
  BY <1>1 DEF Dots
<1>3. m \in 1 .. Len(s) /\ m \in Dots(s) /\ \A k \in Dots(s) : m <= k
  BY <1>2, LeastOf
<1>4. BeforeDot(s) = SubSeq(s, 1, m - 1) /\ AfterDot(s) = SubSeq(s, m + 1, Len(s))
  BY DEF BeforeDot, AfterDot
<1> HIDE DEF m
<1>5. \A k \in 1 .. Len(s) : s[k] \in Bytes
  BY <1>1
<1>6. /\ BeforeDot(s) \in Seq(Bytes) /\ Len(BeforeDot(s)) = m - 1
      /\ \A k \in 1 .. m - 1 : BeforeDot(s)[k] = s[k]
  BY <1>1, <1>3, <1>4
<1>7. /\ AfterDot(s) \in Seq(Bytes) /\ Len(AfterDot(s)) = Len(s) - m
      /\ \A k \in 1 .. Len(s) - m : AfterDot(s)[k] = s[m + k]
  <2> DEFINE t == SubSeq(s, m + 1, Len(s))
  <2>1. m + 1 \in Int /\ Len(s) \in Int /\ \A k \in m + 1 .. Len(s) : s[k] \in Bytes
    BY <1>1, <1>3, <1>5
  <2>2. /\ t \in Seq(Bytes)
        /\ Len(t) = IF m + 1 <= Len(s) THEN Len(s) - (m + 1) + 1 ELSE 0
        /\ \A k \in 1 .. Len(s) - (m + 1) + 1 : t[k] = s[m + 1 + k - 1]
    BY <2>1, SubSeqProperties
  <2> HIDE DEF t
  <2>3. Len(t) = Len(s) - m /\ Len(s) - (m + 1) + 1 = Len(s) - m
    <3>1. \A n \in Nat : \A l \in 1 .. n :
            (IF l + 1 <= n THEN n - (l + 1) + 1 ELSE 0) = n - l /\ n - (l + 1) + 1 = n - l
      OBVIOUS
    <3> QED BY <1>1, <1>3, <2>2, <3>1, Zenon
  <2>4. ASSUME NEW k \in 1 .. Len(s) - m PROVE t[k] = s[m + k]
    <3>1. m + 1 + k - 1 = m + k
      BY <1>3
    <3> QED BY <2>2, <2>3, <3>1
  <2> QED BY <1>4, <2>2, <2>3, <2>4 DEF t
<1>8. ASSUME NEW k \in 1 .. Len(s) - m
      PROVE  k \in Dots(AfterDot(s)) <=> m + k \in Dots(s)
  <2>1. m + k \in 1 .. Len(s) /\ k \in 1 .. Len(AfterDot(s)) /\ DOMAIN AfterDot(s) = 1 .. Len(AfterDot(s))
    BY <1>1, <1>3, <1>7
  <2> QED BY <1>1, <1>7, <2>1 DEF Dots
<1> QED BY <1>3, <1>6, <1>7, <1>8 DEF m, Texts

(* The first label is short where all are, and so are the others.           *)
LEMMA LabelShort ==
    ASSUME NEW s \in Texts, ShortLabels(s)
    PROVE  Len(BeforeDot(s)) \in 0 .. 63 /\ ShortLabels(AfterDot(s))
<1>1. Len(s) \in Nat
  BY CutAtDot
<1>2. CASE Dots(s) = {}
  <2>1. BeforeDot(s) = s /\ AfterDot(s) = << >>
    BY <1>2 DEF BeforeDot, AfterDot
  <2>2. ~(1 \in 1 .. Len(s) - 63)
    BY <1>2 DEF ShortLabels
  <2>3. Len(s) \in 0 .. 63
    <3>1. \A n \in Nat : ~(1 \in 1 .. n - 63) => n \in 0 .. 63
      OBVIOUS
    <3> QED BY <1>1, <2>2, <3>1, Zenon
  <2>4. ShortLabels(<< >>)
    <3>1. Len(<< >>) = 0 /\ 1 .. 0 - 63 = {}
      OBVIOUS
    <3> QED BY <3>1 DEF ShortLabels
  <2> QED BY <2>1, <2>3, <2>4, Zenon
<1>3. CASE Dots(s) # {}
  <2> DEFINE m == Min(Dots(s))
             t == AfterDot(s)
  <2>1. /\ m \in 1 .. Len(s) /\ m \in Dots(s) /\ \A k \in Dots(s) : m <= k
        /\ Len(BeforeDot(s)) = m - 1 /\ Len(t) = Len(s) - m
        /\ \A k \in 1 .. Len(s) - m : k \in Dots(t) <=> m + k \in Dots(s)
    BY <1>3, FirstDot
  <2>2. Dots(s) \subseteq 1 .. Len(s)
    BY DEF Dots, Texts
  <2> HIDE DEF m, t
  <2>3. m <= 64
    <3>1. CASE 1 \in 1 .. Len(s) - 63
      <4>1. PICK k \in Dots(s) : k \in 1 .. 1 + 63
        BY <3>1 DEF ShortLabels
      <4> QED BY <2>1, <4>1
    <3>2. CASE ~(1 \in 1 .. Len(s) - 63)
      BY <1>1, <2>1, <3>2
    <3> QED BY <3>1, <3>2
  <2>4. ASSUME NEW k \in 1 .. Len(t) - 63 PROVE Dots(t) \cap (k .. k + 63) # {}
    <3>1. m + k \in 1 .. Len(s) - 63
      BY <1>1, <2>1
    <3>2. PICK l \in Dots(s) : l \in m + k .. m + k + 63
      BY <3>1 DEF ShortLabels
    <3>3. l - m \in 1 .. Len(s) - m /\ m + (l - m) = l /\ l - m \in k .. k + 63
      BY <1>1, <2>1, <2>2, <3>2
    <3> QED BY <2>1, <3>2, <3>3
  <2>5. ShortLabels(t)
    BY <2>4 DEF ShortLabels
  <2> QED BY <2>1, <2>3, <2>5 DEF t
<1> QED BY <1>2, <1>3

(* Len() as a number, and whether there is something.                       *)
LEMMA SomeText ==
    ASSUME NEW s \in Seq(Bytes)
    PROVE  Len(s) \in Nat /\ (s # << >> <=> Len(s) >= 1)
<1>1. Len(s) \in Nat /\ (s # << >> <=> Len(s) # 0)
  BY EmptySeq
<1> QED BY <1>1

(* What compile_name() puts into a packet for a name: the first label, or   *)
(* the end.                                                                 *)
LabelHeld(p, k, s) ==
    LET c == Len(BeforeDot(s)) IN
    /\ LabelAt(p, k) /\ p[k + 1] = c /\ c \in 1 .. 63
    /\ SubSeq(p, k + 2, k + 1 + c) = BeforeDot(s)
    /\ Holds(p, k + 1 + c, compile_name(AfterDot(s)))
    /\ Len(compile_name(s)) = 1 + c + Len(compile_name(AfterDot(s)))

(* What compile_name() writes takes a byte at least: the end of the name.   *)
LEMMA CompiledSize ==
    ASSUME NEW s \in Texts
    PROVE  compile_name(s) \in Seq(Bytes) /\ Len(compile_name(s)) \in Nat /\ Len(compile_name(s)) >= 1
<1>1. compile_name(s) \in Seq(Bytes)
  BY NameCompiled
<1>2. CASE BeforeDot(s) = << >>
  <2>1. compile_name(s) = <<0>>
    BY <1>2, CompiledOf
  <2> QED BY <1>1, <2>1
<1>3. CASE BeforeDot(s) # << >>
  <2> DEFINE a == <<Len(BeforeDot(s)) % 64>>
             b == BeforeDot(s)
             c == compile_name(AfterDot(s))
  <2>1. compile_name(s) = a \o b \o c
    BY <1>3, CompiledOf
  <2>2. Len(BeforeDot(s)) \in Nat
    BY CutAtDot DEF Texts
  <2>3. a \in Seq(Bytes) /\ Len(a) = 1
    <3>1. \A n \in Nat : <<n % 64>> \in Seq(Bytes) /\ Len(<<n % 64>>) = 1
      BY DEF Bytes
    <3> QED BY <2>2, <3>1
  <2>4. b \in Seq(Bytes) /\ c \in Seq(Bytes)
    BY CutAtDot, NameCompiled DEF Texts
  <2> HIDE DEF a, b, c
  <2>5. Len(a \o b) = Len(a) + Len(b) /\ a \o b \in Seq(Bytes)
    BY <2>3, <2>4, ConcatProperties, Zenon
  <2>6. Len((a \o b) \o c) = Len(a \o b) + Len(c)
    BY <2>4, <2>5, ConcatProperties, Zenon
  <2>7. Len(b) \in Nat /\ Len(c) \in Nat
    BY <2>4, SomeText
  <2> QED BY <1>1, <2>1, <2>3, <2>5, <2>6, <2>7
<1> QED BY <1>2, <1>3

(* Where compile_name() wrote a name, there is its first label, with the    *)
(* rest of the name behind it, or its end.                                  *)
LEMMA NameHeld ==
    ASSUME NEW p \in Seq(Bytes), NEW k, NEW s \in Texts, ShortLabels(s), Holds(p, k, compile_name(s))
    PROVE  /\ k \in 0 .. Len(p) - 1
           /\ BeforeDot(s) = << >> => p[k + 1] = 0 /\ Len(compile_name(s)) = 1
           /\ BeforeDot(s) # << >> => LabelHeld(p, k, s)
<1>1. compile_name(s) \in Seq(Bytes) /\ Len(compile_name(s)) \in Nat /\ Len(compile_name(s)) >= 1 /\ Len(p) \in Nat
  BY CompiledSize, BytesOf
<1>2. k \in Nat /\ k + Len(compile_name(s)) <= Len(p)
  BY DEF Holds
<1>3. k \in 0 .. Len(p) - 1
  BY <1>1, <1>2
<1>4. CASE BeforeDot(s) = << >>
  <2>1. compile_name(s) = <<0>>
    BY <1>4, CompiledOf
  <2>2. Len(<<0>>) = 1 /\ <<0>>[1] = 0 /\ 1 \in 1 .. 1
    OBVIOUS
  <2>3. p[k + 1] = 0
    BY <2>1, <2>2 DEF Holds
  <2> QED BY <1>3, <1>4, <2>1, <2>2, <2>3
<1>5. CASE BeforeDot(s) # << >>
  <2> DEFINE b == BeforeDot(s)
             c == Len(b)
             a == <<c % 64>>
             r == compile_name(AfterDot(s))
  <2>1. compile_name(s) = a \o b \o r
    BY <1>5, CompiledOf
  <2>2. b \in Seq(Bytes) /\ r \in Seq(Bytes) /\ Len(r) \in Nat /\ Len(r) >= 1
    BY CutAtDot, CompiledSize DEF Texts
  <2>3. c \in 1 .. 63
    <3>1. c \in 0 .. 63 /\ c >= 1
      BY <1>5, <2>2, LabelShort, SomeText
    <3> HIDE DEF c
    <3> QED BY <3>1
  <2> HIDE DEF c
  <2>4. a = <<c>> /\ a \in Seq(Bytes) /\ Len(a) = 1 /\ a[1] = c
    <3>1. c % 64 = c /\ c \in Bytes
      BY <2>3 DEF Bytes
    <3> QED BY <3>1
  <2> HIDE DEF a, b, r
  <2>5. Holds(p, k, (a \o b) \o r) /\ a \o b \in Seq(Bytes) /\ Len(a \o b) = 1 + c
    <3>1. Len(a \o b) = Len(a) + Len(b) /\ a \o b \in Seq(Bytes)
      BY <2>2, <2>4, ConcatProperties
    <3> QED BY <2>1, <2>4, <3>1 DEF c
  <2>6. /\ Holds(p, k, a \o b) /\ Holds(p, k + (1 + c), r)
        /\ Len((a \o b) \o r) = 1 + c + Len(r)
    <3> DEFINE ab == a \o b
    <3>0. r \in Seq(Bytes) /\ p \in Seq(Bytes)
      BY <2>2
    <3>1. Holds(p, k, ab \o r) /\ ab \in Seq(Bytes) /\ Len(ab) = 1 + c
      BY <2>5
    <3> HIDE DEF ab
    <3>2. Holds(p, k, ab) /\ Holds(p, k + Len(ab), r)
      BY <3>0, <3>1, HoldsBoth
    <3>3. Len(ab \o r) = Len(ab) + Len(r)
      BY ONLY <3>0, <3>1, ConcatProperties
    <3> QED BY <3>1, <3>2, <3>3 DEF ab
  <2>7. Holds(p, k, a) /\ Holds(p, k + 1, b)
    <3>1. Holds(p, k, a \o b) /\ a \in Seq(Bytes) /\ b \in Seq(Bytes) /\ p \in Seq(Bytes)
      BY <2>2, <2>4, <2>6
    <3>2. Holds(p, k, a) /\ Holds(p, k + Len(a), b)
      BY ONLY <3>1, HoldsBoth
    <3> QED BY ONLY <2>4, <3>2
  <2>8. p[k + 1] = c
    <3>1. 1 \in 1 .. 1
      OBVIOUS
    <3> QED BY <2>4, <2>7, <3>1 DEF Holds
  <2>9. Holds(p, k + 1 + c, r) /\ k + 1 + c < Len(p)
    <3>1. k + (1 + c) = k + 1 + c
      BY <1>2, <2>3
    <3>2. k + (1 + c) + Len(r) <= Len(p)
      BY <2>6 DEF Holds
    <3> QED BY <1>1, <1>2, <2>2, <2>3, <2>6, <3>1, <3>2
  <2>10. SubSeq(p, k + 2, k + 1 + c) = b
    <3>1. SubSeq(p, (k + 1) + 1, (k + 1) + c) = b
      BY <2>7, HeldText DEF c
    <3>2. (k + 1) + 1 = k + 2 /\ (k + 1) + c = k + 1 + c
      BY <1>2, <2>3
    <3> QED BY <3>1, <3>2
  <2>11. LabelAt(p, k)
    BY <2>3, <2>8, <2>9 DEF LabelAt
  <2>12. LabelHeld(p, k, s)
    BY <2>1, <2>3, <2>6, <2>8, <2>9, <2>10, <2>11 DEF LabelHeld, b, c, r
  <2> QED BY <1>3, <1>5, <2>12
<1> QED BY <1>4, <1>5

(* The record goes on behind what compile_name() wrote.                     *)
LEMMA EndRead ==
    ASSUME NEW p \in Seq(Bytes), NEW s \in Texts, ShortLabels(s), NEW k, Holds(p, k, compile_name(s))
    PROVE  InPlaceEnd(p)[k] = k + Len(compile_name(s))
<1> DEFINE end == InPlaceEnd(p)
           Good(t) == ShortLabels(t) => \A l : Holds(p, l, compile_name(t)) => end[l] = l + Len(compile_name(t))
           S == {t \in Texts : Good(t)}
<1>0. \A l \in 0 .. Len(p) - 1 : end[l] = EndHere(p, l, end)
  BY EndsOf
<1> HIDE DEF end
<1>1. ASSUME NEW t \in Texts, BeforeDot(t) # << >> => AfterDot(t) \in S
      PROVE  t \in S
  <2>1. ASSUME ShortLabels(t), NEW l, Holds(p, l, compile_name(t))
        PROVE  end[l] = l + Len(compile_name(t))
    <3>1. l \in 0 .. Len(p) - 1 /\ l \in Nat
      BY <2>1, NameHeld
    <3>2. end[l] = EndHere(p, l, end)
      BY <1>0, <3>1
    <3>3. CASE BeforeDot(t) = << >>
      <4>1. p[l + 1] = 0 /\ Len(compile_name(t)) = 1
        BY <2>1, <3>3, NameHeld
      <4> QED BY <3>2, <4>1 DEF EndHere
    <3>4. CASE BeforeDot(t) # << >>
      <4> DEFINE c == Len(BeforeDot(t))
                 rest == compile_name(AfterDot(t))
      <4>1. LabelHeld(p, l, t)
        BY <2>1, <3>4, NameHeld
      <4>2. /\ p[l + 1] = c /\ c \in 1 .. 63 /\ l + 1 + c < Len(p)
            /\ Holds(p, l + 1 + c, rest) /\ Len(compile_name(t)) = 1 + c + Len(rest)
        BY <4>1 DEF LabelHeld, LabelAt
      <4>3. AfterDot(t) \in S /\ ShortLabels(AfterDot(t))
        BY <1>1, <2>1, <3>4, LabelShort
      <4>4. end[l + 1 + c] = l + 1 + c + Len(rest)
        BY <4>2, <4>3
      <4>5. Len(rest) \in Nat
        BY CutAtDot, CompiledSize
      <4> HIDE DEF c, rest
      <4>6. end[l] = end[l + 1 + c]
        <5>1. p[l + 1] # 0 /\ ~(p[l + 1] >= 192)
          BY <4>2
        <5> QED BY <3>2, <4>2, <5>1 DEF EndHere
      <4> QED BY <3>1, <4>2, <4>4, <4>5, <4>6
    <3> QED BY <3>3, <3>4
  <2> QED BY <2>1
<1>2. \A t \in Texts : t \in S
  <2> HIDE DEF S
  <2> QED BY <1>1, TextInduction
<1> QED BY <1>2 DEF end

---------------------------------------------------------------------------
(* A name reads back *)

(* The dots of a name stand between its labels: it is its first label and   *)
(* the name behind it.                                                      *)
LEMMA NameCut ==
    ASSUME NEW s \in Texts, IsName(s), s # << >>
    PROVE  /\ BeforeDot(s) # << >> /\ IsName(AfterDot(s))
           /\ Dotted(s) = BeforeDot(s) \o <<Dot>> \o Dotted(AfterDot(s))
<1>1. s \in Seq(Bytes) /\ Len(s) \in Nat /\ Len(s) >= 1 /\ <<Dot>> \in Seq(Bytes)
  <2>1. s \in Seq(Bytes) /\ <<Dot>> \in Seq(Bytes)
    BY DEF Texts, Dot, Bytes
  <2> QED BY <2>1, SomeText
<1>2. ShortLabels(AfterDot(s))
  BY LabelShort DEF IsName
<1>3. CASE Dots(s) = {}
  <2>1. BeforeDot(s) = s /\ AfterDot(s) = << >>
    BY <1>3 DEF BeforeDot, AfterDot
  <2>2. Dots(<< >>) = {}
    <3>1. DOMAIN << >> = {}
      OBVIOUS
    <3> QED BY <3>1 DEF Dots
  <2>3. IsName(AfterDot(s))
    BY <1>2, <2>1, <2>2 DEF IsName
  <2>4. Dotted(s) = s \o <<Dot>> /\ Dotted(AfterDot(s)) = << >>
    BY <2>1 DEF Dotted
  <2>5. s \o <<Dot>> \o << >> = s \o <<Dot>>
    <3>1. \A t \in Seq(Bytes) : t \o << >> = t
      OBVIOUS
    <3>2. s \o <<Dot>> \in Seq(Bytes)
      BY <1>1, Joined
    <3> QED BY <3>1, <3>2
  <2> QED BY <2>1, <2>3, <2>4, <2>5
<1>4. CASE Dots(s) # {}
  <2> DEFINE m == Min(Dots(s))
             b == BeforeDot(s)
             t == AfterDot(s)
             d == <<Dot>>
  <2>1. /\ m \in 1 .. Len(s) /\ m \in Dots(s) /\ \A k \in Dots(s) : m <= k
        /\ b \in Texts /\ Len(b) = m - 1
        /\ \A k \in 1 .. m - 1 : b[k] = s[k]
        /\ t \in Texts /\ Len(t) = Len(s) - m
        /\ \A k \in 1 .. Len(s) - m : t[k] = s[m + k]
        /\ \A k \in 1 .. Len(s) - m : k \in Dots(t) <=> m + k \in Dots(s)
    BY <1>4, FirstDot
  <2>2. \A k \in Dots(s) : k - 1 \notin Dots(s) /\ k - 1 # 0 /\ k # Len(s)
    BY DEF IsName
  <2>3. d \in Seq(Bytes) /\ Len(d) = 1 /\ d[1] = Dot
    BY <1>1
  <2>4. s[m] = Dot /\ Dots(t) \subseteq 1 .. Len(t)
    BY <2>1 DEF Dots, Texts
  <2>5. b \in Seq(Bytes) /\ t \in Seq(Bytes)
    BY <2>1 DEF Texts
  <2> HIDE DEF m, b, t, d
  <2>6. m - 1 >= 1 /\ Len(s) - m >= 1
    BY <1>1, <2>1, <2>2
  <2>7. b # << >> /\ t # << >>
    BY <2>1, <2>5, <2>6, SomeText
  <2>8. ASSUME NEW k \in Dots(t)
        PROVE  k - 1 \notin Dots(t) /\ k - 1 # 0 /\ k # Len(t)
    <3>1. k \in 1 .. Len(s) - m /\ m + k \in Dots(s)
      BY <2>1, <2>4
    <3>2. (m + k) - 1 \notin Dots(s) /\ m + k # Len(s)
      BY <2>2, <3>1, Zenon
    <3>3. k - 1 # 0
      <4>1. k - 1 = 0 => (m + k) - 1 = m
        BY <2>1, <3>1
      <4> QED BY <2>1, <3>2, <4>1
    <3>4. k - 1 \notin Dots(t)
      <4>1. k - 1 \in 1 .. Len(s) - m /\ m + (k - 1) = (m + k) - 1
        BY <1>1, <2>1, <3>1, <3>3
      <4> QED BY <2>1, <3>2, <4>1
    <3>5. k # Len(t)
      BY <1>1, <2>1, <3>1, <3>2
    <3> QED BY <3>3, <3>4, <3>5
  <2>9. IsName(t)
    BY <1>2, <2>8 DEF IsName, t
  <2>10. s = b \o d \o t
    <3> DEFINE bd == b \o d
               w == bd \o t
    <3>1. /\ bd \in Seq(Bytes) /\ Len(bd) = Len(b) + Len(d)
          /\ \A k \in 1 .. Len(b) + Len(d) : bd[k] = IF k <= Len(b) THEN b[k] ELSE d[k - Len(b)]
      BY <2>3, <2>5, ConcatProperties, Zenon
    <3> HIDE DEF bd
    <3>2. /\ w \in Seq(Bytes) /\ Len(w) = Len(bd) + Len(t)
          /\ \A k \in 1 .. Len(bd) + Len(t) : w[k] = IF k <= Len(bd) THEN bd[k] ELSE t[k - Len(bd)]
      <4>1. bd \in Seq(Bytes) /\ t \in Seq(Bytes)
        BY <2>5, <3>1
      <4> QED BY ONLY <4>1, ConcatProperties
    <3> HIDE DEF w
    <3>3. Len(bd) = m /\ Len(w) = Len(s)
      BY <1>1, <2>1, <2>3, <3>1, <3>2
    <3>4. ASSUME NEW k \in 1 .. Len(s) PROVE w[k] = s[k]
      <4>1. k \in 1 .. Len(bd) + Len(t)
        BY <1>1, <2>1, <3>3
      <4>2. CASE k < m
        <5>1. k \in 1 .. Len(b) + Len(d) /\ k <= Len(b) /\ k <= Len(bd) /\ k \in 1 .. m - 1
          BY <2>1, <2>3, <3>3, <4>2
        <5> QED BY <2>1, <3>1, <3>2, <4>1, <5>1
      <4>3. CASE k = m
        <5>1. k \in 1 .. Len(b) + Len(d) /\ ~(k <= Len(b)) /\ k <= Len(bd) /\ k - Len(b) = 1
          BY <2>1, <2>3, <3>3, <4>3
        <5> QED BY <2>3, <2>4, <3>1, <3>2, <4>1, <4>3, <5>1
      <4>4. CASE k > m
        <5>1. ~(k <= Len(bd)) /\ k - Len(bd) \in 1 .. Len(s) - m /\ m + (k - Len(bd)) = k
          BY <1>1, <2>1, <3>3, <4>4
        <5> QED BY <2>1, <3>2, <4>1, <5>1
      <4> QED BY <2>1, <4>2, <4>3, <4>4
    <3>5. w = [k \in 1 .. Len(s) |-> w[k]] /\ s = [k \in 1 .. Len(s) |-> s[k]]
      BY <1>1, <3>2, <3>3
    <3>6. w = s
      BY <3>4, <3>5, Zenon
    <3> QED BY <3>6 DEF w, bd
  <2>11. Dotted(s) = b \o d \o Dotted(t)
    <3>1. Dotted(s) = s \o d /\ Dotted(t) = t \o d
      BY <2>7 DEF Dotted, d
    <3> DEFINE bd == b \o d
    <3>2. bd \in Seq(Bytes)
      BY <2>3, <2>5, Joined
    <3> HIDE DEF bd
    <3>3. \A x, y, z \in Seq(Bytes) : (x \o y) \o z = x \o (y \o z)
      OBVIOUS
    <3>4. (bd \o t) \o d = bd \o (t \o d)
      BY <2>3, <2>5, <3>2, <3>3, Zenon
    <3> QED BY <2>10, <3>1, <3>4 DEF bd
  <2> QED BY <2>7, <2>9, <2>11 DEF b, d, t
<1> QED BY <1>3, <1>4

(* What compile_name() wrote reads as the name, from as many places as it   *)
(* takes.                                                                   *)
LEMMA NameStands ==
    ASSUME NEW p \in Seq(Bytes), NEW s \in Texts, IsName(s), NEW k, Holds(p, k, compile_name(s))
    PROVE  \A n \in Len(compile_name(s)) .. Len(p) : NamesAt(p)[n][k] = {Dotted(s)}
<1> DEFINE names == NamesAt(p)
           Good(t) == IsName(t) => \A l : Holds(p, l, compile_name(t)) =>
                        \A n \in Len(compile_name(t)) .. Len(p) : names[n][l] = {Dotted(t)}
           S == {t \in Texts : Good(t)}
<1>0. \A n \in 1 .. Len(p) : \A l \in 0 .. Len(p) - 1 : names[n][l] = NamesHere(p, l, names[n - 1])
  BY NamesAtTurns
<1> HIDE DEF names
<1>1. ASSUME NEW t \in Texts, BeforeDot(t) # << >> => AfterDot(t) \in S
      PROVE  t \in S
  <2>1. ASSUME IsName(t), NEW l, Holds(p, l, compile_name(t)), NEW n \in Len(compile_name(t)) .. Len(p)
        PROVE  names[n][l] = {Dotted(t)}
    <3>0. ShortLabels(t)
      BY <2>1 DEF IsName
    <3>1. l \in 0 .. Len(p) - 1 /\ l \in Nat /\ Len(p) \in Nat
      BY <2>1, <3>0, NameHeld
    <3>2. Len(compile_name(t)) \in Nat /\ Len(compile_name(t)) >= 1
      BY CompiledSize
    <3>3. n \in 1 .. Len(p)
      BY <2>1, <3>1, <3>2
    <3>4. names[n][l] = NamesHere(p, l, names[n - 1])
      BY <1>0, <3>1, <3>3
    <3>5. CASE BeforeDot(t) = << >>
      <4>1. p[l + 1] = 0
        BY <2>1, <3>0, <3>5, NameHeld
      <4>2. t = << >>
        BY <2>1, <3>5, NameCut
      <4>3. Dotted(t) = << >>
        BY <4>2 DEF Dotted
      <4> QED BY <3>1, <3>4, <4>1, <4>3, HereOf
    <3>6. CASE BeforeDot(t) # << >>
      <4> DEFINE c == Len(BeforeDot(t))
                 rest == compile_name(AfterDot(t))
                 start == BeforeDot(t) \o <<Dot>>
      <4>1. LabelHeld(p, l, t)
        BY <2>1, <3>0, <3>6, NameHeld
      <4>2. /\ LabelAt(p, l) /\ p[l + 1] = c /\ c \in 1 .. 63
            /\ SubSeq(p, l + 2, l + 1 + c) = BeforeDot(t)
            /\ Holds(p, l + 1 + c, rest) /\ Len(compile_name(t)) = 1 + c + Len(rest)
        BY <4>1 DEF LabelHeld
      <4>3. t # << >>
        <5>1. BeforeDot(<< >>) = << >>
          <6>1. DOMAIN << >> = {} /\ SubSeq(<< >>, 1, Len(<< >>)) = << >>
            OBVIOUS
          <6>2. Dots(<< >>) = {}
            BY <6>1 DEF Dots
          <6> QED BY <6>2 DEF BeforeDot
        <5> QED BY <3>6, <5>1
      <4>4. AfterDot(t) \in S /\ IsName(AfterDot(t)) /\ Dotted(t) = start \o Dotted(AfterDot(t))
        BY <1>1, <2>1, <3>6, <4>3, NameCut
      <4>5. Len(rest) \in Nat
        BY CutAtDot, CompiledSize
      <4>6. n - 1 \in Len(rest) .. Len(p)
        <5> HIDE DEF c, rest
        <5> QED BY <2>1, <3>1, <3>3, <4>2, <4>5
      <4>7. names[n - 1][l + 1 + c] = {Dotted(AfterDot(t))}
        BY <4>2, <4>4, <4>6
      <4>8. NamesHere(p, l, names[n - 1]) = {start \o r : r \in names[n - 1][l + 1 + c]}
        <5>1. NamesHere(p, l, names[n - 1]) =
                {SubSeq(p, l + 2, l + 1 + p[l + 1]) \o <<Dot>> \o r : r \in names[n - 1][l + 1 + p[l + 1]]}
          BY <3>1, <4>2, HereOf
        <5> QED BY <4>2, <5>1
      <4> HIDE DEF start
      <4> QED BY <3>4, <4>4, <4>7, <4>8
    <3> QED BY <3>5, <3>6
  <2> QED BY <2>1
<1>2. \A t \in Texts : t \in S
  <2> HIDE DEF S
  <2> QED BY <1>1, TextInduction
<1> QED BY <1>2 DEF names

---------------------------------------------------------------------------
(* The records of a reply *)

(* A pointer reads as the name it leads to.                                 *)
LEMMA PointerRead ==
    ASSUME NEW p \in Seq(Bytes), NEW k, NEW x \in 0 .. 63, x < Len(p), Holds(p, k, <<192, x>>)
    PROVE  /\ k \in 0 .. Len(p) - 1 /\ InPlaceEnd(p)[k] = k + 2
           /\ NamesAt(p)[Len(p)][k] = NamesAt(p)[Len(p) - 1][x]
<1> DEFINE s == <<192, x>>
<1>1. Len(s) = 2 /\ s[1] = 192 /\ s[2] = x /\ 1 \in 1 .. 2 /\ 2 \in 1 .. 2 /\ Len(p) \in Nat
  OBVIOUS
<1>2. k \in Nat /\ k + 2 <= Len(p) /\ p[k + 1] = 192 /\ p[k + 2] = x
  <2> HIDE DEF s
  <2> QED BY <1>1 DEF Holds, s
<1>3. k \in 0 .. Len(p) - 1 /\ k + 1 < Len(p)
  BY <1>1, <1>2
<1>4. InPlaceEnd(p)[k] = EndHere(p, k, InPlaceEnd(p))
  BY <1>3, EndsOf
<1>5. InPlaceEnd(p)[k] = k + 2
  BY <1>2, <1>4 DEF EndHere
<1>6. Led(p, k) = x
  <2>1. (192 % 64) * 256 + x = x
    OBVIOUS
  <2> QED BY <1>2, <2>1 DEF Led
<1>7. PointerAt(p, k)
  BY <1>2, <1>3, <1>6 DEF PointerAt
<1>8. Len(p) \in 1 .. Len(p)
  BY <1>1, <1>3
<1>9. NamesAt(p)[Len(p)][k] = NamesHere(p, k, NamesAt(p)[Len(p) - 1])
  BY <1>3, <1>8, NamesAtTurns
<1> QED BY <1>3, <1>5, <1>6, <1>7, <1>9, HereOf

(* The parts of a record.                                                   *)
RecordHeld(p, k, owner, type, rdata) ==
    LET head == k + Len(owner) IN
    /\ k \in Nat /\ Len(owner) \in Nat /\ Len(rdata) \in Nat
    /\ Holds(p, k, owner) /\ Short(p, head) = type
    /\ Short(p, head + 8) = Len(rdata) /\ Holds(p, head + 10, rdata)
    /\ Record(owner, type, rdata) \in Seq(Bytes)
    /\ Len(Record(owner, type, rdata)) = Len(owner) + 10 + Len(rdata)

(* A record is a text.                                                      *)
LEMMA RecordTyped ==
    ASSUME NEW owner \in Seq(Bytes), NEW type \in Nat, NEW rdata \in Seq(Bytes)
    PROVE  Record(owner, type, rdata) \in Seq(Bytes)
<1> DEFINE a == compile_int(type)
           b == compile_int(DNS_CLASS_INET)
           c == DEFAULT_TTL
           d == compile_int(Len(rdata))
<1>1. Len(rdata) \in Nat /\ DNS_CLASS_INET \in Nat
  BY DEF DNS_CLASS_INET
<1>2. a \in Seq(Bytes) /\ b \in Seq(Bytes) /\ d \in Seq(Bytes)
  BY <1>1, IntCompiled
<1>3. c \in Seq(Bytes)
  BY DEF DEFAULT_TTL, Bytes
<1>4. Record(owner, type, rdata) = owner \o a \o b \o c \o d \o rdata
  BY DEF Record
<1> HIDE DEF a, b, c, d
<1>5. owner \o a \o b \o c \o d \o rdata \in Seq(Bytes)
  BY <1>2, <1>3, Joined, Zenon
<1> QED BY <1>4, <1>5

(* The six parts of a record stand one behind the other.                    *)
LEMMA SixParts ==
    ASSUME NEW p \in Seq(Bytes), NEW k \in Nat,
           NEW owner \in Seq(Bytes), NEW a \in Seq(Bytes), NEW b \in Seq(Bytes),
           NEW c \in Seq(Bytes), NEW d \in Seq(Bytes), NEW rdata \in Seq(Bytes),
           Len(a) = 2, Len(b) = 2, Len(c) = 4, Len(d) = 2
    PROVE  LET all == owner \o a \o b \o c \o d \o rdata IN
           /\ Len(all) = Len(owner) + 10 + Len(rdata)
           /\ Holds(p, k, all) =>
                /\ Holds(p, k, owner) /\ Holds(p, k + Len(owner), a)
                /\ Holds(p, k + Len(owner) + 8, d) /\ Holds(p, k + Len(owner) + 10, rdata)
<1>1. Len(owner) \in Nat /\ Len(rdata) \in Nat
  BY Appended
<1>0. owner \o a \in Seq(Bytes) /\ Len(owner \o a) = Len(owner) + Len(a)
  BY ONLY owner \in Seq(Bytes), a \in Seq(Bytes), Appended
<1> DEFINE s1 == owner \o a
<1>2. s1 \in Seq(Bytes) /\ Len(s1) = Len(owner) + 2
  BY <1>0
<1>3. Holds(p, k, s1) => Holds(p, k, owner) /\ Holds(p, k + Len(owner), a)
  BY HoldsBoth
<1> HIDE DEF s1
<1> DEFINE s2 == s1 \o b
<1>4. s2 \in Seq(Bytes) /\ Len(s2) = Len(s1) + 2
  BY ONLY <1>2, b \in Seq(Bytes), Len(b) = 2, Appended
<1>5. Holds(p, k, s2) => Holds(p, k, s1)
  BY <1>2, HoldsBoth
<1> HIDE DEF s2
<1> DEFINE s3 == s2 \o c
<1>6. s3 \in Seq(Bytes) /\ Len(s3) = Len(s2) + 4
  BY ONLY <1>4, c \in Seq(Bytes), Len(c) = 4, Appended
<1>7. Holds(p, k, s3) => Holds(p, k, s2)
  BY <1>4, HoldsBoth
<1> HIDE DEF s3
<1> DEFINE s4 == s3 \o d
<1>8. s4 \in Seq(Bytes) /\ Len(s4) = Len(s3) + 2
  BY ONLY <1>6, d \in Seq(Bytes), Len(d) = 2, Appended
<1>9. Holds(p, k, s4) => Holds(p, k, s3) /\ Holds(p, k + Len(s3), d)
  BY <1>6, HoldsBoth
<1> HIDE DEF s4
<1> DEFINE s5 == s4 \o rdata
<1>10. s5 \in Seq(Bytes) /\ Len(s5) = Len(s4) + Len(rdata)
  BY ONLY <1>8, rdata \in Seq(Bytes), Appended
<1>11. Holds(p, k, s5) => Holds(p, k, s4) /\ Holds(p, k + Len(s4), rdata)
  BY <1>8, HoldsBoth
<1> HIDE DEF s5
<1>12. s5 = owner \o a \o b \o c \o d \o rdata
  BY DEF s1, s2, s3, s4, s5
<1>13. k + Len(s3) = k + Len(owner) + 8 /\ k + Len(s4) = k + Len(owner) + 10 /\ Len(s5) = Len(owner) + 10 + Len(rdata)
  BY <1>1, <1>2, <1>4, <1>6, <1>8, <1>10
<1> QED BY <1>3, <1>5, <1>7, <1>9, <1>11, <1>12, <1>13

(* Where a record was put, each of its fields is found at its place.        *)
LEMMA RecordHolds ==
    ASSUME NEW p \in Seq(Bytes), Len(p) < 65536, NEW k,
           NEW owner \in Seq(Bytes), NEW type \in Nat, type < 65536, NEW rdata \in Seq(Bytes),
           Holds(p, k, Record(owner, type, rdata))
    PROVE  RecordHeld(p, k, owner, type, rdata)
<1> DEFINE a == compile_int(type)
           b == compile_int(DNS_CLASS_INET)
           c == DEFAULT_TTL
           d == compile_int(Len(rdata))
           head == k + Len(owner)
<1>1. Len(rdata) \in Nat /\ Len(owner) \in Nat /\ Len(p) \in Nat /\ DNS_CLASS_INET \in Nat
  BY DEF DNS_CLASS_INET
<1>2. /\ a \in Seq(Bytes) /\ b \in Seq(Bytes) /\ d \in Seq(Bytes)
      /\ Len(a) = 2 /\ Len(b) = 2 /\ Len(d) = 2
  BY <1>1, IntCompiled
<1>3. c \in Seq(Bytes) /\ Len(c) = 4
  BY DEF DEFAULT_TTL, Bytes
<1>4. k \in Nat /\ k + Len(Record(owner, type, rdata)) <= Len(p)
  BY DEF Holds
<1>5. Record(owner, type, rdata) \in Seq(Bytes)
  BY RecordTyped
<1>6. /\ Holds(p, k, owner) /\ Holds(p, head, a)
      /\ Holds(p, head + 8, d) /\ Holds(p, head + 10, rdata)
      /\ Len(Record(owner, type, rdata)) = Len(owner) + 10 + Len(rdata)
  <2> DEFINE all == owner \o a \o b \o c \o d \o rdata
  <2>1. Record(owner, type, rdata) = all
    BY DEF Record
  <2> HIDE DEF a, b, c, d
  <2>2. /\ Len(all) = Len(owner) + 10 + Len(rdata)
        /\ Holds(p, k, all) =>
                /\ Holds(p, k, owner) /\ Holds(p, k + Len(owner), a)
                /\ Holds(p, k + Len(owner) + 8, d) /\ Holds(p, k + Len(owner) + 10, rdata)
    BY ONLY p \in Seq(Bytes), owner \in Seq(Bytes), rdata \in Seq(Bytes), <1>2, <1>3, <1>4, SixParts
  <2> HIDE DEF all
  <2> QED BY <2>1, <2>2
<1> HIDE DEF a, b, c, d
<1>7. Len(rdata) < 65536
  BY <1>1, <1>4, <1>6
<1> HIDE DEF head
<1>8. Short(p, head) = type
  BY <1>6, IntRead DEF a
<1>9. Short(p, head + 8) = Len(rdata)
  BY <1>1, <1>6, <1>7, IntRead DEF d
<1> QED BY <1>1, <1>4, <1>5, <1>6, <1>8, <1>9 DEF RecordHeld, head

(* And how it reads.                                                        *)
LEMMA RecordReads ==
    ASSUME reply \in Seq(Bytes), Len(reply) < 65536, NEW k,
           NEW owner \in Seq(Bytes), NEW type \in Nat, type < 65536, NEW rdata \in Seq(Bytes),
           Holds(reply, k, Record(owner, type, rdata)), InPlaceEnd(reply)[k] = k + Len(owner)
    PROVE  /\ RecordAt(k).owner = NameAt(k) /\ RecordAt(k).type = type
           /\ RecordAt(k).data = IF type = DNS_TYPE_A THEN rdata ELSE NameAt(k + Len(owner) + 10)
           /\ RecordAt(k).next = k + Len(Record(owner, type, rdata))
<1>1. RecordHeld(reply, k, owner, type, rdata)
  BY ONLY reply \in Seq(Bytes), Len(reply) < 65536, owner \in Seq(Bytes), type \in Nat, type < 65536,
          rdata \in Seq(Bytes), Holds(reply, k, Record(owner, type, rdata)), RecordHolds
<1> DEFINE head == k + Len(owner)
           size == Len(rdata)
           rec == RecordAt(k)
<1>2. /\ k \in Nat /\ Len(owner) \in Nat /\ size \in Nat
      /\ Short(reply, head) = type /\ Short(reply, head + 8) = size
      /\ Holds(reply, head + 10, rdata)
      /\ Len(Record(owner, type, rdata)) = Len(owner) + 10 + size
  BY <1>1 DEF RecordHeld
<1>3. /\ rec.owner = NameAt(k) /\ rec.type = Short(reply, head)
      /\ rec.data = IF Short(reply, head) = DNS_TYPE_A
                    THEN SubSeq(reply, head + 11, head + 10 + Short(reply, head + 8))
                    ELSE NameAt(head + 10)
      /\ rec.next = head + 10 + Short(reply, head + 8)
  BY DEF RecordAt
<1> HIDE DEF rec
<1>4. (head + 10) + 1 = head + 11 /\ head + 10 + size = k + Len(Record(owner, type, rdata))
  BY <1>2
<1>5. SubSeq(reply, (head + 10) + 1, (head + 10) + size) = rdata
  <2>1. Holds(reply, head + 10, rdata)
    BY <1>2
  <2> HIDE DEF head
  <2> QED BY <2>1, HeldText
<1>6. rec.data = IF type = DNS_TYPE_A THEN rdata ELSE NameAt(head + 10)
  <2>1. SubSeq(reply, head + 11, head + 10 + size) = rdata
    BY <1>4, <1>5
  <2>2. Short(reply, head) = type /\ Short(reply, head + 8) = size
    BY <1>2
  <2> HIDE DEF head, size
  <2>3. rec.data = IF type = DNS_TYPE_A THEN SubSeq(reply, head + 11, head + 10 + size) ELSE NameAt(head + 10)
    BY <1>3, <2>2
  <2> DEFINE t == SubSeq(reply, head + 11, head + 10 + size)
  <2>4. t = rdata /\ rec.data = IF type = DNS_TYPE_A THEN t ELSE NameAt(head + 10)
    BY <2>1, <2>3
  <2> HIDE DEF t
  <2>5. CASE type = DNS_TYPE_A
    BY <2>4, <2>5
  <2>6. CASE type # DNS_TYPE_A
    BY <2>4, <2>6
  <2> QED BY <2>5, <2>6
<1>7. rec.next = k + Len(Record(owner, type, rdata))
  <2> HIDE DEF head, size
  <2> QED BY <1>2, <1>3, <1>4
<1> QED BY <1>2, <1>3, <1>6, <1>7 DEF rec

(* Sequences one behind the other: the n-th from place[n - 1] to place[n].  *)
Laid(p, place, N, seqs) ==
    /\ place \in [0 .. N -> Nat]
    /\ \A n \in 1 .. N : Holds(p, place[n - 1], seqs[n]) /\ place[n] = place[n - 1] + Len(seqs[n])

(* What FlattenSeq() puts together stands one behind the other.             *)
LEMMA FlattenHeld ==
    ASSUME NEW p \in Seq(Bytes), NEW k, NEW N \in Nat, NEW seqs \in [1 .. N -> Seq(Bytes)],
           Holds(p, k, FlattenSeq(seqs))
    PROVE  \E place : /\ Laid(p, place, N, seqs)
                      /\ place[0] = k /\ place[N] = k + Len(FlattenSeq(seqs))
<1> DEFINE all == FlattenSeq(seqs)
<1>0. k \in Nat /\ Holds(p, k, all)
  BY DEF Holds
<1>1. seqs \in Seq(Seq(Bytes)) /\ Len(seqs) = N
  OBVIOUS
<1>2. PICK f : IsFlattened(f, seqs)
  BY <1>1, FlattenExists
<1>3. \A n \in 1 .. N : f[n] \in Seq(Bytes)
  BY <1>1, <1>2, FlattenExists
<1>4. \A n \in 1 .. N : f[n] = IF n = 1 THEN seqs[n] ELSE f[n - 1] \o seqs[n]
  BY <1>1, <1>2 DEF IsFlattened
<1>5. all = IF N = 0 THEN seqs ELSE f[N]
  <2> DEFINE g == CHOOSE g : IsFlattened(g, seqs)
  <2>1. IsFlattened(g, seqs)
    BY <1>2
  <2>2. all = IF N = 0 THEN seqs ELSE g[N]
    BY <1>1 DEF FlattenSeq, IsFlattened
  <2> HIDE DEF g
  <2>3. \A n \in 1 .. N : g[n] = IF n = 1 THEN seqs[n] ELSE g[n - 1] \o seqs[n]
    BY <1>1, <2>1 DEF IsFlattened
  <2> DEFINE S == {n \in 0 .. N : n = 0 \/ g[n] = f[n]}
  <2>4. 0 \in S
    OBVIOUS
  <2>5. ASSUME NEW n \in 1 .. N, n - 1 \in S PROVE n \in S
    <3>1. n = 1 \/ g[n - 1] = f[n - 1]
      BY <2>5
    <3>2. g[n] = f[n]
      BY <1>4, <2>3, <3>1
    <3> QED BY <3>2
  <2>6. \A n \in 0 .. N : n \in S
    <3> HIDE DEF S
    <3> QED BY <2>4, <2>5, BoundedInduction
  <2>7. N # 0 => g[N] = f[N]
    BY <2>6
  <2> QED BY <2>2, <2>7
<1> HIDE DEF all
<1>6. CASE N = 0
  <2> DEFINE place == [n \in 0 .. 0 |-> k]
  <2>1. Len(all) = 0
    BY <1>1, <1>5, <1>6
  <2>2. place \in [0 .. N -> Nat] /\ place[0] = k /\ place[N] = k + Len(all)
    BY <1>0, <1>6, <2>1
  <2>3. Laid(p, place, N, seqs)
    BY <1>6, <2>2 DEF Laid
  <2> HIDE DEF place
  <2> QED BY <2>2, <2>3 DEF all
<1>7. CASE N # 0
  <2> DEFINE S == {m \in 0 .. N : m < N => Holds(p, k, f[N - m])}
  <2>1. 0 \in S
    BY <1>0, <1>5, <1>7
  <2>2. ASSUME NEW m \in 1 .. N, m - 1 \in S PROVE m \in S
    <3> SUFFICES ASSUME m < N PROVE Holds(p, k, f[N - m])
      OBVIOUS
    <3> DEFINE n == (N - m) + 1
    <3>1. n \in 1 .. N /\ n # 1 /\ n - 1 \in 1 .. N /\ n - 1 = N - m /\ N - (m - 1) = n
      OBVIOUS
    <3>2. Holds(p, k, f[n])
      <4>1. Holds(p, k, f[N - (m - 1)])
        BY <2>2
      <4> HIDE DEF n
      <4> QED BY <3>1, <4>1
    <3> HIDE DEF n
    <3>3. f[n] = f[n - 1] \o seqs[n] /\ f[n - 1] \in Seq(Bytes) /\ seqs[n] \in Seq(Bytes)
      BY <1>3, <1>4, <3>1
    <3>4. Holds(p, k, f[n - 1])
      BY <3>2, <3>3, HoldsBoth
    <3> QED BY <3>1, <3>4
  <2>3. \A m \in 0 .. N : m \in S
    <3> HIDE DEF S
    <3> QED BY <2>1, <2>2, BoundedInduction
  <2>4. ASSUME NEW n \in 1 .. N PROVE Holds(p, k, f[n])
    <3>1. N - n \in 0 .. N /\ N - n < N /\ N - (N - n) = n
      OBVIOUS
    <3>2. Holds(p, k, f[N - (N - n)])
      BY <2>3, <3>1
    <3> QED BY <3>1, <3>2
  <2> DEFINE place == [n \in 0 .. N |-> IF n = 0 THEN k ELSE k + Len(f[n])]
  <2>5. place \in [0 .. N -> Nat] /\ place[0] = k /\ place[N] = k + Len(all)
    <3>1. \A n \in 1 .. N : k + Len(f[n]) \in Nat
      <4>1. \A t \in Seq(Bytes) : k + Len(t) \in Nat
        BY <1>0
      <4> QED BY <1>3, <4>1
    <3> QED BY <1>0, <1>5, <1>7, <3>1
  <2>6. ASSUME NEW n \in 1 .. N
        PROVE  Holds(p, place[n - 1], seqs[n]) /\ place[n] = place[n - 1] + Len(seqs[n])
    <3>1. CASE n = 1
      <4>1. f[n] = seqs[n] /\ place[n - 1] = k /\ place[n] = k + Len(f[n])
        BY <1>4, <3>1
      <4> HIDE DEF place
      <4> QED BY <2>4, <4>1
    <3>2. CASE n # 1
      <4>1. n - 1 \in 1 .. N /\ n - 1 # 0 /\ n # 0 /\ n - 1 \in 0 .. N /\ n \in 0 .. N
        BY <3>2
      <4>2. f[n] = f[n - 1] \o seqs[n] /\ f[n - 1] \in Seq(Bytes) /\ seqs[n] \in Seq(Bytes)
        BY <1>3, <1>4, <3>2, <4>1
      <4>3. place[n - 1] = k + Len(f[n - 1]) /\ place[n] = k + Len(f[n])
        BY <4>1
      <4> HIDE DEF place
      <4>4. Holds(p, k, f[n])
        BY <2>4
      <4>5. Holds(p, k + Len(f[n - 1]), seqs[n]) /\ Len(f[n]) = Len(f[n - 1]) + Len(seqs[n])
        BY <4>2, <4>4, HoldsBoth
      <4>6. Len(f[n - 1]) \in Nat /\ Len(seqs[n]) \in Nat
        BY <4>2
      <4> QED BY <1>0, <4>3, <4>5, <4>6
    <3> QED BY <3>1, <3>2
  <2>7. Laid(p, place, N, seqs)
    <3>1. place \in [0 .. N -> Nat]
      BY <2>5
    <3> HIDE DEF place
    <3> QED BY <2>6, <3>1 DEF Laid
  <2> HIDE DEF place
  <2> QED BY <2>5, <2>7 DEF all
<1> QED BY <1>6, <1>7

(* The records of a reply, each where the last one ends.                    *)
IsRecords(f, n) == f = [m \in 1 .. n |-> RecordAt(IF m = 1 THEN QuestionEnd ELSE f[m - 1].next)]

(* The records of a reply are the values of a function.                     *)
LEMMA RecordsExist ==
    ASSUME NEW N \in Nat
    PROVE  \E f : IsRecords(f, N)
<1> DEFINE S == {n \in 0 .. N : \E f : IsRecords(f, n)}
<1>1. 0 \in S
  <2> DEFINE f == << >>
  <2>1. f = [m \in 1 .. 0 |-> RecordAt(IF m = 1 THEN QuestionEnd ELSE f[m - 1].next)]
    OBVIOUS
  <2>2. IsRecords(f, 0)
    BY <2>1 DEF IsRecords
  <2> HIDE DEF f
  <2> QED BY <2>2
<1>2. ASSUME NEW n \in 1 .. N, n - 1 \in S PROVE n \in S
  <2>1. PICK f : IsRecords(f, n - 1)
    BY <1>2
  <2> DEFINE g == [m \in 1 .. n |-> IF m < n THEN f[m]
                      ELSE RecordAt(IF n = 1 THEN QuestionEnd ELSE f[n - 1].next)]
  <2>2. ASSUME NEW m \in 1 .. n
        PROVE  g[m] = RecordAt(IF m = 1 THEN QuestionEnd ELSE g[m - 1].next)
    <3>1. CASE m = 1
      <4>1. m < n => m \in 1 .. n - 1
        OBVIOUS
      <4>2. m < n => f[m] = RecordAt(QuestionEnd)
        BY <2>1, <3>1, <4>1 DEF IsRecords
      <4>3. ~(m < n) => n = 1
        BY <3>1
      <4> QED BY <3>1, <4>2, <4>3
    <3>2. CASE m # 1
      <4>1. m - 1 \in 1 .. n /\ m - 1 < n /\ n # 1
        BY <3>2
      <4>2. g[m - 1] = f[m - 1]
        BY <4>1
      <4>3. CASE m < n
        <5>1. m \in 1 .. n - 1
          BY <4>3
        <5>2. f[m] = RecordAt(f[m - 1].next)
          BY <2>1, <3>2, <5>1 DEF IsRecords
        <5>3. g[m] = f[m]
          BY <4>3
        <5> HIDE DEF g
        <5> QED BY <3>2, <4>2, <5>2, <5>3
      <4>4. CASE ~(m < n)
        <5>1. m = n
          BY <4>4
        <5>2. g[m] = RecordAt(f[n - 1].next)
          BY <4>1, <5>1
        <5> HIDE DEF g
        <5> QED BY <3>2, <4>2, <5>1, <5>2
      <4> QED BY <4>3, <4>4
    <3> QED BY <3>1, <3>2
  <2>3. g = [m \in 1 .. n |-> g[m]]
    OBVIOUS
  <2> HIDE DEF g
  <2>4. IsRecords(g, n)
    BY <2>2, <2>3 DEF IsRecords
  <2> QED BY <2>4
<1>3. \A n \in 0 .. N : n \in S
  <2> HIDE DEF S
  <2> QED BY <1>1, <1>2, BoundedInduction
<1> QED BY <1>3

(* So each of them begins where the one before it ends.                     *)
LEMMA RecordsOf ==
    ASSUME Count \in Nat
    PROVE  \A n \in 1 .. Count : Records[n] = RecordAt(IF n = 1 THEN QuestionEnd ELSE Records[n - 1].next)
<1> DEFINE f == CHOOSE f : IsRecords(f, Count)
<1>1. IsRecords(f, Count)
  BY RecordsExist
<1>2. Records = [n \in 1 .. Count |-> f[n]]
  BY DEF Records, IsRecords
<1> HIDE DEF f
<1>3. ASSUME NEW n \in 1 .. Count
      PROVE  Records[n] = RecordAt(IF n = 1 THEN QuestionEnd ELSE Records[n - 1].next)
  <2>1. Records[n] = RecordAt(IF n = 1 THEN QuestionEnd ELSE f[n - 1].next)
    BY <1>1, <1>2 DEF IsRecords
  <2>2. n # 1 => Records[n - 1] = f[n - 1]
    <3>1. n # 1 => n - 1 \in 1 .. Count
      OBVIOUS
    <3> QED BY <1>2, <3>1
  <2> QED BY <2>1, <2>2
<1> QED BY <1>3

(* A name, and a pointer to one, as they are read in a reply.               *)
LEMMA NameReads ==
    ASSUME reply \in Seq(Bytes), NEW s \in Texts, IsName(s), NEW k, Holds(reply, k, compile_name(s))
    PROVE  NameAt(k) = Dotted(s) /\ InPlaceEnd(reply)[k] = k + Len(compile_name(s))
<1>1. Len(compile_name(s)) \in Nat /\ Len(reply) \in Nat /\ k \in Nat /\ k + Len(compile_name(s)) <= Len(reply)
  BY CompiledSize DEF Holds
<1>2. Len(reply) \in Len(compile_name(s)) .. Len(reply)
  BY <1>1
<1>3. NamesAt(reply)[Len(reply)][k] = {Dotted(s)}
  BY <1>2, NameStands
<1>4. InPlaceEnd(reply)[k] = k + Len(compile_name(s))
  BY EndRead DEF IsName
<1> QED BY <1>3, <1>4 DEF NameAt

(* A pointer to a name reads as that name.                                  *)
LEMMA PointerReads ==
    ASSUME reply \in Seq(Bytes), NEW s \in Texts, IsName(s), NEW k, NEW x \in 1 .. 63,
           Holds(reply, x, compile_name(s)), Holds(reply, k, <<192, x>>)
    PROVE  NameAt(k) = Dotted(s)
<1>1. /\ Len(compile_name(s)) \in Nat /\ Len(compile_name(s)) >= 1 /\ Len(reply) \in Nat
      /\ x + Len(compile_name(s)) <= Len(reply)
  BY CompiledSize DEF Holds
<1>2. x \in 0 .. 63 /\ x < Len(reply) /\ Len(reply) - 1 \in Len(compile_name(s)) .. Len(reply)
  BY <1>1
<1>3. NamesAt(reply)[Len(reply)][k] = NamesAt(reply)[Len(reply) - 1][x]
  BY <1>2, PointerRead
<1>4. NamesAt(reply)[Len(reply) - 1][x] = {Dotted(s)}
  BY <1>2, NameStands
<1> QED BY <1>3, <1>4 DEF NameAt

(* The records of a reply and what they are made of: type[n] is that of the *)
(* n-th one.  The first M of them have owners that end.                     *)
Placed(place, M, recs, owner, type, rdata) ==
    \A n \in 1 .. M :
        /\ owner[n] \in Seq(Bytes) /\ rdata[n] \in Seq(Bytes) /\ type[n] \in Nat /\ type[n] < 65536
        /\ recs[n] = Record(owner[n], type[n], rdata[n])
        /\ InPlaceEnd(reply)[place[n - 1]] = place[n - 1] + Len(owner[n])

(* How the record at k reads.                                               *)
ReadAs(rec, k, owner, type, rdata, next) ==
    /\ rec.owner = NameAt(k) /\ rec.type = type /\ rec.next = next
    /\ rec.data = IF type = DNS_TYPE_A THEN rdata ELSE NameAt(k + Len(owner) + 10)
    /\ Holds(reply, k, owner) /\ Holds(reply, k + Len(owner) + 10, rdata)

(* Records put one behind the other are what is read from the question on.  *)
LEMMA RecordsRead ==
    ASSUME reply \in Seq(Bytes), Len(reply) < 65536, Count \in Nat, NEW M \in 0 .. Count,
           NEW place, NEW recs, Laid(reply, place, Count, recs), place[0] = QuestionEnd,
           NEW owner, NEW type, NEW rdata, Placed(place, M, recs, owner, type, rdata)
    PROVE  \A n \in 1 .. M : ReadAs(Records[n], place[n - 1], owner[n], type[n], rdata[n], place[n])
<1> DEFINE read(n) == ReadAs(RecordAt(place[n - 1]), place[n - 1], owner[n], type[n], rdata[n], place[n])
<1>1. ASSUME NEW n \in 1 .. M PROVE read(n)
  <2> DEFINE k == place[n - 1]
             o == owner[n]
             t == type[n]
             d == rdata[n]
             next == place[n]
  <2>1. /\ o \in Seq(Bytes) /\ d \in Seq(Bytes) /\ t \in Nat /\ t < 65536
        /\ recs[n] = Record(o, t, d) /\ InPlaceEnd(reply)[k] = k + Len(o)
    BY DEF Placed
  <2>2. Holds(reply, k, recs[n]) /\ next = k + Len(recs[n])
    <3>1. n \in 1 .. Count
      OBVIOUS
    <3> QED BY <3>1 DEF Laid
  <2> HIDE DEF k, o, t, d, next
  <2>3. Holds(reply, k, Record(o, t, d)) /\ next = k + Len(Record(o, t, d))
    BY <2>1, <2>2
  <2>4. /\ RecordAt(k).owner = NameAt(k) /\ RecordAt(k).type = t
        /\ RecordAt(k).data = IF t = DNS_TYPE_A THEN d ELSE NameAt(k + Len(o) + 10)
        /\ RecordAt(k).next = k + Len(Record(o, t, d))
    BY <2>1, <2>3, RecordReads
  <2>5. RecordHeld(reply, k, o, t, d)
    BY <2>1, <2>3, RecordHolds
  <2>6. Holds(reply, k, o) /\ Holds(reply, k + Len(o) + 10, d)
    BY <2>5 DEF RecordHeld
  <2>7. ReadAs(RecordAt(k), k, o, t, d, next)
    BY <2>3, <2>4, <2>6 DEF ReadAs
  <2> QED BY <2>7 DEF k, o, t, d, next
<1> HIDE DEF read
<1>2. ASSUME NEW n \in 1 .. M PROVE RecordAt(place[n - 1]).next = place[n]
  BY <1>1 DEF read, ReadAs
<1> DEFINE S == {n \in 0 .. M : n = 0 \/ Records[n] = RecordAt(place[n - 1])}
<1>3. 0 \in S
  OBVIOUS
<1>4. ASSUME NEW n \in 1 .. M, n - 1 \in S PROVE n \in S
  <2>1. n \in 1 .. Count
    OBVIOUS
  <2>2. Records[n] = RecordAt(IF n = 1 THEN QuestionEnd ELSE Records[n - 1].next)
    BY <2>1, RecordsOf
  <2>3. n = 1 => place[n - 1] = QuestionEnd
    OBVIOUS
  <2>4. n # 1 => Records[n - 1].next = place[n - 1]
    <3> SUFFICES ASSUME n # 1 PROVE Records[n - 1].next = place[n - 1]
      OBVIOUS
    <3>1. n - 1 \in 1 .. M /\ n - 1 # 0
      OBVIOUS
    <3>2. Records[n - 1] = RecordAt(place[(n - 1) - 1])
      BY <1>4, <3>1
    <3>3. RecordAt(place[(n - 1) - 1]).next = place[n - 1]
      BY <1>2, <3>1
    <3> QED BY <3>2, <3>3
  <2>5. Records[n] = RecordAt(place[n - 1])
    BY <2>2, <2>3, <2>4
  <2> QED BY <2>5
<1>5. \A n \in 0 .. M : n \in S
  <2>1. M \in Nat
    OBVIOUS
  <2> HIDE DEF S
  <2>2. \A n \in 1 .. M : n - 1 \in S => n \in S
    BY <1>4
  <2> QED BY ONLY <1>3, <2>1, <2>2, BoundedInduction
<1>6. ASSUME NEW n \in 1 .. M PROVE Records[n] = RecordAt(place[n - 1])
  BY <1>5
<1> QED BY <1>1, <1>6 DEF read

(* Each takes a byte at least.                                              *)
LEMMA LaidGrows ==
    ASSUME NEW p, NEW place, NEW N \in Nat, NEW seqs, Laid(p, place, N, seqs),
           \A n \in 1 .. N : Len(seqs[n]) \in Nat /\ Len(seqs[n]) >= 1
    PROVE  place[0] + N <= place[N]
<1> DEFINE S == {n \in 0 .. N : place[0] + n <= place[n]}
<1>1. place \in [0 .. N -> Nat] /\ \A n \in 1 .. N : place[n] = place[n - 1] + Len(seqs[n])
  BY DEF Laid
<1>2. 0 \in S
  BY <1>1
<1>3. ASSUME NEW n \in 1 .. N, n - 1 \in S PROVE n \in S
  <2>1. n - 1 \in 0 .. N /\ n \in 0 .. N /\ 0 \in 0 .. N
    OBVIOUS
  <2>2. place[0] \in Nat /\ place[n] \in Nat /\ place[n - 1] \in Nat
    BY <1>1, <2>1
  <2>3. place[0] + (n - 1) <= place[n - 1]
    BY <1>3
  <2>4. place[n] = place[n - 1] + Len(seqs[n]) /\ Len(seqs[n]) \in Nat /\ Len(seqs[n]) >= 1
    BY <1>1
  <2>5. place[0] + n <= place[n]
    BY <2>2, <2>3, <2>4
  <2> QED BY <2>1, <2>5
<1>4. \A n \in 0 .. N : n \in S
  <2> HIDE DEF S
  <2>1. \A n \in 1 .. N : n - 1 \in S => n \in S
    BY <1>3
  <2> QED BY ONLY N \in Nat, <1>2, <2>1, BoundedInduction
<1> QED BY <1>4

(* Answers, and servers behind them.                                        *)
Both(a, N, b, M) == [n \in 1 .. N + M |-> IF n <= N THEN a[n] ELSE b[n - N]]

(* Two rows of sequences, one behind the other, are one row.                *)
LEMMA LaidBoth ==
    ASSUME NEW p, NEW N \in Nat, NEW M \in Nat, NEW a, NEW b, NEW x, NEW y,
           Laid(p, x, N, a), Laid(p, y, M, b), x[N] = y[0]
    PROVE  \E place : /\ Laid(p, place, N + M, Both(a, N, b, M))
                      /\ place[0] = x[0] /\ place[N + M] = y[M]
<1> DEFINE both == Both(a, N, b, M)
           place == [n \in 0 .. N + M |-> IF n <= N THEN x[n] ELSE y[n - N]]
<1>1. /\ x \in [0 .. N -> Nat] /\ y \in [0 .. M -> Nat]
      /\ \A n \in 1 .. N : Holds(p, x[n - 1], a[n]) /\ x[n] = x[n - 1] + Len(a[n])
      /\ \A n \in 1 .. M : Holds(p, y[n - 1], b[n]) /\ y[n] = y[n - 1] + Len(b[n])
  BY DEF Laid
<1>2. place \in [0 .. N + M -> Nat]
  <2>1. ASSUME NEW n \in 0 .. N + M PROVE place[n] \in Nat
    <3>1. n <= N => n \in 0 .. N
      OBVIOUS
    <3>2. ~(n <= N) => n - N \in 0 .. M
      OBVIOUS
    <3> QED BY <1>1, <3>1, <3>2
  <2> QED BY <2>1
<1>3. place[0] = x[0] /\ place[N + M] = y[M]
  <2>1. 0 \in 0 .. N + M /\ 0 <= N /\ N + M \in 0 .. N + M
    OBVIOUS
  <2>2. CASE M = 0
    <3>1. N + M <= N /\ N + M = N
      BY <2>2
    <3>2. place[N + M] = x[N]
      BY <2>1, <3>1
    <3>3. y[M] = y[0]
      BY <2>2
    <3> QED BY <2>1, <3>2, <3>3
  <2>3. CASE M # 0
    <3>1. ~(N + M <= N) /\ (N + M) - N = M
      BY <2>3
    <3> QED BY <2>1, <3>1
  <2> QED BY <2>2, <2>3
<1>4. ASSUME NEW n \in 1 .. N + M
      PROVE  Holds(p, place[n - 1], both[n]) /\ place[n] = place[n - 1] + Len(both[n])
  <2>0. n - 1 \in 0 .. N + M /\ n \in 0 .. N + M
    OBVIOUS
  <2>1. CASE n <= N
    <3>1. n \in 1 .. N /\ n - 1 <= N
      BY <2>1
    <3>2. place[n] = x[n] /\ place[n - 1] = x[n - 1] /\ both[n] = a[n]
      BY <2>0, <2>1, <3>1 DEF Both
    <3> HIDE DEF place, both
    <3> QED BY <1>1, <3>1, <3>2
  <2>2. CASE ~(n <= N)
    <3> DEFINE l == n - N
    <3>1. l \in 1 .. M
      BY <2>2
    <3>2. place[n] = y[l] /\ both[n] = b[l]
      BY <2>0, <2>2 DEF Both
    <3>3. place[n - 1] = y[l - 1]
      <4>1. CASE n - 1 <= N
        <5>1. n - 1 = N /\ l - 1 = 0
          BY <2>2, <4>1
        <5>2. place[n - 1] = x[N]
          BY <2>0, <4>1, <5>1
        <5> HIDE DEF l, place
        <5> QED BY <5>1, <5>2
      <4>2. CASE ~(n - 1 <= N)
        <5>1. place[n - 1] = y[(n - 1) - N] /\ (n - 1) - N = l - 1
          BY <2>0, <4>2
        <5> HIDE DEF place, l
        <5> QED BY <5>1
      <4> QED BY <4>1, <4>2
    <3> HIDE DEF place, both, l
    <3> QED BY <1>1, <3>1, <3>2, <3>3
  <2> QED BY <2>1, <2>2
<1>5. Laid(p, place, N + M, both)
  <2> HIDE DEF place, both
  <2> QED BY <1>2, <1>4 DEF Laid
<1> HIDE DEF place
<1> QED BY <1>3, <1>5

(* The parts of a reply.                                                    *)
HeaderHeld(p, id, flags, an, ns, question, answers, servers) ==
    /\ Holds(p, 0, id) /\ Holds(p, 2, flags) /\ Holds(p, 6, an) /\ Holds(p, 8, ns)
    /\ Holds(p, 12, question) /\ Holds(p, 12 + Len(question), answers)
    /\ Holds(p, 12 + Len(question) + Len(answers), servers)
    /\ 12 + Len(question) + Len(answers) + Len(servers) = Len(p)

(* Two texts at the beginning of a packet.                                  *)
LEMMA TwoParts ==
    ASSUME NEW p, NEW s \in Seq(Bytes), NEW t \in Seq(Bytes)
    PROVE  /\ s \o t \in Seq(Bytes) /\ Len(s \o t) = Len(s) + Len(t)
           /\ Len(s) \in Nat /\ Len(t) \in Nat
           /\ p \in Seq(Bytes) /\ Holds(p, 0, s \o t) => Holds(p, 0, s) /\ Holds(p, Len(s), t)
<1>1. s \o t \in Seq(Bytes) /\ Len(s \o t) = Len(s) + Len(t) /\ Len(s) \in Nat /\ Len(t) \in Nat
  BY Appended
<1>2. ASSUME p \in Seq(Bytes), Holds(p, 0, s \o t) PROVE Holds(p, 0, s) /\ Holds(p, Len(s), t)
  <2>1. Holds(p, 0, s) /\ Holds(p, 0 + Len(s), t)
    BY <1>2, HoldsBoth
  <2>2. 0 + Len(s) = Len(s)
    BY <1>1
  <2> QED BY <2>1, <2>2
<1> QED BY <1>1, <1>2

(* The header of a reply and the three sections behind it.                  *)
LEMMA NineParts ==
    ASSUME NEW id \in Seq(Bytes), NEW flags \in Seq(Bytes), NEW qd \in Seq(Bytes),
           NEW an \in Seq(Bytes), NEW ns \in Seq(Bytes), NEW ar \in Seq(Bytes),
           NEW question \in Seq(Bytes), NEW answers \in Seq(Bytes), NEW servers \in Seq(Bytes),
           Len(id) = 2, Len(flags) = 2, Len(qd) = 2, Len(an) = 2, Len(ns) = 2, Len(ar) = 2
    PROVE  LET p == id \o flags \o qd \o an \o ns \o ar \o question \o answers \o servers IN
           p \in Seq(Bytes) /\ HeaderHeld(p, id, flags, an, ns, question, answers, servers)
<1>a. /\ id \o flags \in Seq(Bytes) /\ Len(id \o flags) = Len(id) + Len(flags)
      /\ \A x : x \in Seq(Bytes) /\ Holds(x, 0, id \o flags) => Holds(x, 0, id) /\ Holds(x, Len(id), flags)
  BY ONLY id \in Seq(Bytes), flags \in Seq(Bytes), TwoParts
<1> DEFINE p == id \o flags \o qd \o an \o ns \o ar \o question \o answers \o servers
           In(s) == p \in Seq(Bytes) /\ Holds(p, 0, s)
           s1 == id \o flags
           s2 == s1 \o qd
           s3 == s2 \o an
           s4 == s3 \o ns
           s5 == s4 \o ar
           s6 == s5 \o question
           s7 == s6 \o answers
           s8 == s7 \o servers
<1>0. p = s8
  OBVIOUS
<1> HIDE DEF p
<1>1. s1 \in Seq(Bytes) /\ Len(s1) = Len(id) + Len(flags) /\ (In(s1) => Holds(p, 0, id) /\ Holds(p, Len(id), flags))
  BY ONLY <1>a, Zenon
<1> HIDE DEF s1
<1>2. s2 \in Seq(Bytes) /\ Len(s2) = Len(s1) + Len(qd) /\ (In(s2) => Holds(p, 0, s1))
  BY ONLY <1>1, qd \in Seq(Bytes), TwoParts
<1> HIDE DEF s2
<1>3. s3 \in Seq(Bytes) /\ Len(s3) = Len(s2) + Len(an) /\ (In(s3) => Holds(p, 0, s2) /\ Holds(p, Len(s2), an))
  BY ONLY <1>2, an \in Seq(Bytes), TwoParts
<1> HIDE DEF s3
<1>4. s4 \in Seq(Bytes) /\ Len(s4) = Len(s3) + Len(ns) /\ (In(s4) => Holds(p, 0, s3) /\ Holds(p, Len(s3), ns))
  BY ONLY <1>3, ns \in Seq(Bytes), TwoParts
<1> HIDE DEF s4
<1>5. s5 \in Seq(Bytes) /\ Len(s5) = Len(s4) + Len(ar) /\ (In(s5) => Holds(p, 0, s4))
  BY ONLY <1>4, ar \in Seq(Bytes), TwoParts
<1> HIDE DEF s5
<1>6. /\ s6 \in Seq(Bytes) /\ Len(s6) = Len(s5) + Len(question) /\ Len(question) \in Nat
      /\ In(s6) => Holds(p, 0, s5) /\ Holds(p, Len(s5), question)
  BY ONLY <1>5, question \in Seq(Bytes), TwoParts
<1> HIDE DEF s6
<1>7. /\ s7 \in Seq(Bytes) /\ Len(s7) = Len(s6) + Len(answers) /\ Len(answers) \in Nat
      /\ In(s7) => Holds(p, 0, s6) /\ Holds(p, Len(s6), answers)
  BY ONLY <1>6, answers \in Seq(Bytes), TwoParts
<1> HIDE DEF s7
<1>8. /\ s8 \in Seq(Bytes) /\ Len(s8) = Len(s7) + Len(servers) /\ Len(servers) \in Nat
      /\ In(s8) => Holds(p, 0, s7) /\ Holds(p, Len(s7), servers)
  BY ONLY <1>7, servers \in Seq(Bytes), TwoParts
<1> HIDE DEF s8
<1>9. p \in Seq(Bytes) /\ Holds(p, 0, s8)
  BY <1>0, <1>8, HoldsAll
<1>10. /\ Holds(p, 0, id) /\ Holds(p, Len(id), flags) /\ Holds(p, Len(s2), an) /\ Holds(p, Len(s3), ns)
       /\ Holds(p, Len(s5), question) /\ Holds(p, Len(s6), answers) /\ Holds(p, Len(s7), servers)
  BY ONLY <1>1, <1>2, <1>3, <1>4, <1>5, <1>6, <1>7, <1>8, <1>9, Zenon
<1>11. /\ Len(id) = 2 /\ Len(s2) = 6 /\ Len(s3) = 8 /\ Len(s5) = 12 /\ Len(s6) = 12 + Len(question)
       /\ Len(s7) = 12 + Len(question) + Len(answers)
       /\ Len(p) = 12 + Len(question) + Len(answers) + Len(servers)
  <2>1. /\ Len(s1) = Len(id) + Len(flags) /\ Len(s2) = Len(s1) + Len(qd) /\ Len(s3) = Len(s2) + Len(an)
        /\ Len(s4) = Len(s3) + Len(ns) /\ Len(s5) = Len(s4) + Len(ar) /\ Len(s6) = Len(s5) + Len(question)
        /\ Len(s7) = Len(s6) + Len(answers) /\ Len(s8) = Len(s7) + Len(servers)
        /\ Len(question) \in Nat /\ Len(answers) \in Nat /\ Len(servers) \in Nat
    BY ONLY <1>1, <1>2, <1>3, <1>4, <1>5, <1>6, <1>7, <1>8, Zenon
  <2>2. Len(s1) = 4 /\ Len(s2) = 6 /\ Len(s3) = 8 /\ Len(s4) = 10 /\ Len(s5) = 12
    BY <2>1
  <2> QED BY <1>0, <2>1, <2>2
<1>12. HeaderHeld(p, id, flags, an, ns, question, answers, servers)
  BY <1>10, <1>11, Zenon DEF HeaderHeld
<1> QED BY <1>9, <1>12 DEF p

(* The question of a reply.                                                 *)
Asked(q) == q.name \in Texts /\ q.type \in Nat /\ q.type < 65536 /\ q.class \in Nat

(* Where a question was put, its name and its type are found.               *)
LEMMA QuestionHolds ==
    ASSUME NEW q, Asked(q)
    PROVE  /\ begin_assembly(q) \in Seq(Bytes) /\ Len(compile_name(q.name)) \in Nat
           /\ Len(begin_assembly(q)) = Len(compile_name(q.name)) + 4
           /\ \A p \in Seq(Bytes) : \A k : Holds(p, k, begin_assembly(q)) =>
                /\ Holds(p, k, compile_name(q.name))
                /\ Short(p, k + Len(compile_name(q.name))) = q.type
<1> DEFINE name == compile_name(q.name)
           type == compile_int(q.type)
           class == compile_int(q.class)
<1>1. begin_assembly(q) = name \o type \o class
  BY DEF begin_assembly
<1>2. name \in Seq(Bytes) /\ Len(name) \in Nat
  BY CompiledSize DEF Asked
<1>3. /\ type \in Seq(Bytes) /\ Len(type) = 2 /\ class \in Seq(Bytes) /\ Len(class) = 2
      /\ \A p \in Seq(Bytes) : \A k : Holds(p, k, type) => Short(p, k) = q.type
  BY IntCompiled, IntRead DEF Asked
<1> HIDE DEF name, type, class
<1>4. name \o type \in Seq(Bytes) /\ Len(name \o type) = Len(name) + 2
  BY ONLY <1>2, <1>3, TwoParts
<1>5. \A p \in Seq(Bytes) : \A k : Holds(p, k, name \o type) => Holds(p, k, name) /\ Holds(p, k + Len(name), type)
  BY <1>2, <1>3, HoldsBoth
<1> DEFINE front == name \o type
<1> HIDE DEF front
<1>6. front \in Seq(Bytes) /\ Len(front) = Len(name) + 2
  BY <1>4 DEF front
<1>7. front \o class \in Seq(Bytes) /\ Len(front \o class) = Len(front) + 2
  BY ONLY <1>3, <1>6, TwoParts
<1>8. \A p \in Seq(Bytes) : \A k : Holds(p, k, front \o class) => Holds(p, k, front)
  BY <1>3, <1>6, HoldsBoth
<1>9. begin_assembly(q) = front \o class
  BY <1>1 DEF front
<1>10. Len(front \o class) = Len(name) + 4
  BY <1>2, <1>6, <1>7
<1>11. begin_assembly(q) \in Seq(Bytes) /\ Len(begin_assembly(q)) = Len(name) + 4
  BY <1>7, <1>9, <1>10, Zenon
<1>12. ASSUME NEW p \in Seq(Bytes), NEW k, Holds(p, k, begin_assembly(q))
       PROVE  Holds(p, k, name) /\ Short(p, k + Len(name)) = q.type
  <2>1. Holds(p, k, front)
    BY <1>8, <1>9, <1>12, Zenon
  <2>2. Holds(p, k, name) /\ Holds(p, k + Len(name), type)
    BY <1>5, <2>1, Zenon DEF front
  <2> QED BY <1>3, <2>2, Zenon
<1> QED BY <1>2, <1>11, <1>12, Zenon DEF name

(* And the question of a reply is the one that was put there.               *)
LEMMA QuestionReads ==
    ASSUME reply \in Seq(Bytes), NEW q, Asked(q), Holds(reply, PACKET_DATABEGIN, begin_assembly(q)),
           ShortLabels(q.name)
    PROVE  /\ QuestionEnd = PACKET_DATABEGIN + Len(begin_assembly(q))
           /\ Short(reply, QuestionEnd - 4) = q.type
           /\ Holds(reply, PACKET_DATABEGIN, compile_name(q.name))
           /\ IsName(q.name) => QuestionName = Dotted(q.name)
<1> DEFINE c == Len(compile_name(q.name))
<1>1. /\ c \in Nat /\ Len(begin_assembly(q)) = c + 4
      /\ Holds(reply, PACKET_DATABEGIN, compile_name(q.name)) /\ Short(reply, PACKET_DATABEGIN + c) = q.type
  BY QuestionHolds
<1>2. q.name \in Texts
  BY DEF Asked
<1>3. InPlaceEnd(reply)[PACKET_DATABEGIN] = PACKET_DATABEGIN + c
  BY <1>1, <1>2, EndRead
<1>4. IsName(q.name) => QuestionName = Dotted(q.name)
  BY <1>1, <1>2, NameReads DEF QuestionName
<1> HIDE DEF c
<1>5. QuestionEnd = PACKET_DATABEGIN + c + 4
  BY <1>3 DEF QuestionEnd
<1>6. PACKET_DATABEGIN \in Nat
  BY DEF PACKET_DATABEGIN
<1>7. QuestionEnd - 4 = PACKET_DATABEGIN + c /\ QuestionEnd = PACKET_DATABEGIN + (c + 4)
  BY <1>1, <1>5, <1>6
<1> QED BY <1>1, <1>4, <1>7

(* The parts of a reply with N answers and M servers.                       *)
ReplyHeld(id, aa, q, N, answers, M, servers) ==
    /\ SubSeq(reply, 1, 2) = id /\ reply[3] = 128 + 4 * aa
    /\ Ancount = N /\ Count = N + M
    /\ Holds(reply, PACKET_DATABEGIN, begin_assembly(q))
    /\ \E place : /\ Laid(reply, place, N + M, Both(answers, N, servers, M))
                  /\ place[0] = PACKET_DATABEGIN + Len(begin_assembly(q)) /\ place[N + M] = Len(reply)

(* Sequences of texts with something in them.                               *)
Parts(N, seqs) == seqs \in [1 .. N -> Seq(Bytes)] /\ \A n \in 1 .. N : Len(seqs[n]) >= 1

(* What end_assembly() returns: the counts of its header are those of the   *)
(* records, and the records stand behind the question.                      *)
LEMMA ReplyHolds ==
    ASSUME NEW id \in Seq(Bytes), Len(id) = 2, NEW aa \in {0, 1}, NEW q, Asked(q),
           NEW N \in Nat, NEW answers, Parts(N, answers), NEW M \in Nat, NEW servers, Parts(M, servers),
           reply = end_assembly(id, aa, 0, begin_assembly(q), answers, servers),
           Len(reply) <= PACKET_ASSEMBLYSIZE
    PROVE  reply \in Seq(Bytes) /\ ReplyHeld(id, aa, q, N, answers, M, servers)
<1> DEFINE flags == <<128 + 4 * aa, 0>>
           qd == compile_int(1)
           an == compile_int(Len(answers))
           ns == compile_int(Len(servers))
           ar == compile_int(0)
           question == begin_assembly(q)
           f == FlattenSeq(answers)
           g == FlattenSeq(servers)
<1>1. reply = id \o flags \o qd \o an \o ns \o ar \o question \o f \o g
  BY DEF end_assembly
<1>2. Len(answers) = N /\ Len(servers) = M
  BY DEF Parts
<1>3. flags \in Seq(Bytes) /\ Len(flags) = 2 /\ flags[1] = 128 + 4 * aa
  BY DEF Bytes
<1>4. /\ qd \in Seq(Bytes) /\ an \in Seq(Bytes) /\ ns \in Seq(Bytes) /\ ar \in Seq(Bytes)
      /\ Len(qd) = 2 /\ Len(an) = 2 /\ Len(ns) = 2 /\ Len(ar) = 2
  BY <1>2, IntCompiled
<1>5. question \in Seq(Bytes)
  BY QuestionHolds
<1>6. f \in Seq(Bytes) /\ g \in Seq(Bytes)
  BY FlattenOf DEF Parts
<1> HIDE DEF flags, qd, an, ns, ar, question, f, g
<1>7. reply \in Seq(Bytes) /\ HeaderHeld(reply, id, flags, an, ns, question, f, g)
  <2> DEFINE p == id \o flags \o qd \o an \o ns \o ar \o question \o f \o g
  <2>1. p \in Seq(Bytes) /\ HeaderHeld(p, id, flags, an, ns, question, f, g)
    BY ONLY id \in Seq(Bytes), Len(id) = 2, <1>3, <1>4, <1>5, <1>6, NineParts
  <2> HIDE DEF p
  <2>2. reply = p
    BY <1>1 DEF p
  <2> QED BY <2>1, <2>2, Zenon
<1>8. SubSeq(reply, 1, 2) = id
  <2>1. Holds(reply, 0, id) /\ 0 + 1 = 1 /\ 0 + 2 = 2
    BY <1>7 DEF HeaderHeld
  <2>2. SubSeq(reply, 0 + 1, 0 + Len(id)) = id
    BY ONLY <1>7, <2>1, HeldText
  <2> QED BY <2>1, <2>2
<1>9. reply[3] = 128 + 4 * aa
  <2>1. 1 \in 1 .. 2 /\ 2 + 1 = 3
    OBVIOUS
  <2>2. Holds(reply, 2, flags)
    BY <1>7 DEF HeaderHeld
  <2> QED BY <1>3, <2>1, <2>2 DEF Holds
<1> DEFINE start == 12 + Len(question)
           between == start + Len(f)
<1>10. PICK x : Laid(reply, x, N, answers) /\ x[0] = start /\ x[N] = between
  <2>1. Holds(reply, start, f)
    BY <1>7 DEF HeaderHeld
  <2>2. answers \in [1 .. N -> Seq(Bytes)]
    BY DEF Parts
  <2> HIDE DEF start
  <2> HIDE DEF between
  <2>3. \E x : Laid(reply, x, N, answers) /\ x[0] = start /\ x[N] = start + Len(FlattenSeq(answers))
    <3>1. reply \in Seq(Bytes) /\ N \in Nat /\ Holds(reply, start, FlattenSeq(answers))
      BY <1>7, <2>1 DEF f
    <3> QED BY ONLY <2>2, <3>1, FlattenHeld
  <2> QED BY <2>3 DEF between, f
<1>11. PICK y : Laid(reply, y, M, servers) /\ y[0] = between /\ y[M] = Len(reply)
  <2>1. Holds(reply, between, g) /\ between + Len(g) = Len(reply)
    BY <1>7 DEF HeaderHeld
  <2>2. servers \in [1 .. M -> Seq(Bytes)]
    BY DEF Parts
  <2> HIDE DEF between
  <2>3. \E y : Laid(reply, y, M, servers) /\ y[0] = between /\ y[M] = between + Len(FlattenSeq(servers))
    <3>1. reply \in Seq(Bytes) /\ M \in Nat /\ Holds(reply, between, FlattenSeq(servers))
      BY <1>7, <2>1 DEF g
    <3> QED BY ONLY <2>2, <3>1, FlattenHeld
  <2> QED BY <2>1, <2>3 DEF g
<1> HIDE DEF start, between
<1>12. N < 65536 /\ M < 65536
  <2>1. x[0] + N <= x[N] /\ y[0] + M <= y[M]
    <3>1. \A t \in Seq(Bytes) : Len(t) \in Nat
      OBVIOUS
    <3>2. \A n \in 1 .. N : Len(answers[n]) \in Nat /\ Len(answers[n]) >= 1
      BY <3>1 DEF Parts
    <3>3. \A n \in 1 .. M : Len(servers[n]) \in Nat /\ Len(servers[n]) >= 1
      BY <3>1 DEF Parts
    <3>4. x[0] + N <= x[N]
      BY <1>10, <3>2, LaidGrows
    <3>5. y[0] + M <= y[M]
      BY <1>11, <3>3, LaidGrows
    <3> QED BY <3>4, <3>5
  <2>2. x[0] \in Nat /\ y[0] \in Nat
    <3>1. 0 \in 0 .. N /\ 0 \in 0 .. M
      OBVIOUS
    <3> QED BY <1>10, <1>11, <3>1 DEF Laid
  <2>3. x[N] = y[0] /\ y[M] <= 600
    BY <1>10, <1>11 DEF PACKET_ASSEMBLYSIZE
  <2>4. y[M] \in Nat
    BY <1>7, <1>11
  <2> QED BY <2>1, <2>2, <2>3, <2>4
<1>13. Ancount = N /\ Short(reply, 8) = M
  <2>1. Holds(reply, 6, an) /\ Holds(reply, 8, ns)
    BY <1>7 DEF HeaderHeld
  <2>2. Holds(reply, 6, compile_int(N)) /\ Holds(reply, 8, compile_int(M))
    BY <1>2, <2>1 DEF an, ns
  <2> QED BY <1>7, <1>12, <2>2, IntRead DEF Ancount
<1>14. Count = N + M
  BY <1>13 DEF Count, Ancount
<1>15. PICK place : /\ Laid(reply, place, N + M, Both(answers, N, servers, M))
                    /\ place[0] = x[0] /\ place[N + M] = y[M]
  BY <1>10, <1>11, LaidBoth
<1>16. Holds(reply, PACKET_DATABEGIN, question)
  BY <1>7 DEF HeaderHeld, PACKET_DATABEGIN
<1>17. place[0] = PACKET_DATABEGIN + Len(question) /\ place[N + M] = Len(reply)
  BY <1>10, <1>11, <1>15 DEF start, PACKET_DATABEGIN
<1> QED BY <1>7, <1>8, <1>9, <1>13, <1>14, <1>15, <1>16, <1>17 DEF ReplyHeld, question

---------------------------------------------------------------------------
(* The servers of a name *)

(* No two places of a set have the same rank.                               *)
Rank(S, n) == Cardinality({m \in S : m <= n})

(* Ranks count from one, and the element of a rank is the only one.         *)
LEMMA RankOnce ==
    ASSUME NEW N \in Nat, NEW S \in SUBSET (1 .. N), NEW n \in S
    PROVE  /\ Rank(S, n) \in 1 .. Cardinality(S)
           /\ \A k \in S : Rank(S, k) = Rank(S, n) => k = n
           /\ n = Min(S) => Rank(S, n) = 1
<1> DEFINE upto(k) == {m \in S : m <= k}
<1>1. IsFiniteSet(S) /\ Cardinality(S) \in Nat
  <2>1. IsFiniteSet(1 .. N)
    BY FS_Interval
  <2> QED BY <2>1, FS_Subset, FS_CardinalityType
<1>2. \A k \in S : IsFiniteSet(upto(k)) /\ Cardinality(upto(k)) \in Nat /\ Cardinality(upto(k)) <= Cardinality(S)
  <2>1. \A k \in S : upto(k) \subseteq S
    OBVIOUS
  <2> HIDE DEF upto
  <2> QED BY <1>1, <2>1, FS_Subset, FS_CardinalityType
<1>3. \A k \in S : k \in upto(k) /\ k \in Nat
  <2>1. \A k \in S : k \in Nat /\ k <= k
    OBVIOUS
  <2> QED BY <2>1
<1>4. ASSUME NEW k \in S, NEW l \in S, k < l
      PROVE  Cardinality(upto(k)) < Cardinality(upto(l))
  <2>1. l \notin upto(k) /\ upto(k) \cup {l} \subseteq upto(l)
    <3>1. k \in Nat /\ l \in Nat /\ ~(l <= k) /\ l <= l
      BY <1>3, <1>4
    <3>2. \A m \in S : m <= k => m <= l
      <4>1. \A m \in S : m \in Nat
        BY <1>3
      <4> QED BY <1>4, <3>1, <4>1
    <3> QED BY <3>1, <3>2
  <2> HIDE DEF upto
  <2>2. Cardinality(upto(k) \cup {l}) = Cardinality(upto(k)) + 1
    BY <1>2, <2>1, FS_AddElement
  <2>3. Cardinality(upto(k) \cup {l}) <= Cardinality(upto(l))
    BY <1>2, <2>1, FS_Subset
  <2> QED BY <1>2, <2>2, <2>3
<1>5. Cardinality(upto(n)) >= 1
  <2>1. upto(n) # {}
    BY <1>3
  <2> HIDE DEF upto
  <2>2. Cardinality(upto(n)) # 0
    BY <1>2, <2>1, FS_EmptySet
  <2> QED BY <1>2, <2>2
<1>6. ASSUME NEW k \in S, Cardinality(upto(k)) = Cardinality(upto(n)) PROVE k = n
  <2>1. k < n => Cardinality(upto(k)) < Cardinality(upto(n))
    BY <1>4
  <2>2. n < k => Cardinality(upto(n)) < Cardinality(upto(k))
    BY <1>4
  <2>3. ~(Cardinality(upto(n)) < Cardinality(upto(n)))
    BY <1>2
  <2> HIDE DEF upto
  <2> QED BY <1>3, <1>6, <2>1, <2>2, <2>3
<1>7. ASSUME n = Min(S) PROVE Cardinality(upto(n)) = 1
  <2>1. S \in SUBSET Nat /\ S # {}
    BY <1>3
  <2>2. \A k \in S : n <= k
    BY <1>7, <2>1, LeastOf
  <2>3. upto(n) = {n}
    <3>1. \A k \in S : k <= n <=> k = n
      <4>1. \A k \in S : k \in Nat /\ n \in Nat
        BY <1>3
      <4> QED BY <2>2, <4>1
    <3> QED BY <3>1
  <2> HIDE DEF upto
  <2> QED BY <2>3, FS_Singleton
<1>8. \A k : Rank(S, k) = Cardinality(upto(k))
  BY DEF Rank
<1> HIDE DEF upto
<1>9. Rank(S, n) \in 1 .. Cardinality(S)
  BY <1>1, <1>2, <1>5, <1>8
<1> QED BY <1>6, <1>7, <1>8, <1>9

(* InOrder() has the records of all the places, that of the least first.    *)
LEMMA InOrderAll ==
    ASSUME NEW N \in Nat, NEW places \in SUBSET (1 .. N)
    PROVE  /\ \A n \in places : \E k \in 1 .. Cardinality(places) : InOrder(places)[k] = dbv[n]
           /\ places # {} => InOrder(places)[1] = dbv[Min(places)] /\ 1 \in 1 .. Cardinality(places)
           /\ places = {} <=> Cardinality(places) = 0
<1> DEFINE C == Cardinality(places)
<1>1. \A k \in 1 .. C : InOrder(places)[k] = dbv[CHOOSE n \in places : Rank(places, n) = k]
  BY DEF InOrder, Rank
<1>2. ASSUME NEW n \in places
      PROVE  Rank(places, n) \in 1 .. C /\ InOrder(places)[Rank(places, n)] = dbv[n]
  <2>1. Rank(places, n) \in 1 .. C /\ \A k \in places : Rank(places, k) = Rank(places, n) => k = n
    BY RankOnce
  <2>2. (CHOOSE k \in places : Rank(places, k) = Rank(places, n)) = n
    BY <2>1
  <2> HIDE DEF C
  <2> QED BY <1>1, <2>1, <2>2
<1>3. places # {} => Min(places) \in places
  <2>1. places \in SUBSET Nat
    OBVIOUS
  <2> QED BY <2>1, LeastOf
<1>4. places # {} => Rank(places, Min(places)) = 1
  BY <1>3, RankOnce
<1>5. places = {} <=> C = 0
  <2>1. IsFiniteSet(places)
    <3>1. IsFiniteSet(1 .. N)
      BY FS_Interval
    <3> QED BY <3>1, FS_Subset
  <2> QED BY <2>1, FS_EmptySet
<1> QED BY <1>2, <1>3, <1>4, <1>5

(* The servers of a name, one after the other.                              *)
LEMMA FoundServers ==
    ASSUME Built, TableInv, NEW name
    PROVE  LET found == InOrder(dns_lookup(name))
               N == Cardinality(dns_lookup(name))
           IN /\ N \in Nat /\ DOMAIN found = 1 .. N /\ Len(found) = N
              /\ \A n \in 1 .. N : /\ found[n].object \in Texts /\ found[n].data \in Texts
                                   /\ found[n].object \in Domains(name)
              /\ {found[n].data : n \in 1 .. N} = ServersFor(name)
              /\ N = 0 <=> dns_lookup(name) = {}
              /\ dns_lookup(name) # {} => found[1] = dbv[Min(dns_lookup(name))]
<1> DEFINE places == dns_lookup(name)
           found == InOrder(places)
           N == Cardinality(places)
<1>1. N \in Nat /\ DOMAIN found = 1 .. N /\ \A n \in 1 .. N : found[n].object \in Texts /\ found[n].data \in Texts
  BY FoundTyped DEF TableInv
<1>2. Len(found) = N
  <2>1. found = [n \in 1 .. N |-> found[n]]
    BY DEF InOrder
  <2> HIDE DEF found, N
  <2> QED BY <1>1, <2>1
<1>3. Len(dbv) \in Nat /\ places \in SUBSET (1 .. Len(dbv))
  BY PlacesTyped DEF TableInv
<1>4. ServersFor(name) = {dbv[n].data : n \in places}
  BY ServersFound
<1>5. Domains(name) = {dbv[n].object : n \in places}
  BY DEF Domains
<1> HIDE DEF places
<1>6. /\ \A k \in 1 .. N : \E n \in places : found[k] = dbv[n]
      /\ \A n \in places : \E k \in 1 .. N : found[k] = dbv[n]
      /\ places # {} => found[1] = dbv[Min(places)]
      /\ places = {} <=> N = 0
  BY <1>3, InOrderTyped, InOrderAll
<1> HIDE DEF found, N
<1>7. {found[n].data : n \in 1 .. N} = ServersFor(name)
  BY <1>4, <1>6
<1>8. \A n \in 1 .. N : found[n].object \in Domains(name)
  BY <1>5, <1>6
<1> QED BY <1>1, <1>2, <1>6, <1>7, <1>8 DEF places, found, N

(* Owners that a reader gets past: pointers into the reply, and names with  *)
(* short labels.                                                            *)
Ends(o) ==
    \/ \E x \in 0 .. 63 : x < Len(reply) /\ o = <<192, x>>
    \/ \E s \in Texts : ShortLabels(s) /\ o = compile_name(s)

(* An owner of such a kind is a text.                                       *)
LEMMA OwnerTyped ==
    ASSUME NEW o, Ends(o)
    PROVE  o \in Seq(Bytes)
<1>1. ASSUME NEW x \in 0 .. 63 PROVE <<192, x>> \in Seq(Bytes)
  BY DEF Bytes
<1> QED BY <1>1, NameCompiled DEF Ends

(* And the record goes on right behind it.                                  *)
LEMMA OwnerEnds ==
    ASSUME reply \in Seq(Bytes), NEW k, NEW o, Ends(o), Holds(reply, k, o)
    PROVE  InPlaceEnd(reply)[k] = k + Len(o)
<1>1. CASE \E x \in 0 .. 63 : x < Len(reply) /\ o = <<192, x>>
  <2>1. PICK x \in 0 .. 63 : x < Len(reply) /\ o = <<192, x>>
    BY <1>1
  <2>2. InPlaceEnd(reply)[k] = k + 2
    BY <2>1, PointerRead
  <2>3. Len(o) = 2
    BY <2>1
  <2> QED BY <2>2, <2>3
<1>2. CASE \E s \in Texts : ShortLabels(s) /\ o = compile_name(s)
  BY <1>2, EndRead
<1> QED BY <1>1, <1>2 DEF Ends

(* What the first M records are made of.                                    *)
Shaped(M, recs, owner, type, rdata) ==
    \A n \in 1 .. M :
        /\ Ends(owner[n]) /\ rdata[n] \in Seq(Bytes) /\ type[n] \in Nat /\ type[n] < 65536
        /\ recs[n] = Record(owner[n], type[n], rdata[n])

(* What such records read as, each at its place.                            *)
LEMMA ShapedRead ==
    ASSUME reply \in Seq(Bytes), Len(reply) < 65536, Count \in Nat, NEW M \in 0 .. Count,
           NEW place, NEW recs, Laid(reply, place, Count, recs), place[0] = QuestionEnd,
           NEW owner, NEW type, NEW rdata, Shaped(M, recs, owner, type, rdata)
    PROVE  \A n \in 1 .. M : ReadAs(Records[n], place[n - 1], owner[n], type[n], rdata[n], place[n])
<1>1. ASSUME NEW n \in 1 .. M
      PROVE  InPlaceEnd(reply)[place[n - 1]] = place[n - 1] + Len(owner[n]) /\ owner[n] \in Seq(Bytes)
  <2> DEFINE k == place[n - 1]
             o == owner[n]
             t == type[n]
             d == rdata[n]
  <2>1. Ends(o) /\ d \in Seq(Bytes) /\ t \in Nat /\ t < 65536 /\ recs[n] = Record(o, t, d)
    BY DEF Shaped
  <2>2. Holds(reply, k, recs[n])
    <3>1. n \in 1 .. Count
      OBVIOUS
    <3> QED BY <3>1 DEF Laid
  <2> HIDE DEF k, o, t, d
  <2>3. o \in Seq(Bytes)
    BY <2>1, OwnerTyped
  <2>4. RecordHeld(reply, k, o, t, d)
    BY <2>1, <2>2, <2>3, RecordHolds
  <2>5. Holds(reply, k, o)
    BY <2>4 DEF RecordHeld
  <2>6. InPlaceEnd(reply)[k] = k + Len(o)
    BY <2>1, <2>5, OwnerEnds
  <2> QED BY <2>3, <2>6 DEF k, o
<1>2. Placed(place, M, recs, owner, type, rdata)
  BY <1>1 DEF Placed, Shaped
<1> QED BY <1>2, RecordsRead

(* A record of a reply is not empty.                                        *)
LEMMA RecordSome ==
    ASSUME NEW owner \in Seq(Bytes), NEW type \in Nat, NEW rdata \in Seq(Bytes)
    PROVE  /\ Record(owner, type, rdata) \in Seq(Bytes)
           /\ Len(Record(owner, type, rdata)) \in Nat /\ Len(Record(owner, type, rdata)) >= 1
<1> DEFINE a == compile_int(type)
           b == compile_int(DNS_CLASS_INET)
           c == DEFAULT_TTL
           d == compile_int(Len(rdata))
           p == Record(owner, type, rdata)
<1>1. Len(rdata) \in Nat /\ Len(owner) \in Nat /\ DNS_CLASS_INET \in Nat
  BY DEF DNS_CLASS_INET
<1>2. /\ a \in Seq(Bytes) /\ b \in Seq(Bytes) /\ d \in Seq(Bytes)
      /\ Len(a) = 2 /\ Len(b) = 2 /\ Len(d) = 2
  BY <1>1, IntCompiled
<1>3. c \in Seq(Bytes) /\ Len(c) = 4
  BY DEF DEFAULT_TTL, Bytes
<1>4. p = owner \o a \o b \o c \o d \o rdata
  BY DEF Record
<1>5. p \in Seq(Bytes)
  BY RecordTyped
<1>6. Holds(p, 0, p)
  <2> HIDE DEF p
  <2> QED BY <1>5, HoldsAll
<1> HIDE DEF a, b, c, d
<1>7. Len(p) = Len(owner) + 10 + Len(rdata)
  <2> DEFINE all == owner \o a \o b \o c \o d \o rdata
  <2>1. p = all
    BY <1>4
  <2> HIDE DEF p
  <2>2. /\ Len(all) = Len(owner) + 10 + Len(rdata)
        /\ Holds(p, 0, all) =>
                /\ Holds(p, 0, owner) /\ Holds(p, 0 + Len(owner), a)
                /\ Holds(p, 0 + Len(owner) + 8, d) /\ Holds(p, 0 + Len(owner) + 10, rdata)
    BY ONLY owner \in Seq(Bytes), rdata \in Seq(Bytes), <1>2, <1>3, <1>5, SixParts
  <2> HIDE DEF all
  <2> QED BY <2>1, <2>2
<1> HIDE DEF p
<1>8. Len(p) \in Nat /\ Len(p) >= 1
  BY <1>1, <1>7
<1> QED BY <1>5, <1>8 DEF p

---------------------------------------------------------------------------
(* A reply reads back *)

(* The three claims of AnswerReadsBack, of a reply with this id.            *)
CountRight == Ancount = 0 <=> Answers(query) = {}

FirstReads ==
    /\ Ancount > 0 /\ ShortLabels(query.name)
    /\ query.type # DNS_TYPE_A => IsName(Told(query))
    => Records[1].data = IF query.type = DNS_TYPE_A THEN Told(query) ELSE Dotted(Told(query))

NamesFit ==
    /\ IsName(query.name) /\ OwnerReachable
    /\ Ancount > 0 => \A name \in Domains(query.name) \cup ServersFor(query.name) : IsName(name)

Framed(id) ==
    /\ SubSeq(reply, 1, 2) = id
    /\ QuestionName = Dotted(query.name)
    /\ Short(reply, QuestionEnd - 4) = query.type
    /\ Len(reply) = IF Count = 0 THEN QuestionEnd ELSE Records[Count].next

Owned ==
    /\ \A n \in 1 .. Ancount : Records[n].owner = Dotted(query.name) /\ Records[n].type = query.type
    /\ \A n \in Ancount + 1 .. Count :
        Records[n].type = DNS_TYPE_NS /\ Records[n].owner \in {Dotted(d) : d \in Domains(query.name)}

Served ==
    Ancount > 0 =>
        {Records[n].data : n \in {k \in 1 .. Count : Records[k].type = DNS_TYPE_NS}}
            = {Dotted(name) : name \in ServersFor(query.name)}

FlagsRight == reply[3] = IF Count = 1 /\ query.type # DNS_TYPE_NS THEN 128 ELSE 132

ReadsAs(id) == CountRight /\ FirstReads /\ (NamesFit => Framed(id) /\ Owned /\ Served /\ FlagsRight)

(* What the cases know of the packet that becomes the reply.                *)
Sent(id) ==
    /\ id \in Seq(Bytes) /\ Len(id) = 2 /\ Asked(query) /\ Built /\ TableInv
    /\ Len(reply) <= PACKET_ASSEMBLYSIZE

(* A reply that fits its buffer has counts and offsets of two bytes.        *)
LEMMA ReplySize ==
    ASSUME reply \in Seq(Bytes), Len(reply) <= PACKET_ASSEMBLYSIZE
    PROVE  Len(reply) \in Nat /\ Len(reply) < 65536
<1>1. Len(reply) \in Nat
  OBVIOUS
<1> QED BY <1>1 DEF PACKET_ASSEMBLYSIZE

(* A reply without records.                                                 *)
LEMMA NegativeReads ==
    ASSUME NEW id, Sent(id), Answers(query) = {}, reply = Negative(id, query)
    PROVE  ReadsAs(id)
<1>1. reply = end_assembly(id, 1, 0, begin_assembly(query), << >>, << >>)
  BY DEF Negative
<1>2. Parts(0, << >>)
  BY DEF Parts
<1>3. reply \in Seq(Bytes) /\ ReplyHeld(id, 1, query, 0, << >>, 0, << >>)
  <2>1. 1 \in {0, 1} /\ 0 \in Nat
    OBVIOUS
  <2> QED BY <1>1, <1>2, <2>1, ReplyHolds DEF Sent
<1>4. /\ SubSeq(reply, 1, 2) = id /\ reply[3] = 128 + 4 * 1 /\ Ancount = 0 /\ Count = 0 + 0
      /\ Holds(reply, PACKET_DATABEGIN, begin_assembly(query))
  BY <1>3 DEF ReplyHeld
<1>5. PICK place : /\ place[0] = PACKET_DATABEGIN + Len(begin_assembly(query)) /\ place[0 + 0] = Len(reply)
  BY <1>3 DEF ReplyHeld
<1>6. Count = 0 /\ place[0] = Len(reply) /\ 128 + 4 * 1 = 132 /\ ~(Ancount > 0)
  BY <1>4, <1>5
<1>7. ASSUME NamesFit PROVE Framed(id) /\ Owned /\ Served /\ FlagsRight
  <2>1. IsName(query.name) /\ ShortLabels(query.name)
    BY <1>7 DEF NamesFit, IsName
  <2>2. /\ QuestionEnd = PACKET_DATABEGIN + Len(begin_assembly(query))
        /\ Short(reply, QuestionEnd - 4) = query.type /\ QuestionName = Dotted(query.name)
    BY <1>3, <1>4, <2>1, QuestionReads DEF Sent
  <2>3. Framed(id)
    BY <1>4, <1>5, <1>6, <2>2 DEF Framed
  <2>4. Owned
    <3>1. 1 .. Ancount = {} /\ Ancount + 1 .. Count = {}
      BY <1>4, <1>6
    <3> QED BY <3>1 DEF Owned
  <2> QED BY <1>4, <1>6, <2>3, <2>4 DEF Served, FlagsRight
<1>8. CountRight /\ FirstReads
  BY <1>4, <1>6 DEF CountRight, FirstReads
<1> QED BY <1>7, <1>8 DEF ReadsAs

(* The owner of an answer is the question's name.                           *)
LEMMA QuestionOwner ==
    ASSUME reply \in Seq(Bytes), Asked(query), Holds(reply, PACKET_DATABEGIN, begin_assembly(query))
    PROVE  /\ compile_objectname \in Seq(Bytes) /\ Len(compile_objectname) = 2
           /\ Ends(compile_objectname)
           /\ IsName(query.name) =>
                \A k : Holds(reply, k, compile_objectname) => NameAt(k) = Dotted(query.name)
<1>1. compile_objectname = <<192, 12>> /\ 12 \in 0 .. 63 /\ 12 \in 1 .. 63 /\ PACKET_DATABEGIN = 12
  BY DEF compile_objectname, PACKET_DATABEGIN
<1>2. 12 < Len(reply)
  <2>1. Len(compile_name(query.name)) \in Nat /\ Len(begin_assembly(query)) = Len(compile_name(query.name)) + 4
    BY QuestionHolds
  <2>2. 12 + Len(begin_assembly(query)) <= Len(reply) /\ Len(reply) \in Nat
    BY <1>1 DEF Holds
  <2> QED BY <2>1, <2>2
<1>3. Ends(compile_objectname)
  BY <1>1, <1>2 DEF Ends
<1>4. compile_objectname \in Seq(Bytes) /\ Len(compile_objectname) = 2
  BY <1>1, <1>3, OwnerTyped
<1>5. ASSUME IsName(query.name), NEW k, Holds(reply, k, compile_objectname)
      PROVE  NameAt(k) = Dotted(query.name)
  <2>1. ShortLabels(query.name) /\ query.name \in Texts
    BY <1>5 DEF IsName, Asked
  <2>2. Holds(reply, 12, compile_name(query.name))
    BY <1>1, <2>1, QuestionReads
  <2> QED BY <1>1, <1>5, <2>1, <2>2, PointerReads
<1> QED BY <1>3, <1>4, <1>5

(* A record with a name behind it.                                          *)
LEMMA NameData ==
    ASSUME reply \in Seq(Bytes), NEW rec, NEW k, NEW owner, NEW type, NEW s \in Texts, NEW next,
           type # DNS_TYPE_A, ReadAs(rec, k, owner, type, compile_name(s), next), IsName(s)
    PROVE  rec.data = Dotted(s)
<1>1. /\ rec.data = NameAt(k + Len(owner) + 10)
      /\ Holds(reply, k + Len(owner) + 10, compile_name(s))
  BY DEF ReadAs
<1> QED BY <1>1, NameReads

(* A reply with the servers for answers.                                    *)
LEMMA ServersRead ==
    ASSUME NEW id, Sent(id), query.type = DNS_TYPE_NS, Answers(query) # {},
           reply = AssembleServers(id, query)
    PROVE  ReadsAs(id)
<1> DEFINE found == InOrder(dns_lookup(query.name))
           C == Cardinality(dns_lookup(query.name))
           answers == [n \in DOMAIN found |-> Record(compile_objectname, DNS_TYPE_NS, compile_name(found[n].data))]
           both == Both(answers, C, << >>, 0)
           owner == [n \in 1 .. C |-> compile_objectname]
           type == [n \in 1 .. C |-> DNS_TYPE_NS]
           rdata == [n \in 1 .. C |-> compile_name(found[n].data)]
<1>1. DNS_TYPE_NS # DNS_TYPE_A /\ DNS_TYPE_NS # DNS_TYPE_PTR /\ DNS_TYPE_NS \in Nat /\ DNS_TYPE_NS < 65536
  BY DEF DNS_TYPE_A, DNS_TYPE_NS, DNS_TYPE_PTR
<1>2. Answers(query) = dns_lookup(query.name)
  BY <1>1, KindsOf DEF AskedFor
<1>3. /\ C \in Nat /\ DOMAIN found = 1 .. C
      /\ \A n \in 1 .. C : found[n].data \in Texts
      /\ {found[n].data : n \in 1 .. C} = ServersFor(query.name)
      /\ C # 0 /\ found[1] = dbv[Min(dns_lookup(query.name))]
  BY <1>2, FoundServers DEF Sent
<1>4. Told(query) = found[1].data
  BY <1>1, <1>2, <1>3 DEF Told
<1>5. reply = end_assembly(id, 1, 0, begin_assembly(query), answers, << >>)
  BY DEF AssembleServers
<1> HIDE DEF found, C
<1>6. \A n \in 1 .. C : compile_name(found[n].data) \in Seq(Bytes)
  BY <1>3, NameCompiled
<1>7. answers = [n \in 1 .. C |-> Record(compile_objectname, DNS_TYPE_NS, compile_name(found[n].data))]
  BY <1>3
<1>8. Parts(C, answers)
  <2>1. compile_objectname \in Seq(Bytes)
    <3>1. 192 \in Bytes /\ 12 \in Bytes
      BY DEF Bytes
    <3> QED BY <3>1 DEF compile_objectname
  <2>2. \A n \in 1 .. C : answers[n] \in Seq(Bytes) /\ Len(answers[n]) >= 1
    BY <1>1, <1>6, <1>7, <2>1, RecordSome
  <2> HIDE DEF answers
  <2> QED BY <1>7, <2>2 DEF Parts
<1>9. reply \in Seq(Bytes) /\ ReplyHeld(id, 1, query, C, answers, 0, << >>)
  <2>1. 1 \in {0, 1} /\ 0 \in Nat /\ Parts(0, << >>)
    BY DEF Parts
  <2> HIDE DEF answers
  <2> QED BY <1>3, <1>5, <1>8, <2>1, ReplyHolds DEF Sent
<1> HIDE DEF answers
<1>10. /\ SubSeq(reply, 1, 2) = id /\ reply[3] = 128 + 4 * 1 /\ Ancount = C /\ Count = C + 0
       /\ Holds(reply, PACKET_DATABEGIN, begin_assembly(query))
  BY <1>9 DEF ReplyHeld
<1>11. PICK place : /\ Laid(reply, place, C + 0, both)
                    /\ place[0] = PACKET_DATABEGIN + Len(begin_assembly(query)) /\ place[C + 0] = Len(reply)
  BY <1>9 DEF ReplyHeld
<1>12. Count = C /\ Ancount = C /\ C + 0 = C /\ C \in 1 .. C /\ 1 \in 1 .. C /\ Ancount > 0 /\ 128 + 4 * 1 = 132
  BY <1>3, <1>10
<1>13. \A n \in 1 .. C : both[n] = Record(compile_objectname, DNS_TYPE_NS, compile_name(found[n].data))
  <2>1. \A n \in 1 .. C : n \in 1 .. C + 0 /\ n <= C
    BY <1>3
  <2> QED BY <1>7, <2>1 DEF Both
<1>14. Asked(query) /\ Len(reply) < 65536
  BY <1>9, ReplySize DEF Sent
<1> HIDE DEF both
<1>15. Shaped(C, both, owner, type, rdata)
  <2>1. Ends(compile_objectname)
    BY <1>9, <1>10, <1>14, QuestionOwner
  <2> QED BY <1>1, <1>6, <1>13, <2>1 DEF Shaped
<1>16. ASSUME ShortLabels(query.name), NEW n \in 1 .. C
       PROVE  /\ ReadAs(Records[n], place[n - 1], compile_objectname, DNS_TYPE_NS, compile_name(found[n].data), place[n])
              /\ IsName(found[n].data) => Records[n].data = Dotted(found[n].data)
  <2>1. place[0] = QuestionEnd
    BY <1>9, <1>10, <1>11, <1>14, <1>16, QuestionReads
  <2>2. Count \in Nat /\ C \in 0 .. Count /\ Laid(reply, place, Count, both)
    BY <1>3, <1>11, <1>12
  <2> HIDE DEF owner, type, rdata
  <2>3. ReadAs(Records[n], place[n - 1], owner[n], type[n], rdata[n], place[n])
    BY <1>9, <1>14, <1>15, <2>1, <2>2, ShapedRead
  <2>4. owner[n] = compile_objectname /\ type[n] = DNS_TYPE_NS /\ rdata[n] = compile_name(found[n].data)
    BY DEF owner, type, rdata
  <2>5. ReadAs(Records[n], place[n - 1], compile_objectname, DNS_TYPE_NS, compile_name(found[n].data), place[n])
    BY <2>3, <2>4
  <2>6. found[n].data \in Texts
    BY <1>3
  <2> QED BY <1>1, <1>9, <2>5, <2>6, NameData
<1>17. CountRight
  BY <1>3, <1>12 DEF CountRight
<1>18. FirstReads
  BY <1>1, <1>4, <1>12, <1>16 DEF FirstReads
<1>19. ASSUME NamesFit PROVE Framed(id) /\ Owned /\ Served /\ FlagsRight
  <2>1. IsName(query.name) /\ ShortLabels(query.name)
    BY <1>19 DEF NamesFit, IsName
  <2>2. \A n \in 1 .. C : IsName(found[n].data)
    BY <1>3, <1>12, <1>19 DEF NamesFit
  <2>3. \A n \in 1 .. C : /\ Records[n].owner = NameAt(place[n - 1]) /\ Records[n].type = DNS_TYPE_NS
                          /\ Records[n].next = place[n] /\ Holds(reply, place[n - 1], compile_objectname)
                          /\ Records[n].data = Dotted(found[n].data)
    BY <1>16, <2>1, <2>2 DEF ReadAs
  <2>4. \A n \in 1 .. C : Records[n].owner = Dotted(query.name)
    BY <1>9, <1>10, <1>14, <2>1, <2>3, QuestionOwner
  <2>5. Owned
    <3>1. Ancount + 1 .. Count = {}
      BY <1>3, <1>12
    <3> QED BY <1>12, <2>3, <2>4, <3>1 DEF Owned
  <2>6. Served
    <3>1. {k \in 1 .. Count : Records[k].type = DNS_TYPE_NS} = 1 .. C
      BY <1>12, <2>3
    <3>2. {Records[n].data : n \in 1 .. C} = {Dotted(found[n].data) : n \in 1 .. C}
      BY <2>3
    <3>3. {Dotted(found[n].data) : n \in 1 .. C} = {Dotted(name) : name \in ServersFor(query.name)}
      BY <1>3
    <3> QED BY <3>1, <3>2, <3>3 DEF Served
  <2>7. Framed(id)
    <3>1. /\ Short(reply, QuestionEnd - 4) = query.type /\ QuestionName = Dotted(query.name)
      BY <1>9, <1>10, <1>14, <2>1, QuestionReads
    <3>2. Records[Count].next = Len(reply) /\ Count # 0
      BY <1>3, <1>11, <1>12, <2>3
    <3> QED BY <1>10, <3>1, <3>2 DEF Framed
  <2>8. FlagsRight
    BY <1>10, <1>12 DEF FlagsRight
  <2> QED BY <2>5, <2>6, <2>7, <2>8
<1> QED BY <1>17, <1>18, <1>19 DEF ReadsAs

(* The records of an answer with the servers of the domain behind it.       *)
LEMMA AssembleReads ==
    ASSUME NEW id, Sent(id), query.type # DNS_TYPE_NS, Answers(query) # {},
           NEW rdata \in Seq(Bytes), reply = Assemble(id, query, rdata),
           query.type = DNS_TYPE_A => rdata = Told(query),
           query.type # DNS_TYPE_A => Told(query) \in Texts /\ rdata = compile_name(Told(query))
    PROVE  ReadsAs(id)
<1> DEFINE name == query.name
           found == InOrder(dns_lookup(name))
           C == Cardinality(dns_lookup(name))
           question == begin_assembly(query)
           answer == Record(compile_objectname, query.type, rdata)
           offset == PACKET_DATABEGIN + Len(question) + Len(answer)
           servers == compile_dnsrecords(offset, name)
           aa == IF servers = << >> THEN 0 ELSE 1
           both == Both(<<answer>>, 1, servers, C)
           first == compile_name(found[1].object)
           owner == [n \in 1 .. 1 + C |-> IF n = 1 THEN compile_objectname
                                          ELSE IF n = 2 THEN first ELSE compile_namepointer(offset)]
           type == [n \in 1 .. 1 + C |-> IF n = 1 THEN query.type ELSE DNS_TYPE_NS]
           data == [n \in 1 .. 1 + C |-> IF n = 1 THEN rdata ELSE compile_name(found[n - 1].data)]
<1>1. DNS_TYPE_NS # DNS_TYPE_A /\ DNS_TYPE_NS \in Nat /\ DNS_TYPE_NS < 65536
  BY DEF DNS_TYPE_A, DNS_TYPE_NS
<1>2. /\ Asked(query) /\ query.type \in Nat /\ query.type < 65536 /\ id \in Seq(Bytes) /\ Len(id) = 2
      /\ Len(reply) <= PACKET_ASSEMBLYSIZE
  BY DEF Sent, Asked
<1>3. /\ C \in Nat /\ DOMAIN found = 1 .. C
      /\ \A n \in 1 .. C : found[n].data \in Texts /\ found[n].object \in Texts /\ found[n].object \in Domains(name)
      /\ {found[n].data : n \in 1 .. C} = ServersFor(name)
  BY FoundServers DEF Sent
<1>4. reply = end_assembly(id, aa, 0, question, <<answer>>, servers)
  BY DEF Assemble
<1>5. servers = [n \in 1 .. C |-> Record(IF n = 1 THEN first ELSE compile_namepointer(offset),
                                         DNS_TYPE_NS, compile_name(found[n].data))]
  BY <1>3 DEF compile_dnsrecords
<1> HIDE DEF found, C
<1>6. /\ \A n \in 1 .. C : compile_name(found[n].data) \in Seq(Bytes)
      /\ C # 0 => first \in Seq(Bytes)
  <2>1. C # 0 => 1 \in 1 .. C
    BY <1>3
  <2> QED BY <1>3, <2>1, NameCompiled
<1>7. compile_objectname \in Seq(Bytes) /\ Len(compile_objectname) = 2 /\ answer \in Seq(Bytes)
      /\ Len(answer) \in Nat /\ Len(answer) >= 1
  <2>1. compile_objectname \in Seq(Bytes) /\ Len(compile_objectname) = 2
    <3>1. 192 \in Bytes /\ 12 \in Bytes
      BY DEF Bytes
    <3> QED BY <3>1 DEF compile_objectname
  <2> QED BY <1>2, <2>1, RecordSome
<1>8. question \in Seq(Bytes) /\ Len(question) \in Nat
  <2>1. question \in Seq(Bytes)
    BY <1>2, QuestionHolds
  <2> HIDE DEF question
  <2> QED BY <2>1
<1> HIDE DEF question, answer
<1>9. offset \in Nat /\ offset >= 13
  BY <1>7, <1>8 DEF PACKET_DATABEGIN
<1> HIDE DEF offset
<1>10. compile_namepointer(offset) \in Seq(Bytes) /\ compile_namepointer(offset) = <<192, offset % 64>>
  <2>1. 192 \in Bytes /\ offset % 64 \in Bytes
    <3>1. \A n \in Nat : n % 64 \in Bytes
      BY DEF Bytes
    <3> QED BY <1>9, <3>1 DEF Bytes
  <2> QED BY <2>1 DEF compile_namepointer
<1> HIDE DEF first, servers
<1>11. Parts(1, <<answer>>) /\ Parts(C, servers)
  <2>1. Parts(1, <<answer>>)
    BY <1>7 DEF Parts
  <2>2. ASSUME NEW n \in 1 .. C PROVE servers[n] \in Seq(Bytes) /\ Len(servers[n]) >= 1
    <3> DEFINE o == IF n = 1 THEN first ELSE compile_namepointer(offset)
               d == compile_name(found[n].data)
    <3>1. servers[n] = Record(o, DNS_TYPE_NS, d)
      BY <1>5
    <3>2. o \in Seq(Bytes) /\ d \in Seq(Bytes)
      BY <1>6, <1>10
    <3> HIDE DEF o, d
    <3> QED BY <1>1, <3>1, <3>2, RecordSome
  <2>3. servers = [n \in 1 .. C |-> servers[n]]
    BY <1>5
  <2> QED BY <2>1, <2>2, <2>3 DEF Parts
<1>12. aa \in {0, 1} /\ (servers = << >> <=> C = 0)
  <2>1. Len(servers) = C
    BY <1>3, <1>11 DEF Parts
  <2>2. servers \in Seq(Seq(Bytes))
    BY <1>3, <1>11 DEF Parts
  <2> QED BY <2>1, <2>2, EmptySeq
<1> HIDE DEF aa
<1>13. reply \in Seq(Bytes) /\ ReplyHeld(id, aa, query, 1, <<answer>>, C, servers)
  <2> DEFINE answers == <<answer>>
  <2> HIDE DEF answers
  <2>1. Parts(1, answers) /\ reply = end_assembly(id, aa, 0, begin_assembly(query), answers, servers) /\ 1 \in Nat
    BY <1>4, <1>11 DEF answers, question
  <2>2. reply \in Seq(Bytes) /\ ReplyHeld(id, aa, query, 1, answers, C, servers)
    BY <1>2, <1>3, <1>11, <1>12, <2>1, ReplyHolds
  <2> QED BY <2>2 DEF answers
<1>14. /\ SubSeq(reply, 1, 2) = id /\ reply[3] = 128 + 4 * aa /\ Ancount = 1 /\ Count = 1 + C
       /\ Holds(reply, PACKET_DATABEGIN, begin_assembly(query))
  BY <1>13 DEF ReplyHeld
<1>15. PICK place : /\ Laid(reply, place, 1 + C, both)
                    /\ place[0] = PACKET_DATABEGIN + Len(question) /\ place[1 + C] = Len(reply)
  BY <1>13 DEF ReplyHeld, question
<1>16. Len(reply) \in Nat /\ Len(reply) < 65536 /\ Count \in Nat /\ 1 \in 0 .. Count /\ Count \in 0 .. Count
  BY <1>2, <1>3, <1>13, <1>14, ReplySize
<1>17. \A n \in 1 .. 1 + C : both[n] = Record(owner[n], type[n], data[n])
  <2>1. both[1] = answer /\ 1 \in 1 .. 1 + C
    BY <1>3 DEF Both
  <2>2. ASSUME NEW n \in 1 .. 1 + C, n # 1 PROVE both[n] = servers[n - 1] /\ n - 1 \in 1 .. C
    <3>1. ~(n <= 1) /\ n - 1 \in 1 .. C
      BY <1>3, <2>2
    <3> QED BY <3>1 DEF Both
  <2> HIDE DEF both
  <2>3. both[1] = Record(owner[1], type[1], data[1])
    BY <2>1 DEF answer
  <2>4. ASSUME NEW n \in 1 .. 1 + C, n # 1 PROVE both[n] = Record(owner[n], type[n], data[n])
    <3>1. n - 1 = 1 <=> n = 2
      BY <1>3
    <3>2. both[n] = Record(IF n - 1 = 1 THEN first ELSE compile_namepointer(offset),
                           DNS_TYPE_NS, compile_name(found[n - 1].data))
      BY <1>5, <2>2, <2>4
    <3> QED BY <2>4, <3>1, <3>2
  <2> QED BY <2>3, <2>4
<1>18. place[1] = offset /\ (C # 0 => offset < Len(reply))
  <2>1. both[1] = answer /\ 1 \in 1 .. 1 + C /\ 1 - 1 = 0
    BY <1>3 DEF Both
  <2>2. place[1] = place[0] + Len(answer)
    BY <1>15, <2>1 DEF Laid
  <2>3. place[1] = offset
    BY <1>15, <2>2 DEF offset
  <2>4. ASSUME C # 0 PROVE offset < Len(reply)
    <3>1. 2 \in 1 .. 1 + C /\ 2 - 1 = 1
      BY <1>3, <2>4
    <3>2. Holds(reply, place[1], both[2])
      BY <1>15, <3>1 DEF Laid
    <3>3. both[2] = servers[1] /\ servers[1] \in Seq(Bytes) /\ Len(servers[1]) >= 1
      <4>1. ~(2 <= 1) /\ 2 - 1 = 1 /\ 1 \in 1 .. C
        BY <1>3, <2>4
      <4> QED BY <1>11, <3>1, <4>1 DEF Both, Parts
    <3> HIDE DEF both
    <3>4. offset + Len(servers[1]) <= Len(reply) /\ Len(servers[1]) \in Nat
      BY <2>3, <3>2, <3>3 DEF Holds
    <3> QED BY <1>9, <1>16, <3>3, <3>4
  <2> QED BY <2>3, <2>4
<1> HIDE DEF both
<1>19. Ends(compile_objectname)
  BY <1>2, <1>13, <1>14, QuestionOwner
<1> DEFINE Fits(M) == /\ M >= 2 => ShortLabels(found[1].object)
                      /\ M >= 3 => offset % 64 < Len(reply)
<1>20. ASSUME NEW M \in 0 .. 1 + C, Fits(M)
       PROVE  Shaped(M, both, owner, type, data)
  <2>1. ASSUME NEW n \in 1 .. M
        PROVE  /\ Ends(owner[n]) /\ data[n] \in Seq(Bytes) /\ type[n] \in Nat /\ type[n] < 65536
               /\ both[n] = Record(owner[n], type[n], data[n])
    <3>1. n \in 1 .. 1 + C
      BY <1>3
    <3>2. type[n] \in Nat /\ type[n] < 65536
      BY <1>1, <1>2, <3>1
    <3>3. data[n] \in Seq(Bytes)
      <4>1. n # 1 => n - 1 \in 1 .. C
        BY <1>3, <3>1
      <4> QED BY <1>6, <3>1, <4>1
    <3>4. Ends(owner[n])
      <4>1. CASE n = 1
        BY <1>19, <3>1, <4>1
      <4>2. CASE n = 2
        <5>1. M >= 2 /\ 1 \in 1 .. C
          BY <1>3, <4>2
        <5>2. ShortLabels(found[1].object) /\ found[1].object \in Texts
          BY <1>3, <1>20, <5>1
        <5>3. owner[n] = compile_name(found[1].object)
          BY <3>1, <4>2 DEF first
        <5> QED BY <5>2, <5>3 DEF Ends
      <4>3. CASE n # 1 /\ n # 2
        <5>1. M >= 3
          BY <4>3
        <5>2. offset % 64 < Len(reply) /\ offset % 64 \in 0 .. 63
          <6>1. \A m \in Nat : m % 64 \in 0 .. 63
            OBVIOUS
          <6> QED BY <1>9, <1>20, <5>1, <6>1
        <5>3. owner[n] = <<192, offset % 64>>
          BY <1>10, <3>1, <4>3
        <5> QED BY <5>2, <5>3 DEF Ends
      <4> QED BY <4>1, <4>2, <4>3
    <3>5. both[n] = Record(owner[n], type[n], data[n])
      BY <1>17, <3>1
    <3> QED BY <3>2, <3>3, <3>4, <3>5
  <2> HIDE DEF owner, type, data, Fits
  <2> QED BY <2>1 DEF Shaped
<1>21. ASSUME NEW M \in 1 .. 1 + C, Fits(M), ShortLabels(query.name), NEW n \in 1 .. M
       PROVE  ReadAs(Records[n], place[n - 1], owner[n], type[n], data[n], place[n])
  <2>1. place[0] = QuestionEnd
    BY <1>2, <1>13, <1>14, <1>15, <1>21, QuestionReads DEF question
  <2>2. M \in 0 .. Count /\ Laid(reply, place, Count, both) /\ M \in 0 .. 1 + C
    BY <1>3, <1>14, <1>15
  <2>3. Shaped(M, both, owner, type, data)
    BY <1>20, <1>21, <2>2
  <2> HIDE DEF owner, type, data
  <2> QED BY <1>13, <1>16, <2>1, <2>2, <2>3, ShapedRead
<1>22. 1 \in 1 .. 1 + C /\ 1 - 1 = 0 /\ 1 \in 1 .. 1
  BY <1>3
<1>23. ASSUME ShortLabels(query.name)
       PROVE  ReadAs(Records[1], place[0], compile_objectname, query.type, rdata, offset)
  <2>1. Fits(1)
    OBVIOUS
  <2>2. owner[1] = compile_objectname /\ type[1] = query.type /\ data[1] = rdata
    BY <1>22
  <2> HIDE DEF owner, type, data, Fits
  <2>3. ReadAs(Records[1], place[1 - 1], owner[1], type[1], data[1], place[1])
    BY <1>21, <1>22, <1>23, <2>1
  <2> QED BY <1>18, <1>22, <2>2, <2>3
<1>24. CountRight
  BY <1>14 DEF CountRight
<1>25. FirstReads
  <2> SUFFICES ASSUME ShortLabels(query.name), query.type # DNS_TYPE_A => IsName(Told(query))
               PROVE  Records[1].data = IF query.type = DNS_TYPE_A THEN Told(query) ELSE Dotted(Told(query))
    BY DEF FirstReads
  <2>1. ReadAs(Records[1], place[0], compile_objectname, query.type, rdata, offset)
    BY <1>23
  <2>2. CASE query.type = DNS_TYPE_A
    BY <2>1, <2>2 DEF ReadAs
  <2>3. CASE query.type # DNS_TYPE_A
    <3>1. ReadAs(Records[1], place[0], compile_objectname, query.type, compile_name(Told(query)), offset)
      BY <2>1, <2>3
    <3>2. Records[1].data = Dotted(Told(query))
      BY <1>13, <2>3, <3>1, NameData
    <3> QED BY <2>3, <3>2
  <2> QED BY <2>2, <2>3
<1>26. ASSUME NamesFit PROVE Framed(id) /\ Owned /\ Served /\ FlagsRight
  <2>1. IsName(query.name) /\ ShortLabels(query.name)
    BY <1>26 DEF NamesFit, IsName
  <2>2. \A n \in 1 .. C : IsName(found[n].data) /\ IsName(found[n].object)
    BY <1>3, <1>14, <1>26 DEF NamesFit
  <2>3. C <= 1 \/ offset < 64
    <3>1. ReadAs(Records[1], place[0], compile_objectname, query.type, rdata, offset)
      BY <1>23, <2>1
    <3>2. Records[Ancount].next = offset
      BY <1>14, <3>1 DEF ReadAs
    <3> QED BY <1>14, <1>26, <3>2 DEF NamesFit, OwnerReachable, C
  <2>4. Fits(1 + C)
    <3>1. 1 + C >= 2 => 1 \in 1 .. C
      BY <1>3
    <3>2. 1 + C >= 3 => offset < 64 /\ C # 0
      BY <1>3, <2>3
    <3>3. offset < 64 => offset % 64 = offset
      BY <1>9
    <3> QED BY <1>18, <2>2, <3>1, <3>2, <3>3 DEF IsName
  <2> HIDE DEF Fits
  <2>5. \A n \in 1 .. 1 + C : ReadAs(Records[n], place[n - 1], owner[n], type[n], data[n], place[n])
    <3>1. 1 + C \in 1 .. 1 + C
      BY <1>3
    <3> QED BY <1>21, <2>1, <2>4, <3>1
  <2>6. Records[1].owner = Dotted(query.name) /\ Records[1].type = query.type
    <3>1. ReadAs(Records[1], place[0], compile_objectname, query.type, rdata, offset)
      BY <1>23, <2>1
    <3> QED BY <1>2, <1>13, <1>14, <2>1, <3>1, QuestionOwner DEF ReadAs
  <2>7. ASSUME NEW n \in 1 .. C
        PROVE  /\ Records[n + 1].type = DNS_TYPE_NS /\ Records[n + 1].data = Dotted(found[n].data)
               /\ Records[n + 1].owner = Dotted(found[1].object) /\ found[1].object \in Domains(name)
    <3>1. n + 1 \in 1 .. 1 + C /\ n + 1 # 1 /\ (n + 1) - 1 = n /\ 1 \in 1 .. C /\ 2 \in 1 .. 1 + C /\ 2 - 1 = 1
      BY <1>3
    <3>2. /\ ReadAs(Records[n + 1], place[n], owner[n + 1], DNS_TYPE_NS, compile_name(found[n].data), place[n + 1])
          /\ ReadAs(Records[2], place[1], first, DNS_TYPE_NS, compile_name(found[1].data), place[2])
      <4>1. /\ type[n + 1] = DNS_TYPE_NS /\ data[n + 1] = compile_name(found[n].data)
            /\ type[2] = DNS_TYPE_NS /\ data[2] = compile_name(found[1].data) /\ owner[2] = first
        BY <3>1
      <4> HIDE DEF owner, type, data
      <4>2. ReadAs(Records[n + 1], place[(n + 1) - 1], owner[n + 1], type[n + 1], data[n + 1], place[n + 1])
        BY <2>5, <3>1
      <4>3. ReadAs(Records[2], place[2 - 1], owner[2], type[2], data[2], place[2])
        BY <2>5, <3>1
      <4> QED BY <3>1, <4>1, <4>2, <4>3
    <3>3. /\ found[n].data \in Texts /\ IsName(found[n].data)
          /\ found[1].object \in Texts /\ IsName(found[1].object) /\ found[1].object \in Domains(name)
      BY <1>3, <2>2, <3>1
    <3>4. Records[n + 1].data = Dotted(found[n].data)
      <4> HIDE DEF owner
      <4> QED BY <1>1, <1>13, <3>2, <3>3, NameData
    <3>5. Holds(reply, offset, compile_name(found[1].object))
      BY <1>18, <3>2 DEF ReadAs, first
    <3>6. Records[n + 1].owner = NameAt(place[n]) /\ Records[n + 1].type = DNS_TYPE_NS
          /\ Holds(reply, place[n], owner[n + 1])
      <4> HIDE DEF owner
      <4> QED BY <3>2 DEF ReadAs
    <3>7. NameAt(place[n]) = Dotted(found[1].object)
      <4>1. CASE n = 1
        <5>1. place[n] = offset
          BY <1>18, <4>1
        <5> QED BY <1>13, <3>3, <3>5, <5>1, NameReads
      <4>2. CASE n # 1
        <5>1. n + 1 # 2 /\ ~(C <= 1)
          BY <1>3, <4>2
        <5>2. offset \in 1 .. 63 /\ offset % 64 = offset
          BY <1>9, <2>3, <5>1
        <5>3. owner[n + 1] = <<192, offset>>
          BY <1>10, <3>1, <5>1, <5>2
        <5>4. reply \in Seq(Bytes) /\ Holds(reply, place[n], <<192, offset>>)
          BY <1>13, <3>6, <5>3
        <5> QED BY ONLY <3>3, <3>5, <5>2, <5>4, PointerReads
      <4> QED BY <4>1, <4>2
    <3> QED BY <3>3, <3>4, <3>6, <3>7
  <2>8. Owned
    <3>1. \A n \in 1 .. Ancount : n = 1
      BY <1>14
    <3>2. ASSUME NEW n \in Ancount + 1 .. Count
          PROVE  Records[n].type = DNS_TYPE_NS /\ Records[n].owner \in {Dotted(d) : d \in Domains(query.name)}
      <4>1. n - 1 \in 1 .. C /\ (n - 1) + 1 = n
        BY <1>3, <1>14
      <4> QED BY <2>7, <4>1
    <3> QED BY <2>6, <3>1, <3>2 DEF Owned
  <2>9. Served
    <3>1. ASSUME NEW s
          PROVE  s \in {Records[n].data : n \in {k \in 1 .. Count : Records[k].type = DNS_TYPE_NS}}
                   <=> s \in {Dotted(t) : t \in ServersFor(name)}
      <4>1. ASSUME NEW n \in 1 .. Count, Records[n].type = DNS_TYPE_NS
            PROVE  n - 1 \in 1 .. C /\ Records[n].data = Dotted(found[n - 1].data)
        <5>1. n # 1
          BY <2>6, <4>1
        <5>2. n - 1 \in 1 .. C /\ (n - 1) + 1 = n
          BY <1>3, <1>14, <5>1
        <5> QED BY <2>7, <5>2
      <4>2. ASSUME NEW n \in 1 .. C
            PROVE  /\ n + 1 \in 1 .. Count /\ Records[n + 1].type = DNS_TYPE_NS
                   /\ Records[n + 1].data = Dotted(found[n].data)
        <5>1. n + 1 \in 1 .. Count
          BY <1>3, <1>14
        <5> QED BY <2>7, <5>1
      <4>3. s \in {Dotted(t) : t \in ServersFor(name)} <=> \E n \in 1 .. C : s = Dotted(found[n].data)
        BY <1>3
      <4>4. ASSUME s \in {Records[n].data : n \in {k \in 1 .. Count : Records[k].type = DNS_TYPE_NS}}
            PROVE  \E n \in 1 .. C : s = Dotted(found[n].data)
        <5>1. PICK n \in 1 .. Count : Records[n].type = DNS_TYPE_NS /\ s = Records[n].data
          BY <4>4
        <5> QED BY <4>1, <5>1
      <4>5. ASSUME NEW n \in 1 .. C, s = Dotted(found[n].data)
            PROVE  s \in {Records[m].data : m \in {k \in 1 .. Count : Records[k].type = DNS_TYPE_NS}}
        BY <4>2, <4>5
      <4> QED BY <4>3, <4>4, <4>5
    <3> QED BY <3>1 DEF Served
  <2>10. Framed(id)
    <3>1. /\ Short(reply, QuestionEnd - 4) = query.type /\ QuestionName = Dotted(query.name)
      BY <1>2, <1>13, <1>14, <2>1, QuestionReads
    <3>2. 1 + C \in 1 .. 1 + C /\ Count # 0
      BY <1>3, <1>14
    <3>3. Records[Count].next = Len(reply)
      BY <1>14, <1>15, <2>5, <3>2 DEF ReadAs
    <3> QED BY <1>14, <3>1, <3>2, <3>3 DEF Framed
  <2>11. FlagsRight
    <3>1. aa = IF C = 0 THEN 0 ELSE 1
      BY <1>12 DEF aa
    <3>2. Count = 1 <=> C = 0
      BY <1>3, <1>14
    <3>3. 128 + 4 * 0 = 128 /\ 128 + 4 * 1 = 132
      OBVIOUS
    <3> QED BY <1>14, <3>1, <3>2, <3>3 DEF FlagsRight
  <2> QED BY <2>8, <2>9, <2>10, <2>11
<1> QED BY <1>24, <1>25, <1>26 DEF ReadsAs

---------------------------------------------------------------------------
(* The labels of the question *)

(* Labels stay short: in a text of which something behind is cut off, in    *)
(* lower case, and where a short label with its dot is added.               *)
LEMMA ShortPrefix ==
    ASSUME NEW s \in Texts, ShortLabels(s), NEW n \in 0 .. Len(s)
    PROVE  SubSeq(s, 1, n) \in Texts /\ ShortLabels(SubSeq(s, 1, n))
<1> DEFINE t == SubSeq(s, 1, n)
<1>1. s \in Seq(Bytes) /\ Len(s) \in Nat /\ DOMAIN s = 1 .. Len(s) /\ n \in Nat
  BY DEF Texts
<1>2. t \in Seq(Bytes) /\ Len(t) = n /\ \A k \in 1 .. n : t[k] = s[k]
  BY <1>1
<1> HIDE DEF t
<1>3. \A k \in 1 .. n : k \in Dots(s) => k \in Dots(t)
  BY <1>1, <1>2 DEF Dots
<1>4. ASSUME NEW k \in 1 .. Len(t) - 63 PROVE Dots(t) \cap (k .. k + 63) # {}
  <2>1. k \in 1 .. Len(s) - 63 /\ k .. k + 63 \subseteq 1 .. n
    BY <1>1, <1>2
  <2>2. Dots(s) \cap (k .. k + 63) # {}
    BY <2>1 DEF ShortLabels
  <2> QED BY <1>3, <2>1, <2>2
<1> QED BY <1>2, <1>4 DEF ShortLabels, Texts, t

(* strnlwr() leaves the labels as long as they are.                         *)
LEMMA ShortLowered ==
    ASSUME NEW s \in Texts, ShortLabels(s)
    PROVE  ShortLabels(strnlwr(s))
<1>1. s \in Seq(Bytes) /\ Len(s) \in Nat /\ DOMAIN s = 1 .. Len(s)
  BY DEF Texts
<1>2. ASSUME NEW b \in Bytes PROVE (IF b \in 65 .. 90 THEN b + 32 ELSE b) = Dot <=> b = Dot
  BY DEF Bytes, Dot
<1>3. DOMAIN strnlwr(s) = 1 .. Len(s) /\ Len(strnlwr(s)) = Len(s)
  <2>1. strnlwr(s) \in Seq(Bytes)
    BY Lowered DEF Texts
  <2>2. DOMAIN strnlwr(s) = 1 .. Len(s)
    BY <1>1 DEF strnlwr
  <2> QED BY <1>1, <2>1, <2>2
<1>4. \A k \in 1 .. Len(s) : strnlwr(s)[k] = Dot <=> s[k] = Dot
  BY <1>1, <1>2 DEF strnlwr
<1>5. Dots(strnlwr(s)) = Dots(s)
  BY <1>1, <1>3, <1>4 DEF Dots
<1> QED BY <1>3, <1>5 DEF ShortLabels

(* The text that is behind a dot, or at the start.                          *)
EndsLabel(s) == s = << >> \/ s[Len(s)] = Dot

(* A label of at most 63 bytes and a dot, behind a text that is empty or    *)
(* ends with a dot.                                                         *)
LEMMA ShortJoined ==
    ASSUME NEW s \in Texts, ShortLabels(s), EndsLabel(s), NEW label \in Seq(Bytes), Len(label) \in 1 .. 63
    PROVE  ShortLabels(s \o label \o <<Dot>>) /\ EndsLabel(s \o label \o <<Dot>>)
<1> DEFINE c == Len(label)
           L == Len(s)
           t == s \o label \o <<Dot>>
<1>1. s \in Seq(Bytes) /\ L \in Nat /\ DOMAIN s = 1 .. L /\ <<Dot>> \in Seq(Bytes) /\ Len(<<Dot>>) = 1 /\ <<Dot>>[1] = Dot
  BY DEF Texts, Dot, Bytes
<1>2. s # << >> <=> L >= 1
  BY <1>1, SomeText
<1> DEFINE u == s \o label
<1>3. u \in Seq(Bytes) /\ Len(u) = L + c /\ \A k \in 1 .. L : u[k] = s[k]
  BY <1>1, ConcatProperties
<1> HIDE DEF u
<1>4. t \in Seq(Bytes) /\ Len(t) = (L + c) + 1 /\ \A k \in 1 .. L + c : t[k] = u[k]
  <2>1. t = u \o <<Dot>>
    BY DEF u
  <2> HIDE DEF t, L, c
  <2>2. u \o <<Dot>> \in Seq(Bytes) /\ Len(u \o <<Dot>>) = Len(u) + 1 /\ \A k \in 1 .. Len(u) : (u \o <<Dot>>)[k] = u[k]
    BY <1>1, <1>3, ConcatProperties
  <2> QED BY <1>3, <2>1, <2>2
<1>5. t[(L + c) + 1] = Dot
  <2>1. t = u \o <<Dot>>
    BY DEF u
  <2> HIDE DEF t, L, c
  <2>2. L + c \in Nat /\ Len(u) = L + c
    <3>1. Len(u) \in Nat
      BY <1>3
    <3> QED BY <1>3, <3>1
  <2>3. (u \o <<Dot>>)[(L + c) + 1] = <<Dot>>[((L + c) + 1) - (L + c)]
    <3>1. (L + c) + 1 \in 1 .. Len(u) + Len(<<Dot>>) /\ ~((L + c) + 1 <= Len(u))
      BY <1>1, <2>2
    <3>2. (u \o <<Dot>>)[(L + c) + 1] = <<Dot>>[((L + c) + 1) - Len(u)]
      BY <1>1, <1>3, <3>1, ConcatProperties
    <3> QED BY <2>2, <3>2
  <2>4. ((L + c) + 1) - (L + c) = 1
    BY <2>2
  <2> QED BY <1>1, <2>1, <2>3, <2>4
<1> HIDE DEF t
<1>6. c \in 1 .. 63
  OBVIOUS
<1> HIDE DEF c, L
<1>7. \A k \in 1 .. L : k \in Dots(s) => k \in Dots(t)
  <2>1. \A k \in 1 .. L : k \in 1 .. L + c /\ k \in 1 .. Len(t)
    BY <1>1, <1>4, <1>6
  <2>2. DOMAIN t = 1 .. Len(t)
    BY <1>4
  <2> QED BY <1>3, <1>4, <2>1, <2>2 DEF Dots
<1>8. (L + c) + 1 \in Dots(t)
  <2>1. (L + c) + 1 \in 1 .. Len(t)
    BY <1>1, <1>4, <1>6
  <2>2. DOMAIN t = 1 .. Len(t)
    BY <1>4
  <2> QED BY <1>5, <2>1, <2>2 DEF Dots
<1>9. ASSUME NEW k \in 1 .. Len(t) - 63 PROVE Dots(t) \cap (k .. k + 63) # {}
  <2>0. k \in Nat /\ 1 <= k /\ k + 63 <= (L + c) + 1
    BY <1>1, <1>4, <1>6
  <2>1. CASE k + 63 <= L
    <3>1. k \in 1 .. L - 63 /\ k .. k + 63 \subseteq 1 .. L
      BY <1>1, <2>0, <2>1
    <3>2. Dots(s) \cap (k .. k + 63) # {}
      BY <3>1 DEF ShortLabels, L
    <3> QED BY <1>7, <3>1, <3>2
  <2>2. CASE k + 63 = (L + c) + 1
    <3>1. (L + c) + 1 \in k .. k + 63
      BY <2>0, <2>2
    <3> QED BY <1>8, <3>1
  <2>3. CASE L < k + 63 /\ k + 63 < (L + c) + 1
    <3>1. L \in k .. k + 63 /\ L \in 1 .. L /\ L >= 1
      BY <1>1, <1>6, <2>0, <2>3
    <3>2. L \in Dots(s)
      BY <1>1, <1>2, <3>1 DEF EndsLabel, Dots, L
    <3> QED BY <1>7, <3>1, <3>2
  <2> QED BY <1>1, <1>6, <2>0, <2>1, <2>2, <2>3
<1>10. EndsLabel(t)
  BY <1>4, <1>5 DEF EndsLabel
<1> QED BY <1>9, <1>10 DEF ShortLabels, t

(* What the question's name is made of has short labels, unless it is left  *)
(* to the stack.                                                            *)
LEMMA ShortQuestion ==
    ASSUME NEW s \in Texts, ShortLabels(s)
    PROVE  ShortLabels(strnlwr(WithoutDot(CString(s))))
<1>1. CString(s) \in Texts /\ ShortLabels(CString(s))
  <2> DEFINE zeros == {k \in DOMAIN s : s[k] = 0}
  <2>1. CASE zeros = {}
    BY <2>1 DEF CString
  <2>2. CASE zeros # {}
    <3>1. Len(s) \in Nat /\ zeros \subseteq 1 .. Len(s) /\ zeros \in SUBSET Nat
      BY DEF Texts
    <3>2. Min(zeros) \in 1 .. Len(s)
      BY <2>2, <3>1, LeastOf
    <3>3. CString(s) = SubSeq(s, 1, Min(zeros) - 1)
      BY <2>2 DEF CString
    <3> HIDE DEF zeros
    <3>4. Min(zeros) - 1 \in 0 .. Len(s)
      BY <3>1, <3>2
    <3> QED BY <3>3, <3>4, ShortPrefix
  <2> QED BY <2>1, <2>2
<1>2. ASSUME NEW t \in Texts, ShortLabels(t) PROVE WithoutDot(t) \in Texts /\ ShortLabels(WithoutDot(t))
  <2>1. CASE t # << >> /\ Last(t) = Dot
    <3>1. Len(t) \in Nat \ {0}
      BY <2>1, EmptySeq DEF Texts
    <3>2. Len(t) - 1 \in 0 .. Len(t) /\ WithoutDot(t) = SubSeq(t, 1, Len(t) - 1)
      BY <2>1, <3>1 DEF WithoutDot, Front
    <3> QED BY <1>2, <3>2, ShortPrefix
  <2>2. CASE ~(t # << >> /\ Last(t) = Dot)
    BY <1>2, <2>2 DEF WithoutDot
  <2> QED BY <2>1, <2>2
<1> QED BY <1>1, <1>2, ShortLowered

---------------------------------------------------------------------------
(* Every reply *)

(* The text so far has short labels, and ends with a dot while it grows.    *)
LabelsInv == ShortLabels(dest) /\ (pc = "name" => EndsLabel(dest))

(* No text has no long label.                                               *)
LEMMA NothingShort == ShortLabels(<< >>) /\ EndsLabel(<< >>)
<1>1. 1 .. Len(<< >>) - 63 = {}
  OBVIOUS
<1> QED BY <1>1 DEF ShortLabels, EndsLabel

(* At the start there is no text yet.                                       *)
LEMMA LabelsInit == NameInit => LabelsInv
BY NothingShort DEF NameInit, LabelsInv

(* Every label that get_objname() copies is short.                          *)
LEMMA LabelsStep == NameInv /\ LabelsInv /\ [NameNext]_nameVars => LabelsInv'
<1> SUFFICES ASSUME NameInv, LabelsInv, [NameNext]_nameVars PROVE LabelsInv'
  OBVIOUS
<1>1. dest \in Texts /\ msg \in Seq(Bytes) /\ (pc = "name" => i \in Nat)
  BY DnsNameAssumption DEF NameInv, NameTypeOK, Texts
<1>2. CASE EndOfName
  <2>1. dest' = SubSeq(dest, 1, Len(dest) - 1) /\ pc' # "name"
    BY <1>2 DEF EndOfName
  <2>2. CASE dest = << >>
    <3>1. dest' = << >>
      BY <2>1, <2>2
    <3> QED BY <2>1, <3>1, NothingShort DEF LabelsInv
  <2>3. CASE dest # << >>
    <3>1. Len(dest) - 1 \in 0 .. Len(dest)
      <4>1. Len(dest) \in Nat \ {0}
        BY <1>1, <2>3, EmptySeq DEF Texts
      <4> QED BY <4>1
    <3>2. ShortLabels(SubSeq(dest, 1, Len(dest) - 1))
      BY <1>1, <3>1, ShortPrefix DEF LabelsInv
    <3> QED BY <2>1, <3>2 DEF LabelsInv
  <2> QED BY <2>2, <2>3
<1>3. CASE CopyLabel
  <2> DEFINE c == Byte(i)
             label == SubSeq(msg, i + 2, i + 1 + c)
  <2>1. /\ pc = "name" /\ dest' = dest \o label \o <<Dot>> /\ c \in 1 .. 63 /\ i + 1 + c < Len(msg)
    <3>1. pc = "name" /\ c \in 1 .. 63 /\ dest' = dest \o label \o <<Dot>> /\ ~(i + 1 + c >= Len(msg))
      BY <1>3 DEF CopyLabel, LabelCrosses
    <3> HIDE DEF c
    <3>2. i + 1 + c \in Int /\ Len(msg) \in Int
      <4>1. i \in Nat /\ c \in Nat /\ Len(msg) \in Nat
        BY <1>1, <3>1
      <4> QED BY <4>1
    <3> QED BY <3>1, <3>2
  <2> HIDE DEF c
  <2>2. label \in Seq(Bytes) /\ Len(label) = c
    BY <1>1, <2>1, LabelOf
  <2> HIDE DEF label
  <2>3. Len(label) \in 1 .. 63 /\ ShortLabels(dest) /\ EndsLabel(dest)
    BY <2>1, <2>2 DEF LabelsInv
  <2>4. ShortLabels(dest \o label \o <<Dot>>) /\ EndsLabel(dest \o label \o <<Dot>>)
    BY <1>1, <2>2, <2>3, ShortJoined
  <2> QED BY <2>1, <2>4 DEF LabelsInv
<1>4. CASE FollowPointer
  BY <1>4 DEF FollowPointer, LabelsInv
<1>5. CASE RefuseName
  BY <1>5 DEF RefuseName, Refuse, LabelsInv
<1>6. CASE UNCHANGED nameVars
  BY <1>6 DEF nameVars, LabelsInv
<1> QED BY <1>2, <1>3, <1>4, <1>5, <1>6 DEF NameNext, get_objname

(* And so has the name of the question.                                     *)
QueryInv == j = -1 \/ ShortLabels(query.name)

(* No question has no long label.                                           *)
LEMMA NoQueryShort == ShortLabels(NoQuery.name)
BY NothingShort DEF NoQuery

(* The question has short labels after every step: only the names of the    *)
(* files may have longer ones.                                              *)
LEMMA QueryStep == NameInv /\ LabelsInv /\ LookupInv /\ QueryInv /\ [Next]_vars => QueryInv'
<1> SUFFICES ASSUME NameInv, LabelsInv, LookupInv, QueryInv, [Next]_vars PROVE QueryInv'
  OBVIOUS
<1>1. ASSUME j' = j, query' = query PROVE QueryInv'
  BY <1>1 DEF QueryInv
<1>2. ASSUME query' = NoQuery PROVE QueryInv'
  BY <1>2, NoQueryShort DEF QueryInv
<1>3. CASE chroot \/ master_reinit \/ Lookup \/ DontKnow \/ UNCHANGED vars
  BY <1>1, <1>3 DEF chroot, master_reinit, Lookup, DontKnow, vars, nameVars
<1>4. CASE \E p \in Packets : Arrive(p)
  BY <1>2, <1>4 DEF Arrive, LookupInv
<1>5. CASE ReadName
  BY <1>2, <1>5 DEF ReadName, LookupInv
<1>6. CASE parse_query
  <2>1. j' = j
    BY <1>6 DEF parse_query, nameVars
  <2>2. CASE query' = NoQuery
    BY <1>2, <2>2
  <2>3. CASE j # -1 /\ query' # NoQuery
    <3>1. query'.name = strnlwr(WithoutDot(CString(dest)))
      BY <1>6, <2>3 DEF parse_query
    <3>2. dest \in Texts /\ ShortLabels(dest)
      BY DEF NameInv, NameTypeOK, Texts, LabelsInv
    <3> QED BY <3>1, <3>2, ShortQuestion DEF QueryInv
  <2> QED BY <2>1, <2>2, <2>3 DEF QueryInv
<1>7. CASE Return
  BY <1>2, <1>7 DEF Return
<1> QED BY <1>3, <1>4, <1>5, <1>6, <1>7 DEF Next

(* The reply that waits to be sent is what the table makes of the question. *)
ReplyMade == reply = master_lookup(query, SubSeq(msg, 1, 2))
ReplyInv == stage = "answered" => ReplyMade

(* The table and the question do not change while the reply waits.          *)
LEMMA ReplyStep == ReplyInv /\ [Next]_vars => ReplyInv'
<1> SUFFICES ASSUME ReplyInv, [Next]_vars, stage' = "answered" PROVE ReplyMade'
  BY DEF ReplyInv
<1>1. ASSUME query' = query, msg' = msg, dbv' = dbv, reply' = master_lookup(query, SubSeq(msg, 1, 2))
      PROVE  ReplyMade'
  <2>1. \A name : dns_lookup(name)' = dns_lookup(name)
    BY <1>1 DEF dns_lookup
  <2>2. \A places : InOrder(places)' = InOrder(places)
    BY <1>1 DEF InOrder
  <2>3. \A offset, object : compile_dnsrecords(offset, object)' = compile_dnsrecords(offset, object)
    BY <2>1, <2>2, Zenon DEF compile_dnsrecords
  <2>4. \A q : Answers(q)' = Answers(q)
    BY <1>1 DEF Answers, ptr_lookup, name_lookup, dns_lookup
  <2>5. \A q : Told(q)' = Told(q)
    BY <1>1, <2>4 DEF Told
  <2>6. \A id, q, rdata : Assemble(id, q, rdata)' = Assemble(id, q, rdata)
    BY <2>3, Zenon DEF Assemble
  <2>7. \A id, q : AssembleServers(id, q)' = AssembleServers(id, q)
    BY <2>1, <2>2, Zenon DEF AssembleServers
  <2>8. \A name : OurAuthority(name)' <=> OurAuthority(name)
    BY <1>1 DEF OurAuthority, authority_lookup
  <2>9. \A q, id : master_lookup(q, id)' = master_lookup(q, id)
    BY <2>4, <2>5, <2>6, <2>7, <2>8 DEF master_lookup
  <2> QED BY <1>1, <2>9 DEF ReplyMade
<1>2. CASE Lookup
  BY <1>1, <1>2 DEF Lookup, nameVars, tableVars
<1>3. CASE UNCHANGED vars
  BY <1>1, <1>3 DEF vars, nameVars, tableVars, ReplyInv, ReplyMade
<1>4. CASE chroot \/ master_reinit \/ (\E p \in Packets : Arrive(p)) \/ ReadName \/ parse_query \/ DontKnow \/ Return
  <2>1. stage' # "answered"
    BY <1>4 DEF chroot, master_reinit, Arrive, ReadName, parse_query, DontKnow, Return
  <2> QED BY <2>1
<1> QED BY <1>2, <1>3, <1>4 DEF Next

(* What is asked for when there is an answer, and what it is.               *)
LEMMA KnownAsked ==
    ASSUME NEW q, Known(q), q.name \in Texts
    PROVE  Asked(q) /\ Handled(q)
<1>1. Handled(q)
  BY KindsOf DEF Known, AskedFor
<1>2. q.type \in Nat /\ q.type < 65536
  <2>1. q.type \in {1, 2, 12}
    BY <1>1 DEF Handled, DNS_TYPE_A, DNS_TYPE_NS, DNS_TYPE_PTR
  <2> QED BY <2>1
<1>3. q.class \in Nat
  BY DEF Known, Usual, DNS_CLASS_INET
<1> QED BY <1>1, <1>2, <1>3 DEF Asked, Known, Usual

(* In a state where all that holds, a reply reads back, whatever kind of    *)
(* question it answers.                                                     *)
LEMMA AnswerReads == NameInv /\ Built /\ TableInv /\ LookupInv /\ QueryInv /\ ReplyInv => AnswerReadsBack
<1> SUFFICES ASSUME NameInv, Built, TableInv, LookupInv, QueryInv, ReplyInv,
                    stage = "answered", Len(reply) <= PACKET_ASSEMBLYSIZE
             PROVE  /\ Ancount = 0 <=> Answers(query) = {}
                    /\ /\ Ancount > 0
                       /\ j = -1 => ShortLabels(query.name)
                       /\ query.type # DNS_TYPE_A => IsName(Told(query))
                       => Records[1].data = IF query.type = DNS_TYPE_A THEN Told(query) ELSE Dotted(Told(query))
                    /\ NamesFit => Framed(SubSeq(msg, 1, 2)) /\ Owned /\ Served /\ FlagsRight
  BY DEF AnswerReadsBack, NamesFit, Framed, Owned, Served, FlagsRight
<1> DEFINE id == SubSeq(msg, 1, 2)
<1>1. Known(query) /\ query.name \in Texts
  BY DEF LookupInv
<1>2. Asked(query) /\ Handled(query) /\ Usual(query)
  BY <1>1, KnownAsked DEF Known
<1>3. id \in Seq(Bytes) /\ Len(id) = 2
  <2>1. msg \in Seq(Bytes) /\ Len(msg) >= 12
    BY DnsNameAssumption DEF NameInv, NameTypeOK
  <2> QED BY <2>1
<1>4. reply = master_lookup(query, id)
  BY DEF ReplyInv, ReplyMade
<1> HIDE DEF id
<1>5. Sent(id)
  BY <1>2, <1>3 DEF Sent
<1>6. DNS_TYPE_A # DNS_TYPE_NS /\ DNS_TYPE_A # DNS_TYPE_PTR /\ DNS_TYPE_NS # DNS_TYPE_PTR
  BY DEF DNS_TYPE_A, DNS_TYPE_NS, DNS_TYPE_PTR
<1>7. dbv \in HomeTables
  BY DEF TableInv
<1>8. ReadsAs(id)
  <2>1. CASE Answers(query) = {}
    <3>1. OurAuthority(query.name)
      BY <1>1, <2>1 DEF Known
    <3>2. reply = Negative(id, query)
      BY <1>2, <1>4, <2>1, <3>1 DEF master_lookup
    <3> QED BY <1>5, <2>1, <3>2, NegativeReads
  <2>2. CASE Answers(query) # {} /\ query.type = DNS_TYPE_A
    <3>1. reply = Assemble(id, query, Told(query))
      BY <1>2, <1>4, <1>6, <2>2 DEF master_lookup
    <3>2. Told(query) \in Seq(Bytes)
      BY <1>7, <2>2, ToldTyped
    <3> QED BY <1>5, <1>6, <2>2, <3>1, <3>2, AssembleReads
  <2>3. CASE Answers(query) # {} /\ query.type = DNS_TYPE_PTR
    <3>1. reply = Assemble(id, query, compile_name(Told(query)))
      BY <1>2, <1>4, <1>6, <2>3 DEF master_lookup
    <3>2. Told(query) \in Texts /\ compile_name(Told(query)) \in Seq(Bytes)
      BY <1>7, <2>3, ToldTyped, NameCompiled
    <3> QED BY <1>5, <1>6, <2>3, <3>1, <3>2, AssembleReads
  <2>4. CASE Answers(query) # {} /\ query.type = DNS_TYPE_NS
    <3>1. reply = AssembleServers(id, query)
      BY <1>2, <1>4, <1>6, <2>4 DEF master_lookup
    <3> QED BY <1>5, <2>4, <3>1, ServersRead
  <2> QED BY <1>2, <2>1, <2>2, <2>3, <2>4 DEF Handled
<1>10. (j = -1 => ShortLabels(query.name)) => ShortLabels(query.name)
  BY DEF QueryInv
<1> QED BY <1>8, <1>10 DEF ReadsAs, CountRight, FirstReads, id

(* Whatever the files hold and whatever is asked, a reply of the master     *)
(* that fits its buffer reads back as the question and as what the table    *)
(* says.                                                                    *)
THEOREM AnswersReadBack == Spec => []AnswerReadsBack
<1> DEFINE Whole == Built /\ TableInv /\ LookupInv /\ LabelsInv /\ QueryInv /\ ReplyInv
<1>1. Init => Whole
  <2>1. Init => LabelsInv
    BY LabelsInit DEF Init
  <2>2. Init => QueryInv /\ ReplyInv
    BY NoQueryShort DEF Init, QueryInv, ReplyInv
  <2> QED BY <2>1, <2>2, BuiltInit, TableInit, LookupInit
<1>2. NameInv /\ Whole /\ [Next]_vars => Whole'
  <2>1. NameInv /\ LabelsInv /\ [Next]_vars => LabelsInv'
    BY MasterStep, LabelsStep, LabelsInit, PTL
  <2> QED BY <2>1, BuiltStep, TableStep, LookupStep, QueryStep, ReplyStep
<1>3. NameInv /\ Whole => AnswerReadsBack
  BY AnswerReads
<1> HIDE DEF Whole
<1> QED BY <1>1, <1>2, <1>3, NamesStayInBounds, PTL DEF Spec
=============================================================================
