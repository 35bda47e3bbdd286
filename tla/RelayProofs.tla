----------------------------- MODULE RelayProofs -----------------------------
(***************************************************************************)
(* Proofs about Relay for every network, limit, timeout and set of         *)
(* clients.                                                                *)
(***************************************************************************)
EXTENDS Relay, FiniteSetTheorems, SequenceTheorems, WellFoundedInduction, TLAPS

-----------------------------------------------------------------------------
(* Minima and list positions                                               *)

(* A non-empty set of naturals has a least element, and Min is it.         *)
LEMMA MinOfNats ==
  ASSUME NEW S, S \subseteq Nat, S # {}
  PROVE  Min(S) \in S /\ \A x \in S : Min(S) <= x
  <1>1. PICK x \in S : \A y \in S : ~ (<<y, x>> \in OpToRel(<, Nat))
    BY NatLessThanWellFounded, WFMin
  <1>2. \A y \in S : x <= y
    <2>. SUFFICES ASSUME NEW y \in S, y < x  PROVE FALSE
      OBVIOUS
    <2>1. <<y, x>> \in OpToRel(<, Nat)
      BY Zenon DEF OpToRel
    <2>. QED  BY <1>1, <2>1
  <1>. QED  BY <1>2 DEF Min

(* The servers are numbered from 1.                                        *)
LEMMA ServersNumbered ==
    /\ Servers \subseteq Nat \ {0}
    /\ IsFiniteSet(Servers)
    /\ Cardinality(Servers) \in Nat
    /\ \A s \in Servers : s <= Cardinality(Servers)
  <1>1. PICK n \in Nat : Servers = 1 .. n
    BY RelayAssumption DEF Servers
  <1>2. /\ IsFiniteSet(1 .. n)
        /\ Cardinality(1 .. n) = IF 1 > n THEN 0 ELSE n - 1 + 1
    BY FS_Interval
  <1>. QED  BY <1>1, <1>2

(* A walk of a server list from any place finds a member of a non-empty    *)
(* set, and the one it comes to first.                                     *)
LEMMA FirstFromFirst ==
  ASSUME NEW start \in Servers \cup {Head0}, NEW S, S \subseteq Servers, S # {}
  PROVE  /\ FirstFrom(start, S) \in S
         /\ \A t \in S : Steps(start, FirstFrom(start, S)) <= Steps(start, t)
  <1>. DEFINE D == {Steps(start, s) : s \in S}
  <1>1. \A s \in S : Steps(start, s) \in Nat
    <2>. SUFFICES ASSUME NEW s \in S PROVE Steps(start, s) \in Nat
      OBVIOUS
    <2>1. /\ s \in Nat \ {0} /\ start \in Nat /\ Cardinality(Servers) \in Nat
          /\ start <= Cardinality(Servers)
      BY ServersNumbered DEF Head0
    <2>. QED  BY <2>1 DEF Steps
  <1>2. D \subseteq Nat /\ D # {}
    BY <1>1
  <1>3. PICK s \in S : Steps(start, s) = Min(D)
    BY <1>2, MinOfNats
  <1>4. \A t \in S : Steps(start, s) <= Steps(start, t)
    BY <1>2, <1>3, MinOfNats
  <1>. QED  BY <1>4 DEF FirstFrom

(* Which is in the set.                                                    *)
LEMMA FirstFromFound ==
  ASSUME NEW start \in Servers \cup {Head0}, NEW S, S \subseteq Servers, S # {}
  PROVE  FirstFrom(start, S) \in S
  <1>. QED  BY FirstFromFirst

(* next_active() returns an active server of the interface, or nothing.    *)
LEMMA NextActive ==
  ASSUME NEW i, NEW start \in Servers \cup {Head0}, NEW ina
  PROVE  \/ next_active(i, start, ina) = Nothing
         \/ /\ next_active(i, start, ina) \in Servers
            /\ InfOf[next_active(i, start, ina)] = i
            /\ ina[next_active(i, start, ina)] = Never
  <1>1. CASE ActiveOn(i, ina) = {}
    BY <1>1 DEF next_active, FirstFrom
  <1>2. CASE ActiveOn(i, ina) # {}
    <2>1. ActiveOn(i, ina) \subseteq Servers
      BY DEF ActiveOn
    <2>2. next_active(i, start, ina) \in ActiveOn(i, ina)
      BY <1>2, <2>1, FirstFromFound DEF next_active
    <2>. QED  BY <2>2 DEF ActiveOn
  <1>. QED  BY <1>1, <1>2

(* The value that stands for no server is none.                            *)
LEMMA NothingIsNoServer == Nothing \notin Servers
  <1>. QED  BY ServersNumbered, RelayAssumption

-----------------------------------------------------------------------------
(* The servers                                                             *)

(* What the invariant says of the deactivation times ina, the send times   *)
(* snd and the current servers cur.                                        *)
ServersOK(ina, snd, cur) ==
    /\ ina \in [Servers -> Age]
    /\ snd \in [Servers -> Age]
    /\ cur \in [Infs -> Servers \cup {Nothing}]
    /\ \A i \in Infs : cur[i] # Nothing => InfOf[cur[i]] = i /\ ina[cur[i]] = Never

(* The invariant is that of the servers and more.                          *)
LEMMA ServersOfInvariant == IInv => ServersOK(inactive, send_time, current)
  <1>. QED  BY DEF IInv, TypeOK, CurrentActive, ServersOK

(* Hearing of servers keeps the current ones active.                       *)
LEMMA HeardKeepsServers ==
  ASSUME NEW ina, NEW snd, NEW cur, ServersOK(ina, snd, cur), NEW S
  PROVE  ServersOK(Cleared(ina, S), Cleared(snd, S), cur)
  <1>. QED  BY DEF ServersOK, Cleared, Age

(* So does counting servers as asked.                                      *)
LEMMA SendingKeepsServers ==
  ASSUME NEW ina, NEW snd, NEW cur, ServersOK(ina, snd, cur), NEW S
  PROVE  ServersOK(ina, Sending(snd, S), cur)
  <1>. QED  BY DEF ServersOK, Sending, Age

(* And the passing of a second.                                            *)
LEMMA TickKeepsServers ==
  ASSUME NEW ina, NEW snd, NEW cur, ServersOK(ina, snd, cur), NEW c \in Nat, NEW d \in Nat
  PROVE  ServersOK([s \in Servers |-> Older(ina[s], c)],
                   [s \in Servers |-> Older(snd[s], d)], cur)
  <1>1. \A a \in Age : Older(a, c) \in Age /\ Older(a, d) \in Age
    BY DEF Older, Age, Never
  <1>2. Older(Never, c) = Never
    BY DEF Older
  <1>. QED  BY <1>1, <1>2 DEF ServersOK

(* Deactivating servers that are inactive, again, disturbs nothing.        *)
LEMMA AgainKeepsServers ==
  ASSUME NEW ina, NEW snd, NEW cur, ServersOK(ina, snd, cur),
         NEW S, \A s \in S : ina[s] # Never
  PROVE  ServersOK(Deactivated(ina, S), snd, cur)
  <1>. QED  BY NothingIsNoServer DEF ServersOK, Deactivated, Age

(* Deactivating a set S of servers is sound when the interfaces whose      *)
(* current server is in S move on.                                         *)
LEMMA MovingOnKeepsServers ==
  ASSUME NEW ina, NEW snd, NEW cur, ServersOK(ina, snd, cur),
         NEW S, S \subseteq Servers
  PROVE  ServersOK(Deactivated(ina, S), snd,
             [i \in Infs |-> IF cur[i] \in S
                             THEN next_active(i, cur[i], Deactivated(ina, S))
                             ELSE cur[i]])
  <1>. DEFINE ina2 == Deactivated(ina, S)
              cur2 == [i \in Infs |-> IF cur[i] \in S THEN next_active(i, cur[i], ina2)
                                      ELSE cur[i]]
  <1>1. ina2 \in [Servers -> Age]
    BY DEF ServersOK, Deactivated, Age
  <1>2. ASSUME NEW i \in Infs
        PROVE  cur2[i] \in Servers \cup {Nothing} /\
               (cur2[i] # Nothing => InfOf[cur2[i]] = i /\ ina2[cur2[i]] = Never)
    <2>1. CASE cur[i] \in S /\ cur[i] # Nothing
      <3>1. cur[i] \in Servers
        BY <2>1 DEF ServersOK
      <3>. QED  BY <2>1, <3>1, NextActive
    <2>2. CASE cur[i] \notin S
      BY <2>2, NothingIsNoServer DEF ServersOK, Deactivated
    <2>. QED  BY <2>1, <2>2, NothingIsNoServer
  <1>. QED  BY <1>1, <1>2 DEF ServersOK

(* handle_query() leaves the servers in order: the chosen interface's      *)
(* first active server, or the one after it when it is stale, becomes its  *)
(* current one, and the interfaces before it have none.                    *)
LEMMA ChoiceKeepsServers ==
  ASSUME IInv
  PROVE  /\ ServersOK(InactiveAtChoice, send_time, CurrentAtChoice)
         /\ \A s \in Servers : inactive[s] # Never => InactiveAtChoice[s] # Never
  <1>. DEFINE A == {i \in Infs : ActiveOn(i, inactive) # {}}
  <1>1. ServersOK(inactive, send_time, current)
    BY ServersOfInvariant
  <1>2. CASE ChosenInf = Head0
    <2>1. InactiveAtChoice = inactive
      BY <1>2 DEF InactiveAtChoice, Stale
    <2>2. \A i \in Infs : i # ChosenInf
      BY <1>2, RelayAssumption DEF Infs, Head0
    <2>3. CurrentAtChoice = [i \in Infs |-> Nothing]
      BY <1>2, <2>2 DEF CurrentAtChoice
    <2>. QED  BY <1>1, <2>1, <2>3 DEF ServersOK
  <1>3. CASE ChosenInf # Head0
    <2>1. A # {} /\ ChosenInf = Min(A)
      BY <1>3 DEF ChosenInf
    <2>2. A \subseteq Nat
      BY DEF Infs
    <2>3. ChosenInf \in A
      BY <2>1, <2>2, MinOfNats
    <2>4. /\ FirstActive \in Servers
          /\ InfOf[FirstActive] = ChosenInf
          /\ inactive[FirstActive] = Never
      <3>1. ActiveOn(ChosenInf, inactive) # {} /\ ActiveOn(ChosenInf, inactive) \subseteq Servers
        BY <2>3 DEF ActiveOn
      <3>2. FirstActive \in ActiveOn(ChosenInf, inactive)
        BY <3>1, FirstFromFound DEF FirstActive, next_active
      <3>. QED  BY <3>2 DEF ActiveOn
    <2>5. CASE ~Stale
      BY <1>1, <1>3, <2>4, <2>5 DEF InactiveAtChoice, CurrentAtChoice, ServersOK
    <2>6. CASE Stale
      <3>. DEFINE ina == Deactivated(inactive, {FirstActive})
                  next == next_active(ChosenInf, FirstActive, ina)
      <3>1. InactiveAtChoice = ina
        BY <2>6 DEF InactiveAtChoice
      <3>2. CurrentAtChoice = [i \in Infs |->
                IF i = ChosenInf THEN next ELSE IF i < ChosenInf THEN Nothing ELSE current[i]]
        BY <1>3, <2>6, <3>1 DEF CurrentAtChoice
      <3>3. ina \in [Servers -> Age]
        BY <1>1 DEF ServersOK, Deactivated, Age
      <3>4. \A s \in Servers : s # FirstActive => ina[s] = inactive[s]
        BY DEF Deactivated
      <3>5. next # Nothing => next \in Servers /\ InfOf[next] = ChosenInf /\ ina[next] = Never
        BY <2>4, NextActive
      <3>6. ASSUME NEW i \in Infs, i # ChosenInf, current[i] # Nothing
            PROVE  current[i] \in Servers /\ InfOf[current[i]] = i /\ ina[current[i]] = Never
        BY <1>1, <2>4, <3>4, <3>6 DEF ServersOK
      <3>7. CurrentAtChoice \in [Infs -> Servers \cup {Nothing}]
        BY <3>2, <3>5, <3>6
      <3>8. ASSUME NEW i \in Infs, CurrentAtChoice[i] # Nothing
            PROVE  InfOf[CurrentAtChoice[i]] = i /\ ina[CurrentAtChoice[i]] = Never
        BY <3>2, <3>5, <3>6, <3>8
      <3>9. \A s \in Servers : inactive[s] # Never => ina[s] # Never
        BY DEF Deactivated, Never
      <3>. QED  BY <1>1, <3>1, <3>3, <3>7, <3>8, <3>9 DEF ServersOK
    <2>. QED  BY <2>5, <2>6
  <1>. QED  BY <1>2, <1>3

-----------------------------------------------------------------------------
(* The query list                                                          *)

(* What the invariant says of a query list and the select set.             *)
QueriesOK(ql, fds) ==
    /\ ql \in Seq(Query)
    /\ \A j, k \in 1 .. Len(ql) : j # k => ql[j].client_qid # ql[k].client_qid
    /\ fds \subseteq Fds \cup {isock}

(* And of the packets on their way and in the receive queues.              *)
NetOK(fl, r) ==
    /\ fl \in [Fds -> Seq(Request)]
    /\ r \in [Fds -> Seq(Reply)]

(* The invariant is that of the queries and the packets, too.             *)
LEMMA QueriesOfInvariant ==
  ASSUME IInv
  PROVE  QueriesOK(qlist, fdmaster) /\ NetOK(flight, rx)
  <1>. QED  BY DEF IInv, TypeOK, ClientIdsUnique, QueriesOK, NetOK

(* Without(s, j) is the sequence s without its j-th element.               *)
LEMMA WithoutElement ==
  ASSUME NEW S, NEW s \in Seq(S), NEW j \in 1 .. Len(s)
  PROVE  /\ Without(s, j) \in Seq(S)
         /\ Len(Without(s, j)) = Len(s) - 1
         /\ \A k \in 1 .. Len(s) - 1 :
               Without(s, j)[k] = IF k < j THEN s[k] ELSE s[k + 1]
  <1>1. Len(s) - 1 \in Nat
    OBVIOUS
  <1>2. \A k \in 1 .. Len(s) - 1 : (IF k < j THEN s[k] ELSE s[k + 1]) \in S
    OBVIOUS
  <1>. QED  BY <1>1, <1>2 DEF Without

(* A query has one socket or three.                                        *)
LEMMA SocketsCounted ==
  ASSUME NEW q \in Query
  PROVE  /\ q.sock_arr \in Seq(Fds)
         /\ Len(q.sock_arr) \in {1, 3}
         /\ q.sock_arr[1] \in Fds
         /\ Socks(q) \subseteq Fds
  <1>1. PICK n \in {1, 3} : q.sock_arr \in [1 .. n -> Fds]
    BY DEF Query
  <1>2. q.sock_arr \in Seq(Fds) /\ Len(q.sock_arr) = n
    BY <1>1
  <1>3. q.sock_arr[1] \in Fds
    BY <1>1
  <1>. QED  BY <1>1, <1>2, <1>3 DEF Socks

(* Deleting a query keeps the list in order, and counts one to three       *)
(* sockets less.                                                           *)
LEMMA DestroyKeepsQueries ==
  ASSUME NEW ql, NEW fds, NEW socks \in Int, NEW j \in 1 .. Len(ql),
         QueriesOK(ql, fds), NetOK(flight, rx), Destroy(ql, fds, socks, j)
  PROVE  /\ QueriesOK(qlist', fdmaster')
         /\ NetOK(flight', rx')
         /\ upstream_sockets' \in Int
         /\ upstream_sockets' <= socks - 1
  <1>1. qlist' = Without(ql, j) /\ ql \in Seq(Query)
    BY DEF Destroy, QueriesOK
  <1>2. /\ qlist' \in Seq(Query)
        /\ Len(qlist') = Len(ql) - 1
        /\ \A k \in 1 .. Len(ql) - 1 : qlist'[k] = IF k < j THEN ql[k] ELSE ql[k + 1]
    BY <1>1, WithoutElement
  <1>3. \A k, l \in 1 .. Len(qlist') : k # l => qlist'[k].client_qid # qlist'[l].client_qid
    <2>. SUFFICES ASSUME NEW k \in 1 .. Len(qlist'), NEW l \in 1 .. Len(qlist'), k # l
                  PROVE  qlist'[k].client_qid # qlist'[l].client_qid
      OBVIOUS
    <2>. DEFINE m(i) == IF i < j THEN i ELSE i + 1
    <2>1. Len(ql) \in Nat /\ j \in Nat
      BY <1>1
    <2>2. m(k) \in 1 .. Len(ql) /\ m(l) \in 1 .. Len(ql) /\ m(k) # m(l)
      BY <1>2, <2>1
    <2>3. qlist'[k] = ql[m(k)] /\ qlist'[l] = ql[m(l)]
      BY <1>2, <2>1
    <2>. QED  BY <2>2, <2>3 DEF QueriesOK
  <1>4. fdmaster' \subseteq Fds \cup {isock}
    BY DEF Destroy, QueriesOK
  <1>5. NetOK(flight', rx')
    BY DEF Destroy, NetOK
  <1>6. Len(ql[j].sock_arr) \in {1, 3} /\ upstream_sockets' = socks - Len(ql[j].sock_arr)
    BY <1>1, SocketsCounted DEF Destroy
  <1>7. QueriesOK(qlist', fdmaster')
    BY <1>2, <1>3, <1>4 DEF QueriesOK
  <1>8. upstream_sockets' \in Int /\ upstream_sockets' <= socks - 1
    <2>1. PICK n \in {1, 3} : upstream_sockets' = socks - n
      BY <1>6
    <2>. QED  BY <2>1
  <1>. QED  BY <1>5, <1>7, <1>8

(* Changing a query without its id keeps the list in order.                *)
LEMMA ChangeKeepsQueries ==
  ASSUME NEW ql, NEW fds, QueriesOK(ql, fds),
         NEW j \in 1 .. Len(ql), NEW q \in Query, q.client_qid = ql[j].client_qid
  PROVE  QueriesOK([ql EXCEPT ![j] = q], fds)
  <1>. QED  BY DEF QueriesOK

(* So does appending one with an id that is not in the list.               *)
LEMMA AppendKeepsQueries ==
  ASSUME NEW ql, NEW fds, QueriesOK(ql, fds),
         NEW q \in Query, \A j \in 1 .. Len(ql) : ql[j].client_qid # q.client_qid
  PROVE  QueriesOK(Append(ql, q), fds)
  <1>. QED  BY DEF QueriesOK

(* The free descriptors can be counted.                                    *)
LEMMA FreeFdsFinite ==
    /\ IsFiniteSet(FreeFds)
    /\ Cardinality(FreeFds) \in Nat
    /\ FreeFds \subseteq Fds
    /\ Fds \subseteq Nat
  <1>1. PICK a \in Nat, b \in Int : Fds = a .. b
    BY RelayAssumption DEF Fds
  <1>2. FreeFds \subseteq Fds
    BY DEF FreeFds
  <1>3. IsFiniteSet(Fds) /\ Fds \subseteq Nat
    BY <1>1, FS_Interval
  <1>4. IsFiniteSet(FreeFds)
    BY <1>2, <1>3, FS_Subset
  <1>. QED  BY <1>2, <1>3, <1>4, FS_CardinalityType

(* A set with a positive number of descriptors has a least one.            *)
LEMMA LowestOfSome ==
  ASSUME NEW S, S \subseteq FreeFds, Cardinality(S) # 0
  PROVE  Min(S) \in S
  <1>1. IsFiniteSet(S) /\ S \subseteq Nat
    BY FreeFdsFinite, FS_Subset
  <1>2. S # {}
    BY <1>1, FS_EmptySet
  <1>. QED  BY <1>1, <1>2, MinOfNats

(* While enough descriptors are free, a new query has the one socket of a  *)
(* probe or the three of a request.                                        *)
LEMMA SocketsOfNew ==
  ASSUME NEW dummy \in BOOLEAN, Cardinality(FreeFds) >= SocketsOf(dummy)
  PROVE  LowestFree(SocketsOf(dummy)) \in [1 .. SocketsOf(dummy) -> Fds]
  <1>. DEFINE f1 == Min(FreeFds)
              f2 == Min(FreeFds \ {f1})
              f3 == Min(FreeFds \ {f1, f2})
  <1>1. SocketsOf(dummy) = IF dummy THEN 1 ELSE 3
    BY DEF SocketsOf
  <1>2. f1 \in FreeFds
    BY <1>1, FreeFdsFinite, LowestOfSome
  <1>3. CASE dummy
    <2>1. LowestFree(1) = <<f1>> /\ SocketsOf(dummy) = 1
      BY <1>1, <1>3 DEF LowestFree
    <2>2. f1 \in Fds
      BY <1>2, FreeFdsFinite
    <2>3. <<f1>> \in [1 .. 1 -> Fds]
      BY <2>2
    <2>. QED  BY <2>1, <2>3
  <1>4. CASE ~dummy
    <2>1. Cardinality(FreeFds) >= 3
      BY <1>1, <1>4
    <2>2. /\ IsFiniteSet(FreeFds \ {f1})
          /\ Cardinality(FreeFds \ {f1}) = Cardinality(FreeFds) - 1
      BY <1>2, FreeFdsFinite, FS_RemoveElement
    <2>3. f2 \in FreeFds \ {f1}
      BY <2>1, <2>2, FreeFdsFinite, LowestOfSome
    <2>4. FreeFds \ {f1, f2} = (FreeFds \ {f1}) \ {f2}
      OBVIOUS
    <2>5. Cardinality((FreeFds \ {f1}) \ {f2}) = Cardinality(FreeFds \ {f1}) - 1
      BY <2>2, <2>3, FS_RemoveElement
    <2>6. Cardinality(FreeFds \ {f1, f2}) # 0
      <3>. DEFINE n == Cardinality(FreeFds)
      <3>1. Cardinality(FreeFds \ {f1, f2}) = (n - 1) - 1
        BY <2>2, <2>4, <2>5
      <3>2. n \in Nat /\ n >= 3
        BY <2>1, FreeFdsFinite
      <3>. HIDE DEF n
      <3>. QED  BY <3>1, <3>2
    <2>7. f3 \in FreeFds \ {f1, f2}
      BY <2>6, LowestOfSome
    <2>8. f1 \in Fds /\ f2 \in Fds /\ f3 \in Fds
      BY <1>2, <2>3, <2>7, FreeFdsFinite
    <2>9. LowestFree(3) = <<f1, f2, f3>>
      BY DEF LowestFree
    <2>. QED  BY <1>1, <1>4, <2>8, <2>9
  <1>. QED  BY <1>3, <1>4

(* query_create() returns a query.                                         *)
LEMMA NewQueryTyped ==
  ASSUME NEW dummy \in BOOLEAN, Cardinality(FreeFds) >= SocketsOf(dummy),
         NEW client \in About, NEW id \in Nat
  PROVE  /\ NewQuery(dummy, client, id) \in Query
         /\ NewQuery(dummy, client, id).client_qid = id
         /\ Socks(NewQuery(dummy, client, id)) \subseteq Fds
  <1>. DEFINE q == NewQuery(dummy, client, id)
  <1>1. q.sock_arr \in [1 .. SocketsOf(dummy) -> Fds]
    BY SocketsOfNew DEF NewQuery
  <1>2. q.sock_arr \in [1 .. 1 -> Fds] \cup [1 .. 3 -> Fds]
    BY <1>1 DEF SocketsOf
  <1>3. q \in Query
    BY <1>2, RelayAssumption DEF NewQuery, Query
  <1>. QED  BY <1>1, <1>3 DEF NewQuery, Socks

-----------------------------------------------------------------------------
(* The invariant in parts                                                  *)

(* What the invariant says of the variables that only the loop uses.       *)
LoopOK ==
    /\ pc \in {"select", "reactivate", "probe", "replies", "request", "timeout",
              "crashed"}
    /\ fdread \subseteq Fds \cup {isock}
    /\ intr \in BOOLEAN
    /\ at \in Nat \X (1 .. 3)
    /\ todo \subseteq Servers
    /\ react_try \in Age /\ deact_try \in Age
    /\ sent \in Answer \cup {Nothing}

Parts ==
    /\ LoopOK /\ ProbesDue
    /\ ServersOK(inactive, send_time, current)
    /\ QueriesOK(qlist, fdmaster)
    /\ NetOK(flight, rx)
    /\ upstream_sockets \in Int /\ SocketLimit

(* The parts make up the invariant.                                        *)
LEMMA InvariantInParts == IInv <=> Parts
  <1>1. ASSUME qlist \in Seq(Query)
        PROVE  DOMAIN qlist = 1 .. Len(qlist)
    BY <1>1
  <1>. QED  BY <1>1 DEF IInv, TypeOK, CurrentActive, ClientIdsUnique, Parts, LoopOK,
                   ServersOK, QueriesOK, NetOK

(* The initial state has the invariant.                                    *)
LEMMA InitHasInvariant == Init => IInv
  <1>. SUFFICES ASSUME Init PROVE Parts
    BY InvariantInParts
  <1>1. LoopOK
    <2>1. <<0, 1>> \in Nat \X (1 .. 3)
      OBVIOUS
    <2>. QED  BY <2>1 DEF Init, LoopOK, Age
  <1>0. ProbesDue
    BY DEF Init, ProbesDue
  <1>2. ServersOK(inactive, send_time, current)
    <2>1. inactive \in [Servers -> Age] /\ send_time \in [Servers -> Age]
      BY DEF Init, Age
    <2>2. \A i \in Infs : \/ current[i] = Nothing
                          \/ /\ current[i] \in Servers
                             /\ InfOf[current[i]] = i
                             /\ inactive[current[i]] = Never
      BY NextActive DEF Init
    <2>3. current \in [Infs -> Servers \cup {Nothing}]
      BY <2>2 DEF Init
    <2>. QED  BY <2>1, <2>2, <2>3 DEF ServersOK
  <1>3. QueriesOK(qlist, fdmaster)
    BY DEF Init, QueriesOK
  <1>4. NetOK(flight, rx)
    BY DEF Init, NetOK
  <1>5. upstream_sockets \in Int /\ SocketLimit
    BY RelayAssumption DEF Init, SocketLimit
  <1>. QED  BY <1>0, <1>1, <1>2, <1>3, <1>4, <1>5 DEF Parts

-----------------------------------------------------------------------------
(* The steps before the replies                                            *)

(* Waiting, and being interrupted, change nothing the invariant is about.  *)
LEMMA WaitingKeepsInvariant ==
  ASSUME IInv, Select \/ Interrupt \/ IgnoreRequest \/ RepliesDone \/ RoundDone
  PROVE  IInv'
  <1>1. Parts
    BY InvariantInParts
  <1>2. UNCHANGED <<queryvars, servervars, netvars>>
    BY DEF Select, Interrupt, IgnoreRequest, RepliesDone, RoundDone
  <1>0. <<0, 1>> \in Nat \X (1 .. 3)
    OBVIOUS
  <1>3. LoopOK'
    <2>1. CASE Select
      BY <1>1, <2>1 DEF Parts, LoopOK, Select, QueriesOK, queryvars
    <2>2. CASE Interrupt
      BY <1>1, <2>2 DEF Parts, LoopOK, Interrupt
    <2>3. CASE IgnoreRequest
      BY <1>1, <2>3 DEF Parts, LoopOK, IgnoreRequest, loopvars
    <2>4. CASE RepliesDone
      BY <1>0, <1>1, <2>4 DEF Parts, LoopOK, RepliesDone
    <2>5. CASE RoundDone
      BY <1>0, <1>1, <2>5 DEF Parts, LoopOK, RoundDone
    <2>. QED  BY <2>1, <2>2, <2>3, <2>4, <2>5
  <1>4. ProbesDue'
    BY <1>1, <1>2 DEF Parts, ProbesDue, Select, Interrupt, IgnoreRequest, RepliesDone,
                RoundDone, loopvars, servervars
  <1>5. Parts'
    BY <1>1, <1>2, <1>3, <1>4 DEF Parts, SocketLimit, queryvars, servervars, netvars
  <1>. QED  BY <1>5, InvariantInParts, PTL

(* reactivate_servers() picks inactive servers only.                       *)
LEMMA ReactivateKeepsInvariant ==
  ASSUME IInv, reactivate_servers
  PROVE  IInv'
  <1>1. Parts
    BY InvariantInParts
  <1>2. UNCHANGED <<queryvars, servervars, netvars>>
    BY DEF reactivate_servers
  <1>3. LoopOK'
    BY <1>1 DEF Parts, LoopOK, reactivate_servers, Age
  <1>4. ProbesDue'
    BY <1>1, <1>2, RelayAssumption DEF Parts, ProbesDue, reactivate_servers, servervars, Never
  <1>5. Parts'
    BY <1>1, <1>2, <1>3, <1>4 DEF Parts, SocketLimit, queryvars, servervars, netvars
  <1>. QED  BY <1>5, InvariantInParts, PTL

(* deactivate_servers() moves the interfaces on from the overdue servers.  *)
LEMMA DeactivateKeepsInvariant ==
  ASSUME IInv, deactivate_servers
  PROVE  IInv'
  <1>1. Parts
    BY InvariantInParts
  <1>2. UNCHANGED <<queryvars, send_time, netvars>>
    BY DEF deactivate_servers
  <1>3. LoopOK'
    <2>1. deact_try' \in Age
      BY <1>1 DEF Parts, LoopOK, deactivate_servers, Deactivate, Age
    <2>2. pc' \in {"select", "timeout", "replies"}
      BY DEF deactivate_servers
    <2>3. /\ intr' = FALSE /\ sent' = Nothing
          /\ UNCHANGED <<fdread, at, todo, react_try>>
      BY DEF deactivate_servers
    <2>. QED  BY <1>1, <2>1, <2>2, <2>3 DEF Parts, LoopOK
  <1>4. ProbesDue'
    BY DEF ProbesDue, deactivate_servers
  <1>5. ServersOK(inactive, send_time, current)'
    <2>1. CASE UNCHANGED <<inactive, current>>
      BY <1>1, <1>2, <2>1 DEF Parts
    <2>2. CASE Deactivate /\ deact_try >= 1
      <3>1. Overdue \subseteq Servers
        BY DEF Overdue
      <3>2. /\ inactive' = Deactivated(inactive, Overdue)
            /\ current' = [i \in Infs |->
                  IF current[i] \in Overdue
                  THEN next_active(i, current[i], Deactivated(inactive, Overdue))
                  ELSE current[i]]
        BY <2>2 DEF Deactivate
      <3>. QED  BY <1>1, <1>2, <3>1, <3>2, MovingOnKeepsServers DEF Parts
    <2>. QED  BY <2>1, <2>2 DEF deactivate_servers, Deactivate
  <1>6. Parts'
    BY <1>1, <1>2, <1>3, <1>4, <1>5 DEF Parts, SocketLimit, queryvars, netvars
  <1>. QED  BY <1>6, InvariantInParts, PTL

(* What the network keeps for a socket are requests.                       *)
LEMMA CarryTyped ==
  ASSUME flight \in [Fds -> Seq(Request)], NEW f \in Fds, NEW m \in Request
  PROVE  Carry(f, m) \in Seq(Request)
  <1>. QED  BY DEF Carry

(* A probe changes a send time and what is in flight, or nothing.          *)
LEMMA ProbeKeeps ==
  ASSUME NEW ina, ServersOK(ina, send_time, current), NetOK(flight, rx),
         NEW s \in Servers, NEW f \in Fds, SendProbe(s, f), rx' = rx, current' = current
  PROVE  ServersOK(ina, send_time', current') /\ NetOK(flight', rx')
  <1>1. CASE UNCHANGED <<flight, send_time>>
    BY <1>1
  <1>2. CASE /\ flight' = [flight EXCEPT ![f] = Carry(f, [srv |-> s, about |-> Nothing])]
             /\ send_time' = Sending(send_time, {s})
    <2>1. Carry(f, [srv |-> s, about |-> Nothing]) \in Seq(Request)
      BY CarryTyped DEF NetOK, Request, About
    <2>2. NetOK(flight', rx')
      BY <1>2, <2>1 DEF NetOK
    <2>. QED  BY <1>2, <2>2, SendingKeepsServers
  <1>. QED  BY <1>1, <1>2 DEF SendProbe

(* query_create() gives up within the limit: when sockets are left open,   *)
(* there were fewer than a query needs.                                    *)
LEMMA RefusedKeeps ==
  ASSUME NEW dummy \in BOOLEAN, CreateRefused(dummy),
         upstream_sockets \in Int, SocketLimit, QueriesOK(qlist, fdmaster), qlist' = qlist
  PROVE  QueriesOK(qlist', fdmaster') /\ upstream_sockets' \in Int /\ SocketLimit'
  <1>1. CASE UNCHANGED <<fdmaster, upstream_sockets>>
    BY <1>1 DEF SocketLimit
  <1>2. CASE /\ ~LimitReached
             /\ Cardinality(FreeFds) < SocketsOf(dummy)
             /\ fdmaster' = fdmaster \cup FreeFds
             /\ upstream_sockets' = upstream_sockets + Cardinality(FreeFds)
    <2>. DEFINE n == Cardinality(FreeFds)
    <2>1. n \in Nat /\ n < 3
      BY <1>2, FreeFdsFinite DEF SocketsOf
    <2>2. upstream_sockets < MaxSockets /\ MaxSockets \in Nat
      BY <1>2, RelayAssumption DEF LimitReached
    <2>3. upstream_sockets' = upstream_sockets + n
      BY <1>2
    <2>. HIDE DEF n
    <2>4. upstream_sockets' \in Int /\ upstream_sockets' <= MaxSockets + 2
      BY <2>1, <2>2, <2>3
    <2>5. QueriesOK(qlist', fdmaster')
      BY <1>2, FreeFdsFinite DEF QueriesOK
    <2>. QED  BY <2>4, <2>5 DEF SocketLimit
  <1>. QED  BY <1>1, <1>2 DEF CreateRefused

(* The query query_add() finds is in the list, and has the id.             *)
LEMMA RepetitionFound ==
  ASSUME NEW id, Repeats(id) # {}, qlist \in Seq(Query)
  PROVE  /\ Min(Repeats(id)) \in 1 .. Len(qlist)
         /\ qlist[Min(Repeats(id))] \in Query
         /\ qlist[Min(Repeats(id))].client_qid = id
  <1>1. Repeats(id) \subseteq Nat
    BY DEF Repeats
  <1>2. Min(Repeats(id)) \in Repeats(id)
    BY <1>1, MinOfNats
  <1>. QED  BY <1>2 DEF Repeats

(* A probe goes to an inactive server, through a query of its own or one   *)
(* that has its id.                                                        *)
LEMMA ProbingKeepsInvariant ==
  ASSUME IInv, retry_srvlist
  PROVE  IInv'
  <1>1. Parts
    BY InvariantInParts
  <1>. DEFINE s == Min(todo)
  <1>2. s \in todo /\ s \in Servers /\ inactive[s] # Never
    <2>1. todo # {} /\ todo \subseteq Servers
      BY <1>1 DEF retry_srvlist, Parts, LoopOK
    <2>2. s \in todo
      BY <2>1, ServersNumbered, MinOfNats
    <2>. QED  BY <1>1, <2>1, <2>2 DEF Parts, ProbesDue
  <1>3. /\ todo' = todo \ {s} /\ inactive' = Deactivated(inactive, {s}) /\ sent' = Nothing
        /\ UNCHANGED <<pc, fdread, intr, at, react_try, deact_try, current, rx>>
    BY DEF retry_srvlist
  <1>4. LoopOK'
    BY <1>1, <1>3 DEF Parts, LoopOK
  <1>5. ProbesDue'
    <2>1. \A t \in todo : inactive'[t] # Never
      BY <1>1, <1>3 DEF Parts, LoopOK, ProbesDue, Deactivated, Never
    <2>. QED  BY <1>3, <2>1 DEF ProbesDue, retry_srvlist
  <1>6. ServersOK(inactive', send_time, current)
    <2>1. \A t \in {s} : inactive[t] # Never
      BY <1>2
    <2>. QED  BY <1>1, <1>3, <2>1, AgainKeepsServers DEF Parts
  <1>7. NetOK(flight, rx) /\ QueriesOK(qlist, fdmaster) /\ qlist \in Seq(Query)
    BY <1>1 DEF Parts, QueriesOK
  <1>8. PICK id \in UnusedId \cup Collisions :
          \/ /\ Repeats(id) # {}
             /\ qlist' = [qlist EXCEPT ![Min(Repeats(id))].client_time = 0,
                                       ![Min(Repeats(id))].ttl = ReactivateInterval]
             /\ SendProbe(s, qlist[Min(Repeats(id))].sock_arr[1])
             /\ UNCHANGED <<fdmaster, upstream_sockets>>
          \/ /\ Repeats(id) = {} /\ CreateAllowed(TRUE)
             /\ qlist' = Append(qlist, NewQuery(TRUE, Nothing, id))
             /\ fdmaster' = fdmaster \cup Socks(NewQuery(TRUE, Nothing, id))
             /\ upstream_sockets' = upstream_sockets + 1
             /\ SendProbe(s, NewQuery(TRUE, Nothing, id).sock_arr[1])
          \/ /\ Repeats(id) = {} /\ CreateRefused(TRUE)
             /\ UNCHANGED <<qlist, flight, send_time>>
    BY DEF retry_srvlist
  <1>9. id \in Nat
    BY RelayAssumption DEF UnusedId
  <1>10. /\ ServersOK(inactive', send_time', current')
         /\ QueriesOK(qlist', fdmaster') /\ NetOK(flight', rx')
         /\ upstream_sockets' \in Int /\ SocketLimit'
    <2>1. CASE /\ Repeats(id) # {}
               /\ qlist' = [qlist EXCEPT ![Min(Repeats(id))].client_time = 0,
                                         ![Min(Repeats(id))].ttl = ReactivateInterval]
               /\ SendProbe(s, qlist[Min(Repeats(id))].sock_arr[1])
               /\ UNCHANGED <<fdmaster, upstream_sockets>>
      <3>. DEFINE j == Min(Repeats(id))
                  q == [qlist[j] EXCEPT !.client_time = 0, !.ttl = ReactivateInterval]
      <3>1. j \in 1 .. Len(qlist) /\ qlist[j] \in Query
        BY <1>7, <2>1, RepetitionFound
      <3>2. qlist[j].sock_arr[1] \in Fds
        BY <3>1, SocketsCounted
      <3>3. ServersOK(inactive', send_time', current') /\ NetOK(flight', rx')
        BY <1>2, <1>3, <1>6, <1>7, <2>1, <3>2, ProbeKeeps
      <3>4. q \in Query /\ q.client_qid = qlist[j].client_qid
        BY <3>1, RelayAssumption DEF Query
      <3>5. qlist' = [qlist EXCEPT ![j] = q]
        BY <1>7, <2>1, <3>1
      <3>. HIDE DEF j, q
      <3>6. QueriesOK(qlist', fdmaster')
            <4>1. QueriesOK([qlist EXCEPT ![j] = q], fdmaster)
          BY <1>7, <3>1, <3>4, ChangeKeepsQueries
        <4>. QED  BY <2>1, <3>5, <4>1
      <3>. QED  BY <1>1, <2>1, <3>3, <3>6 DEF Parts, SocketLimit
    <2>2. CASE /\ Repeats(id) = {} /\ CreateAllowed(TRUE)
               /\ qlist' = Append(qlist, NewQuery(TRUE, Nothing, id))
               /\ fdmaster' = fdmaster \cup Socks(NewQuery(TRUE, Nothing, id))
               /\ upstream_sockets' = upstream_sockets + 1
               /\ SendProbe(s, NewQuery(TRUE, Nothing, id).sock_arr[1])
      <3>. DEFINE q == NewQuery(TRUE, Nothing, id)
      <3>1. q \in Query /\ q.client_qid = id /\ Socks(q) \subseteq Fds
        BY <1>9, <2>2, NewQueryTyped DEF CreateAllowed, About
      <3>2. q.sock_arr[1] \in Fds
        BY <3>1, SocketsCounted
      <3>3. ServersOK(inactive', send_time', current') /\ NetOK(flight', rx')
        BY <1>2, <1>3, <1>6, <1>7, <2>2, <3>2, ProbeKeeps
      <3>4. QueriesOK(qlist, fdmaster')
        BY <1>7, <2>2, <3>1 DEF QueriesOK
      <3>5. \A j \in 1 .. Len(qlist) : qlist[j].client_qid # q.client_qid
        BY <2>2, <3>1 DEF Repeats
      <3>6. QueriesOK(qlist', fdmaster')
        BY <2>2, <3>1, <3>4, <3>5, AppendKeepsQueries
      <3>7. upstream_sockets' \in Int /\ SocketLimit'
        BY <1>1, <2>2, RelayAssumption DEF Parts, SocketLimit, CreateAllowed, LimitReached
      <3>. QED  BY <3>3, <3>6, <3>7
    <2>3. CASE /\ Repeats(id) = {} /\ CreateRefused(TRUE)
               /\ UNCHANGED <<qlist, flight, send_time>>
      <3>1. QueriesOK(qlist', fdmaster') /\ upstream_sockets' \in Int /\ SocketLimit'
        BY <1>1, <2>3, RefusedKeeps DEF Parts
      <3>. QED  BY <1>3, <1>6, <1>7, <2>3, <3>1
    <2>. QED  BY <1>8, <2>1, <2>2, <2>3
  <1>11. Parts'
    BY <1>4, <1>5, <1>10 DEF Parts
  <1>. QED  BY <1>11, InvariantInParts, PTL

-----------------------------------------------------------------------------
(* The replies                                                             *)

(* The scan of the sockets goes on with the first one it still reaches.    *)
LEMMA FirstReadable ==
  ASSUME NEW R, R \subseteq Nat \X Nat, R # {}
  PROVE  \E x \in R : \A y \in R : Earlier(x, y)
  <1>. DEFINE P == {x[1] : x \in R}
              p == Min(P)
              C == {x[2] : x \in {y \in R : y[1] = p}}
              c == Min(C)
  <1>1. P \subseteq Nat /\ P # {}
    OBVIOUS
  <1>2. p \in P /\ \A y \in R : p <= y[1]
    BY <1>1, MinOfNats
  <1>3. C \subseteq Nat /\ C # {}
    BY <1>2
  <1>4. c \in C /\ \A y \in C : c <= y
    BY <1>3, MinOfNats
  <1>5. PICK x \in R : x[1] = p /\ x[2] = c
    BY <1>4
  <1>6. ASSUME NEW y \in R PROVE Earlier(x, y)
    <2>1. p \in Nat /\ y[1] \in Nat /\ p <= y[1]
      BY <1>1, <1>2
    <2>2. CASE y[1] = p
      <3>1. y[2] \in C
        BY <2>2
      <3>. QED  BY <1>4, <1>5, <2>2, <3>1 DEF Earlier
    <2>3. CASE y[1] # p
      BY <1>5, <2>1, <2>3 DEF Earlier
    <2>. QED  BY <2>2, <2>3
  <1>. QED  BY <1>6

(* The scan stays at a place of the list.                                  *)
LEMMA ScanTyped ==
  ASSUME NEW p \in Nat, NEW c \in 1 .. 3, NEW ql
  PROVE  ScanAfter(p, c, ql) \in Nat \X (1 .. 3)
  <1>1. /\ <<0, 1>> \in Nat \X (1 .. 3) /\ <<p + 1, 1>> \in Nat \X (1 .. 3)
        /\ c # 3 => <<p, c + 1>> \in Nat \X (1 .. 3)
    OBVIOUS
  <1>. QED  BY <1>1 DEF ScanAfter

Kept == {<<>>} \cup {<<a>> : a \in About}

(* A reply changes the servers it speaks for, and its query.               *)
LEMMA ReplyKeepsInvariant ==
  ASSUME IInv, udp_handle_reply
  PROVE  IInv'
  <1>1. Parts
    BY InvariantInParts
  <1>. DEFINE x == CHOOSE x \in Readable : \A y \in Readable : Earlier(x, y)
              j == x[1] + 1
              q == qlist[j]
              f == q.sock_arr[x[2]]
              got == rx[f] # <<>>
              m == Head(rx[f])
              good == got /\ m.kind # "bad"
              last == q.serv_sent_cnt = 1
              open == good /\ Unanswered(q)
              answer == open /\ (m.kind = "ok" \/ last)
              keep == open /\ ~answer /\ q.cached_fail_msg = <<>>
              alive == (IF got THEN Heard(m) ELSE {})
                       \cup (IF good /\ last THEN Listed(q) ELSE {})
  <1>2. /\ inactive' = Cleared(inactive, alive)
        /\ send_time' = Cleared(send_time, alive)
        /\ sent' = IF answer
                   THEN [to |-> q.client, id |-> q.client_qid, about |-> m.about,
                         sock |-> q.sock_arr[1]]
                   ELSE Nothing
        /\ \/ Destroy(qlist, fdmaster, upstream_sockets, j)
           \/ /\ qlist' = [qlist EXCEPT ![j] =
                     [q EXCEPT !.serv_sent_cnt = @ - 1,
                               !.resp_sent = @ \/ answer,
                               !.cached_fail_msg = IF keep THEN <<m.about>> ELSE @]]
              /\ rx' = [rx EXCEPT ![f] = IF got THEN Tail(@) ELSE @]
              /\ UNCHANGED <<fdmaster, upstream_sockets, flight>>
        /\ at' = ScanAfter(x[1], x[2], qlist')
        /\ UNCHANGED <<pc, fdread, intr, todo, react_try, deact_try, current>>
    BY DEF udp_handle_reply
  <1>3. QueriesOK(qlist, fdmaster) /\ NetOK(flight, rx) /\ qlist \in Seq(Query)
    BY <1>1 DEF Parts, QueriesOK
  <1>4. x \in Readable
    <2>1. Readable \subseteq Nat \X Nat
      BY DEF Readable
    <2>. QED  BY <2>1, FirstReadable DEF udp_handle_reply
  <1>. HIDE DEF x
  <1>5. /\ x[1] \in 0 .. Len(qlist) - 1 /\ x[2] \in 1 .. 3
        /\ x[2] \in DOMAIN q.sock_arr
    BY <1>4 DEF Readable
  <1>6. j \in 1 .. Len(qlist) /\ q \in Query /\ x[1] \in Nat
    BY <1>3, <1>5
  <1>7. f \in Fds /\ q.sock_arr[1] \in Fds
    BY <1>5, <1>6, SocketsCounted DEF Socks
  <1>8. got => m \in Reply
    BY <1>3, <1>7 DEF NetOK
  <1>. HIDE DEF j, f, m
  <1>9. sent' \in Answer \cup {Nothing}
    BY <1>2, <1>6, <1>7, <1>8 DEF Answer, Reply, Query
  <1>10. LoopOK'
    <2>1. at' \in Nat \X (1 .. 3)
      BY <1>2, <1>5, <1>6, ScanTyped
    <2>. QED  BY <1>1, <1>2, <1>9, <2>1 DEF Parts, LoopOK
  <1>11. ServersOK(inactive', send_time', current')
    BY <1>1, <1>2, HeardKeepsServers DEF Parts
  <1>12. ProbesDue'
    BY <1>1, <1>2 DEF Parts, ProbesDue, udp_handle_reply
  <1>13. /\ QueriesOK(qlist', fdmaster') /\ NetOK(flight', rx')
         /\ upstream_sockets' \in Int /\ SocketLimit'
    <2>1. CASE Destroy(qlist, fdmaster, upstream_sockets, j)
      <3>1. /\ QueriesOK(qlist', fdmaster') /\ NetOK(flight', rx')
            /\ upstream_sockets' \in Int /\ upstream_sockets' <= upstream_sockets - 1
        BY <1>1, <1>3, <1>6, <2>1, DestroyKeepsQueries DEF Parts
      <3>. QED  BY <1>1, <3>1, RelayAssumption DEF Parts, SocketLimit
    <2>2. CASE /\ qlist' = [qlist EXCEPT ![j] =
                     [q EXCEPT !.serv_sent_cnt = @ - 1,
                               !.resp_sent = @ \/ answer,
                               !.cached_fail_msg = IF keep THEN <<m.about>> ELSE @]]
               /\ rx' = [rx EXCEPT ![f] = IF got THEN Tail(@) ELSE @]
               /\ UNCHANGED <<fdmaster, upstream_sockets, flight>>
      <3>. DEFINE new == [q EXCEPT !.serv_sent_cnt = @ - 1,
                               !.resp_sent = @ \/ answer,
                               !.cached_fail_msg = IF keep THEN <<m.about>> ELSE @]
      <3>1. keep => m.about \in About
        BY <1>8 DEF Reply
      <3>. DEFINE told == q.resp_sent \/ answer
                  left == q.serv_sent_cnt - 1
                  kept == IF keep THEN <<m.about>> ELSE q.cached_fail_msg
      <3>2. told \in BOOLEAN /\ left \in Int
        BY <1>6 DEF Query
      <3>3. kept \in Kept
        BY <1>6, <3>1 DEF Query, Kept
      <3>. HIDE DEF told, left, kept
      <3>4. new \in Query /\ new.client_qid = qlist[j].client_qid
        <4>1. new = [q EXCEPT !.serv_sent_cnt = left, !.resp_sent = told,
                              !.cached_fail_msg = kept]
          BY DEF told, left, kept
        <4>. HIDE DEF new, q
        <4>2. q = qlist[j] /\ q \in Query
          BY <1>6 DEF q
        <4>3. new \in Query
          BY <3>2, <3>3, <4>1, <4>2 DEF Query, Kept
        <4>4. new.client_qid = q.client_qid
          BY <4>1, <4>2 DEF Query
        <4>. QED  BY <4>2, <4>3, <4>4
      <3>5. qlist' = [qlist EXCEPT ![j] = new]
        BY <1>6, <2>2
      <3>. HIDE DEF new
      <3>6. QueriesOK(qlist', fdmaster')
        <4>1. QueriesOK([qlist EXCEPT ![j] = new], fdmaster)
          BY <1>3, <1>6, <3>4, ChangeKeepsQueries
        <4>. QED  BY <2>2, <3>5, <4>1
      <3>7. NetOK(flight', rx')
        BY <1>3, <1>7, <2>2 DEF NetOK
      <3>. QED  BY <1>1, <2>2, <3>6, <3>7 DEF Parts, SocketLimit
    <2>. QED  BY <1>2, <2>1, <2>2
  <1>14. Parts'
    BY <1>10, <1>11, <1>12, <1>13 DEF Parts
  <1>. QED  BY <1>14, InvariantInParts, PTL

(* A reply read for the list head changes what its sender is known for.    *)
LEMMA HeadKeepsInvariant ==
  ASSUME IInv, HandleListHead
  PROVE  IInv'
  <1>1. Parts
    BY InvariantInParts
  <1>2. /\ sent' = Nothing
        /\ UNCHANGED <<fdread, intr, todo, react_try, deact_try, queryvars, current, flight>>
    BY DEF HandleListHead
  <1>3. QueriesOK(qlist, fdmaster)' /\ upstream_sockets' \in Int /\ SocketLimit'
    BY <1>1, <1>2 DEF Parts, queryvars, SocketLimit
  <1>4. CASE pc' = "crashed" /\ UNCHANGED <<at, inactive, send_time, rx>>
    <2>1. LoopOK'
      BY <1>1, <1>2, <1>4 DEF Parts, LoopOK
    <2>2. ProbesDue'
      BY <1>1, <1>2 DEF Parts, ProbesDue, HandleListHead
    <2>3. Parts'
      BY <1>1, <1>2, <1>3, <1>4, <2>1, <2>2 DEF Parts
    <2>. QED  BY <2>3, InvariantInParts, PTL
  <1>5. CASE /\ ~(rx[0] = <<>> \/ Head(rx[0]).kind = "bad")
             /\ inactive' = Cleared(inactive, Heard(Head(rx[0])))
             /\ send_time' = Cleared(send_time, Heard(Head(rx[0])))
             /\ rx' = [rx EXCEPT ![0] = Tail(@)]
             /\ at' = ScanAfter(at[1], at[2], qlist)
             /\ UNCHANGED pc
    <2>1. LoopOK'
      <3>1. at[1] \in Nat /\ at[2] \in 1 .. 3
        BY <1>1 DEF Parts, LoopOK
      <3>2. at' \in Nat \X (1 .. 3)
        BY <1>5, <3>1, ScanTyped
      <3>. QED  BY <1>1, <1>2, <1>5, <3>2 DEF Parts, LoopOK
    <2>2. ProbesDue'
      BY <1>1, <1>2 DEF Parts, ProbesDue, HandleListHead
    <2>3. ServersOK(inactive', send_time', current')
      BY <1>1, <1>2, <1>5, HeardKeepsServers DEF Parts
    <2>4. NetOK(flight', rx')
      <3>1. rx \in [Fds -> Seq(Reply)] /\ flight' \in [Fds -> Seq(Request)]
        BY <1>1, <1>2 DEF Parts, NetOK
      <3>2. 0 \in Fds => rx[0] \in Seq(Reply) /\ rx[0] # <<>>
        BY <1>5, <3>1
      <3>3. 0 \in Fds => Tail(rx[0]) \in Seq(Reply)
        BY <3>2
      <3>4. rx' \in [Fds -> Seq(Reply)]
        BY <1>5, <3>1, <3>3
      <3>. QED  BY <3>1, <3>4 DEF NetOK
    <2>5. Parts'
      BY <1>3, <2>1, <2>2, <2>3, <2>4 DEF Parts
    <2>. QED  BY <2>5, InvariantInParts, PTL
  <1>. QED  BY <1>4, <1>5 DEF HandleListHead

-----------------------------------------------------------------------------
(* The end of a round, and the environment                                 *)

(* An answer from the master records or the cache changes nothing else.    *)
LEMMA LocalAnswerKeepsInvariant ==
  ASSUME IInv, AnswerLocally
  PROVE  IInv'
  <1>1. Parts
    BY InvariantInParts
  <1>2. /\ pc' = "timeout"
        /\ UNCHANGED <<loopvars, queryvars, servervars, netvars>>
    BY DEF AnswerLocally
  <1>3. sent' \in Answer
    <2>1. PICK q \in Questions : sent' = LocalAnswer(q[1], q[2])
      BY DEF AnswerLocally
    <2>2. q[1] \in Clients /\ q[2] \in Nat
      BY RelayAssumption
    <2>. QED  BY <2>1, <2>2 DEF LocalAnswer, Answer, About
  <1>4. LoopOK'
    BY <1>1, <1>2, <1>3 DEF Parts, LoopOK, loopvars
  <1>5. ProbesDue'
    BY <1>1, <1>2 DEF Parts, ProbesDue, AnswerLocally, loopvars, servervars
  <1>6. Parts'
    BY <1>1, <1>2, <1>4, <1>5 DEF Parts, SocketLimit, queryvars, servervars, netvars
  <1>. QED  BY <1>6, InvariantInParts, PTL

(* query_timeout() deletes a query and may tell its client.                *)
LEMMA ExpiryKeepsInvariant ==
  ASSUME IInv, query_timeout
  PROVE  IInv'
  <1>1. Parts
    BY InvariantInParts
  <1>. DEFINE j == Min(Expired)
              q == qlist[j]
  <1>2. /\ sent' = IF q.cached_fail_msg # <<>> /\ ~q.resp_sent
                   THEN [to |-> q.client, id |-> q.client_qid,
                         about |-> q.cached_fail_msg[1], sock |-> q.sock_arr[1]]
                   ELSE Nothing
        /\ Destroy(qlist, fdmaster, upstream_sockets, j)
        /\ at' = IF j = Len(qlist) THEN <<0, 1>> ELSE <<j, 1>>
        /\ UNCHANGED <<pc, fdread, intr, todo, react_try, deact_try, servervars>>
    BY DEF query_timeout
  <1>3. j \in 1 .. Len(qlist) /\ j \in Nat
    <2>1. at[1] \in Nat /\ Len(qlist) \in Nat
      BY <1>1 DEF Parts, LoopOK, QueriesOK
    <2>2. Expired \subseteq 1 .. Len(qlist)
      BY <2>1 DEF Expired
    <2>3. Expired # {} /\ Expired \subseteq Nat
      BY <2>2 DEF query_timeout
    <2>4. Min(Expired) \in Expired
      BY <2>3, MinOfNats
    <2>5. Min(Expired) \in 1 .. Len(qlist) /\ Min(Expired) \in Nat
      BY <2>2, <2>3, <2>4
    <2>. QED  BY <2>5
  <1>4. QueriesOK(qlist, fdmaster) /\ NetOK(flight, rx) /\ q \in Query
    BY <1>1, <1>3 DEF Parts, QueriesOK
  <1>5. q.sock_arr[1] \in Fds
    BY <1>4, SocketsCounted
  <1>. HIDE DEF j, q
  <1>6. sent' \in Answer \cup {Nothing}
    <2>1. q.cached_fail_msg # <<>> => q.cached_fail_msg[1] \in About
      <3>1. q.cached_fail_msg \in {<<>>} \cup {<<a>> : a \in About}
        BY <1>4 DEF Query
      <3>2. CASE q.cached_fail_msg \in {<<a>> : a \in About}
        <4>1. PICK a \in About : q.cached_fail_msg = <<a>>
          BY <3>2
        <4>. QED  BY <4>1
      <3>. QED  BY <3>1, <3>2
    <2>2. q.client \in About /\ q.client_qid \in Nat
      BY <1>4 DEF Query
    <2>3. CASE q.cached_fail_msg # <<>> /\ ~q.resp_sent
      BY <1>2, <1>5, <2>1, <2>2, <2>3 DEF Answer
    <2>. QED  BY <1>2, <2>3
  <1>7. at' \in Nat \X (1 .. 3)
    BY <1>2, <1>3
  <1>8. LoopOK'
    BY <1>1, <1>2, <1>6, <1>7 DEF Parts, LoopOK
  <1>9. ProbesDue'
    BY <1>1, <1>2 DEF Parts, ProbesDue, query_timeout, servervars
  <1>10. /\ QueriesOK(qlist', fdmaster') /\ NetOK(flight', rx')
         /\ upstream_sockets' \in Int /\ upstream_sockets' <= upstream_sockets - 1
    BY <1>1, <1>2, <1>3, <1>4, DestroyKeepsQueries DEF Parts
  <1>11. SocketLimit'
    BY <1>1, <1>10, RelayAssumption DEF Parts, SocketLimit
  <1>12. Parts'
    BY <1>1, <1>2, <1>8, <1>9, <1>10, <1>11 DEF Parts, servervars
  <1>. QED  BY <1>12, InvariantInParts, PTL

(* A reply on its way moves from the network to a receive queue.           *)
LEMMA ArrivalKeepsInvariant ==
  ASSUME IInv, NEW f \in Fds, NEW k \in DOMAIN flight[f], ReplyArrives(f, k)
  PROVE  IInv'
  <1>1. Parts
    BY InvariantInParts
  <1>2. sent' = Nothing /\ UNCHANGED <<pc, loopvars, queryvars, servervars>>
    BY DEF ReplyArrives
  <1>3. NetOK(flight', rx')
    <2>1. flight[f] \in Seq(Request) /\ rx[f] \in Seq(Reply) /\ k \in 1 .. Len(flight[f])
      BY <1>1 DEF Parts, NetOK
    <2>2. flight[f][k] \in Request
      BY <2>1
    <2>3. PICK kind \in ReplyKinds :
            rx' = [rx EXCEPT ![f] = Append(@, [srv |-> flight[f][k].srv,
                       about |-> flight[f][k].about, kind |-> kind])]
      BY DEF ReplyArrives
    <2>4. [srv |-> flight[f][k].srv, about |-> flight[f][k].about, kind |-> kind] \in Reply
      BY <2>2, RelayAssumption DEF Request, Reply
    <2>5. rx' \in [Fds -> Seq(Reply)]
      BY <1>1, <2>1, <2>3, <2>4 DEF Parts, NetOK
    <2>6. Without(flight[f], k) \in Seq(Request)
      BY <2>1, WithoutElement
    <2>7. flight' \in [Fds -> Seq(Request)]
      BY <1>1, <2>6 DEF Parts, NetOK, ReplyArrives
    <2>. QED  BY <2>5, <2>7 DEF NetOK
  <1>4. LoopOK'
    BY <1>1, <1>2 DEF Parts, LoopOK, loopvars
  <1>5. ProbesDue'
    BY <1>1, <1>2 DEF Parts, ProbesDue, loopvars, servervars
  <1>6. Parts'
    BY <1>1, <1>2, <1>3, <1>4, <1>5 DEF Parts, SocketLimit, queryvars, servervars
  <1>. QED  BY <1>6, InvariantInParts, PTL

(* A second more or less leaves the queries what they are.                 *)
LEMMA OlderQuery ==
  ASSUME NEW q \in Query
  PROVE  /\ [q EXCEPT !.client_time = Older(@, q.ttl + 1)] \in Query
         /\ [q EXCEPT !.client_time = Older(@, q.ttl + 1)].client_qid = q.client_qid
  <1>. DEFINE age == Older(q.client_time, q.ttl + 1)
  <1>1. age \in Nat
    BY DEF Query, Older
  <1>. HIDE DEF age
  <1>2. /\ [q EXCEPT !.client_time = age] \in Query
        /\ [q EXCEPT !.client_time = age].client_qid = q.client_qid
    BY <1>1 DEF Query
  <1>. QED  BY <1>2 DEF age

(* The passing of a second keeps the invariant.                            *)
LEMMA TickKeepsInvariant ==
  ASSUME IInv, Tick
  PROVE  IInv'
  <1>1. Parts
    BY InvariantInParts
  <1>2. /\ sent' = Nothing
        /\ UNCHANGED <<pc, fdread, intr, at, todo, fdmaster, upstream_sockets, current, netvars>>
    BY DEF Tick
  <1>3. /\ pc \in {"select", "replies", "request"}
        /\ pc \notin {"probe"}
    BY DEF Tick
  <1>4. \A a \in Age, c \in Nat : Older(a, c) \in Age
    BY DEF Older, Age, Never
  <1>5. LoopOK'
    <2>1. react_try' \in Age /\ deact_try' \in Age
      BY <1>1, <1>4, RelayAssumption DEF Parts, LoopOK, Tick
    <2>. QED  BY <1>1, <1>2, <2>1 DEF Parts, LoopOK
  <1>6. ProbesDue'
    BY <1>1, <1>2, <1>3 DEF Parts, ProbesDue
  <1>7. ServersOK(inactive', send_time', current')
    <2>1. /\ inactive' = [s \in Servers |-> Older(inactive[s], ReactivateInterval)]
          /\ send_time' = [s \in Servers |-> Older(send_time[s], ForwardTimeout + 1)]
          /\ current' = current
      BY DEF Tick
    <2>2. ReactivateInterval \in Nat /\ ForwardTimeout + 1 \in Nat
      BY RelayAssumption
    <2>. QED  BY <1>1, <2>1, <2>2, TickKeepsServers DEF Parts
  <1>8. QueriesOK(qlist', fdmaster')
    <2>1. qlist \in Seq(Query) /\ DOMAIN qlist = 1 .. Len(qlist)
      BY <1>1 DEF Parts, QueriesOK
    <2>. DEFINE new(j) == [qlist[j] EXCEPT !.client_time = Older(@, qlist[j].ttl + 1)]
    <2>2. \A j \in 1 .. Len(qlist) :
             new(j) \in Query /\ new(j).client_qid = qlist[j].client_qid
      BY <2>1, OlderQuery
    <2>3. qlist' = [j \in 1 .. Len(qlist) |-> new(j)]
      BY <2>1 DEF Tick
    <2>. HIDE DEF new
    <2>4. /\ qlist' \in Seq(Query) /\ Len(qlist') = Len(qlist)
          /\ \A j \in 1 .. Len(qlist) : qlist'[j].client_qid = qlist[j].client_qid
      BY <2>1, <2>2, <2>3
    <2>. QED  BY <1>1, <1>2, <2>4 DEF Parts, QueriesOK
  <1>9. Parts'
    BY <1>1, <1>2, <1>5, <1>6, <1>7, <1>8 DEF Parts, SocketLimit, netvars
  <1>. QED  BY <1>9, InvariantInParts, PTL

-----------------------------------------------------------------------------
(* Forwarding a request                                                    *)

(* The server an interface sends to is an active one of its own, and it is *)
(* not among those that are given up.                                      *)
LEMMA SendFound ==
  ASSUME ServersOK(InactiveAtChoice, send_time, CurrentAtChoice),
         NEW i \in Infs, NEW bad, SendsTo(i, bad) # Nothing
  PROVE  /\ SendsTo(i, bad) \in Servers
         /\ InfOf[SendsTo(i, bad)] = i
         /\ InactiveAtChoice[SendsTo(i, bad)] = Never
         /\ SendsTo(i, bad) \notin GivesUpOn(i, bad)
  <1>. DEFINE c == CurrentAtChoice[i]
              S == ActiveOn(i, InactiveAtChoice) \ bad
              t == SendsTo(i, bad)
  <1>1. c # Nothing /\ t = FirstFrom(c, S)
    BY DEF SendsTo
  <1>2. c \in Servers
    BY <1>1 DEF ServersOK
  <1>3. S \subseteq Servers
    BY DEF ActiveOn
  <1>4. S # {}
    BY <1>1 DEF FirstFrom
  <1>5. t \in S
    BY <1>1, <1>2, <1>3, <1>4, FirstFromFound
  <1>6. t \in Servers /\ InfOf[t] = i /\ InactiveAtChoice[t] = Never
    BY <1>5 DEF ActiveOn
  <1>7. Steps(c, t) \in Int
    <2>1. c \in Nat /\ t \in Nat /\ Cardinality(Servers) \in Nat
      BY <1>2, <1>6, ServersNumbered
    <2>. HIDE DEF c, t
    <2>. QED  BY <2>1 DEF Steps
  <1>8. t \notin GivesUpOn(i, bad)
    <2>. SUFFICES ASSUME t \in GivesUpOn(i, bad) PROVE FALSE
      OBVIOUS
    <2>1. Steps(c, t) < Steps(c, t)
      BY <1>1 DEF GivesUpOn
    <2>. HIDE DEF c, t
    <2>. QED  BY <1>7, <2>1
  <1>. QED  BY <1>6, <1>8

(* The servers that are given up for an interface are its own.             *)
LEMMA GivenUpOwn ==
  ASSUME NEW i, NEW bad
  PROVE  GivesUpOn(i, bad) \subseteq {s \in Servers : InfOf[s] = i}
  <1>. QED  BY DEF GivesUpOn, ActiveOn

(* send2current() leaves the servers in order.                             *)
LEMMA SendsKeepServers ==
  ASSUME ServersOK(InactiveAtChoice, send_time, CurrentAtChoice),
         NEW used, used \subseteq Infs, NEW bad
  PROVE  ServersOK(Deactivated(InactiveAtChoice, UNION {GivesUpOn(i, bad) : i \in used}),
                   send_time,
                   [i \in Infs |-> IF i \in used THEN SendsTo(i, bad) ELSE CurrentAtChoice[i]])
  <1>. DEFINE lost == UNION {GivesUpOn(i, bad) : i \in used}
              ina == Deactivated(InactiveAtChoice, lost)
              cur == [i \in Infs |-> IF i \in used THEN SendsTo(i, bad)
                                     ELSE CurrentAtChoice[i]]
  <1>1. ina \in [Servers -> Age]
    BY DEF ServersOK, Deactivated, Age
  <1>2. ASSUME NEW i \in Infs, cur[i] # Nothing
        PROVE  cur[i] \in Servers /\ InfOf[cur[i]] = i /\ ina[cur[i]] = Never
    <2>1. /\ cur[i] \in Servers /\ InfOf[cur[i]] = i
          /\ InactiveAtChoice[cur[i]] = Never
          /\ i \in used => cur[i] \notin GivesUpOn(i, bad)
      <3>1. CASE i \in used
        BY <1>2, <3>1, SendFound
      <3>2. CASE i \notin used
        BY <1>2, <3>2 DEF ServersOK
      <3>. QED  BY <3>1, <3>2
    <2>2. cur[i] \notin lost
      <3>. SUFFICES ASSUME NEW k \in used, cur[i] \in GivesUpOn(k, bad) PROVE FALSE
        OBVIOUS
      <3>. HIDE DEF cur
      <3>1. InfOf[cur[i]] = k
        BY GivenUpOwn
      <3>. QED  BY <2>1, <3>1
    <2>3. ina[cur[i]] = Never
      BY <2>1, <2>2 DEF Deactivated
    <2>. QED  BY <2>1, <2>3
  <1>3. cur \in [Infs -> Servers \cup {Nothing}]
    <2>1. \A i \in Infs : cur[i] \in Servers \cup {Nothing}
      BY <1>2
    <2>2. DOMAIN cur = Infs /\ cur = [i \in Infs |-> cur[i]]
      OBVIOUS
    <2>. HIDE DEF cur
    <2>. QED  BY <2>1, <2>2
  <1>. HIDE DEF ina, cur
  <1>4. ServersOK(ina, send_time, cur)
    BY <1>1, <1>2, <1>3 DEF ServersOK
  <1>. QED  BY <1>4 DEF ina, cur

(* The interfaces of a route that are sent to can be counted.              *)
LEMMA UsedOfRoute ==
  ASSUME NEW route \in Routes, NEW q
  PROVE  Used(route, q) \subseteq Infs /\ Cardinality(Used(route, q)) \in Nat
  <1>1. Used(route, q) \subseteq 1 .. NInf
    BY RelayAssumption DEF Used
  <1>2. NInf \in Int
    BY RelayAssumption
  <1>3. IsFiniteSet(1 .. NInf)
    BY <1>2, FS_Interval
  <1>4. IsFiniteSet(Used(route, q))
    BY <1>1, <1>3, FS_Subset
  <1>. QED  BY <1>1, <1>4, FS_CardinalityType DEF Infs

(* send2current() keeps the invariant's parts, whatever list it works on.  *)
LEMMA SendingKeepsParts ==
  ASSUME IInv, NEW ql, NEW fds, NEW socks \in Int, NEW j \in 1 .. Len(ql),
         NEW client \in About, QueriesOK(ql, fds),
         send2current(ql, fds, socks, j, client)
  PROVE  /\ ServersOK(inactive', send_time', current')
         /\ QueriesOK(qlist', fdmaster')
         /\ NetOK(flight', rx')
         /\ upstream_sockets' \in Int
         /\ upstream_sockets' <= socks
  <1>1. /\ ServersOK(InactiveAtChoice, send_time, CurrentAtChoice)
        /\ NetOK(flight, rx)
    BY ChoiceKeepsServers, QueriesOfInvariant
  <1>. DEFINE q == ql[j]
  <1>2. q \in Query
    BY DEF QueriesOK
  <1>3. PICK route \in Routes, bad \in SUBSET Flaky :
    LET used == Used(route, q)
        to == [i \in used |-> SendsTo(i, bad)]
        cur == [i \in Infs |-> IF i \in used THEN to[i] ELSE CurrentAtChoice[i]]
        sentBy(c) == {i \in used : Slot(route, i) = c /\ to[i] # Nothing}
        over(f) == {i \in used : q.sock_arr[Slot(route, i)] = f /\ to[i] # Nothing}
    IN
    /\ inactive' = Deactivated(InactiveAtChoice, UNION {GivesUpOn(i, bad) : i \in used})
    /\ current' = cur
    /\ send_time' = Sending(send_time, {to[i] : i \in used})
    /\ \/ Destroy(ql, fds, socks, j)
       \/ /\ qlist' = [ql EXCEPT ![j] =
                [q EXCEPT !.serv_sent_cnt = @ + Cardinality(used),
                          !.srv_list = [c \in 1 .. 3 |->
                              IF sentBy(c) = {} THEN @[c]
                              ELSE to[CHOOSE i \in sentBy(c) : TRUE]]]]
          /\ flight' = [f \in Fds |->
                IF over(f) = {} THEN flight[f]
                ELSE Carry(f, [srv |-> to[CHOOSE i \in over(f) : TRUE],
                               about |-> client])]
          /\ fdmaster' = fds
          /\ upstream_sockets' = socks
          /\ UNCHANGED rx
    BY DEF send2current
  <1>. DEFINE used == Used(route, q)
              to == [i \in used |-> SendsTo(i, bad)]
              sentBy(c) == {i \in used : Slot(route, i) = c /\ to[i] # Nothing}
              over(f) == {i \in used : q.sock_arr[Slot(route, i)] = f /\ to[i] # Nothing}
              cnt == q.serv_sent_cnt + Cardinality(used)
              srvs == [c \in 1 .. 3 |-> IF sentBy(c) = {} THEN q.srv_list[c]
                                        ELSE to[CHOOSE i \in sentBy(c) : TRUE]]
  <1>4. used \subseteq Infs /\ Cardinality(used) \in Nat
    BY UsedOfRoute
  <1>5. \A i \in used : to[i] # Nothing => to[i] \in Servers
    BY <1>1, <1>4, SendFound
  <1>6. ServersOK(inactive', send_time', current')
    <2>1. current' = [i \in Infs |-> IF i \in used THEN SendsTo(i, bad) ELSE CurrentAtChoice[i]]
      BY <1>3, <1>4
    <2>2. /\ inactive' = Deactivated(InactiveAtChoice, UNION {GivesUpOn(i, bad) : i \in used})
          /\ send_time' = Sending(send_time, {to[i] : i \in used})
      BY <1>3
    <2>3. ServersOK(inactive', send_time, current')
      BY <1>1, <1>4, <2>1, <2>2, SendsKeepServers
    <2>. HIDE DEF used, to
    <2>. QED  BY <2>2, <2>3, SendingKeepsServers
  <1>7. CASE Destroy(ql, fds, socks, j)
    <2>1. /\ QueriesOK(qlist', fdmaster') /\ NetOK(flight', rx')
          /\ upstream_sockets' \in Int /\ upstream_sockets' <= socks - 1
      BY <1>1, <1>7, DestroyKeepsQueries
    <2>. QED  BY <1>6, <2>1
  <1>8. CASE /\ qlist' = [ql EXCEPT ![j] = [q EXCEPT !.serv_sent_cnt = cnt,
                                                     !.srv_list = srvs]]
             /\ flight' = [f \in Fds |->
                   IF over(f) = {} THEN flight[f]
                   ELSE Carry(f, [srv |-> to[CHOOSE i \in over(f) : TRUE],
                                  about |-> client])]
             /\ fdmaster' = fds
             /\ upstream_sockets' = socks
             /\ UNCHANGED rx
    <2>. DEFINE new == [q EXCEPT !.serv_sent_cnt = cnt, !.srv_list = srvs]
    <2>1. srvs \in [1 .. 3 -> Servers \cup {Nothing}]
      <3>1. ASSUME NEW c \in 1 .. 3
            PROVE  srvs[c] \in Servers \cup {Nothing}
        <4>1. CASE sentBy(c) = {}
          <5>1. q.srv_list \in [1 .. 3 -> Servers \cup {Nothing}]
            BY <1>2 DEF Query
          <5>. QED  BY <4>1, <5>1
        <4>2. CASE sentBy(c) # {}
          <5>1. PICK i \in sentBy(c) : i = CHOOSE k \in sentBy(c) : TRUE
            BY <4>2
          <5>2. to[i] \in Servers
            BY <1>5, <5>1
          <5>. QED  BY <4>2, <5>1, <5>2
        <4>. QED  BY <4>1, <4>2
      <3>. QED  BY <3>1
    <2>2. cnt \in Int
      BY <1>2, <1>4 DEF Query
    <2>. HIDE DEF cnt, srvs, used, to, sentBy, over, q
    <2>3. new \in Query /\ new.client_qid = q.client_qid
      BY <1>2, <2>1, <2>2 DEF Query
    <2>4. q.client_qid = ql[j].client_qid
      BY DEF q
    <2>5. QueriesOK(qlist', fdmaster')
      <3>. HIDE DEF new
      <3>1. QueriesOK([ql EXCEPT ![j] = new], fds)
        BY <2>3, <2>4, ChangeKeepsQueries
      <3>2. qlist' = [ql EXCEPT ![j] = new]
        BY <1>8 DEF new
      <3>. QED  BY <1>8, <3>1, <3>2
    <2>6. NetOK(flight', rx')
      <3>1. ASSUME NEW f \in Fds, over(f) # {}
            PROVE  Carry(f, [srv |-> to[CHOOSE i \in over(f) : TRUE], about |-> client])
                       \in Seq(Request)
        <4>1. PICK i \in over(f) : i = CHOOSE k \in over(f) : TRUE
          BY <3>1
        <4>2. to[i] \in Servers
          BY <1>5, <4>1 DEF over
        <4>3. [srv |-> to[i], about |-> client] \in Request
          BY <4>2 DEF Request
        <4>4. Carry(f, [srv |-> to[i], about |-> client]) \in Seq(Request)
          BY <1>1, <4>3, CarryTyped DEF NetOK
        <4>. QED  BY <4>1, <4>4
      <3>2. flight' \in [Fds -> Seq(Request)]
        BY <1>1, <1>8, <3>1 DEF NetOK
      <3>. QED  BY <1>1, <1>8, <3>2 DEF NetOK
    <2>. QED  BY <1>6, <1>8, <2>5, <2>6
  <1>. QED  BY <1>3, <1>7, <1>8

(* A request is forwarded, repeated, refused or dropped.                   *)
LEMMA RequestKeepsInvariant ==
  ASSUME IInv, udp_handle_request
  PROVE  IInv'
  <1>1. Parts
    BY InvariantInParts
  <1>2. PICK x \in Questions :
          \/ ReplyServerFailure(x[1], x[2])
          \/ ForwardRepetition(x[1], x[2])
          \/ ForwardNew(x[1], x[2])
          \/ DropNew(x[2])
    BY DEF udp_handle_request
  <1>3. /\ pc = "request" /\ pc' = "timeout" /\ UNCHANGED loopvars
    BY DEF udp_handle_request
  <1>4. x[1] \in Clients /\ x[1] \in About /\ x[2] \in Nat
    BY RelayAssumption DEF About
  <1>5. /\ ServersOK(InactiveAtChoice, send_time, CurrentAtChoice)
        /\ QueriesOK(qlist, fdmaster) /\ NetOK(flight, rx) /\ qlist \in Seq(Query)
    BY <1>1, ChoiceKeepsServers DEF Parts, QueriesOK
  <1>6. todo = {} /\ todo' = {}
    BY <1>1, <1>3 DEF Parts, ProbesDue, loopvars
  <1>7. /\ sent' \in Answer \cup {Nothing}
        /\ ServersOK(inactive', send_time', current')
        /\ QueriesOK(qlist', fdmaster') /\ NetOK(flight', rx')
        /\ upstream_sockets' \in Int /\ SocketLimit'
    <2>1. CASE ReplyServerFailure(x[1], x[2])
      <3>1. sent' \in Answer
        BY <1>4, <2>1 DEF ReplyServerFailure, LocalAnswer, Answer
      <3>. QED  BY <1>1, <1>5, <2>1, <3>1
                DEF ReplyServerFailure, queryvars, netvars, Parts, SocketLimit
    <2>2. CASE ForwardRepetition(x[1], x[2])
      <3>. DEFINE j == Min(Repeats(x[2]))
                  q == [qlist[j] EXCEPT !.client_time = 0]
                  ql == [qlist EXCEPT ![j] = q]
      <3>1. /\ Repeats(x[2]) # {} /\ sent' = Nothing
            /\ send2current(ql, fdmaster, upstream_sockets, j, x[1])
        BY <2>2 DEF ForwardRepetition
      <3>2. j \in 1 .. Len(qlist) /\ qlist[j] \in Query
        BY <1>5, <3>1, RepetitionFound
      <3>3. q \in Query /\ q.client_qid = qlist[j].client_qid
        BY <3>2 DEF Query
      <3>. HIDE DEF q, j
      <3>4. QueriesOK(ql, fdmaster)
        BY <1>5, <3>2, <3>3, ChangeKeepsQueries
      <3>5. j \in 1 .. Len(ql)
        BY <1>5, <3>2, <3>3
      <3>. HIDE DEF ql
      <3>6. /\ ServersOK(inactive', send_time', current')
            /\ QueriesOK(qlist', fdmaster') /\ NetOK(flight', rx')
            /\ upstream_sockets' \in Int /\ upstream_sockets' <= upstream_sockets
        BY <1>1, <1>4, <3>1, <3>4, <3>5, SendingKeepsParts DEF Parts
      <3>7. SocketLimit'
        BY <1>1, <3>6, RelayAssumption DEF Parts, SocketLimit
      <3>. QED  BY <3>1, <3>6, <3>7
    <2>3. CASE ForwardNew(x[1], x[2])
      <3>. DEFINE q == NewQuery(FALSE, x[1], x[2])
                  ql == Append(qlist, q)
                  fds == fdmaster \cup Socks(q)
                  socks == upstream_sockets + 3
      <3>1. /\ Repeats(x[2]) = {} /\ CreateAllowed(FALSE) /\ sent' = Nothing
            /\ send2current(ql, fds, socks, Len(qlist) + 1, x[1])
        BY <2>3 DEF ForwardNew
      <3>2. q \in Query /\ q.client_qid = x[2] /\ Socks(q) \subseteq Fds
        BY <1>4, <3>1, NewQueryTyped DEF CreateAllowed
      <3>. HIDE DEF q
      <3>3. QueriesOK(qlist, fds)
        BY <1>5, <3>2 DEF QueriesOK
      <3>4. \A k \in 1 .. Len(qlist) : qlist[k].client_qid # q.client_qid
        BY <3>1, <3>2 DEF Repeats
      <3>5. QueriesOK(ql, fds)
        BY <3>2, <3>3, <3>4, AppendKeepsQueries
      <3>6. Len(qlist) + 1 \in 1 .. Len(ql)
        BY <1>5, <3>2
      <3>7. socks \in Int /\ socks <= MaxSockets + 2
        BY <1>1, <3>1, RelayAssumption DEF Parts, CreateAllowed, LimitReached
      <3>. HIDE DEF ql, fds, socks
      <3>8. /\ ServersOK(inactive', send_time', current')
            /\ QueriesOK(qlist', fdmaster') /\ NetOK(flight', rx')
            /\ upstream_sockets' \in Int /\ upstream_sockets' <= socks
        BY <1>4, <3>1, <3>5, <3>6, <3>7, SendingKeepsParts
      <3>9. SocketLimit'
        BY <3>7, <3>8, RelayAssumption DEF SocketLimit
      <3>. QED  BY <3>1, <3>8, <3>9
    <2>4. CASE DropNew(x[2])
      <3>1. QueriesOK(qlist', fdmaster') /\ upstream_sockets' \in Int /\ SocketLimit'
        BY <1>1, <1>5, <2>4, RefusedKeeps DEF DropNew, Parts
      <3>. QED  BY <1>5, <2>4, <3>1 DEF DropNew, netvars
    <2>. QED  BY <1>2, <2>1, <2>2, <2>3, <2>4
  <1>8. LoopOK'
    BY <1>1, <1>3, <1>7 DEF Parts, LoopOK, loopvars
  <1>9. ProbesDue'
    BY <1>6 DEF ProbesDue
  <1>10. Parts'
    BY <1>7, <1>8, <1>9 DEF Parts
  <1>. QED  BY <1>10, InvariantInParts, PTL

-----------------------------------------------------------------------------
(* The theorems                                                            *)

(* Every step of the relay, its environment's included, keeps the          *)
(* invariant.                                                              *)
LEMMA StepKeepsInvariant == IInv /\ [Next]_vars => IInv'
  <1>. SUFFICES ASSUME IInv, [Next]_vars PROVE IInv'
    OBVIOUS
  <1>1. CASE Select \/ Interrupt
    BY <1>1, WaitingKeepsInvariant
  <1>2. CASE Round
    <2>1. CASE reactivate_servers
      BY <2>1, ReactivateKeepsInvariant
    <2>2. CASE retry_srvlist
      BY <2>2, ProbingKeepsInvariant
    <2>3. CASE deactivate_servers
      BY <2>3, DeactivateKeepsInvariant
    <2>4. CASE udp_handle_reply
      BY <2>4, ReplyKeepsInvariant
    <2>5. CASE HandleListHead
      BY <2>5, HeadKeepsInvariant
    <2>6. CASE RepliesDone \/ IgnoreRequest \/ RoundDone
      BY <2>6, WaitingKeepsInvariant
    <2>7. CASE AnswerLocally
      BY <2>7, LocalAnswerKeepsInvariant
    <2>8. CASE udp_handle_request
      BY <2>8, RequestKeepsInvariant
    <2>9. CASE query_timeout
      BY <2>9, ExpiryKeepsInvariant
    <2>. QED  BY <1>2, <2>1, <2>2, <2>3, <2>4, <2>5, <2>6, <2>7, <2>8, <2>9 DEF Round
  <1>3. CASE \E f \in Fds : \E k \in DOMAIN flight[f] : ReplyArrives(f, k)
    BY <1>3, ArrivalKeepsInvariant
  <1>4. CASE Tick
    BY <1>4, TickKeepsInvariant
  <1>5. CASE UNCHANGED vars
    <2>1. UNCHANGED <<pc, fdread, intr, at, todo, qlist, fdmaster, upstream_sockets,
                      inactive, send_time, current, react_try, deact_try, flight, rx, sent>>
      BY <1>5 DEF vars, loopvars, queryvars, servervars, netvars
    <2>2. Parts
      BY InvariantInParts
    <2>3. LoopOK' /\ ProbesDue' /\ SocketLimit'
      BY <2>1, <2>2 DEF Parts, LoopOK, ProbesDue, SocketLimit
    <2>4. Parts'
      BY <2>1, <2>2, <2>3 DEF Parts
    <2>. QED  BY <2>4, InvariantInParts, PTL
  <1>. QED  BY <1>1, <1>2, <1>3, <1>4, <1>5 DEF Next

(* IInv is an invariant of the relay, for every network, limit, timeout,   *)
(* set of clients and order of events.                                     *)
THEOREM Invariance == Spec => []IInv
  <1>1. Init => IInv
    BY InitHasInvariant
  <1>2. IInv /\ [Next]_vars => IInv'
    BY StepKeepsInvariant
  <1>. QED  BY <1>1, <1>2, PTL DEF Spec

(* Every variable keeps its type: the indices and descriptors the handlers *)
(* compute, udp_send_dummy()'s and the reply loop's after a deletion among *)
(* them, are those of the lists.                                           *)
THEOREM TypeCorrect == Spec => []TypeOK
  <1>1. IInv => TypeOK
    BY DEF IInv
  <1>. QED  BY <1>1, Invariance, PTL

(* Whatever deactivated servers last - deactivate_servers(), a failed      *)
(* sendto(), a stale current server, a probe - the server an interface     *)
(* forwards to is one of its own, and active.                              *)
THEOREM CurrentServersActive == Spec => []CurrentActive
  <1>1. IInv => CurrentActive
    BY DEF IInv
  <1>. QED  BY <1>1, Invariance, PTL

(* No two queries of the list have the same client id, the probes'         *)
(* included.                                                               *)
THEOREM IdsUnique == Spec => []ClientIdsUnique
  <1>1. IInv => ClientIdsUnique
    BY DEF IInv
  <1>. QED  BY <1>1, Invariance, PTL

(* query_create() overshoots -M by no more than two sockets.               *)
THEOREM LimitKept == Spec => []SocketLimit
  <1>1. IInv => SocketLimit
    BY DEF IInv
  <1>. QED  BY <1>1, Invariance, PTL

-----------------------------------------------------------------------------
(* Who is deactivated                                                      *)

(* A step deactivates no server but a flaky one, or one that was silent    *)
(* for more than forward_timeout; ina and ina2 are the ages around it.     *)
Silent(ina, ina2) ==
    \A s \in Servers \ Flaky :
        ina[s] = Never /\ ina2[s] # Never => send_time[s] > ForwardTimeout

(* Hearing of servers deactivates none.                                    *)
LEMMA HeardDeactivatesNone ==
  ASSUME NEW S  PROVE Silent(inactive, Cleared(inactive, S))
  <1>. QED  BY DEF Silent, Cleared

(* handle_query() gives up a current server that is overdue.               *)
LEMMA ChoiceIsSilent == Silent(inactive, InactiveAtChoice)
  <1>1. CASE ~Stale
    BY <1>1 DEF Silent, InactiveAtChoice
  <1>2. CASE Stale
    BY <1>2 DEF Silent, InactiveAtChoice, Stale, Deactivated
  <1>. QED  BY <1>1, <1>2

(* send2current() gives up only those that sendto() failed for.            *)
LEMMA GivenUpFailed ==
  ASSUME ServersOK(InactiveAtChoice, send_time, CurrentAtChoice),
         NEW i \in Infs, NEW bad
  PROVE  GivesUpOn(i, bad) \subseteq bad
  <1>. DEFINE c == CurrentAtChoice[i]
              S == ActiveOn(i, InactiveAtChoice) \ bad
              t == SendsTo(i, bad)
  <1>. SUFFICES ASSUME NEW s \in GivesUpOn(i, bad), s \notin bad  PROVE FALSE
    OBVIOUS
  <1>1. c # Nothing /\ s \in S /\ s \in Servers
    BY DEF GivesUpOn, ActiveOn
  <1>2. c \in Servers
    BY <1>1 DEF ServersOK
  <1>3. t = FirstFrom(c, S) /\ S \subseteq Servers
    BY <1>1 DEF SendsTo, ActiveOn
  <1>4. t \in S /\ \A u \in S : Steps(c, t) <= Steps(c, u)
    BY <1>1, <1>2, <1>3, FirstFromFirst
  <1>5. t # Nothing /\ t \in Servers
    BY <1>3, <1>4, NothingIsNoServer
  <1>6. Steps(c, s) < Steps(c, t)
    BY <1>5 DEF GivesUpOn
  <1>7. Steps(c, s) \in Int /\ Steps(c, t) \in Int
    <2>1. /\ c \in Nat /\ s \in Nat /\ t \in Nat /\ Cardinality(Servers) \in Nat
      BY <1>1, <1>2, <1>5, ServersNumbered
    <2>. HIDE DEF c, t
    <2>. QED  BY <2>1 DEF Steps
  <1>8. Steps(c, t) <= Steps(c, s)
    BY <1>1, <1>4
  <1>. HIDE DEF c, t
  <1>. QED  BY <1>6, <1>7, <1>8

(* A request deactivates a stale server, and those sendto() fails for.     *)
LEMMA RequestIsSilent ==
  ASSUME IInv, udp_handle_request
  PROVE  Silent(inactive, inactive')
  <1>1. ServersOK(InactiveAtChoice, send_time, CurrentAtChoice)
    BY ChoiceKeepsServers
  <1>2. \/ inactive' = InactiveAtChoice
        \/ \E q : \E route \in Routes, bad \in SUBSET Flaky :
              inactive' = Deactivated(InactiveAtChoice,
                              UNION {GivesUpOn(i, bad) : i \in Used(route, q)})
    <2>1. PICK x \in Questions :
            \/ ReplyServerFailure(x[1], x[2])
            \/ ForwardRepetition(x[1], x[2])
            \/ ForwardNew(x[1], x[2])
            \/ DropNew(x[2])
      BY DEF udp_handle_request
    <2>2. ASSUME NEW ql, NEW fds, NEW socks, NEW j, NEW client,
                 send2current(ql, fds, socks, j, client)
          PROVE  \E q : \E route \in Routes, bad \in SUBSET Flaky :
                    inactive' = Deactivated(InactiveAtChoice,
                                    UNION {GivesUpOn(i, bad) : i \in Used(route, q)})
      <3>1. PICK route \in Routes, bad \in SUBSET Flaky :
              inactive' = Deactivated(InactiveAtChoice,
                              UNION {GivesUpOn(i, bad) : i \in Used(route, ql[j])})
        BY <2>2 DEF send2current
      <3>. QED  BY <3>1
    <2>3. CASE ReplyServerFailure(x[1], x[2]) \/ DropNew(x[2])
      BY <2>3 DEF ReplyServerFailure, DropNew
    <2>4. CASE ForwardRepetition(x[1], x[2])
      BY <2>2, <2>4, Zenon DEF ForwardRepetition
    <2>5. CASE ForwardNew(x[1], x[2])
      BY <2>2, <2>5, Zenon DEF ForwardNew
    <2>. QED  BY <2>1, <2>3, <2>4, <2>5
  <1>3. CASE inactive' = InactiveAtChoice
    BY <1>3, ChoiceIsSilent
  <1>4. ASSUME NEW route \in Routes, NEW bad \in SUBSET Flaky, NEW q,
               inactive' = Deactivated(InactiveAtChoice,
                               UNION {GivesUpOn(i, bad) : i \in Used(route, q)})
        PROVE  Silent(inactive, inactive')
    <2>1. UNION {GivesUpOn(i, bad) : i \in Used(route, q)} \subseteq Flaky
      BY <1>1, UsedOfRoute, GivenUpFailed
    <2>2. \A s \in Servers \ Flaky : inactive'[s] = InactiveAtChoice[s]
      BY <1>4, <2>1 DEF Deactivated
    <2>. QED  BY <2>2, ChoiceIsSilent DEF Silent
  <1>. QED  BY <1>2, <1>3, <1>4

(* So does any step.                                                       *)
LEMMA StepIsSilent ==
  ASSUME IInv, [Next]_vars
  PROVE  Silent(inactive, inactive')
  <1>1. ASSUME inactive' = inactive PROVE Silent(inactive, inactive')
    BY <1>1 DEF Silent
  <1>2. CASE Select \/ Interrupt
    BY <1>1, <1>2 DEF Select, Interrupt, servervars
  <1>3. CASE Round
    <2>1. CASE reactivate_servers \/ RepliesDone \/ RoundDone \/ query_timeout
      BY <1>1, <2>1 DEF reactivate_servers, RepliesDone, RoundDone, query_timeout, servervars
    <2>2. CASE IgnoreRequest \/ AnswerLocally
      BY <1>1, <2>2 DEF IgnoreRequest, AnswerLocally, servervars
    <2>3. CASE retry_srvlist
      <3>1. todo # {} /\ todo \subseteq Servers /\ inactive' = Deactivated(inactive, {Min(todo)})
        BY <2>3 DEF retry_srvlist, IInv, TypeOK
      <3>2. Min(todo) \in todo
        BY <3>1, ServersNumbered, MinOfNats
      <3>3. inactive[Min(todo)] # Never
        BY <3>2 DEF IInv, ProbesDue
      <3>. QED  BY <3>1, <3>3 DEF Silent, Deactivated
    <2>4. CASE deactivate_servers
      <3>1. inactive' = inactive \/ inactive' = Deactivated(inactive, Overdue)
        BY <2>4 DEF deactivate_servers, Deactivate
      <3>2. CASE inactive' = Deactivated(inactive, Overdue)
        BY <3>2 DEF Silent, Deactivated, Overdue
      <3>. QED  BY <1>1, <3>1, <3>2
    <2>5. CASE udp_handle_reply
      <3>1. \E S : inactive' = Cleared(inactive, S)
        BY <2>5, Zenon DEF udp_handle_reply
      <3>. QED  BY <3>1, HeardDeactivatesNone
    <2>6. CASE HandleListHead
      BY <1>1, <2>6, HeardDeactivatesNone DEF HandleListHead
    <2>7. CASE udp_handle_request
      BY <2>7, RequestIsSilent
    <2>. QED  BY <1>3, <2>1, <2>2, <2>3, <2>4, <2>5, <2>6, <2>7 DEF Round
  <1>4. CASE \E f \in Fds : \E k \in DOMAIN flight[f] : ReplyArrives(f, k)
    BY <1>1, <1>4 DEF ReplyArrives, servervars
  <1>5. CASE Tick
    <2>1. inactive' = [s \in Servers |-> Older(inactive[s], ReactivateInterval)]
      BY <1>5 DEF Tick
    <2>. QED  BY <2>1 DEF Silent, Older
  <1>6. CASE UNCHANGED vars
    BY <1>1, <1>6 DEF vars, servervars
  <1>. QED  BY <1>2, <1>3, <1>4, <1>5, <1>6 DEF Next

(* No server is deactivated before its time: deactivate_servers(), the     *)
(* stale current server of handle_query() and the probes take only those   *)
(* whose oldest send is older than forward_timeout or that are inactive    *)
(* already, send2current() only those that sendto() fails for.             *)
THEOREM OnlySilentDeactivated == Spec => DeactivatedForSilence
  <1>. DEFINE A == \A s \in Servers \ Flaky :
                      inactive[s] = Never /\ inactive'[s] # Never
                          => send_time[s] > ForwardTimeout
  <1>1. IInv /\ [Next]_vars => [A]_vars
    BY StepIsSilent DEF Silent
  <1>2. DeactivatedForSilence <=> [][A]_vars
    BY DEF DeactivatedForSilence
  <1>. HIDE DEF A
  <1>. QED  BY <1>1, <1>2, Invariance, PTL DEF Spec
-----------------------------------------------------------------------------
(* Every round is finite work                                              *)

(* How far the round is from its end: the phases of run() still to come,   *)
(* the probes to send or the queries in the list, and the sockets the scan *)
(* of the reply loop has before it.  Where the scan or query_timeout()     *)
(* starts all over, a query is gone.                                       *)
Phase ==
    CASE pc = "reactivate" -> 5
      [] pc = "probe" -> 4
      [] pc = "replies" -> 3
      [] pc = "request" -> 2
      [] pc = "timeout" -> 1
      [] OTHER -> 0

ListLeft ==
    CASE pc = "probe" -> Cardinality(todo)
      [] pc \in {"replies", "timeout"} -> Len(qlist)
      [] OTHER -> 0

\* From place a in a list of n queries; the scan of the list head comes
\* before one of the whole list.
PlacesLeft(n, a) ==
    IF a[1] = n /\ a[2] > 1 THEN 3 * n + 4 - a[2]
    ELSE IF a[1] < n THEN 3 * (n - a[1]) + 1 - a[2]
    ELSE 0

ScanLeft == IF pc = "replies" THEN PlacesLeft(Len(qlist), at) ELSE 0

WorkLeft == <<Phase, ListLeft, ScanLeft>>

Work == Nat \X Nat \X Nat

\* The lexicographic order.
LessWork(v, w) ==
    \/ v[1] < w[1]
    \/ v[1] = w[1] /\ v[2] < w[2]
    \/ v[1] = w[1] /\ v[2] = w[2] /\ v[3] < w[3]

Below == {p \in Work \X Work : LessWork(p[1], p[2])}

(* The order has no endless descent.                                       *)
LEMMA BelowWellFounded == IsWellFoundedOn(Below, Work)
  <1>1. ASSUME NEW T \in SUBSET Work, T # {}
        PROVE  \E x \in T : \A y \in T : ~ (<<y, x>> \in Below)
    <2>. DEFINE A == {x[1] : x \in T}
                a == Min(A)
                U == {x \in T : x[1] = a}
                B == {x[2] : x \in U}
                b == Min(B)
                V == {x \in U : x[2] = b}
                C == {x[3] : x \in V}
                c == Min(C)
    <2>0. \A x \in T : x[1] \in Nat /\ x[2] \in Nat /\ x[3] \in Nat
      BY DEF Work
    <2>1. a \in A /\ \A y \in T : a <= y[1]
      <3>1. A \subseteq Nat /\ A # {} /\ \A y \in T : y[1] \in A
        BY <1>1, <2>0
      <3>. HIDE DEF A
      <3>. QED  BY <3>1, MinOfNats
    <2>2. b \in B /\ \A y \in U : b <= y[2]
      <3>1. B \subseteq Nat /\ B # {} /\ \A y \in U : y[2] \in B
        BY <2>0, <2>1
      <3>. HIDE DEF B, U
      <3>. QED  BY <3>1, MinOfNats
    <2>3. c \in C /\ \A y \in V : c <= y[3]
      <3>1. C \subseteq Nat /\ C # {} /\ \A y \in V : y[3] \in C
        BY <2>0, <2>2
      <3>. HIDE DEF C, V
      <3>. QED  BY <3>1, MinOfNats
    <2>4. PICK x \in T : x[1] = a /\ x[2] = b /\ x[3] = c
      BY <2>3
    <2>5. \A y \in T : /\ a <= y[1]
                       /\ y[1] = a => b <= y[2]
                       /\ y[1] = a /\ y[2] = b => c <= y[3]
      BY <2>1, <2>2, <2>3
    <2>. HIDE DEF a, b, c
    <2>6. \A y \in T : ~ LessWork(y, x)
      BY <2>0, <2>4, <2>5 DEF LessWork
    <2>. QED  BY <2>6 DEF Below
  <1>. QED  BY <1>1, MinWF

(* What is left is a number of phases, of list elements and of sockets.    *)
LEMMA PlacesCounted ==
  ASSUME NEW n \in Nat, NEW a \in Nat \X (1 .. 3)
  PROVE  PlacesLeft(n, a) \in Nat
  <1>1. PICK p \in Nat, c \in 1 .. 3 : a = <<p, c>>
    OBVIOUS
  <1>. QED  BY <1>1 DEF PlacesLeft

LEMMA WorkTyped ==
    IInv => /\ Phase \in 0 .. 5 /\ ListLeft \in Nat /\ ScanLeft \in Nat
            /\ WorkLeft \in Work
            /\ IsFiniteSet(todo) /\ Len(qlist) \in Nat
  <1>. SUFFICES ASSUME IInv
                PROVE  /\ Phase \in 0 .. 5 /\ ListLeft \in Nat /\ ScanLeft \in Nat
                       /\ WorkLeft \in Work
                       /\ IsFiniteSet(todo) /\ Len(qlist) \in Nat
    OBVIOUS
  <1>1. IsFiniteSet(todo) /\ Cardinality(todo) \in Nat
    BY ServersNumbered, FS_Subset, FS_CardinalityType DEF IInv, TypeOK
  <1>2. Len(qlist) \in Nat
    BY DEF IInv, TypeOK
  <1>3. PlacesLeft(Len(qlist), at) \in Nat
    BY <1>2, PlacesCounted DEF IInv, TypeOK
  <1>4. Phase \in 0 .. 5
    BY DEF Phase
  <1>5. ListLeft \in Nat
    BY <1>1, <1>2 DEF ListLeft
  <1>6. ScanLeft \in Nat
    BY <1>3 DEF ScanLeft
  <1>. QED  BY <1>1, <1>2, <1>4, <1>5, <1>6 DEF WorkLeft, Work

(* The scan comes closer to its end with every socket it reads, where it   *)
(* deletes no query.                                                       *)
LEMMA ScanFalls ==
  ASSUME NEW n \in Nat, NEW a \in Nat \X (1 .. 3),
         NEW x \in (0 .. n - 1) \X (1 .. 3), Earlier(a, x),
         NEW ql, Len(ql) = n
  PROVE  PlacesLeft(n, ScanAfter(x[1], x[2], ql)) < PlacesLeft(n, a)
  <1>1. PICK p \in Nat, c \in 1 .. 3 : a = <<p, c>>
    OBVIOUS
  <1>2. PICK u \in 0 .. n - 1, v \in 1 .. 3 : x = <<u, v>>
    OBVIOUS
  <1>3. p < u \/ (p = u /\ c <= v)
    BY <1>1, <1>2 DEF Earlier
  <1>4. PlacesLeft(n, a) = 3 * (n - p) + 1 - c
    BY <1>1, <1>2, <1>3 DEF PlacesLeft
  <1>5. 3 * (n - u) + 1 - v <= PlacesLeft(n, a)
    BY <1>2, <1>3, <1>4
  <1>6. CASE ScanAfter(x[1], x[2], ql) = <<u + 1, 1>>
    <2>1. /\ PlacesLeft(n, <<u + 1, 1>>) \in Int
          /\ PlacesLeft(n, <<u + 1, 1>>) <= 3 * (n - (u + 1))
      BY <1>2 DEF PlacesLeft
    <2>. QED  BY <1>2, <1>4, <1>5, <1>6, <2>1
  <1>7. CASE v < 3 /\ ScanAfter(x[1], x[2], ql) = <<u, v + 1>>
    <2>1. PlacesLeft(n, <<u, v + 1>>) = 3 * (n - u) - v
      BY <1>2 DEF PlacesLeft
    <2>. QED  BY <1>2, <1>4, <1>5, <1>7, <2>1
  <1>. QED  BY <1>2, <1>6, <1>7 DEF ScanAfter

(* So it does with every socket of the list head.                          *)
LEMMA HeadScanFalls ==
  ASSUME NEW n \in Nat, NEW c \in 2 .. 3, NEW ql, Len(ql) = n
  PROVE  PlacesLeft(n, ScanAfter(n, c, ql)) < PlacesLeft(n, <<n, c>>)
  <1>1. PlacesLeft(n, <<n, c>>) = 3 * n + 4 - c
    BY DEF PlacesLeft
  <1>2. CASE c < 3 /\ ScanAfter(n, c, ql) = <<n, c + 1>>
    BY <1>1, <1>2 DEF PlacesLeft
  <1>3. CASE ScanAfter(n, c, ql) = <<0, 1>>
    <2>1. PlacesLeft(n, <<0, 1>>) \in Int /\ PlacesLeft(n, <<0, 1>>) <= 3 * n
      BY DEF PlacesLeft
    <2>. QED  BY <1>1, <1>3, <2>1
  <1>. QED  BY <1>2, <1>3 DEF ScanAfter

(* A step to a later phase is one step less.                               *)
LEMMA NextPhase ==
  ASSUME IInv, IInv', Phase' < Phase
  PROVE  <<WorkLeft', WorkLeft>> \in Below
  <1>1. WorkLeft \in Work /\ (WorkLeft \in Work)'
    BY WorkTyped, PTL
  <1>. QED  BY <1>1 DEF WorkLeft, Below, LessWork

(* So is one within a phase that leaves less of its list.                  *)
LEMMA ListShorter ==
  ASSUME IInv, IInv', Phase' = Phase, ListLeft' < ListLeft
  PROVE  <<WorkLeft', WorkLeft>> \in Below
  <1>1. WorkLeft \in Work /\ (WorkLeft \in Work)'
    BY WorkTyped, PTL
  <1>. QED  BY <1>1 DEF WorkLeft, Below, LessWork

(* Or less of the scan of it.                                              *)
LEMMA ScanShorter ==
  ASSUME IInv, IInv', Phase' = Phase, ListLeft' = ListLeft, ScanLeft' < ScanLeft
  PROVE  <<WorkLeft', WorkLeft>> \in Below
  <1>1. WorkLeft \in Work /\ (WorkLeft \in Work)'
    BY WorkTyped, PTL
  <1>. QED  BY <1>1 DEF WorkLeft, Below, LessWork

(* retry_srvlist() has one server less to probe.                           *)
LEMMA ProbingIsWork ==
  ASSUME IInv, IInv', retry_srvlist
  PROVE  <<WorkLeft', WorkLeft>> \in Below
  <1>1. todo # {} /\ todo' = todo \ {Min(todo)} /\ pc = "probe" /\ pc' = "probe"
    BY DEF retry_srvlist
  <1>2. Min(todo) \in todo
    BY <1>1, ServersNumbered, MinOfNats DEF IInv, TypeOK
  <1>3. Cardinality(todo') = Cardinality(todo) - 1 /\ Cardinality(todo) \in Nat
    BY <1>1, <1>2, WorkTyped, FS_RemoveElement, FS_CardinalityType
  <1>4. Phase' = Phase /\ ListLeft' < ListLeft
    BY <1>1, <1>3 DEF Phase, ListLeft
  <1>. QED  BY <1>4, ListShorter

(* udp_handle_reply() deletes the query, or is done with one socket of it. *)
LEMMA ReplyIsWork ==
  ASSUME IInv, IInv', udp_handle_reply
  PROVE  <<WorkLeft', WorkLeft>> \in Below
  <1>. DEFINE x == CHOOSE x \in Readable : \A y \in Readable : Earlier(x, y)
              j == x[1] + 1
              n == Len(qlist)
  <1>1. /\ Readable # {} /\ pc = "replies" /\ pc' = "replies"
        /\ \/ Destroy(qlist, fdmaster, upstream_sockets, j)
           \/ \E q : qlist' = [qlist EXCEPT ![j] = q]
        /\ at' = ScanAfter(x[1], x[2], qlist')
    BY DEF udp_handle_reply
  <1>2. x \in Readable
    <2>1. Readable \subseteq Nat \X Nat
      BY DEF Readable
    <2>. QED  BY <1>1, <2>1, FirstReadable
  <1>. HIDE DEF x
  <1>3. x \in (0 .. n - 1) \X (1 .. 3) /\ Earlier(at, x)
    BY <1>2 DEF Readable
  <1>4. n \in Nat /\ at \in Nat \X (1 .. 3) /\ qlist \in Seq(Query) /\ j \in 1 .. n
    BY <1>3 DEF IInv, TypeOK
  <1>5. Phase' = Phase
    BY <1>1 DEF Phase
  <1>6. CASE Destroy(qlist, fdmaster, upstream_sockets, j)
    <2>1. Len(qlist') = n - 1
      BY <1>4, <1>6, WithoutElement DEF Destroy
    <2>2. ListLeft' < ListLeft
      BY <1>1, <1>4, <2>1 DEF ListLeft
    <2>. QED  BY <1>5, <2>2, ListShorter
  <1>7. CASE \E q : qlist' = [qlist EXCEPT ![j] = q]
    <2>1. Len(qlist') = n
      BY <1>4, <1>7
    <2>2. ListLeft' = ListLeft
      BY <1>1, <2>1 DEF ListLeft
    <2>3. PlacesLeft(n, at') < PlacesLeft(n, at)
      BY <1>1, <1>3, <1>4, <2>1, ScanFalls
    <2>4. ScanLeft' < ScanLeft
      BY <1>1, <2>1, <2>3 DEF ScanLeft
    <2>. QED  BY <1>5, <2>2, <2>4, ScanShorter
  <1>. QED  BY <1>1, <1>6, <1>7

(* A round ends in the crash, or the scan is done with one socket of the   *)
(* list head.                                                              *)
LEMMA HeadIsWork ==
  ASSUME IInv, IInv', HandleListHead
  PROVE  <<WorkLeft', WorkLeft>> \in Below
  <1>1. pc = "replies" /\ at[1] = Len(qlist) /\ at[2] > 1 /\ qlist' = qlist
    BY DEF HandleListHead, AtHead, queryvars
  <1>2. CASE pc' = "crashed"
    <2>1. Phase' < Phase
      BY <1>1, <1>2 DEF Phase
    <2>. QED  BY <2>1, NextPhase
  <1>3. CASE pc' = pc /\ at' = ScanAfter(at[1], at[2], qlist)
    <2>1. PICK c \in 2 .. 3 : at = <<Len(qlist), c>>
      BY <1>1 DEF IInv, TypeOK
    <2>2. PlacesLeft(Len(qlist), at') < PlacesLeft(Len(qlist), at)
      BY <1>3, <2>1, WorkTyped, HeadScanFalls
    <2>3. Phase' = Phase /\ ListLeft' = ListLeft /\ ScanLeft' < ScanLeft
      BY <1>1, <1>3, <2>2 DEF Phase, ListLeft, ScanLeft
    <2>. QED  BY <2>3, ScanShorter
  <1>. QED  BY <1>2, <1>3 DEF HandleListHead

(* query_timeout() has one query less in the list, wherever it goes on.    *)
LEMMA ExpiryIsWork ==
  ASSUME IInv, IInv', query_timeout
  PROVE  <<WorkLeft', WorkLeft>> \in Below
  <1>. DEFINE j == Min(Expired)
  <1>1. /\ Expired # {} /\ pc = "timeout" /\ pc' = "timeout"
        /\ Destroy(qlist, fdmaster, upstream_sockets, j)
    BY DEF query_timeout
  <1>2. at[1] \in Nat /\ qlist \in Seq(Query)
    BY DEF IInv, TypeOK
  <1>3. j \in 1 .. Len(qlist)
    <2>1. Expired \subseteq 1 .. Len(qlist) /\ Expired \subseteq Nat
      BY <1>2 DEF Expired
    <2>2. Min(Expired) \in Expired
      BY <1>1, <2>1, MinOfNats
    <2>. QED  BY <2>1, <2>2
  <1>. HIDE DEF j
  <1>4. Len(qlist') = Len(qlist) - 1
    BY <1>1, <1>2, <1>3, WithoutElement DEF Destroy
  <1>5. Phase' = Phase /\ ListLeft' < ListLeft
    BY <1>1, <1>2, <1>4 DEF Phase, ListLeft
  <1>. QED  BY <1>5, ListShorter

(* Every step of a round leaves less of it.                                *)
LEMMA RoundIsWork ==
  ASSUME IInv, IInv', Round
  PROVE  <<WorkLeft', WorkLeft>> \in Below
  <1>1. CASE retry_srvlist
    BY <1>1, ProbingIsWork
  <1>2. CASE udp_handle_reply
    BY <1>2, ReplyIsWork
  <1>3. CASE HandleListHead
    BY <1>3, HeadIsWork
  <1>4. CASE query_timeout
    BY <1>4, ExpiryIsWork
  <1>5. CASE \/ reactivate_servers \/ deactivate_servers \/ RepliesDone
             \/ IgnoreRequest \/ AnswerLocally \/ udp_handle_request \/ RoundDone
    <2>1. \/ pc = "reactivate" /\ pc' = "probe"
          \/ pc = "probe" /\ pc' \in {"select", "timeout", "replies"}
          \/ pc = "replies" /\ pc' \in {"request", "timeout"}
          \/ pc = "request" /\ pc' = "timeout"
          \/ pc = "timeout" /\ pc' = "select"
      BY <1>5 DEF reactivate_servers, deactivate_servers, RepliesDone, IgnoreRequest,
                  AnswerLocally, udp_handle_request, RoundDone
    <2>2. Phase' < Phase
      BY <2>1 DEF Phase
    <2>. QED  BY <2>2, NextPhase
  <1>. QED  BY <1>1, <1>2, <1>3, <1>4, <1>5 DEF Round

(* Nothing the clock or the network does in between makes it longer.       *)
LEMMA OthersLeaveWork ==
  ASSUME IInv, IInv', [Next]_vars, pc # "select", ~ Round
  PROVE  WorkLeft' = WorkLeft
  <1>1. ASSUME UNCHANGED <<pc, at, todo>>, Len(qlist') = Len(qlist)
        PROVE  WorkLeft' = WorkLeft
    BY <1>1 DEF WorkLeft, Phase, ListLeft, ScanLeft
  <1>2. ~ Select /\ ~ Interrupt
    BY DEF Select, Interrupt
  <1>3. CASE \E f \in Fds : \E k \in DOMAIN flight[f] : ReplyArrives(f, k)
    BY <1>1, <1>3 DEF ReplyArrives, loopvars, queryvars
  <1>4. CASE Tick
    <2>1. qlist \in Seq(Query) /\ qlist' \in Seq(Query)
      BY DEF IInv, TypeOK
    <2>2. DOMAIN qlist' = DOMAIN qlist
      BY <1>4 DEF Tick
    <2>3. Len(qlist') = Len(qlist)
      BY <2>1, <2>2
    <2>. QED  BY <1>1, <1>4, <2>3 DEF Tick
  <1>5. CASE UNCHANGED vars
    BY <1>1, <1>5 DEF vars, loopvars, queryvars
  <1>. QED  BY <1>2, <1>3, <1>4, <1>5 DEF Next

(* A round is finite work whatever the reply loop and query_timeout()      *)
(* delete under their own feet, and however many replies arrive meanwhile: *)
(* every step of run() comes closer to the end in an order without endless *)
(* descent, and no other step goes back.                                   *)
THEOREM RoundsAreFinite ==
    /\ IsWellFoundedOn(Below, Work)
    /\ Spec => [][/\ Round => <<WorkLeft', WorkLeft>> \in Below
                  /\ pc # "select" /\ ~ Round => WorkLeft' = WorkLeft]_vars
  <1>. DEFINE A == /\ Round => <<WorkLeft', WorkLeft>> \in Below
                   /\ pc # "select" /\ ~ Round => WorkLeft' = WorkLeft
  <1>1. IInv /\ IInv' /\ [Next]_vars => [A]_vars
    BY RoundIsWork, OthersLeaveWork
  <1>2. IsWellFoundedOn(Below, Work)
    BY BelowWellFounded
  <1>3. Spec => [][A]_vars
    <2>. HIDE DEF A
    <2>. QED  BY <1>1, Invariance, PTL DEF Spec
  <1>. QED  BY <1>2, <1>3
=============================================================================
