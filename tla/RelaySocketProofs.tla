-------------------------- MODULE RelaySocketProofs --------------------------
(***************************************************************************)
(* Proof that Relay accounts for every upstream socket, for every network, *)
(* limit and number of descriptors: what query_create() opens and counts,  *)
(* query_destroy() closes and counts, on each of the paths that delete a   *)
(* query.                                                                  *)
(*                                                                         *)
(* And that no socket carries what another query asked: a descriptor that  *)
(* is used again starts empty, so that what a client is sent is about a    *)
(* question of its own id.                                                 *)
(***************************************************************************)
EXTENDS RelayProofs

-----------------------------------------------------------------------------
(* The invariant                                                           *)

AllSocks(ql) == UNION {Socks(ql[j]) : j \in 1 .. Len(ql)}

(* SocketsAccounted for a list ql, a select set fds and a counter socks,   *)
(* made inductive: query_destroy() subtracts the length of sock_arr, so    *)
(* the descriptors in it must be different.                                *)
SocketsOK(ql, fds, socks) ==
    /\ \A j \in 1 .. Len(ql) : Cardinality(Socks(ql[j])) = Len(ql[j].sock_arr)
    /\ \A j, k \in 1 .. Len(ql) : j # k => Socks(ql[j]) \cap Socks(ql[k]) = {}
    /\ AllSocks(ql) \subseteq fds
    /\ EnoughFds => fds = {isock} \cup AllSocks(ql)
    /\ socks = Cardinality(fds \ {isock})

SocketsInv == SocketsOK(qlist, fdmaster, upstream_sockets)

(* The inductive invariant implies the property.                           *)
LEMMA SocketsOKAccounts ==
  ASSUME TypeOK, SocketsInv
  PROVE  SocketsAccounted
  <1>1. DOMAIN qlist = 1 .. Len(qlist)
    BY DEF TypeOK
  <1>. QED  BY <1>1 DEF SocketsInv, SocketsOK, AllSocks, SocketsAccounted

(* The descriptors are MaxFd in number, and the one of the clients'        *)
(* requests is none of them.                                               *)
LEMMA FdsCounted ==
    /\ IsFiniteSet(Fds)
    /\ Cardinality(Fds) = MaxFd
    /\ isock \notin Fds
    /\ MaxFd \in Nat
  <1>1. FirstFd \in Nat /\ MaxFd \in Nat
    BY RelayAssumption
  <1>2. PICK a \in Int, b \in Int : Fds = a .. b /\ b = FirstFd + MaxFd - 1 /\ a = FirstFd
    BY <1>1 DEF Fds
  <1>3. IsFiniteSet(a .. b) /\ Cardinality(a .. b) = IF a > b THEN 0 ELSE b - a + 1
    BY FS_Interval
  <1>. QED  BY <1>1, <1>2, <1>3 DEF isock

(* Disjoint finite sets are counted one after the other.                   *)
LEMMA DisjointCounted ==
  ASSUME NEW S, IsFiniteSet(S), NEW T, IsFiniteSet(T), S \cap T = {}
  PROVE  /\ IsFiniteSet(S \cup T)
         /\ Cardinality(S \cup T) = Cardinality(S) + Cardinality(T)
  <1>1. Cardinality(S \cup T) = Cardinality(S) + Cardinality(T) - 0
    BY FS_Union, FS_EmptySet
  <1>2. Cardinality(S) \in Nat /\ Cardinality(T) \in Nat
    BY FS_CardinalityType
  <1>3. IsFiniteSet(S \cup T)
    BY FS_Union
  <1>. QED  BY <1>1, <1>2, <1>3

(* A select set's upstream sockets can be counted, and what it lacks is    *)
(* free.                                                                   *)
LEMMA FreeCounted ==
  ASSUME QueriesOK(qlist, fdmaster)
  PROVE  /\ IsFiniteSet(fdmaster \ {isock})
         /\ Cardinality(fdmaster \ {isock}) \in Nat
         /\ Cardinality(FreeFds) = MaxFd - Cardinality(fdmaster \ {isock})
  <1>1. fdmaster \ {isock} \subseteq Fds /\ Fds \cap fdmaster = fdmaster \ {isock}
    BY FdsCounted DEF QueriesOK
  <1>2. IsFiniteSet(fdmaster \ {isock})
    BY <1>1, FdsCounted, FS_Subset
  <1>3. Cardinality(FreeFds) = Cardinality(Fds) - Cardinality(Fds \cap fdmaster)
    BY FdsCounted, FS_Difference DEF FreeFds
  <1>. QED  BY <1>1, <1>2, <1>3, FdsCounted, FS_CardinalityType

(* Initially there is no query and no upstream socket.                     *)
LEMMA InitAccounts == Init => SocketsInv
  <1>. SUFFICES ASSUME Init PROVE SocketsInv
    OBVIOUS
  <1>1. qlist = <<>> /\ fdmaster = {isock} /\ upstream_sockets = 0
    BY DEF Init
  <1>2. fdmaster \ {isock} = {} /\ AllSocks(qlist) = {} /\ Len(qlist) = 0
    BY <1>1 DEF AllSocks
  <1>. QED  BY <1>1, <1>2, FS_EmptySet, SMTT(30) DEF SocketsInv, SocketsOK

-----------------------------------------------------------------------------
(* The operations on the query list                                        *)

(* A change of queries that keeps their sockets keeps the account.         *)
LEMMA ChangeKeepsSockets ==
  ASSUME NEW ql, NEW fds, NEW socks, SocketsOK(ql, fds, socks),
         NEW ql2, Len(ql2) = Len(ql),
         \A j \in 1 .. Len(ql) : ql2[j].sock_arr = ql[j].sock_arr
  PROVE  SocketsOK(ql2, fds, socks)
  <1>1. \A j \in 1 .. Len(ql) : Socks(ql2[j]) = Socks(ql[j])
    BY DEF Socks
  <1>2. AllSocks(ql2) = AllSocks(ql)
    BY <1>1 DEF AllSocks
  <1>. QED  BY <1>1, <1>2 DEF SocketsOK

(* query_create() opens as many different free descriptors as a query of   *)
(* its kind has.                                                           *)
LEMMA NewSockets ==
  ASSUME NEW dummy \in BOOLEAN, CreateAllowed(dummy), NEW client, NEW id
  PROVE  LET q == NewQuery(dummy, client, id) IN
         /\ Socks(q) \subseteq FreeFds
         /\ IsFiniteSet(Socks(q))
         /\ Cardinality(Socks(q)) = SocketsOf(dummy)
         /\ Len(q.sock_arr) = SocketsOf(dummy)
  <1>. DEFINE q == NewQuery(dummy, client, id)
              f1 == Min(FreeFds)
              f2 == Min(FreeFds \ {f1})
              f3 == Min(FreeFds \ {f1, f2})
              n == Cardinality(FreeFds)
  <1>1. q.sock_arr = LowestFree(SocketsOf(dummy))
    BY DEF NewQuery
  <1>2. n \in Nat /\ n >= SocketsOf(dummy)
    BY FreeFdsFinite DEF CreateAllowed
  <1>3. f1 \in FreeFds
    BY <1>2, FreeFdsFinite, LowestOfSome DEF SocketsOf
  <1>4. CASE dummy
    <2>1. q.sock_arr = <<f1>> /\ SocketsOf(dummy) = 1
      BY <1>1, <1>4 DEF LowestFree, SocketsOf
    <2>2. Socks(q) = {f1}
      <3>. HIDE DEF q, f1
      <3>1. DOMAIN q.sock_arr = {1} /\ q.sock_arr[1] = f1
        BY <2>1
      <3>. QED  BY <3>1 DEF Socks
    <2>3. Len(q.sock_arr) = 1
      BY <2>1
    <2>. QED  BY <1>3, <2>1, <2>2, <2>3, FS_Singleton
  <1>5. CASE ~dummy
    <2>1. q.sock_arr = <<f1, f2, f3>> /\ SocketsOf(dummy) = 3
      BY <1>1, <1>5 DEF LowestFree, SocketsOf
    <2>2. IsFiniteSet(FreeFds \ {f1}) /\ Cardinality(FreeFds \ {f1}) = n - 1
      BY <1>3, FreeFdsFinite, FS_RemoveElement
    <2>3. f2 \in FreeFds \ {f1}
      BY <1>2, <2>1, <2>2, FreeFdsFinite, LowestOfSome
    <2>4. Cardinality((FreeFds \ {f1}) \ {f2}) = n - 2
      <3>1. Cardinality((FreeFds \ {f1}) \ {f2}) = Cardinality(FreeFds \ {f1}) - 1
        BY <2>2, <2>3, FS_RemoveElement
      <3>. HIDE DEF n, f1, f2
      <3>. QED  BY <1>2, <2>2, <3>1
    <2>5. FreeFds \ {f1, f2} = (FreeFds \ {f1}) \ {f2}
      OBVIOUS
    <2>6. f3 \in FreeFds \ {f1, f2}
      <3>1. Cardinality(FreeFds \ {f1, f2}) # 0
        <4>. HIDE DEF n, f1, f2
        <4>. QED  BY <1>2, <2>1, <2>4, <2>5
      <3>. QED  BY <3>1, LowestOfSome
    <2>7. Socks(q) = {f1, f2, f3}
      <3>. HIDE DEF q, f1, f2, f3
      <3>1. /\ DOMAIN q.sock_arr = {1, 2, 3}
            /\ q.sock_arr[1] = f1 /\ q.sock_arr[2] = f2 /\ q.sock_arr[3] = f3
        BY <2>1
      <3>. QED  BY <3>1 DEF Socks
    <2>8. IsFiniteSet({f1, f2, f3}) /\ Cardinality({f1, f2, f3}) = 3
      <3>. HIDE DEF f1, f2, f3
      <3>1. IsFiniteSet({f1}) /\ Cardinality({f1}) = 1
        BY FS_Singleton
      <3>2. IsFiniteSet({f1} \cup {f2}) /\ Cardinality({f1} \cup {f2}) = 2
        BY <2>3, <3>1, FS_AddElement
      <3>3. /\ IsFiniteSet(({f1} \cup {f2}) \cup {f3})
            /\ Cardinality(({f1} \cup {f2}) \cup {f3}) = 3
        BY <2>6, <3>2, FS_AddElement
      <3>4. ({f1} \cup {f2}) \cup {f3} = {f1, f2, f3}
        OBVIOUS
      <3>. QED  BY <3>3, <3>4
    <2>9. Len(q.sock_arr) = 3
      BY <2>1
    <2>. QED  BY <1>3, <2>1, <2>3, <2>6, <2>7, <2>8, <2>9
  <1>. QED  BY <1>4, <1>5

(* Adding a query keeps the account.                                       *)
LEMMA AppendKeepsSockets ==
  ASSUME NEW dummy \in BOOLEAN, CreateAllowed(dummy), NEW client \in About, NEW id \in Nat,
         QueriesOK(qlist, fdmaster), SocketsInv
  PROVE  LET q == NewQuery(dummy, client, id) IN
         SocketsOK(Append(qlist, q), fdmaster \cup Socks(q),
                   upstream_sockets + SocketsOf(dummy))
  <1>. DEFINE q == NewQuery(dummy, client, id)
              ql == Append(qlist, q)
              fds == fdmaster \cup Socks(q)
  <1>1. /\ Socks(q) \subseteq FreeFds /\ IsFiniteSet(Socks(q))
        /\ Cardinality(Socks(q)) = SocketsOf(dummy)
        /\ Len(q.sock_arr) = SocketsOf(dummy)
    BY NewSockets
  <1>2. qlist \in Seq(Query) /\ q \in Query
    BY NewQueryTyped DEF QueriesOK, CreateAllowed
  <1>. HIDE DEF q
  <1>3. /\ Len(ql) = Len(qlist) + 1 /\ Len(qlist) \in Nat
        /\ ql[Len(qlist) + 1] = q
        /\ \A j \in 1 .. Len(qlist) : ql[j] = qlist[j]
    BY <1>2
  <1>. HIDE DEF ql
  <1>4. Socks(q) \cap fdmaster = {} /\ isock \notin Socks(q)
    BY <1>1, FdsCounted DEF FreeFds
  <1>5. \A j \in 1 .. Len(qlist) : Socks(qlist[j]) \subseteq fdmaster
    BY DEF SocketsInv, SocketsOK, AllSocks
  <1>6. AllSocks(ql) = AllSocks(qlist) \cup Socks(q)
    <2>1. 1 .. Len(ql) = (1 .. Len(qlist)) \cup {Len(qlist) + 1}
      BY <1>3
    <2>. QED  BY <1>3, <2>1 DEF AllSocks
  <1>7. ASSUME NEW j \in 1 .. Len(ql), NEW k \in 1 .. Len(ql), j # k
        PROVE  Socks(ql[j]) \cap Socks(ql[k]) = {}
    <2>1. /\ j \in 1 .. Len(qlist) \/ j = Len(qlist) + 1
          /\ k \in 1 .. Len(qlist) \/ k = Len(qlist) + 1
      BY <1>3
    <2>. QED  BY <1>3, <1>4, <1>5, <1>7, <2>1 DEF SocketsInv, SocketsOK
  <1>8. ASSUME NEW j \in 1 .. Len(ql)
        PROVE  Cardinality(Socks(ql[j])) = Len(ql[j].sock_arr)
    <2>1. j \in 1 .. Len(qlist) \/ j = Len(qlist) + 1
      BY <1>3
    <2>. QED  BY <1>1, <1>3, <2>1 DEF SocketsInv, SocketsOK
  <1>9. upstream_sockets + SocketsOf(dummy) = Cardinality(fds \ {isock})
    <2>. DEFINE up == fdmaster \ {isock}
    <2>1. IsFiniteSet(up) /\ Cardinality(up) \in Nat /\ upstream_sockets = Cardinality(up)
      BY FreeCounted DEF SocketsInv, SocketsOK
    <2>2. fds \ {isock} = up \cup Socks(q) /\ up \cap Socks(q) = {}
      BY <1>4
    <2>. HIDE DEF up, fds
    <2>3. Cardinality(up \cup Socks(q)) = Cardinality(up) + Cardinality(Socks(q))
      BY <1>1, <2>1, <2>2, DisjointCounted
    <2>. QED  BY <1>1, <2>1, <2>2, <2>3
  <1>10. AllSocks(ql) \subseteq fds /\ (EnoughFds => fds = {isock} \cup AllSocks(ql))
    BY <1>6 DEF SocketsInv, SocketsOK
  <1>. HIDE DEF fds
  <1>11. SocketsOK(ql, fds, upstream_sockets + SocketsOf(dummy))
    BY <1>7, <1>8, <1>9, <1>10 DEF SocketsOK
  <1>. QED  BY <1>11 DEF q, ql, fds

(* A query that could not be created leaves what it opened counted; with   *)
(* enough descriptors there always were enough below the limit.            *)
LEMMA RefusedKeepsSockets ==
  ASSUME NEW dummy \in BOOLEAN, CreateRefused(dummy),
         QueriesOK(qlist, fdmaster), SocketsInv, qlist' = qlist
  PROVE  SocketsInv'
  <1>1. CASE UNCHANGED <<fdmaster, upstream_sockets>>
    <2>1. SocketsOK(qlist', fdmaster', upstream_sockets')
      BY <1>1 DEF SocketsInv
    <2>. QED  BY <2>1 DEF SocketsInv
  <1>2. CASE /\ ~LimitReached
             /\ Cardinality(FreeFds) < SocketsOf(dummy)
             /\ fdmaster' = fdmaster \cup FreeFds
             /\ upstream_sockets' = upstream_sockets + Cardinality(FreeFds)
    <2>. DEFINE up == fdmaster \ {isock}
                n == Cardinality(FreeFds)
    <2>1. /\ IsFiniteSet(up) /\ Cardinality(up) \in Nat
          /\ upstream_sockets = Cardinality(up)
          /\ n = MaxFd - Cardinality(up)
      BY FreeCounted DEF SocketsInv, SocketsOK
    <2>2. ~EnoughFds
      <3>1. upstream_sockets < MaxSockets /\ n < 3 /\ MaxSockets \in Nat /\ MaxFd \in Nat
        BY <1>2, <2>1, RelayAssumption DEF LimitReached, SocketsOf
      <3>. HIDE DEF n, up
      <3>. QED  BY <2>1, <3>1 DEF EnoughFds
    <2>3. upstream_sockets' = Cardinality(fdmaster' \ {isock})
      <3>1. fdmaster' \ {isock} = up \cup FreeFds /\ up \cap FreeFds = {}
        BY <1>2, FdsCounted DEF FreeFds
      <3>2. upstream_sockets' = Cardinality(up) + n
        BY <1>2, <2>1
      <3>. HIDE DEF up
      <3>3. Cardinality(up \cup FreeFds) = Cardinality(up) + n
        BY <2>1, <3>1, FreeFdsFinite, DisjointCounted
      <3>. QED  BY <3>1, <3>2, <3>3
    <2>4. AllSocks(qlist) \subseteq fdmaster'
      BY <1>2 DEF SocketsInv, SocketsOK
    <2>5. SocketsOK(qlist, fdmaster', upstream_sockets')
      BY <2>2, <2>3, <2>4 DEF SocketsInv, SocketsOK
    <2>6. SocketsOK(qlist', fdmaster', upstream_sockets')
      BY <2>5
    <2>. QED  BY <2>6 DEF SocketsInv
  <1>. QED  BY <1>1, <1>2 DEF CreateRefused

(* query_destroy() closes and uncounts the sockets of one query, of no     *)
(* other.                                                                  *)
LEMMA DestroyKeepsSockets ==
  ASSUME NEW ql, NEW fds, NEW socks \in Int, NEW j \in 1 .. Len(ql),
         QueriesOK(ql, fds), SocketsOK(ql, fds, socks), Destroy(ql, fds, socks, j)
  PROVE  SocketsInv'
  <1>. DEFINE gone == Socks(ql[j])
              left == Without(ql, j)
              m(i) == IF i < j THEN i ELSE i + 1
  <1>1. ql \in Seq(Query) /\ fds \subseteq Fds \cup {isock} /\ Len(ql) \in Nat /\ j \in Nat
    BY DEF QueriesOK
  <1>2. /\ qlist' = left /\ fdmaster' = fds \ gone
        /\ upstream_sockets' = socks - Len(ql[j].sock_arr)
    BY DEF Destroy
  <1>3. gone \subseteq Fds /\ gone \subseteq AllSocks(ql) /\ isock \notin gone
    BY <1>1, SocketsCounted, FdsCounted DEF AllSocks
  <1>4. /\ Len(left) = Len(ql) - 1
        /\ \A i \in 1 .. Len(left) :
              m(i) \in 1 .. Len(ql) /\ m(i) # j /\ left[i] = ql[m(i)]
    BY <1>1, WithoutElement
  <1>5. \A i \in 1 .. Len(ql) : i # j => \E k \in 1 .. Len(left) : left[k] = ql[i]
    <2>. SUFFICES ASSUME NEW i \in 1 .. Len(ql), i # j
                  PROVE  \E k \in 1 .. Len(left) : left[k] = ql[i]
      OBVIOUS
    <2>. DEFINE k == IF i < j THEN i ELSE i - 1
    <2>1. k \in 1 .. Len(ql) - 1 /\ m(k) = i
      BY <1>1
    <2>. HIDE DEF k
    <2>. QED  BY <1>4, <2>1
  <1>. HIDE DEF left
  <1>6. AllSocks(left) = AllSocks(ql) \ gone
    <2>1. \A i \in 1 .. Len(left) : Socks(left[i]) \cap gone = {}
      BY <1>4 DEF SocketsOK
    <2>2. AllSocks(left) \subseteq AllSocks(ql) \ gone
      BY <1>4, <2>1 DEF AllSocks
    <2>3. AllSocks(ql) \ gone \subseteq AllSocks(left)
      BY <1>5 DEF AllSocks
    <2>. QED  BY <2>2, <2>3
  <1>7. ASSUME NEW i \in 1 .. Len(left)
        PROVE  /\ Cardinality(Socks(left[i])) = Len(left[i].sock_arr)
               /\ \A k \in 1 .. Len(left) : i # k => Socks(left[i]) \cap Socks(left[k]) = {}
    <2>1. m(i) \in 1 .. Len(ql) /\ left[i] = ql[m(i)]
      BY <1>4
    <2>2. ASSUME NEW k \in 1 .. Len(left), i # k
          PROVE  Socks(left[i]) \cap Socks(left[k]) = {}
      <3>1. m(k) \in 1 .. Len(ql) /\ left[k] = ql[m(k)]
        BY <1>4
      <3>2. m(i) # m(k)
        BY <1>1, <1>4, <2>2
      <3>. HIDE DEF m
      <3>. QED  BY <2>1, <3>1, <3>2 DEF SocketsOK
    <2>. HIDE DEF m
    <2>. QED  BY <2>1, <2>2 DEF SocketsOK
  <1>8. upstream_sockets' = Cardinality((fds \ gone) \ {isock})
    <2>. DEFINE up == fds \ {isock}
                n == Cardinality(gone)
    <2>1. (fds \ gone) \ {isock} = up \ gone /\ up \cap gone = gone /\ up \subseteq Fds
      BY <1>1, <1>3 DEF SocketsOK
    <2>2. IsFiniteSet(up)
      BY <2>1, FdsCounted, FS_Subset
    <2>3. Cardinality(up \ gone) = Cardinality(up) - Cardinality(up \cap gone)
      BY <2>2, FS_Difference
    <2>4. socks = Cardinality(up) /\ Len(ql[j].sock_arr) = n
      BY DEF SocketsOK
    <2>. HIDE DEF up, gone
    <2>. QED  BY <1>2, <2>1, <2>3, <2>4
  <1>9. /\ AllSocks(left) \subseteq fds \ gone
        /\ EnoughFds => fds \ gone = {isock} \cup AllSocks(left)
    BY <1>3, <1>6 DEF SocketsOK
  <1>10. SocketsOK(left, fds \ gone, upstream_sockets')
    BY <1>7, <1>8, <1>9 DEF SocketsOK
  <1>11. SocketsOK(qlist', fdmaster', upstream_sockets')
    BY <1>2, <1>10
  <1>. QED  BY <1>11 DEF SocketsInv

(* send2current() deletes the query, or leaves its sockets as they are.    *)
LEMMA SendingKeepsSockets ==
  ASSUME NEW ql, NEW fds, NEW socks \in Int, NEW j \in 1 .. Len(ql), NEW client,
         QueriesOK(ql, fds), SocketsOK(ql, fds, socks),
         send2current(ql, fds, socks, j, client)
  PROVE  SocketsInv'
  <1>1. \/ Destroy(ql, fds, socks, j)
        \/ /\ \E n, list : qlist' = [ql EXCEPT ![j] = [ql[j] EXCEPT !.serv_sent_cnt = n,
                                                                   !.srv_list = list]]
           /\ fdmaster' = fds /\ upstream_sockets' = socks
    BY Zenon DEF send2current
  <1>2. CASE Destroy(ql, fds, socks, j)
    BY <1>2, DestroyKeepsSockets
  <1>3. ASSUME NEW n, NEW list, fdmaster' = fds, upstream_sockets' = socks,
               qlist' = [ql EXCEPT ![j] = [ql[j] EXCEPT !.serv_sent_cnt = n,
                                                        !.srv_list = list]]
        PROVE  SocketsInv'
    <2>. DEFINE q == [ql[j] EXCEPT !.serv_sent_cnt = n, !.srv_list = list]
    <2>1. ql \in Seq(Query) /\ ql[j] \in Query
      BY DEF QueriesOK
    <2>2. q.sock_arr = ql[j].sock_arr
      BY <2>1 DEF Query
    <2>. HIDE DEF q
    <2>3. qlist' = [ql EXCEPT ![j] = q]
      BY <1>3 DEF q
    <2>4. Len(qlist') = Len(ql) /\ \A k \in 1 .. Len(ql) : qlist'[k].sock_arr = ql[k].sock_arr
      BY <2>1, <2>2, <2>3
    <2>5. SocketsOK(qlist', fds, socks)
      BY <2>4, ChangeKeepsSockets
    <2>6. SocketsOK(qlist', fdmaster', upstream_sockets')
      BY <1>3, <2>5
    <2>. QED  BY <2>6 DEF SocketsInv
  <1>. QED  BY <1>1, <1>2, <1>3

-----------------------------------------------------------------------------
(* The steps                                                               *)

(* Most steps leave the query list and the counter alone.                  *)
LEMMA OthersKeepSockets ==
  ASSUME SocketsInv, UNCHANGED queryvars
  PROVE  SocketsInv'
  <1>1. SocketsOK(qlist', fdmaster', upstream_sockets')
    BY DEF SocketsInv, queryvars
  <1>. QED  BY <1>1 DEF SocketsInv

(* A second more changes the ages of the queries.                          *)
LEMMA TickKeepsSockets ==
  ASSUME IInv, SocketsInv, Tick
  PROVE  SocketsInv'
  <1>1. qlist \in Seq(Query) /\ fdmaster' = fdmaster /\ upstream_sockets' = upstream_sockets
    BY DEF IInv, TypeOK, Tick
  <1>2. qlist' = [j \in DOMAIN qlist |->
                    [qlist[j] EXCEPT !.client_time = Older(@, qlist[j].ttl + 1)]]
    BY DEF Tick
  <1>3. qlist' \in Seq(Query)
    <2>1. IInv'
      BY TickKeepsInvariant
    <2>. QED  BY <2>1 DEF IInv, TypeOK
  <1>4. Len(qlist') = Len(qlist)
    BY <1>1, <1>2, <1>3
  <1>5. \A j \in 1 .. Len(qlist) : qlist'[j].sock_arr = qlist[j].sock_arr
    BY <1>1, <1>2 DEF Query
  <1>6. SocketsOK(qlist', fdmaster, upstream_sockets)
    BY <1>4, <1>5, ChangeKeepsSockets DEF SocketsInv
  <1>7. SocketsOK(qlist', fdmaster', upstream_sockets')
    BY <1>1, <1>6
  <1>. QED  BY <1>7 DEF SocketsInv

(* A probe uses the query that has its id, a new one, or none.             *)
LEMMA ProbingKeepsSockets ==
  ASSUME IInv, SocketsInv, retry_srvlist
  PROVE  SocketsInv'
  <1>1. QueriesOK(qlist, fdmaster) /\ qlist \in Seq(Query)
    BY QueriesOfInvariant DEF QueriesOK
  <1>2. PICK id \in UnusedId \cup Collisions :
          \/ /\ Repeats(id) # {}
             /\ qlist' = [qlist EXCEPT ![Min(Repeats(id))].client_time = 0,
                                       ![Min(Repeats(id))].ttl = ReactivateInterval]
             /\ UNCHANGED <<fdmaster, upstream_sockets>>
          \/ /\ CreateAllowed(TRUE)
             /\ qlist' = Append(qlist, NewQuery(TRUE, Nothing, id))
             /\ fdmaster' = fdmaster \cup Socks(NewQuery(TRUE, Nothing, id))
             /\ upstream_sockets' = upstream_sockets + 1
          \/ CreateRefused(TRUE) /\ UNCHANGED qlist
    BY DEF retry_srvlist
  <1>3. id \in Nat /\ Nothing \in About
    BY RelayAssumption DEF UnusedId, About
  <1>4. CASE /\ Repeats(id) # {}
             /\ qlist' = [qlist EXCEPT ![Min(Repeats(id))].client_time = 0,
                                       ![Min(Repeats(id))].ttl = ReactivateInterval]
             /\ UNCHANGED <<fdmaster, upstream_sockets>>
    <2>. DEFINE j == Min(Repeats(id))
                q == [qlist[j] EXCEPT !.client_time = 0, !.ttl = ReactivateInterval]
    <2>1. j \in 1 .. Len(qlist) /\ qlist[j] \in Query
      BY <1>1, <1>4, RepetitionFound
    <2>2. q.sock_arr = qlist[j].sock_arr
      BY <2>1 DEF Query
    <2>3. qlist' = [qlist EXCEPT ![j] = q]
      BY <1>1, <1>4, <2>1
    <2>. HIDE DEF j, q
    <2>4. /\ Len(qlist') = Len(qlist)
          /\ \A k \in 1 .. Len(qlist) : qlist'[k].sock_arr = qlist[k].sock_arr
      BY <1>1, <2>1, <2>2, <2>3
    <2>5. SocketsOK(qlist', fdmaster, upstream_sockets)
      BY <2>4, ChangeKeepsSockets DEF SocketsInv
    <2>6. SocketsOK(qlist', fdmaster', upstream_sockets')
      BY <1>4, <2>5
    <2>. QED  BY <2>6 DEF SocketsInv
  <1>5. CASE /\ CreateAllowed(TRUE)
             /\ qlist' = Append(qlist, NewQuery(TRUE, Nothing, id))
             /\ fdmaster' = fdmaster \cup Socks(NewQuery(TRUE, Nothing, id))
             /\ upstream_sockets' = upstream_sockets + 1
    <2>1. SocketsOf(TRUE) = 1
      BY DEF SocketsOf
    <2>2. SocketsOK(Append(qlist, NewQuery(TRUE, Nothing, id)),
                    fdmaster \cup Socks(NewQuery(TRUE, Nothing, id)),
                    upstream_sockets + SocketsOf(TRUE))
      BY <1>1, <1>3, <1>5, AppendKeepsSockets
    <2>3. SocketsOK(qlist', fdmaster', upstream_sockets')
      BY <1>5, <2>1, <2>2
    <2>. QED  BY <2>3 DEF SocketsInv
  <1>6. CASE CreateRefused(TRUE) /\ UNCHANGED qlist
    BY <1>1, <1>6, RefusedKeepsSockets
  <1>. QED  BY <1>2, <1>4, <1>5, <1>6

(* A request repeats a query, adds one, or is dropped.                     *)
LEMMA RequestKeepsSockets ==
  ASSUME IInv, SocketsInv, udp_handle_request
  PROVE  SocketsInv'
  <1>1. QueriesOK(qlist, fdmaster) /\ qlist \in Seq(Query) /\ upstream_sockets \in Int
    BY QueriesOfInvariant DEF QueriesOK, IInv, TypeOK
  <1>2. PICK x \in Questions :
          \/ ReplyServerFailure(x[1], x[2])
          \/ ForwardRepetition(x[1], x[2])
          \/ ForwardNew(x[1], x[2])
          \/ DropNew(x[2])
    BY DEF udp_handle_request
  <1>3. x[1] \in About /\ x[2] \in Nat
    BY RelayAssumption DEF About
  <1>4. CASE ReplyServerFailure(x[1], x[2])
    BY <1>4, OthersKeepSockets DEF ReplyServerFailure
  <1>5. CASE ForwardRepetition(x[1], x[2])
    <2>. DEFINE j == Min(Repeats(x[2]))
                q == [qlist[j] EXCEPT !.client_time = 0]
                ql == [qlist EXCEPT ![j] = q]
    <2>1. /\ Repeats(x[2]) # {}
          /\ send2current(ql, fdmaster, upstream_sockets, j, x[1])
      BY <1>5 DEF ForwardRepetition
    <2>2. j \in 1 .. Len(qlist) /\ qlist[j] \in Query
      BY <1>1, <2>1, RepetitionFound
    <2>3. q \in Query /\ q.client_qid = qlist[j].client_qid /\ q.sock_arr = qlist[j].sock_arr
      BY <2>2 DEF Query
    <2>. HIDE DEF q, j
    <2>4. QueriesOK(ql, fdmaster)
      BY <1>1, <2>2, <2>3, ChangeKeepsQueries
    <2>5. /\ Len(ql) = Len(qlist) /\ j \in 1 .. Len(ql)
          /\ \A k \in 1 .. Len(qlist) : ql[k].sock_arr = qlist[k].sock_arr
      BY <1>1, <2>2, <2>3
    <2>. HIDE DEF ql
    <2>6. SocketsOK(ql, fdmaster, upstream_sockets)
      BY <2>5, ChangeKeepsSockets DEF SocketsInv
    <2>. QED  BY <1>1, <2>1, <2>4, <2>5, <2>6, SendingKeepsSockets
  <1>6. CASE ForwardNew(x[1], x[2])
    <2>. DEFINE q == NewQuery(FALSE, x[1], x[2])
                ql == Append(qlist, q)
                fds == fdmaster \cup Socks(q)
                socks == upstream_sockets + 3
    <2>1. /\ Repeats(x[2]) = {} /\ CreateAllowed(FALSE)
          /\ send2current(ql, fds, socks, Len(qlist) + 1, x[1])
      BY <1>6 DEF ForwardNew
    <2>2. SocketsOK(ql, fds, socks)
      <3>1. SocketsOf(FALSE) = 3
        BY DEF SocketsOf
      <3>2. SocketsOK(ql, fds, upstream_sockets + SocketsOf(FALSE))
        BY <1>1, <1>3, <2>1, AppendKeepsSockets
      <3>. HIDE DEF ql, fds
      <3>. QED  BY <3>1, <3>2
    <2>3. q \in Query /\ q.client_qid = x[2] /\ Socks(q) \subseteq Fds
      BY <1>3, <2>1, NewQueryTyped DEF CreateAllowed
    <2>. HIDE DEF q
    <2>4. QueriesOK(qlist, fds)
      BY <1>1, <2>3 DEF QueriesOK
    <2>5. \A k \in 1 .. Len(qlist) : qlist[k].client_qid # q.client_qid
      BY <2>1, <2>3 DEF Repeats
    <2>6. QueriesOK(ql, fds)
      BY <2>3, <2>4, <2>5, AppendKeepsQueries
    <2>7. Len(qlist) + 1 \in 1 .. Len(ql) /\ socks \in Int
      BY <1>1, <2>3
    <2>. HIDE DEF ql, fds, socks
    <2>. QED  BY <2>1, <2>2, <2>6, <2>7, SendingKeepsSockets
  <1>7. CASE DropNew(x[2])
    <2>1. CreateRefused(FALSE) /\ qlist' = qlist
      BY <1>7 DEF DropNew
    <2>. QED  BY <1>1, <2>1, RefusedKeepsSockets
  <1>. QED  BY <1>2, <1>4, <1>5, <1>6, <1>7

(* The last reply of a query deletes it, an earlier one leaves its sockets *)
(* open.                                                                   *)
LEMMA ReplyKeepsSockets ==
  ASSUME IInv, SocketsInv, udp_handle_reply
  PROVE  SocketsInv'
  <1>. DEFINE x == CHOOSE x \in Readable : \A y \in Readable : Earlier(x, y)
              j == x[1] + 1
  <1>1. QueriesOK(qlist, fdmaster) /\ qlist \in Seq(Query) /\ upstream_sockets \in Int
    BY QueriesOfInvariant DEF QueriesOK, IInv, TypeOK
  <1>2. \/ Destroy(qlist, fdmaster, upstream_sockets, j)
        \/ /\ \E n, told, kept :
                 qlist' = [qlist EXCEPT ![j] = [qlist[j] EXCEPT !.serv_sent_cnt = n,
                                                                !.resp_sent = told,
                                                                !.cached_fail_msg = kept]]
           /\ UNCHANGED <<fdmaster, upstream_sockets>>
    <2>. DEFINE q == qlist[j]
                m == Head(rx[q.sock_arr[x[2]]])
                last == q.serv_sent_cnt = 1
                open == rx[q.sock_arr[x[2]]] # <<>> /\ m.kind # "bad" /\ Unanswered(q)
                answer == open /\ (m.kind = "ok" \/ last)
                keep == open /\ ~answer /\ q.cached_fail_msg = <<>>
    <2>1. IF last THEN Destroy(qlist, fdmaster, upstream_sockets, j)
          ELSE /\ qlist' = [qlist EXCEPT ![j] =
                     [q EXCEPT !.serv_sent_cnt = @ - 1,
                               !.resp_sent = @ \/ answer,
                               !.cached_fail_msg = IF keep THEN <<m.about>> ELSE @]]
               /\ UNCHANGED <<fdmaster, upstream_sockets>>
      BY DEF udp_handle_reply
    <2>. HIDE DEF answer, keep, last, m
    <2>2. CASE last
      BY <2>1, <2>2
    <2>3. CASE ~last
      <3>. DEFINE n1 == q.serv_sent_cnt - 1
                  told1 == q.resp_sent \/ answer
                  kept1 == IF keep THEN <<m.about>> ELSE q.cached_fail_msg
      <3>1. qlist' = [qlist EXCEPT ![j] = [q EXCEPT !.serv_sent_cnt = n1,
                                                    !.resp_sent = told1,
                                                    !.cached_fail_msg = kept1]]
        BY <2>1, <2>3
      <3>. HIDE DEF n1, told1, kept1
      <3>. QED  BY <2>1, <2>3, <3>1
    <2>. QED  BY <2>2, <2>3
  <1>3. x \in Readable
    <2>1. Readable \subseteq Nat \X Nat
      BY DEF Readable
    <2>. QED  BY <2>1, FirstReadable DEF udp_handle_reply
  <1>. HIDE DEF x
  <1>4. x[1] \in 0 .. Len(qlist) - 1
    BY <1>3 DEF Readable
  <1>5. j \in 1 .. Len(qlist) /\ qlist[j] \in Query
    BY <1>1, <1>4
  <1>. HIDE DEF j
  <1>6. CASE Destroy(qlist, fdmaster, upstream_sockets, j)
    BY <1>1, <1>5, <1>6, DestroyKeepsSockets DEF SocketsInv
  <1>7. ASSUME NEW n, NEW told, NEW kept, UNCHANGED <<fdmaster, upstream_sockets>>,
               qlist' = [qlist EXCEPT ![j] = [qlist[j] EXCEPT !.serv_sent_cnt = n,
                                                              !.resp_sent = told,
                                                              !.cached_fail_msg = kept]]
        PROVE  SocketsInv'
    <2>. DEFINE q == [qlist[j] EXCEPT !.serv_sent_cnt = n, !.resp_sent = told,
                                      !.cached_fail_msg = kept]
    <2>1. q.sock_arr = qlist[j].sock_arr
      BY <1>5 DEF Query
    <2>. HIDE DEF q
    <2>2. qlist' = [qlist EXCEPT ![j] = q]
      BY <1>7 DEF q
    <2>3. /\ Len(qlist') = Len(qlist)
          /\ \A k \in 1 .. Len(qlist) : qlist'[k].sock_arr = qlist[k].sock_arr
      BY <1>1, <2>1, <2>2
    <2>4. SocketsOK(qlist', fdmaster, upstream_sockets)
      BY <2>3, ChangeKeepsSockets DEF SocketsInv
    <2>5. SocketsOK(qlist', fdmaster', upstream_sockets')
      BY <1>7, <2>4
    <2>. QED  BY <2>5 DEF SocketsInv
  <1>. QED  BY <1>2, <1>6, <1>7

(* query_timeout() deletes a query of the list.                            *)
LEMMA ExpiryKeepsSockets ==
  ASSUME IInv, SocketsInv, query_timeout
  PROVE  SocketsInv'
  <1>1. QueriesOK(qlist, fdmaster) /\ Len(qlist) \in Nat /\ upstream_sockets \in Int
    BY QueriesOfInvariant DEF QueriesOK, IInv, TypeOK
  <1>2. Destroy(qlist, fdmaster, upstream_sockets, Min(Expired)) /\ Expired # {}
    BY DEF query_timeout
  <1>3. at[1] \in Nat
    BY DEF IInv, TypeOK
  <1>4. Expired \subseteq 1 .. Len(qlist)
    BY <1>1, <1>3 DEF Expired
  <1>5. Min(Expired) \in 1 .. Len(qlist)
    <2>1. Expired \subseteq Nat
      BY <1>4
    <2>. QED  BY <1>2, <1>4, <2>1, MinOfNats
  <1>. QED  BY <1>1, <1>2, <1>5, DestroyKeepsSockets DEF SocketsInv

(* Every step keeps the account.                                           *)
LEMMA StepKeepsSockets == IInv /\ SocketsInv /\ [Next]_vars => SocketsInv'
  <1>. SUFFICES ASSUME IInv, SocketsInv, [Next]_vars PROVE SocketsInv'
    OBVIOUS
  <1>1. CASE Select \/ Interrupt
    BY <1>1, OthersKeepSockets DEF Select, Interrupt
  <1>2. CASE Round
    <2>1. CASE reactivate_servers \/ deactivate_servers
      BY <2>1, OthersKeepSockets DEF reactivate_servers, deactivate_servers
    <2>2. CASE retry_srvlist
      BY <2>2, ProbingKeepsSockets
    <2>3. CASE udp_handle_reply
      BY <2>3, ReplyKeepsSockets
    <2>4. CASE HandleListHead \/ RepliesDone \/ RoundDone
      BY <2>4, OthersKeepSockets DEF HandleListHead, RepliesDone, RoundDone
    <2>5. CASE IgnoreRequest \/ AnswerLocally
      BY <2>5, OthersKeepSockets DEF IgnoreRequest, AnswerLocally
    <2>6. CASE udp_handle_request
      BY <2>6, RequestKeepsSockets
    <2>7. CASE query_timeout
      BY <2>7, ExpiryKeepsSockets
    <2>. QED  BY <1>2, <2>1, <2>2, <2>3, <2>4, <2>5, <2>6, <2>7 DEF Round
  <1>3. CASE \E f \in Fds : \E k \in DOMAIN flight[f] : ReplyArrives(f, k)
    BY <1>3, OthersKeepSockets DEF ReplyArrives
  <1>4. CASE Tick
    BY <1>4, TickKeepsSockets
  <1>5. CASE UNCHANGED vars
    BY <1>5, OthersKeepSockets DEF vars
  <1>. QED  BY <1>1, <1>2, <1>3, <1>4, <1>5 DEF Next

-----------------------------------------------------------------------------
(* The theorem                                                             *)

(* The counter that -M limits is the number of open upstream sockets, each *)
(* of them belongs to at most one query, and none is left without one      *)
(* unless socket() fails: whichever of the reply, the timeout or the       *)
(* failed send deletes a query, and whatever ran between its creation and  *)
(* its end.                                                                *)
THEOREM SocketsAlwaysAccounted == Spec => []SocketsAccounted
  <1>1. Init => IInv /\ SocketsInv
    BY InitHasInvariant, InitAccounts
  <1>2. IInv /\ SocketsInv /\ [Next]_vars => IInv' /\ SocketsInv'
    BY StepKeepsInvariant, StepKeepsSockets
  <1>3. IInv /\ SocketsInv => SocketsAccounted
    BY SocketsOKAccounts DEF IInv
  <1>. QED  BY <1>1, <1>2, <1>3, PTL DEF Spec

-----------------------------------------------------------------------------
(* What the sockets carry                                                  *)

(* Whose questions the datagrams of s are about.                           *)
Hosts(s) == {s[k].about : k \in 1 .. Len(s)}

(* And those on their way from and to socket f.                            *)
Talk(fl, r, f) == Hosts(fl[f]) \cup Hosts(r[f])

(* The hosts that ask under this id: clients, and the probes that hit it.  *)
Mates(id) == {a \in About : <<a, id>> \in Questions \/ (a = Nothing /\ id \in Collisions)}

(* What a query is besides its type: a probe's keeps no failure, another   *)
(* is a client's question, and keeps a failure of one of its id.           *)
OwnerOK(q) ==
    /\ Len(q.sock_arr) = SocketsOf(q.is_dummy)
    /\ IF q.is_dummy THEN q.cached_fail_msg = <<>>
       ELSE /\ <<q.client, q.client_qid>> \in Questions
            /\ q.cached_fail_msg # <<>> => q.cached_fail_msg[1] \in Mates(q.client_qid)

(* The sockets of a client's query carry questions of its id; a socket     *)
(* without a query carries nothing, and so a new query begins with empty   *)
(* ones.                                                                   *)
TalkOK(ql, fl, r) ==
    /\ \A j \in 1 .. Len(ql) : OwnerOK(ql[j])
    /\ \A j \in 1 .. Len(ql) : ~ql[j].is_dummy =>
          \A f \in Socks(ql[j]) : Talk(fl, r, f) \subseteq Mates(ql[j].client_qid)
    /\ \A f \in Fds \ AllSocks(ql) : Talk(fl, r, f) = {}

TalkInv == TalkOK(qlist, flight, rx)

(* What a client is sent goes to one that asks under its id, and is about  *)
(* a question of that id.                                                  *)
AboutItsId ==
    sent # Nothing => <<sent.to, sent.id>> \in Questions /\ sent.about \in Mates(sent.id)

(* Nothing is on its way in an empty queue.                                *)
LEMMA HostsOfNone == Hosts(<<>>) = {}
  <1>. QED  BY DEF Hosts

(* A datagram that is added brings its own host.                           *)
LEMMA HostsAdded ==
  ASSUME NEW S, NEW s \in Seq(S), NEW m
  PROVE  Hosts(Append(s, m)) = Hosts(s) \cup {m.about}
  <1>. DEFINE t == Append(s, m)
              n == Len(s) + 1
  <1>1. /\ Len(t) = n /\ Len(s) \in Nat /\ t[n] = m
        /\ \A k \in 1 .. Len(s) : t[k] = s[k]
    OBVIOUS
  <1>2. 1 .. n = (1 .. Len(s)) \cup {n}
    BY <1>1
  <1>. HIDE DEF t, n
  <1>3. Hosts(t) = Hosts(s) \cup {m.about}
    BY <1>1, <1>2 DEF Hosts
  <1>. QED  BY <1>3 DEF t

(* Reading the first one brings nobody new.                                *)
LEMMA HostsRead ==
  ASSUME NEW S, NEW s \in Seq(S), s # <<>>
  PROVE  Head(s).about \in Hosts(s) /\ Hosts(Tail(s)) \subseteq Hosts(s)
  <1>1. /\ Len(s) \in Nat /\ Len(s) >= 1 /\ Len(Tail(s)) = Len(s) - 1 /\ Head(s) = s[1]
        /\ \A k \in 1 .. Len(s) - 1 : Tail(s)[k] = s[k + 1] /\ k + 1 \in 1 .. Len(s)
    OBVIOUS
  <1>2. 1 \in 1 .. Len(s)
    BY <1>1
  <1>. QED  BY <1>1, <1>2 DEF Hosts

(* Neither does taking any.                                                *)
LEMMA HostsTaken ==
  ASSUME NEW S, NEW s \in Seq(S), NEW j \in 1 .. Len(s)
  PROVE  s[j].about \in Hosts(s) /\ Hosts(Without(s, j)) \subseteq Hosts(s)
  <1>1. /\ Len(Without(s, j)) = Len(s) - 1 /\ Len(s) \in Nat
        /\ \A k \in 1 .. Len(s) - 1 :
              Without(s, j)[k] = IF k < j THEN s[k] ELSE s[k + 1]
    BY WithoutElement
  <1>2. \A k \in 1 .. Len(s) - 1 : k \in 1 .. Len(s) /\ k + 1 \in 1 .. Len(s)
    BY <1>1
  <1>. QED  BY <1>1, <1>2 DEF Hosts

(* A query's sockets are descriptors, and no other query's.                *)
LEMMA SocketsApart ==
  ASSUME NEW ql, NEW fds, NEW socks, QueriesOK(ql, fds), SocketsOK(ql, fds, socks)
  PROVE  /\ \A j \in 1 .. Len(ql) : Socks(ql[j]) \subseteq Fds
         /\ \A j, k \in 1 .. Len(ql) : j # k => Socks(ql[j]) \cap Socks(ql[k]) = {}
  <1>1. \A j \in 1 .. Len(ql) : ql[j] \in Query
    BY DEF QueriesOK
  <1>. QED  BY <1>1, SocketsCounted DEF SocketsOK

(* A step that leaves each socket with its query keeps the invariant when  *)
(* what comes into the queues of a client's query is of its id, and        *)
(* nothing comes into queues without one.                                  *)
LEMMA ChangeKeepsTalk ==
  ASSUME NEW ql, NEW fl, NEW r, TalkOK(ql, fl, r),
         NEW fds, NEW socks, QueriesOK(ql, fds), SocketsOK(ql, fds, socks),
         NEW ql2, Len(ql2) = Len(ql),
         \A j \in 1 .. Len(ql) :
             /\ ql2[j].sock_arr = ql[j].sock_arr
             /\ ql2[j].is_dummy = ql[j].is_dummy
             /\ ql2[j].client_qid = ql[j].client_qid
             /\ OwnerOK(ql2[j]),
         NEW fl2, NEW r2,
         \A f \in Fds :
             \/ Talk(fl2, r2, f) \subseteq Talk(fl, r, f)
             \/ \E j \in 1 .. Len(ql) :
                   /\ f \in Socks(ql[j])
                   /\ \/ ql[j].is_dummy
                      \/ Talk(fl2, r2, f) \subseteq Talk(fl, r, f) \cup Mates(ql[j].client_qid)
  PROVE  TalkOK(ql2, fl2, r2)
  <1>1. \A j \in 1 .. Len(ql) : Socks(ql2[j]) = Socks(ql[j])
    BY DEF Socks
  <1>2. AllSocks(ql2) = AllSocks(ql)
    BY <1>1 DEF AllSocks
  <1>3. ASSUME NEW j \in 1 .. Len(ql2), ~ql2[j].is_dummy, NEW f \in Socks(ql2[j])
        PROVE  Talk(fl2, r2, f) \subseteq Mates(ql2[j].client_qid)
    <2>1. /\ j \in 1 .. Len(ql) /\ ~ql[j].is_dummy /\ f \in Socks(ql[j]) /\ f \in Fds
          /\ ql2[j].client_qid = ql[j].client_qid
      BY <1>1, <1>3, SocketsApart
    <2>2. Talk(fl, r, f) \subseteq Mates(ql[j].client_qid)
      BY <2>1 DEF TalkOK
    <2>3. \A k \in 1 .. Len(ql) : f \in Socks(ql[k]) => k = j
      BY <2>1, SocketsApart
    <2>. QED  BY <2>1, <2>2, <2>3
  <1>4. ASSUME NEW f \in Fds \ AllSocks(ql2)
        PROVE  Talk(fl2, r2, f) = {}
    <2>1. Talk(fl, r, f) = {}
      BY <1>2 DEF TalkOK
    <2>2. \A k \in 1 .. Len(ql) : f \notin Socks(ql[k])
      BY <1>2 DEF AllSocks
    <2>. QED  BY <2>1, <2>2
  <1>. QED  BY <1>3, <1>4 DEF TalkOK

(* query_destroy() takes what its sockets carried with it.                 *)
LEMMA DestroyKeepsTalk ==
  ASSUME NEW ql, NEW fds, NEW socks, NEW j \in 1 .. Len(ql),
         QueriesOK(ql, fds), SocketsOK(ql, fds, socks), TalkOK(ql, flight, rx),
         Destroy(ql, fds, socks, j)
  PROVE  TalkInv'
  <1>. DEFINE gone == Socks(ql[j])
              m(i) == IF i < j THEN i ELSE i + 1
  <1>1. ql \in Seq(Query) /\ Len(ql) \in Nat /\ j \in Nat
    BY DEF QueriesOK
  <1>2. /\ qlist' = Without(ql, j)
        /\ flight' = [f \in Fds |-> IF f \in gone THEN <<>> ELSE flight[f]]
        /\ rx' = [f \in Fds |-> IF f \in gone THEN <<>> ELSE rx[f]]
    BY DEF Destroy
  <1>3. /\ Len(qlist') = Len(ql) - 1
        /\ \A i \in 1 .. Len(qlist') :
              m(i) \in 1 .. Len(ql) /\ m(i) # j /\ qlist'[i] = ql[m(i)]
    <2>. DEFINE left == Without(ql, j)
    <2>1. /\ Len(left) = Len(ql) - 1
          /\ \A i \in 1 .. Len(left) :
                m(i) \in 1 .. Len(ql) /\ m(i) # j /\ left[i] = ql[m(i)]
      BY <1>1, WithoutElement
    <2>2. qlist' = left
      BY <1>2
    <2>. HIDE DEF left, m
    <2>. QED  BY <2>1, <2>2
  <1>4. \A i \in 1 .. Len(ql) : i # j => \E k \in 1 .. Len(qlist') : qlist'[k] = ql[i]
    <2>. SUFFICES ASSUME NEW i \in 1 .. Len(ql), i # j
                  PROVE  \E k \in 1 .. Len(qlist') : qlist'[k] = ql[i]
      OBVIOUS
    <2>. DEFINE k == IF i < j THEN i ELSE i - 1
    <2>1. k \in 1 .. Len(ql) - 1 /\ m(k) = i
      BY <1>1
    <2>. HIDE DEF k
    <2>. QED  BY <1>3, <2>1
  <1>. HIDE DEF m
  <1>5. \A f \in Fds : /\ f \in gone => Talk(flight', rx', f) = {}
                       /\ f \notin gone => Talk(flight', rx', f) = Talk(flight, rx, f)
    BY <1>2, HostsOfNone DEF Talk
  <1>6. ASSUME NEW i \in 1 .. Len(qlist') PROVE OwnerOK(qlist'[i])
    BY <1>3 DEF TalkOK
  <1>7. ASSUME NEW i \in 1 .. Len(qlist'), ~qlist'[i].is_dummy, NEW f \in Socks(qlist'[i])
        PROVE  Talk(flight', rx', f) \subseteq Mates(qlist'[i].client_qid)
    <2>1. m(i) \in 1 .. Len(ql) /\ m(i) # j /\ qlist'[i] = ql[m(i)]
      BY <1>3
    <2>2. f \in Fds /\ f \notin gone
      BY <1>7, <2>1, SocketsApart
    <2>. QED  BY <1>5, <1>7, <2>1, <2>2 DEF TalkOK
  <1>8. ASSUME NEW f \in Fds \ AllSocks(qlist')
        PROVE  Talk(flight', rx', f) = {}
    <2>1. CASE f \in gone
      BY <1>5, <2>1
    <2>2. CASE f \notin gone
      <3>1. f \notin AllSocks(ql)
        BY <1>4, <2>2 DEF AllSocks
      <3>. QED  BY <1>5, <2>2, <3>1 DEF TalkOK
    <2>. QED  BY <2>1, <2>2
  <1>9. TalkOK(qlist', flight', rx')
    BY <1>6, <1>7, <1>8 DEF TalkOK
  <1>. QED  BY <1>9 DEF TalkInv

(* A new query starts with sockets that carry nothing.                     *)
LEMMA AppendKeepsTalk ==
  ASSUME NEW dummy \in BOOLEAN, CreateAllowed(dummy), NEW client \in About, NEW id \in Nat,
         ~dummy => <<client, id>> \in Questions,
         QueriesOK(qlist, fdmaster), SocketsInv, TalkInv
  PROVE  TalkOK(Append(qlist, NewQuery(dummy, client, id)), flight, rx)
  <1>. DEFINE q == NewQuery(dummy, client, id)
              ql == Append(qlist, q)
              n == Len(qlist) + 1
  <1>1. Socks(q) \subseteq FreeFds /\ Len(q.sock_arr) = SocketsOf(dummy)
    BY NewSockets
  <1>2. qlist \in Seq(Query) /\ q \in Query
    BY NewQueryTyped DEF QueriesOK, CreateAllowed
  <1>3. /\ q.is_dummy = dummy /\ q.client = client /\ q.client_qid = id
        /\ q.cached_fail_msg = <<>>
    BY DEF NewQuery
  <1>. HIDE DEF q
  <1>4. OwnerOK(q)
    BY <1>1, <1>3 DEF OwnerOK
  <1>5. /\ Len(ql) = n /\ ql[n] = q /\ \A j \in 1 .. Len(qlist) : ql[j] = qlist[j]
        /\ 1 .. n = (1 .. Len(qlist)) \cup {n}
    BY <1>2
  <1>. HIDE DEF ql, n
  <1>6. \A f \in Socks(q) : f \in Fds \ AllSocks(qlist)
    <2>1. AllSocks(qlist) \subseteq fdmaster
      BY DEF SocketsInv, SocketsOK
    <2>. QED  BY <1>1, <2>1 DEF FreeFds
  <1>7. \A f \in Socks(q) : Talk(flight, rx, f) = {}
    BY <1>6 DEF TalkInv, TalkOK
  <1>8. AllSocks(qlist) \subseteq AllSocks(ql)
    BY <1>5 DEF AllSocks
  <1>9. \A j \in 1 .. Len(ql) : OwnerOK(ql[j])
    BY <1>4, <1>5 DEF TalkInv, TalkOK
  <1>10. ASSUME NEW j \in 1 .. Len(ql), ~ql[j].is_dummy, NEW f \in Socks(ql[j])
         PROVE  Talk(flight, rx, f) \subseteq Mates(ql[j].client_qid)
    <2>1. CASE j = n
      BY <1>5, <1>7, <1>10, <2>1
    <2>2. CASE j \in 1 .. Len(qlist)
      BY <1>5, <1>10, <2>2 DEF TalkInv, TalkOK
    <2>. QED  BY <1>5, <2>1, <2>2
  <1>11. \A f \in Fds \ AllSocks(ql) : Talk(flight, rx, f) = {}
    BY <1>8 DEF TalkInv, TalkOK
  <1>12. TalkOK(ql, flight, rx)
    BY <1>9, <1>10, <1>11 DEF TalkOK
  <1>. QED  BY <1>12 DEF ql, q

(* What the network keeps for a socket gains the one request, or none.     *)
LEMMA CarryAdds ==
  ASSUME flight \in [Fds -> Seq(Request)], NEW f \in Fds, NEW m
  PROVE  Hosts(Carry(f, m)) \subseteq Hosts(flight[f]) \cup {m.about}
  <1>1. flight[f] \in Seq(Request)
    OBVIOUS
  <1>. QED  BY <1>1, HostsAdded DEF Carry

(* send2current() uses the sockets the query has.                          *)
LEMMA SlotOfQuery ==
  ASSUME NEW route \in Routes, NEW q, q.is_dummy \in BOOLEAN, NEW i \in Used(route, q)
  PROVE  Slot(route, i) \in 1 .. SocketsOf(q.is_dummy)
  <1>. DEFINE S == {k \in route : k <= i}
  <1>1. route \subseteq 1 .. NInf /\ NInf \in Int /\ i \in route
    BY RelayAssumption DEF Used
  <1>2. IsFiniteSet(1 .. NInf)
    BY <1>1, FS_Interval
  <1>3. IsFiniteSet(S) /\ S # {}
    <2>1. i \in S
      BY <1>1
    <2>2. S \subseteq 1 .. NInf
      BY <1>1
    <2>. QED  BY <1>2, <2>1, <2>2, FS_Subset
  <1>4. Cardinality(S) \in Nat /\ Cardinality(S) # 0
    BY <1>3, FS_CardinalityType, FS_EmptySet
  <1>5. Slot(route, i) = Cardinality(S) /\ Slot(route, i) <= SocketsOf(q.is_dummy)
    BY DEF Slot, Used
  <1>. HIDE DEF S
  <1>. QED  BY <1>4, <1>5 DEF SocketsOf

(* send2current() deletes the query, or puts questions of one host of its  *)
(* id on its sockets.                                                      *)
LEMMA SendingKeepsTalk ==
  ASSUME NetOK(flight, rx), NEW ql, NEW fds, NEW socks, NEW j \in 1 .. Len(ql),
         NEW client, QueriesOK(ql, fds), SocketsOK(ql, fds, socks), TalkOK(ql, flight, rx),
         client \in Mates(ql[j].client_qid), send2current(ql, fds, socks, j, client)
  PROVE  TalkInv'
  <1>. DEFINE q == ql[j]
  <1>1. q \in Query /\ ql \in Seq(Query) /\ flight \in [Fds -> Seq(Request)]
    BY DEF QueriesOK, NetOK
  <1>2. PICK route \in Routes, bad \in SUBSET Flaky :
    LET used == Used(route, q)
        to == [i \in used |-> SendsTo(i, bad)]
        sentBy(c) == {i \in used : Slot(route, i) = c /\ to[i] # Nothing}
        over(f) == {i \in used : q.sock_arr[Slot(route, i)] = f /\ to[i] # Nothing}
    IN
    \/ Destroy(ql, fds, socks, j)
    \/ /\ qlist' = [ql EXCEPT ![j] =
             [q EXCEPT !.serv_sent_cnt = @ + Cardinality(used),
                       !.srv_list = [c \in 1 .. 3 |->
                           IF sentBy(c) = {} THEN @[c]
                           ELSE to[CHOOSE i \in sentBy(c) : TRUE]]]]
       /\ flight' = [f \in Fds |->
             IF over(f) = {} THEN flight[f]
             ELSE Carry(f, [srv |-> to[CHOOSE i \in over(f) : TRUE], about |-> client])]
       /\ UNCHANGED rx
    BY DEF send2current
  <1>. DEFINE used == Used(route, q)
              to == [i \in used |-> SendsTo(i, bad)]
              over(f) == {i \in used : q.sock_arr[Slot(route, i)] = f /\ to[i] # Nothing}
  <1>. DEFINE sentBy(c) == {i \in used : Slot(route, i) = c /\ to[i] # Nothing}
              cnt == q.serv_sent_cnt + Cardinality(used)
              srvs == [c \in 1 .. 3 |-> IF sentBy(c) = {} THEN q.srv_list[c]
                                        ELSE to[CHOOSE i \in sentBy(c) : TRUE]]
  <1>3. CASE Destroy(ql, fds, socks, j)
    BY <1>3, DestroyKeepsTalk
  <1>4. ASSUME NEW n, NEW list,
               qlist' = [ql EXCEPT ![j] = [q EXCEPT !.serv_sent_cnt = n, !.srv_list = list]],
               flight' = [f \in Fds |->
                  IF over(f) = {} THEN flight[f]
                  ELSE Carry(f, [srv |-> to[CHOOSE i \in over(f) : TRUE],
                                 about |-> client])],
               UNCHANGED rx
        PROVE  TalkInv'
    <2>. DEFINE new == [q EXCEPT !.serv_sent_cnt = n, !.srv_list = list]
    <2>1. /\ new.sock_arr = q.sock_arr /\ new.is_dummy = q.is_dummy
          /\ new.client_qid = q.client_qid /\ new.client = q.client
          /\ new.cached_fail_msg = q.cached_fail_msg
      BY <1>1 DEF Query
    <2>2. OwnerOK(q)
      BY DEF TalkOK
    <2>. HIDE DEF new
    <2>3. OwnerOK(new)
      BY <2>1, <2>2 DEF OwnerOK
    <2>0. qlist' = [ql EXCEPT ![j] = new]
      BY <1>4 DEF new
    <2>4. /\ Len(qlist') = Len(ql) /\ qlist'[j] = new
          /\ \A k \in 1 .. Len(ql) : k # j => qlist'[k] = ql[k]
      BY <1>1, <2>0
    <2>5. ASSUME NEW f \in Fds
          PROVE  \/ Talk(flight', rx', f) \subseteq Talk(flight, rx, f)
                 \/ /\ f \in Socks(q)
                    /\ Talk(flight', rx', f) \subseteq
                          Talk(flight, rx, f) \cup Mates(q.client_qid)
      <3>1. CASE over(f) = {}
        BY <1>4, <3>1 DEF Talk
      <3>2. CASE over(f) # {}
        <4>1. PICK i \in used : q.sock_arr[Slot(route, i)] = f
          BY <3>2
        <4>. DEFINE m == [srv |-> to[CHOOSE k \in over(f) : TRUE], about |-> client]
        <4>2. flight'[f] = Carry(f, m) /\ m.about = client
          BY <1>4, <3>2
        <4>. HIDE DEF m, to, over
        <4>3. Hosts(flight'[f]) \subseteq Hosts(flight[f]) \cup {client}
          BY <1>1, <4>2, CarryAdds
        <4>4. Talk(flight', rx', f) \subseteq Talk(flight, rx, f) \cup Mates(q.client_qid)
          BY <1>4, <4>3 DEF Talk
        <4>5. q.is_dummy \in BOOLEAN
          BY <1>1 DEF Query
        <4>6. Slot(route, i) \in 1 .. Len(q.sock_arr)
          BY <2>2, <4>1, <4>5, SlotOfQuery DEF OwnerOK
        <4>7. q.sock_arr \in Seq(Fds)
          BY <1>1, SocketsCounted
        <4>8. f \in Socks(q)
          BY <4>1, <4>6, <4>7 DEF Socks
        <4>. QED  BY <4>4, <4>8
      <3>. QED  BY <3>1, <3>2
    <2>6. \A k \in 1 .. Len(ql) : OwnerOK(ql[k])
      BY DEF TalkOK
    <2>7. TalkOK(qlist', flight', rx')
      BY <2>1, <2>3, <2>4, <2>5, <2>6, ChangeKeepsTalk
    <2>. QED  BY <2>7 DEF TalkInv
  <1>5. CASE /\ qlist' = [ql EXCEPT ![j] = [q EXCEPT !.serv_sent_cnt = cnt,
                                                     !.srv_list = srvs]]
             /\ flight' = [f \in Fds |->
                   IF over(f) = {} THEN flight[f]
                   ELSE Carry(f, [srv |-> to[CHOOSE i \in over(f) : TRUE],
                                  about |-> client])]
             /\ UNCHANGED rx
    <2>. HIDE DEF cnt, srvs
    <2>. QED  BY <1>4, <1>5
  <1>. QED  BY <1>2, <1>3, <1>5

(* What a step has to keep, and what it may send.                          *)
TalkStep == TalkInv' /\ AboutItsId'

(* Most steps leave the queries and the queues alone and send nothing.     *)
LEMMA OthersKeepTalk ==
  ASSUME TalkInv, UNCHANGED <<qlist, flight, rx>>
  PROVE  TalkInv'
  <1>1. TalkOK(qlist', flight', rx')
    BY DEF TalkInv
  <1>. QED  BY <1>1 DEF TalkInv

(* A client is answered without its question being forwarded.              *)
LEMMA LocalAnswerAbout ==
  ASSUME NEW x \in Questions, sent' = LocalAnswer(x[1], x[2])
  PROVE  AboutItsId'
  <1>1. x \in Clients \X Nat
    BY RelayAssumption
  <1>2. x = <<x[1], x[2]>> /\ x[1] \in About
    BY <1>1 DEF About
  <1>3. sent'.to = x[1] /\ sent'.id = x[2] /\ sent'.about = x[1]
    BY DEF LocalAnswer
  <1>. QED  BY <1>2, <1>3 DEF AboutItsId, Mates

(* A second more changes the ages of the queries.                          *)
LEMMA TickKeepsTalk ==
  ASSUME IInv, SocketsInv, TalkInv, Tick
  PROVE  TalkStep
  <1>1. QueriesOK(qlist, fdmaster) /\ qlist \in Seq(Query) /\ UNCHANGED <<flight, rx>>
    BY QueriesOfInvariant DEF QueriesOK, Tick, netvars
  <1>2. qlist' = [j \in DOMAIN qlist |->
                    [qlist[j] EXCEPT !.client_time = Older(@, qlist[j].ttl + 1)]]
    BY DEF Tick
  <1>3. Len(qlist') = Len(qlist)
    <2>1. qlist' \in Seq(Query)
      BY TickKeepsInvariant DEF IInv, TypeOK
    <2>. QED  BY <1>1, <1>2, <2>1
  <1>4. ASSUME NEW j \in 1 .. Len(qlist)
        PROVE  /\ qlist'[j].sock_arr = qlist[j].sock_arr
               /\ qlist'[j].is_dummy = qlist[j].is_dummy
               /\ qlist'[j].client_qid = qlist[j].client_qid
               /\ OwnerOK(qlist'[j])
    <2>. DEFINE age == Older(qlist[j].client_time, qlist[j].ttl + 1)
    <2>1. qlist'[j] = [qlist[j] EXCEPT !.client_time = age]
      BY <1>1, <1>2
    <2>. HIDE DEF age
    <2>2. qlist[j] \in Query /\ OwnerOK(qlist[j])
      BY <1>1 DEF TalkInv, TalkOK
    <2>3. /\ qlist'[j].sock_arr = qlist[j].sock_arr
          /\ qlist'[j].is_dummy = qlist[j].is_dummy
          /\ qlist'[j].client_qid = qlist[j].client_qid
          /\ qlist'[j].client = qlist[j].client
          /\ qlist'[j].cached_fail_msg = qlist[j].cached_fail_msg
      BY <2>1, <2>2 DEF Query
    <2>. QED  BY <2>2, <2>3 DEF OwnerOK
  <1>5. TalkOK(qlist', flight', rx')
    BY <1>1, <1>3, <1>4, ChangeKeepsTalk DEF TalkInv, SocketsInv
  <1>6. sent' = Nothing
    BY DEF Tick
  <1>. QED  BY <1>5, <1>6 DEF TalkStep, TalkInv, AboutItsId

(* A change of the queues alone that brings no host to a socket keeps the  *)
(* invariant.                                                              *)
LEMMA QueuesKeepTalk ==
  ASSUME IInv, SocketsInv, TalkInv, UNCHANGED qlist,
         \A f \in Fds : Talk(flight', rx', f) \subseteq Talk(flight, rx, f)
  PROVE  TalkInv'
  <1>1. QueriesOK(qlist, fdmaster)
    BY QueriesOfInvariant
  <1>2. \A j \in 1 .. Len(qlist) : OwnerOK(qlist[j])
    BY DEF TalkInv, TalkOK
  <1>3. TalkOK(qlist', flight', rx')
    BY <1>1, <1>2, ChangeKeepsTalk DEF TalkInv, SocketsInv
  <1>. QED  BY <1>3 DEF TalkInv

(* A reply is about the request it answers.                                *)
LEMMA ArrivalKeepsTalk ==
  ASSUME IInv, SocketsInv, TalkInv, NEW g \in Fds, NEW k \in DOMAIN flight[g],
         ReplyArrives(g, k)
  PROVE  TalkStep
  <1>1. flight \in [Fds -> Seq(Request)] /\ rx \in [Fds -> Seq(Reply)]
    BY QueriesOfInvariant DEF NetOK
  <1>2. PICK kind \in ReplyKinds :
          rx' = [rx EXCEPT ![g] = Append(@, [srv |-> flight[g][k].srv,
                     about |-> flight[g][k].about, kind |-> kind])]
    BY DEF ReplyArrives
  <1>3. flight' = [flight EXCEPT ![g] = Without(@, k)] /\ UNCHANGED qlist /\ sent' = Nothing
    BY DEF ReplyArrives, queryvars
  <1>4. k \in 1 .. Len(flight[g]) /\ flight[g] \in Seq(Request) /\ rx[g] \in Seq(Reply)
    BY <1>1
  <1>. DEFINE m == [srv |-> flight[g][k].srv, about |-> flight[g][k].about, kind |-> kind]
  <1>5. m.about = flight[g][k].about /\ rx'[g] = Append(rx[g], m)
    BY <1>1, <1>2
  <1>. HIDE DEF m
  <1>6. ASSUME NEW f \in Fds PROVE Talk(flight', rx', f) \subseteq Talk(flight, rx, f)
    <2>1. CASE f = g
      <3>1. flight'[g] = Without(flight[g], k)
        BY <1>1, <1>3
      <3>2. Hosts(rx'[g]) = Hosts(rx[g]) \cup {m.about}
        BY <1>4, <1>5, HostsAdded
      <3>3. m.about \in Hosts(flight[g]) /\ Hosts(flight'[g]) \subseteq Hosts(flight[g])
        BY <1>4, <1>5, <3>1, HostsTaken
      <3>. QED  BY <2>1, <3>2, <3>3 DEF Talk
    <2>2. CASE f # g
      BY <1>1, <1>2, <1>3, <2>2 DEF Talk
    <2>. QED  BY <2>1, <2>2
  <1>7. TalkInv'
    BY <1>3, <1>6, QueuesKeepTalk
  <1>. QED  BY <1>3, <1>7 DEF TalkStep, AboutItsId

(* The list head takes a reply from descriptor 0, and nobody gets it.      *)
LEMMA HeadKeepsTalk ==
  ASSUME IInv, SocketsInv, TalkInv, HandleListHead
  PROVE  TalkStep
  <1>1. rx \in [Fds -> Seq(Reply)]
    BY QueriesOfInvariant DEF NetOK
  <1>2. UNCHANGED <<qlist, flight>> /\ sent' = Nothing
    BY DEF HandleListHead, queryvars
  <1>3. CASE UNCHANGED rx
    BY <1>2, <1>3, OthersKeepTalk DEF TalkStep, AboutItsId
  <1>4. CASE rx' = [rx EXCEPT ![0] = Tail(@)] /\ rx[0] # <<>>
    <2>1. ASSUME NEW f \in Fds PROVE Talk(flight', rx', f) \subseteq Talk(flight, rx, f)
      <3>1. CASE f = 0
        <4>1. rx[0] \in Seq(Reply) /\ rx'[0] = Tail(rx[0])
          BY <1>1, <1>4, <3>1
        <4>2. Hosts(rx'[0]) \subseteq Hosts(rx[0])
          BY <1>4, <4>1, HostsRead
        <4>. QED  BY <1>2, <3>1, <4>2 DEF Talk
      <3>2. CASE f # 0
        BY <1>1, <1>2, <1>4, <3>2 DEF Talk
      <3>. QED  BY <3>1, <3>2
    <2>2. TalkInv'
      BY <1>2, <2>1, QueuesKeepTalk
    <2>. QED  BY <1>2, <2>2 DEF TalkStep, AboutItsId
  <1>. QED  BY <1>3, <1>4 DEF HandleListHead

(* A probe goes over its own socket, or over that of a query whose id it   *)
(* hits.                                                                   *)
LEMMA ProbeTalks ==
  ASSUME NetOK(flight, rx), NEW s, NEW g \in Fds, SendProbe(s, g), UNCHANGED rx
  PROVE  \A f \in Fds :
           \/ Talk(flight', rx', f) \subseteq Talk(flight, rx, f)
           \/ f = g /\ Talk(flight', rx', f) \subseteq Talk(flight, rx, f) \cup {Nothing}
  <1>. DEFINE m == [srv |-> s, about |-> Nothing]
  <1>1. flight \in [Fds -> Seq(Request)] /\ m.about = Nothing
    BY DEF NetOK
  <1>2. \/ UNCHANGED flight
        \/ flight' = [flight EXCEPT ![g] = Carry(g, m)]
    BY DEF SendProbe
  <1>. HIDE DEF m
  <1>3. Hosts(Carry(g, m)) \subseteq Hosts(flight[g]) \cup {Nothing}
    BY <1>1, CarryAdds
  <1>4. CASE UNCHANGED flight
    BY <1>4 DEF Talk
  <1>5. CASE flight' = [flight EXCEPT ![g] = Carry(g, m)]
    <2>1. flight'[g] = Carry(g, m) /\ \A f \in Fds : f # g => flight'[f] = flight[f]
      BY <1>1, <1>5
    <2>. QED  BY <1>3, <2>1 DEF Talk
  <1>. QED  BY <1>2, <1>4, <1>5

(* A probe that meets a client's query has its id.                         *)
LEMMA ProbingKeepsTalk ==
  ASSUME IInv, SocketsInv, TalkInv, retry_srvlist
  PROVE  TalkStep
  <1>. DEFINE s == Min(todo)
  <1>1. QueriesOK(qlist, fdmaster) /\ qlist \in Seq(Query) /\ NetOK(flight, rx)
    BY QueriesOfInvariant DEF QueriesOK
  <1>2. PICK id \in UnusedId \cup Collisions :
          \/ /\ Repeats(id) # {}
             /\ qlist' = [qlist EXCEPT ![Min(Repeats(id))].client_time = 0,
                                       ![Min(Repeats(id))].ttl = ReactivateInterval]
             /\ SendProbe(s, qlist[Min(Repeats(id))].sock_arr[1])
          \/ /\ CreateAllowed(TRUE)
             /\ qlist' = Append(qlist, NewQuery(TRUE, Nothing, id))
             /\ SendProbe(s, NewQuery(TRUE, Nothing, id).sock_arr[1])
          \/ UNCHANGED <<qlist, flight, send_time>>
    BY DEF retry_srvlist
  <1>3. sent' = Nothing /\ UNCHANGED rx
    BY DEF retry_srvlist
  <1>4. id \in Nat /\ Nothing \in About
    BY RelayAssumption DEF UnusedId, About
  <1>5. CASE /\ Repeats(id) # {}
             /\ qlist' = [qlist EXCEPT ![Min(Repeats(id))].client_time = 0,
                                       ![Min(Repeats(id))].ttl = ReactivateInterval]
             /\ SendProbe(s, qlist[Min(Repeats(id))].sock_arr[1])
    <2>. DEFINE j == Min(Repeats(id))
                q == [qlist[j] EXCEPT !.client_time = 0, !.ttl = ReactivateInterval]
                g == qlist[j].sock_arr[1]
    <2>1. j \in 1 .. Len(qlist) /\ qlist[j] \in Query /\ qlist[j].client_qid = id
      BY <1>1, <1>5, RepetitionFound
    <2>2. /\ q.client_qid = qlist[j].client_qid /\ q.is_dummy = qlist[j].is_dummy
          /\ q.client = qlist[j].client /\ q.cached_fail_msg = qlist[j].cached_fail_msg
          /\ q.sock_arr = qlist[j].sock_arr
      BY <2>1 DEF Query
    <2>3. qlist' = [qlist EXCEPT ![j] = q]
      BY <1>1, <1>5, <2>1
    <2>4. g \in Fds /\ g \in Socks(qlist[j])
      <3>1. /\ qlist[j].sock_arr \in Seq(Fds) /\ Len(qlist[j].sock_arr) \in {1, 3}
            /\ qlist[j].sock_arr[1] \in Fds
        BY <2>1, SocketsCounted
      <3>2. 1 \in DOMAIN qlist[j].sock_arr
        BY <3>1
      <3>. QED  BY <3>1, <3>2 DEF Socks
    <2>5. id \in Collisions
      <3>1. Repeats(id) # {} => id \in UsedIds
        BY <2>1, <1>1 DEF UsedIds
      <3>. QED  BY <1>5, <3>1 DEF UnusedId
    <2>6. Nothing \in Mates(qlist[j].client_qid)
      BY <1>4, <2>1, <2>5 DEF Mates
    <2>. HIDE DEF j, q
    <2>7. /\ Len(qlist') = Len(qlist) /\ qlist'[j] = q
          /\ \A k \in 1 .. Len(qlist) : k # j => qlist'[k] = qlist[k]
      BY <1>1, <2>1, <2>3
    <2>8. \A k \in 1 .. Len(qlist) : OwnerOK(qlist'[k])
      <3>1. \A k \in 1 .. Len(qlist) : OwnerOK(qlist[k])
        BY DEF TalkInv, TalkOK
      <3>2. OwnerOK(q)
        BY <2>1, <2>2, <3>1 DEF OwnerOK
      <3>. QED  BY <2>7, <3>1, <3>2
    <2>9. SendProbe(s, g)
      BY <1>5 DEF j
    <2>. HIDE DEF g, s
    <2>10. \A f \in Fds :
             \/ Talk(flight', rx', f) \subseteq Talk(flight, rx, f)
             \/ f = g /\ Talk(flight', rx', f) \subseteq Talk(flight, rx, f) \cup {Nothing}
      BY <1>1, <1>3, <2>4, <2>9, ProbeTalks
    <2>11. \A f \in Fds :
             \/ Talk(flight', rx', f) \subseteq Talk(flight, rx, f)
             \/ \E k \in 1 .. Len(qlist) :
                   /\ f \in Socks(qlist[k])
                   /\ \/ qlist[k].is_dummy
                      \/ Talk(flight', rx', f) \subseteq
                             Talk(flight, rx, f) \cup Mates(qlist[k].client_qid)
      BY <2>1, <2>4, <2>6, <2>10
    <2>12. \A k \in 1 .. Len(qlist) :
             /\ qlist'[k].sock_arr = qlist[k].sock_arr
             /\ qlist'[k].is_dummy = qlist[k].is_dummy
             /\ qlist'[k].client_qid = qlist[k].client_qid
      BY <2>2, <2>7
    <2>13. TalkOK(qlist', flight', rx')
      BY <1>1, <2>7, <2>8, <2>11, <2>12, ChangeKeepsTalk DEF TalkInv, SocketsInv
    <2>. QED  BY <1>3, <2>13 DEF TalkStep, TalkInv, AboutItsId
  <1>6. CASE /\ CreateAllowed(TRUE)
             /\ qlist' = Append(qlist, NewQuery(TRUE, Nothing, id))
             /\ SendProbe(s, NewQuery(TRUE, Nothing, id).sock_arr[1])
    <2>. DEFINE q == NewQuery(TRUE, Nothing, id)
                g == q.sock_arr[1]
                n == Len(qlist) + 1
                fds == fdmaster \cup Socks(q)
    <2>1. q \in Query /\ q.is_dummy /\ Socks(q) \subseteq Fds
      BY <1>4, <1>6, NewQueryTyped DEF CreateAllowed, NewQuery
    <2>2. TalkOK(qlist', flight, rx)
      BY <1>1, <1>4, <1>6, AppendKeepsTalk
    <2>3. SocketsOK(qlist', fds, upstream_sockets + SocketsOf(TRUE))
      BY <1>1, <1>4, <1>6, AppendKeepsSockets
    <2>4. /\ qlist' = Append(qlist, q) /\ SendProbe(s, g)
      BY <1>6
    <2>5. QueriesOK(qlist', fds)
      <3>1. QueriesOK(qlist', fdmaster')
        BY ProbingKeepsInvariant DEF IInv, TypeOK, ClientIdsUnique, QueriesOK
      <3>. HIDE DEF q
      <3>. QED  BY <1>1, <2>1, <3>1 DEF QueriesOK
    <2>6. g \in Fds /\ g \in Socks(q)
      <3>1. /\ q.sock_arr \in Seq(Fds) /\ Len(q.sock_arr) \in {1, 3} /\ q.sock_arr[1] \in Fds
        BY <2>1, SocketsCounted
      <3>. HIDE DEF q
      <3>2. 1 \in DOMAIN q.sock_arr
        BY <3>1
      <3>. QED  BY <3>1, <3>2 DEF Socks
    <2>. HIDE DEF q, g, fds, s
    <2>7. qlist'[n] = q /\ n \in 1 .. Len(qlist')
      BY <1>1, <2>4
    <2>8. \A f \in Fds :
             \/ Talk(flight', rx', f) \subseteq Talk(flight, rx, f)
             \/ f = g
      BY <1>1, <1>3, <2>4, <2>6, ProbeTalks
    <2>9. \A f \in Fds :
             \/ Talk(flight', rx', f) \subseteq Talk(flight, rx, f)
             \/ \E k \in 1 .. Len(qlist') : f \in Socks(qlist'[k]) /\ qlist'[k].is_dummy
      BY <2>1, <2>6, <2>7, <2>8
    <2>10. \A k \in 1 .. Len(qlist') : OwnerOK(qlist'[k])
      BY <2>2 DEF TalkOK
    <2>11. TalkOK(qlist', flight', rx')
      BY <2>2, <2>3, <2>5, <2>9, <2>10, ChangeKeepsTalk
    <2>. QED  BY <1>3, <2>11 DEF TalkStep, TalkInv, AboutItsId
  <1>7. CASE UNCHANGED <<qlist, flight, send_time>>
    BY <1>3, <1>7, OthersKeepTalk DEF TalkStep, AboutItsId
  <1>. QED  BY <1>2, <1>5, <1>6, <1>7

(* A request is about the question of its client, whichever query of its   *)
(* id carries it.                                                          *)
LEMMA RequestKeepsTalk ==
  ASSUME IInv, SocketsInv, TalkInv, udp_handle_request
  PROVE  TalkStep
  <1>1. /\ QueriesOK(qlist, fdmaster) /\ qlist \in Seq(Query) /\ upstream_sockets \in Int
        /\ NetOK(flight, rx)
    BY QueriesOfInvariant DEF QueriesOK, IInv, TypeOK
  <1>2. PICK x \in Questions :
          \/ ReplyServerFailure(x[1], x[2])
          \/ ForwardRepetition(x[1], x[2])
          \/ ForwardNew(x[1], x[2])
          \/ DropNew(x[2])
    BY DEF udp_handle_request
  <1>3. x[1] \in About /\ x[2] \in Nat /\ x[1] \in Mates(x[2]) /\ <<x[1], x[2]>> \in Questions
    <2>1. x \in Clients \X Nat
      BY RelayAssumption
    <2>2. x = <<x[1], x[2]>> /\ x[1] \in About /\ x[2] \in Nat
      BY <2>1 DEF About
    <2>. QED  BY <2>2 DEF Mates
  <1>4. CASE ReplyServerFailure(x[1], x[2])
    <2>1. sent' = LocalAnswer(x[1], x[2]) /\ UNCHANGED <<qlist, flight, rx>>
      BY <1>4 DEF ReplyServerFailure, queryvars, netvars
    <2>. QED  BY <2>1, LocalAnswerAbout, OthersKeepTalk DEF TalkStep
  <1>5. CASE ForwardRepetition(x[1], x[2])
    <2>. DEFINE j == Min(Repeats(x[2]))
                q == [qlist[j] EXCEPT !.client_time = 0]
                ql == [qlist EXCEPT ![j] = q]
    <2>1. /\ Repeats(x[2]) # {} /\ sent' = Nothing
          /\ send2current(ql, fdmaster, upstream_sockets, j, x[1])
      BY <1>5 DEF ForwardRepetition
    <2>2. j \in 1 .. Len(qlist) /\ qlist[j] \in Query /\ qlist[j].client_qid = x[2]
      BY <1>1, <2>1, RepetitionFound
    <2>3. /\ q \in Query /\ q.client_qid = qlist[j].client_qid
          /\ q.sock_arr = qlist[j].sock_arr /\ q.is_dummy = qlist[j].is_dummy
          /\ q.client = qlist[j].client /\ q.cached_fail_msg = qlist[j].cached_fail_msg
      BY <2>2 DEF Query
    <2>. HIDE DEF q, j
    <2>4. QueriesOK(ql, fdmaster)
      BY <1>1, <2>2, <2>3, ChangeKeepsQueries
    <2>5. /\ Len(ql) = Len(qlist) /\ j \in 1 .. Len(ql) /\ ql[j] = q
          /\ \A k \in 1 .. Len(qlist) : k # j => ql[k] = qlist[k]
      BY <1>1, <2>2, <2>3
    <2>. HIDE DEF ql
    <2>6. \A k \in 1 .. Len(qlist) :
             /\ ql[k].sock_arr = qlist[k].sock_arr
             /\ ql[k].is_dummy = qlist[k].is_dummy
             /\ ql[k].client_qid = qlist[k].client_qid
      BY <2>3, <2>5
    <2>7. SocketsOK(ql, fdmaster, upstream_sockets)
      BY <2>5, <2>6, ChangeKeepsSockets DEF SocketsInv
    <2>8. \A k \in 1 .. Len(qlist) : OwnerOK(ql[k])
      <3>1. \A k \in 1 .. Len(qlist) : OwnerOK(qlist[k])
        BY DEF TalkInv, TalkOK
      <3>2. OwnerOK(q)
        BY <2>2, <2>3, <3>1 DEF OwnerOK
      <3>. QED  BY <2>5, <3>1, <3>2
    <2>9. TalkOK(ql, flight, rx)
      BY <1>1, <2>5, <2>6, <2>8, ChangeKeepsTalk DEF TalkInv, SocketsInv
    <2>10. x[1] \in Mates(ql[j].client_qid)
      BY <1>3, <2>2, <2>3, <2>5
    <2>11. TalkInv'
      BY <1>1, <2>1, <2>4, <2>5, <2>7, <2>9, <2>10, SendingKeepsTalk
    <2>. QED  BY <2>1, <2>11 DEF TalkStep, AboutItsId
  <1>6. CASE ForwardNew(x[1], x[2])
    <2>. DEFINE q == NewQuery(FALSE, x[1], x[2])
                ql == Append(qlist, q)
                fds == fdmaster \cup Socks(q)
                socks == upstream_sockets + 3
    <2>1. /\ Repeats(x[2]) = {} /\ CreateAllowed(FALSE) /\ sent' = Nothing
          /\ send2current(ql, fds, socks, Len(qlist) + 1, x[1])
      BY <1>6 DEF ForwardNew
    <2>2. SocketsOK(ql, fds, socks)
      <3>1. SocketsOf(FALSE) = 3
        BY DEF SocketsOf
      <3>2. SocketsOK(ql, fds, upstream_sockets + SocketsOf(FALSE))
        BY <1>1, <1>3, <2>1, AppendKeepsSockets
      <3>. HIDE DEF ql, fds
      <3>. QED  BY <3>1, <3>2
    <2>3. TalkOK(ql, flight, rx)
      BY <1>1, <1>3, <2>1, AppendKeepsTalk
    <2>4. q \in Query /\ q.client_qid = x[2] /\ Socks(q) \subseteq Fds
      BY <1>3, <2>1, NewQueryTyped DEF CreateAllowed
    <2>. HIDE DEF q
    <2>5. QueriesOK(qlist, fds)
      BY <1>1, <2>4 DEF QueriesOK
    <2>6. \A k \in 1 .. Len(qlist) : qlist[k].client_qid # q.client_qid
      BY <2>1, <2>4 DEF Repeats
    <2>7. QueriesOK(ql, fds)
      BY <2>4, <2>5, <2>6, AppendKeepsQueries
    <2>8. Len(qlist) + 1 \in 1 .. Len(ql) /\ ql[Len(qlist) + 1] = q
      BY <1>1, <2>4
    <2>9. x[1] \in Mates(ql[Len(qlist) + 1].client_qid)
      BY <1>3, <2>4, <2>8
    <2>. HIDE DEF ql, fds, socks
    <2>10. TalkInv'
      BY <1>1, <2>1, <2>2, <2>3, <2>7, <2>8, <2>9, SendingKeepsTalk
    <2>. QED  BY <2>1, <2>10 DEF TalkStep, AboutItsId
  <1>7. CASE DropNew(x[2])
    <2>1. UNCHANGED <<qlist, flight, rx>> /\ sent' = Nothing
      BY <1>7 DEF DropNew, netvars
    <2>. QED  BY <2>1, OthersKeepTalk DEF TalkStep, AboutItsId
  <1>. QED  BY <1>2, <1>4, <1>5, <1>6, <1>7

(* query_timeout() sends the client of the query the failure that was kept *)
(* for it.                                                                 *)
LEMMA ExpiryKeepsTalk ==
  ASSUME IInv, SocketsInv, TalkInv, query_timeout
  PROVE  TalkStep
  <1>. DEFINE j == Min(Expired)
              q == qlist[j]
  <1>1. QueriesOK(qlist, fdmaster) /\ Len(qlist) \in Nat
    BY QueriesOfInvariant DEF QueriesOK
  <1>2. /\ Destroy(qlist, fdmaster, upstream_sockets, j) /\ Expired # {}
        /\ sent' = IF q.cached_fail_msg # <<>> /\ ~q.resp_sent
                   THEN [to |-> q.client, id |-> q.client_qid,
                         about |-> q.cached_fail_msg[1], sock |-> q.sock_arr[1]]
                   ELSE Nothing
    BY DEF query_timeout
  <1>3. j \in 1 .. Len(qlist)
    <2>1. at[1] \in Nat
      BY DEF IInv, TypeOK
    <2>2. Expired \subseteq 1 .. Len(qlist) /\ Expired \subseteq Nat
      BY <1>1, <2>1 DEF Expired
    <2>. QED  BY <1>2, <2>2, MinOfNats
  <1>. HIDE DEF j
  <1>4. TalkInv'
    BY <1>1, <1>2, <1>3, DestroyKeepsTalk DEF SocketsInv, TalkInv
  <1>5. OwnerOK(q)
    BY <1>3 DEF TalkInv, TalkOK
  <1>6. AboutItsId'
    <2>1. CASE sent' = Nothing
      BY <2>1 DEF AboutItsId
    <2>2. CASE sent' # Nothing
      <3>1. /\ q.cached_fail_msg # <<>>
            /\ sent' = [to |-> q.client, id |-> q.client_qid,
                        about |-> q.cached_fail_msg[1], sock |-> q.sock_arr[1]]
        BY <1>2, <2>2
      <3>2. /\ sent'.to = q.client /\ sent'.id = q.client_qid
            /\ sent'.about = q.cached_fail_msg[1]
        BY <3>1
      <3>3. /\ <<q.client, q.client_qid>> \in Questions
            /\ q.cached_fail_msg[1] \in Mates(q.client_qid)
        BY <1>5, <3>1 DEF OwnerOK
      <3>. QED  BY <3>2, <3>3 DEF AboutItsId
    <2>. QED  BY <2>1, <2>2
  <1>. QED  BY <1>4, <1>6 DEF TalkStep

(* A reply is about a question of the id of the query whose socket it came *)
(* to, when it is sent on as when it is kept.                              *)
LEMMA ReplyKeepsTalk ==
  ASSUME IInv, SocketsInv, TalkInv, udp_handle_reply
  PROVE  TalkStep
  <1>. DEFINE x == CHOOSE x \in Readable : \A y \in Readable : Earlier(x, y)
              j == x[1] + 1
              q == qlist[j]
              f == q.sock_arr[x[2]]
              got == rx[f] # <<>>
              m == Head(rx[f])
              good == got /\ m.kind # "bad"
              last == q.serv_sent_cnt = 1
              open == good /\ Unanswered(q)
              answer == open /\ (m.kind = "ok" \/ last)
              keep == open /\ ~answer /\ q.cached_fail_msg = <<>>
  <1>1. /\ sent' = IF answer
                   THEN [to |-> q.client, id |-> q.client_qid, about |-> m.about,
                         sock |-> q.sock_arr[1]]
                   ELSE Nothing
        /\ IF last THEN Destroy(qlist, fdmaster, upstream_sockets, j)
           ELSE /\ qlist' = [qlist EXCEPT ![j] =
                     [q EXCEPT !.serv_sent_cnt = @ - 1,
                               !.resp_sent = @ \/ answer,
                               !.cached_fail_msg = IF keep THEN <<m.about>> ELSE @]]
                /\ rx' = [rx EXCEPT ![f] = IF got THEN Tail(@) ELSE @]
                /\ UNCHANGED <<fdmaster, upstream_sockets, flight>>
    BY DEF udp_handle_reply
  <1>2. /\ QueriesOK(qlist, fdmaster) /\ qlist \in Seq(Query) /\ rx \in [Fds -> Seq(Reply)]
    BY QueriesOfInvariant DEF QueriesOK, NetOK
  <1>3. x \in Readable
    <2>1. Readable \subseteq Nat \X Nat
      BY DEF Readable
    <2>. QED  BY <2>1, FirstReadable DEF udp_handle_reply
  <1>. HIDE DEF x
  <1>4. x[1] \in 0 .. Len(qlist) - 1 /\ x[2] \in DOMAIN q.sock_arr
    BY <1>3 DEF Readable
  <1>5. j \in 1 .. Len(qlist) /\ q \in Query
    BY <1>2, <1>4
  <1>6. f \in Fds /\ f \in Socks(q)
    BY <1>4, <1>5, SocketsCounted DEF Socks
  <1>7. rx[f] \in Seq(Reply)
    BY <1>2, <1>6
  <1>8. /\ answer => ~q.is_dummy /\ got
        /\ keep => ~q.is_dummy /\ got
    BY DEF Unanswered
  <1>9. OwnerOK(q)
    BY <1>5 DEF TalkInv, TalkOK
  <1>10. got /\ ~q.is_dummy => m.about \in Mates(q.client_qid)
    <2>. HIDE DEF j, q, f
    <2>1. got => m.about \in Talk(flight, rx, f)
      BY <1>7, HostsRead DEF Talk
    <2>2. ~q.is_dummy => Talk(flight, rx, f) \subseteq Mates(q.client_qid)
      BY <1>5, <1>6 DEF q, TalkInv, TalkOK
    <2>. QED  BY <2>1, <2>2
  <1>11. got => Hosts(Tail(rx[f])) \subseteq Hosts(rx[f])
    BY <1>7, HostsRead
  <1>. HIDE DEF j, f, m, got, answer, keep, last
  <1>12. AboutItsId'
    <2>1. CASE ~answer
      BY <1>1, <2>1 DEF AboutItsId
    <2>2. CASE answer
      <3>. DEFINE a == m.about
      <3>1. sent' = [to |-> q.client, id |-> q.client_qid, about |-> a,
                     sock |-> q.sock_arr[1]]
        BY <1>1, <2>2
      <3>. HIDE DEF a
      <3>2. sent'.to = q.client /\ sent'.id = q.client_qid /\ sent'.about = a
        BY <3>1
      <3>3. <<q.client, q.client_qid>> \in Questions /\ a \in Mates(q.client_qid)
        BY <1>8, <1>9, <1>10, <2>2 DEF OwnerOK, a
      <3>. QED  BY <3>2, <3>3 DEF AboutItsId
    <2>. QED  BY <2>1, <2>2
  <1>13. CASE last
    <2>1. TalkInv'
      BY <1>1, <1>2, <1>5, <1>13, DestroyKeepsTalk DEF SocketsInv, TalkInv
    <2>. QED  BY <1>12, <2>1 DEF TalkStep
  <1>14. CASE ~last
    <2>. DEFINE n == q.serv_sent_cnt - 1
                told == q.resp_sent \/ answer
                kept == IF keep THEN <<m.about>> ELSE q.cached_fail_msg
                q2 == [q EXCEPT !.serv_sent_cnt = n, !.resp_sent = told,
                                !.cached_fail_msg = kept]
    <2>1. /\ qlist' = [qlist EXCEPT ![j] = q2]
          /\ rx' = [rx EXCEPT ![f] = IF got THEN Tail(rx[f]) ELSE rx[f]]
          /\ UNCHANGED flight
      BY <1>1, <1>14
    <2>2. kept # <<>> /\ ~q.is_dummy => kept[1] \in Mates(q.client_qid)
      BY <1>8, <1>9, <1>10 DEF OwnerOK
    <2>3. q.is_dummy => kept = <<>>
      BY <1>8, <1>9 DEF OwnerOK
    <2>. HIDE DEF n, told, kept
    <2>4. /\ q2.client_qid = q.client_qid /\ q2.is_dummy = q.is_dummy /\ q2.client = q.client
          /\ q2.sock_arr = q.sock_arr /\ q2.cached_fail_msg = kept
      BY <1>5 DEF Query
    <2>. HIDE DEF q2
    <2>5. OwnerOK(q2)
      BY <1>9, <2>2, <2>3, <2>4 DEF OwnerOK
    <2>6. /\ Len(qlist') = Len(qlist) /\ qlist'[j] = q2
          /\ \A k \in 1 .. Len(qlist) : k # j => qlist'[k] = qlist[k]
      BY <1>2, <1>5, <2>1
    <2>7. \A k \in 1 .. Len(qlist) :
             /\ qlist'[k].sock_arr = qlist[k].sock_arr
             /\ qlist'[k].is_dummy = qlist[k].is_dummy
             /\ qlist'[k].client_qid = qlist[k].client_qid
             /\ OwnerOK(qlist'[k])
      <3>1. \A k \in 1 .. Len(qlist) : OwnerOK(qlist[k])
        BY DEF TalkInv, TalkOK
      <3>. QED  BY <2>4, <2>5, <2>6, <3>1
    <2>8. ASSUME NEW g \in Fds PROVE Talk(flight', rx', g) \subseteq Talk(flight, rx, g)
      <3>1. Hosts(rx'[g]) \subseteq Hosts(rx[g])
        <4>1. CASE g = f
          BY <1>2, <1>6, <1>11, <2>1, <4>1
        <4>2. CASE g # f
          BY <1>2, <2>1, <4>2
        <4>. QED  BY <4>1, <4>2
      <3>. QED  BY <2>1, <3>1 DEF Talk
    <2>9. TalkOK(qlist', flight', rx')
      BY <1>2, <2>6, <2>7, <2>8, ChangeKeepsTalk DEF TalkInv, SocketsInv
    <2>. QED  BY <1>12, <2>9 DEF TalkStep, TalkInv
  <1>. QED  BY <1>13, <1>14

(* Initially nothing is on its way.                                        *)
LEMMA InitTalks == Init => TalkInv /\ AboutItsId
  <1>. SUFFICES ASSUME Init PROVE TalkInv /\ AboutItsId
    OBVIOUS
  <1>1. /\ qlist = <<>> /\ sent = Nothing
        /\ flight = [f \in Fds |-> <<>>] /\ rx = [f \in Fds |-> <<>>]
    BY DEF Init
  <1>2. \A f \in Fds : Talk(flight, rx, f) = {}
    BY <1>1, HostsOfNone DEF Talk
  <1>. QED  BY <1>1, <1>2 DEF TalkInv, TalkOK, AboutItsId

(* Every step keeps the queues apart, and sends a client what is of its    *)
(* id.                                                                     *)
LEMMA StepKeepsTalk ==
  IInv /\ SocketsInv /\ TalkInv /\ AboutItsId /\ [Next]_vars => TalkInv' /\ AboutItsId'
  <1>. SUFFICES ASSUME IInv, SocketsInv, TalkInv, AboutItsId, [Next]_vars PROVE TalkStep
    BY DEF TalkStep
  <1>1. CASE Select \/ Interrupt
    BY <1>1, OthersKeepTalk DEF Select, Interrupt, queryvars, netvars, TalkStep, AboutItsId
  <1>2. CASE Round
    <2>1. CASE reactivate_servers \/ deactivate_servers
      BY <2>1, OthersKeepTalk
      DEF reactivate_servers, deactivate_servers, queryvars, netvars, TalkStep, AboutItsId
    <2>2. CASE retry_srvlist
      BY <2>2, ProbingKeepsTalk
    <2>3. CASE udp_handle_reply
      BY <2>3, ReplyKeepsTalk
    <2>4. CASE HandleListHead
      BY <2>4, HeadKeepsTalk
    <2>5. CASE RepliesDone \/ RoundDone \/ IgnoreRequest
      BY <2>5, OthersKeepTalk
      DEF RepliesDone, RoundDone, IgnoreRequest, queryvars, netvars, TalkStep, AboutItsId
    <2>6. CASE AnswerLocally
      <3>1. PICK x \in Questions : sent' = LocalAnswer(x[1], x[2])
        BY <2>6 DEF AnswerLocally
      <3>2. UNCHANGED <<qlist, flight, rx>>
        BY <2>6 DEF AnswerLocally, queryvars, netvars
      <3>. QED  BY <3>1, <3>2, LocalAnswerAbout, OthersKeepTalk DEF TalkStep
    <2>7. CASE udp_handle_request
      BY <2>7, RequestKeepsTalk
    <2>8. CASE query_timeout
      BY <2>8, ExpiryKeepsTalk
    <2>. QED  BY <1>2, <2>1, <2>2, <2>3, <2>4, <2>5, <2>6, <2>7, <2>8 DEF Round
  <1>3. CASE \E f \in Fds : \E k \in DOMAIN flight[f] : ReplyArrives(f, k)
    BY <1>3, ArrivalKeepsTalk
  <1>4. CASE Tick
    BY <1>4, TickKeepsTalk
  <1>5. CASE UNCHANGED vars
    BY <1>5, OthersKeepTalk DEF vars, queryvars, netvars, TalkStep, AboutItsId
  <1>. QED  BY <1>1, <1>2, <1>3, <1>4, <1>5 DEF Next

(* A client is only sent datagrams with an id it uses, about the question  *)
(* of a client with that id or a probe that hit it: however replies are    *)
(* delayed and reordered, and descriptors used again for other queries, no *)
(* reply reaches a query of another id.                                    *)
THEOREM AnswersAreAboutTheirId == Spec => []AboutItsId
  <1>1. Init => IInv /\ SocketsInv /\ TalkInv /\ AboutItsId
    BY InitHasInvariant, InitAccounts, InitTalks
  <1>2. IInv /\ SocketsInv /\ TalkInv /\ AboutItsId /\ [Next]_vars =>
            IInv' /\ SocketsInv' /\ TalkInv' /\ AboutItsId'
    BY StepKeepsInvariant, StepKeepsSockets, StepKeepsTalk
  <1>. QED  BY <1>1, <1>2, PTL DEF Spec

(* No two clients use the same id, and no probe hits on one of theirs.     *)
IdsApart ==
    /\ \A x, y \in Questions : x[2] = y[2] => x[1] = y[1]
    /\ \A x \in Questions : x[2] \notin Collisions

(* Then what a client is sent answers a question it asked.  Otherwise it   *)
(* need not: query_add() tells queries apart by their ids alone.           *)
THEOREM OwnQuestionsAnswered ==
  ASSUME IdsApart
  PROVE  Spec => []AnswersOwnQuestion
  <1>1. AboutItsId => AnswersOwnQuestion
    <2>. SUFFICES ASSUME AboutItsId, sent # Nothing PROVE sent.about = sent.to
      BY DEF AnswersOwnQuestion
    <2>1. <<sent.to, sent.id>> \in Questions /\ sent.about \in Mates(sent.id)
      BY DEF AboutItsId
    <2>2. sent.id \notin Collisions
      BY <2>1 DEF IdsApart
    <2>3. <<sent.about, sent.id>> \in Questions
      BY <2>1, <2>2 DEF Mates
    <2>. QED  BY <2>1, <2>3 DEF IdsApart
  <1>. QED  BY <1>1, AnswersAreAboutTheirId, PTL
=============================================================================
