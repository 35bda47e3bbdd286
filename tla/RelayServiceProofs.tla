-------------------------- MODULE RelayServiceProofs -------------------------
(***************************************************************************)
(* Proof that Relay implements RelayService, for every network, limit,     *)
(* timeout and set of clients.                                             *)
(***************************************************************************)
EXTENDS RelayProofs

-----------------------------------------------------------------------------
(* The table of a query list                                               *)

Reals(ql) == {j \in DOMAIN ql : ~ql[j].is_dummy}
IdsOf(ql) == {ql[j].client_qid : j \in Reals(ql)}
Table(ql) == [id \in IdsOf(ql) |-> Entry(ql[CHOOSE j \in DOMAIN ql : ql[j].client_qid = id])]

Put(t, id, e) == [x \in DOMAIN t \cup {id} |-> IF x = id THEN e ELSE t[x]]
Less(t, id) == [x \in DOMAIN t \ {id} |-> t[x]]

DnsIds == {x[2] : x \in Questions}

(* What the table needs of the list: a probe keeps no failure for a        *)
(* client, and the other queries are clients' questions.                   *)
TableOK(ql) ==
    \A j \in 1 .. Len(ql) :
        IF ql[j].is_dummy THEN ql[j].cached_fail_msg = <<>>
        ELSE ql[j].client \in Clients /\ ql[j].client_qid \in DnsIds

TableInv == TableOK(qlist)

-----------------------------------------------------------------------------
(* Steps of the service                                                    *)

(* Nothing is sent and the table stays.                                    *)
LEMMA QuietStep ==
  ASSUME sent' = Nothing, Table(qlist') = Table(qlist)
  PROVE  Service!Next
  <1>1. Service!Quiet
    BY DEF Service!Quiet, Table, IdsOf, Reals, RealIds, QueryOf
  <1>. QED  BY <1>1 DEF Service!Next

(* A question is answered without being forwarded.                         *)
LEMMA LocalStep ==
  ASSUME NEW x \in Questions, sent' = LocalAnswer(x[1], x[2]), Table(qlist') = Table(qlist)
  PROVE  Service!Next
  <1>1. x[1] \in Clients /\ x[2] \in Nat /\ x[2] \in DnsIds
    BY RelayAssumption DEF DnsIds
  <1>2. sent' # Nothing
    BY <1>1, NothingAssumption DEF LocalAnswer, Answer, About
  <1>3. sent'.to = x[1] /\ sent'.id = x[2]
    BY DEF LocalAnswer
  <1>4. Service!ReplyLocally(x[2], x[1])
    BY <1>2, <1>3 DEF Service!ReplyLocally, Table, IdsOf, Reals, RealIds, QueryOf
  <1>. QED  BY <1>1, <1>4 DEF Service!Next, DnsIds

(* A new question is forwarded.                                            *)
LEMMA AcceptStep ==
  ASSUME NEW id \in DnsIds, NEW client \in Clients, sent' = Nothing,
         id \notin DOMAIN Table(qlist),
         Table(qlist') = Put(Table(qlist), id, [client |-> client, state |-> "waiting"])
  PROVE  Service!Next
  <1>1. Service!Accept(id, client)
    BY DEF Service!Accept, Service!Set, Put, Table, IdsOf, Reals, RealIds, QueryOf
  <1>. QED  BY <1>1 DEF Service!Next, DnsIds

(* The first failure for a question is kept.                               *)
LEMMA RefuseStep ==
  ASSUME NEW id \in DnsIds, sent' = Nothing,
         id \in DOMAIN Table(qlist), Table(qlist)[id].state = "waiting",
         Table(qlist') = Put(Table(qlist), id,
                             [client |-> Table(qlist)[id].client, state |-> "refused"])
  PROVE  Service!Next
  <1>1. Service!Refuse(id)
    BY DEF Service!Refuse, Service!Set, Put, Table, IdsOf, Reals, RealIds, QueryOf
  <1>. QED  BY <1>1 DEF Service!Next, DnsIds

(* A client is sent an answer, its query stays for the other servers or    *)
(* not.                                                                    *)
LEMMA ReplyStep ==
  ASSUME NEW id \in DnsIds, sent' \in Answer,
         id \in DOMAIN Table(qlist), Table(qlist)[id].state # "answered",
         sent'.to = Table(qlist)[id].client, sent'.id = id,
         \/ Table(qlist') = Put(Table(qlist), id,
                                [client |-> Table(qlist)[id].client, state |-> "answered"])
         \/ Table(qlist') = Less(Table(qlist), id)
  PROVE  Service!Next
  <1>1. sent' # Nothing
    BY NothingAssumption
  <1>2. Service!Reply(id)
    BY <1>1 DEF Service!Reply, Service!Set, Service!Drop, Service!Tell, Put, Less, Table,
                IdsOf, Reals, RealIds, QueryOf
  <1>. QED  BY <1>2 DEF Service!Next, DnsIds

(* A query ends and its client is sent nothing.                            *)
LEMMA ForgetStep ==
  ASSUME NEW id \in DnsIds, sent' = Nothing, id \in DOMAIN Table(qlist),
         Table(qlist') = Less(Table(qlist), id)
  PROVE  Service!Next
  <1>1. Service!Forget(id)
    BY DEF Service!Forget, Service!Drop, Less, Table, IdsOf, Reals, RealIds, QueryOf
  <1>. QED  BY <1>1 DEF Service!Next, DnsIds

-----------------------------------------------------------------------------
(* The table when the list changes                                         *)

(* A query that is not a probe's is found under its id.                    *)
LEMMA TableAt ==
  ASSUME NEW ql, NEW fds, QueriesOK(ql, fds)
  PROVE  /\ DOMAIN Table(ql) = IdsOf(ql)
         /\ \A j \in 1 .. Len(ql) : ~ql[j].is_dummy =>
               /\ ql[j].client_qid \in IdsOf(ql)
               /\ Table(ql)[ql[j].client_qid] = Entry(ql[j])
         /\ \A id \in IdsOf(ql) :
               \E j \in 1 .. Len(ql) : ~ql[j].is_dummy /\ ql[j].client_qid = id
  <1>1. DOMAIN ql = 1 .. Len(ql)
    BY DEF QueriesOK
  <1>2. DOMAIN Table(ql) = IdsOf(ql)
    BY DEF Table
  <1>3. \A id \in IdsOf(ql) :
           \E j \in 1 .. Len(ql) : ~ql[j].is_dummy /\ ql[j].client_qid = id
    BY <1>1 DEF IdsOf, Reals
  <1>4. ASSUME NEW j \in 1 .. Len(ql), ~ql[j].is_dummy
        PROVE  /\ ql[j].client_qid \in IdsOf(ql)
               /\ Table(ql)[ql[j].client_qid] = Entry(ql[j])
    <2>. DEFINE id == ql[j].client_qid
                k == CHOOSE k \in DOMAIN ql : ql[k].client_qid = id
    <2>1. id \in IdsOf(ql)
      BY <1>1, <1>4 DEF IdsOf, Reals
    <2>2. k \in 1 .. Len(ql) /\ ql[k].client_qid = id
      BY <1>1
    <2>3. k = j
      <3>. HIDE DEF k
      <3>. QED  BY <2>2 DEF QueriesOK
    <2>. QED  BY <2>1, <2>3 DEF Table
  <1>. QED  BY <1>2, <1>3, <1>4

(* Two lists with the same entries have the same table.                    *)
LEMMA SameTable ==
  ASSUME NEW ql, NEW fds, QueriesOK(ql, fds), NEW ql2, NEW fds2, QueriesOK(ql2, fds2),
         Len(ql2) = Len(ql),
         \A j \in 1 .. Len(ql) :
             /\ ql2[j].client_qid = ql[j].client_qid
             /\ ql2[j].is_dummy = ql[j].is_dummy
             /\ ~ql[j].is_dummy => Entry(ql2[j]) = Entry(ql[j])
  PROVE  Table(ql2) = Table(ql)
  <1>1. IdsOf(ql2) = IdsOf(ql)
    <2>1. DOMAIN ql = 1 .. Len(ql) /\ DOMAIN ql2 = 1 .. Len(ql)
      BY DEF QueriesOK
    <2>. QED  BY <2>1 DEF IdsOf, Reals
  <1>2. ASSUME NEW id \in IdsOf(ql) PROVE Table(ql2)[id] = Table(ql)[id]
    <2>1. PICK j \in 1 .. Len(ql) : ~ql[j].is_dummy /\ ql[j].client_qid = id
      BY TableAt
    <2>2. Table(ql)[id] = Entry(ql[j])
      BY <2>1, TableAt
    <2>3. Table(ql2)[id] = Entry(ql2[j])
      BY <2>1, TableAt
    <2>. QED  BY <2>1, <2>2, <2>3
  <1>. QED  BY <1>1, <1>2 DEF Table

(* A change of one query changes its entry.                                *)
LEMMA PutTable ==
  ASSUME NEW ql, NEW fds, QueriesOK(ql, fds), NEW j \in 1 .. Len(ql), ~ql[j].is_dummy,
         NEW q, ~q.is_dummy, q.client_qid = ql[j].client_qid,
         NEW fds2, QueriesOK([ql EXCEPT ![j] = q], fds2)
  PROVE  Table([ql EXCEPT ![j] = q]) = Put(Table(ql), ql[j].client_qid, Entry(q))
  <1>. DEFINE ql2 == [ql EXCEPT ![j] = q]
              i == ql[j].client_qid
  <1>1. /\ Len(ql2) = Len(ql) /\ ql2[j] = q
        /\ \A k \in 1 .. Len(ql) : k # j => ql2[k] = ql[k]
    BY DEF QueriesOK
  <1>2. DOMAIN ql = 1 .. Len(ql) /\ DOMAIN ql2 = 1 .. Len(ql)
    BY DEF QueriesOK
  <1>3. QueriesOK(ql2, fds2)
    OBVIOUS
  <1>. HIDE DEF ql2
  <1>4. IdsOf(ql2) = IdsOf(ql) /\ i \in IdsOf(ql)
    BY <1>1, <1>2 DEF IdsOf, Reals
  <1>5. ASSUME NEW id \in IdsOf(ql)
        PROVE  Table(ql2)[id] = IF id = i THEN Entry(q) ELSE Table(ql)[id]
    <2>1. PICK k \in 1 .. Len(ql) : ~ql[k].is_dummy /\ ql[k].client_qid = id
      BY TableAt
    <2>2. Table(ql)[id] = Entry(ql[k])
      BY <2>1, TableAt
    <2>3. CASE k = j
      <3>1. Table(ql2)[id] = Entry(ql2[j])
        BY <1>1, <1>3, <2>1, <2>3, TableAt
      <3>. QED  BY <1>1, <2>1, <2>3, <3>1
    <2>4. CASE k # j
      <3>1. ql2[k] = ql[k]
        BY <1>1, <2>4
      <3>2. Table(ql2)[id] = Entry(ql2[k])
        BY <1>1, <1>3, <2>1, <3>1, TableAt
      <3>3. id # i
        BY <2>1, <2>4 DEF QueriesOK
      <3>. QED  BY <2>2, <3>1, <3>2, <3>3
    <2>. QED  BY <2>3, <2>4
  <1>6. Table(ql2) = [x \in IdsOf(ql) |-> Table(ql2)[x]]
    BY <1>4 DEF Table
  <1>7. Put(Table(ql), i, Entry(q)) =
            [x \in IdsOf(ql) |-> IF x = i THEN Entry(q) ELSE Table(ql)[x]]
    <2>1. DOMAIN Table(ql) \cup {i} = IdsOf(ql)
      BY <1>4, TableAt
    <2>. QED  BY <2>1 DEF Put
  <1>8. Table(ql2) = Put(Table(ql), i, Entry(q))
    BY <1>5, <1>6, <1>7
  <1>. QED  BY <1>8 DEF ql2

(* A new query adds an entry, a probe's none.                              *)
LEMMA AppendTable ==
  ASSUME NEW ql, NEW fds, QueriesOK(ql, fds), NEW q, q \in Query,
         NEW fds2, QueriesOK(Append(ql, q), fds2)
  PROVE  /\ q.client_qid \notin IdsOf(ql)
         /\ Table(Append(ql, q)) =
              IF q.is_dummy THEN Table(ql) ELSE Put(Table(ql), q.client_qid, Entry(q))
  <1>. DEFINE ql2 == Append(ql, q)
              i == q.client_qid
              n == Len(ql) + 1
  <1>1. /\ Len(ql2) = n /\ ql2[n] = q /\ Len(ql) \in Nat
        /\ \A k \in 1 .. Len(ql) : ql2[k] = ql[k]
    BY DEF QueriesOK
  <1>2. DOMAIN ql = 1 .. Len(ql) /\ DOMAIN ql2 = 1 .. Len(ql) \cup {n}
    BY DEF QueriesOK
  <1>3. QueriesOK(ql2, fds2) /\ n \in 1 .. Len(ql2) /\ 1 .. Len(ql) \subseteq 1 .. Len(ql2)
    BY <1>1
  <1>4. n \notin 1 .. Len(ql)
    BY <1>1
  <1>. HIDE DEF ql2, n
  <1>5. i \notin IdsOf(ql)
    <2>1. \A k \in 1 .. Len(ql) : ql[k].client_qid # i
      BY <1>1, <1>3, <1>4 DEF QueriesOK
    <2>. QED  BY <1>2, <2>1 DEF IdsOf, Reals
  <1>6. IdsOf(ql2) = IF q.is_dummy THEN IdsOf(ql) ELSE IdsOf(ql) \cup {i}
    BY <1>1, <1>2, <1>4 DEF IdsOf, Reals
  <1>7. ASSUME NEW id \in IdsOf(ql) PROVE Table(ql2)[id] = Table(ql)[id] /\ id # i
    <2>1. PICK k \in 1 .. Len(ql) : ~ql[k].is_dummy /\ ql[k].client_qid = id
      BY TableAt
    <2>2. Table(ql)[id] = Entry(ql[k])
      BY <2>1, TableAt
    <2>3. ql2[k] = ql[k] /\ k \in 1 .. Len(ql2)
      BY <1>1, <1>3
    <2>4. Table(ql2)[id] = Entry(ql2[k])
      BY <1>3, <2>1, <2>3, TableAt
    <2>. QED  BY <1>5, <2>2, <2>3, <2>4
  <1>8. ~q.is_dummy => Table(ql2)[i] = Entry(q)
    BY <1>1, <1>3, TableAt
  <1>9. Table(ql2) = [x \in IdsOf(ql2) |-> Table(ql2)[x]]
    BY DEF Table
  <1>10. Table(ql) = [x \in IdsOf(ql) |-> Table(ql)[x]]
    BY DEF Table
  <1>11. Put(Table(ql), i, Entry(q)) =
            [x \in IdsOf(ql) \cup {i} |-> IF x = i THEN Entry(q) ELSE Table(ql)[x]]
    BY TableAt DEF Put
  <1>12. CASE q.is_dummy
    <2>1. Table(ql2) = Table(ql)
      BY <1>6, <1>7, <1>9, <1>10, <1>12
    <2>. QED  BY <1>5, <1>12, <2>1 DEF ql2
  <1>13. CASE ~q.is_dummy
    <2>1. Table(ql2) = Put(Table(ql), i, Entry(q))
      BY <1>6, <1>7, <1>8, <1>9, <1>11, <1>13
    <2>. QED  BY <1>5, <1>13, <2>1 DEF ql2
  <1>. QED  BY <1>12, <1>13

(* Deleting a query deletes its entry, a probe's none.                     *)
LEMMA WithoutTable ==
  ASSUME NEW ql, NEW fds, QueriesOK(ql, fds), NEW j \in 1 .. Len(ql),
         NEW fds2, QueriesOK(Without(ql, j), fds2)
  PROVE  Table(Without(ql, j)) =
             IF ql[j].is_dummy THEN Table(ql) ELSE Less(Table(ql), ql[j].client_qid)
  <1>. DEFINE left == Without(ql, j)
              i == ql[j].client_qid
              m(k) == IF k < j THEN k ELSE k + 1
  <1>1. ql \in Seq(Query) /\ Len(ql) \in Nat /\ j \in Nat /\ QueriesOK(left, fds2)
    BY DEF QueriesOK
  <1>2. /\ Len(left) = Len(ql) - 1
        /\ \A k \in 1 .. Len(left) :
              m(k) \in 1 .. Len(ql) /\ m(k) # j /\ left[k] = ql[m(k)]
    BY <1>1, WithoutElement
  <1>3. \A l \in 1 .. Len(ql) : l # j => \E k \in 1 .. Len(left) : left[k] = ql[l]
    <2>. SUFFICES ASSUME NEW l \in 1 .. Len(ql), l # j
                  PROVE  \E k \in 1 .. Len(left) : left[k] = ql[l]
      OBVIOUS
    <2>. DEFINE k == IF l < j THEN l ELSE l - 1
    <2>1. k \in 1 .. Len(ql) - 1 /\ m(k) = l
      BY <1>1
    <2>. HIDE DEF k
    <2>. QED  BY <1>2, <2>1
  <1>. HIDE DEF left, m
  <1>4. IdsOf(left) = IF ql[j].is_dummy THEN IdsOf(ql) ELSE IdsOf(ql) \ {i}
    <2>1. DOMAIN ql = 1 .. Len(ql) /\ DOMAIN left = 1 .. Len(left)
      BY <1>1 DEF QueriesOK
    <2>2. ASSUME NEW id
          PROVE  id \in IdsOf(left) <=>
                   \E l \in 1 .. Len(ql) : l # j /\ ~ql[l].is_dummy /\ ql[l].client_qid = id
      <3>1. id \in IdsOf(left) <=>
              \E k \in 1 .. Len(left) : ~left[k].is_dummy /\ left[k].client_qid = id
        BY <2>1 DEF IdsOf, Reals
      <3>2. ASSUME NEW k \in 1 .. Len(left), ~left[k].is_dummy, left[k].client_qid = id
            PROVE  \E l \in 1 .. Len(ql) : l # j /\ ~ql[l].is_dummy /\ ql[l].client_qid = id
        BY <1>2, <3>2
      <3>3. ASSUME NEW l \in 1 .. Len(ql), l # j, ~ql[l].is_dummy, ql[l].client_qid = id
            PROVE  \E k \in 1 .. Len(left) : ~left[k].is_dummy /\ left[k].client_qid = id
        BY <1>3, <3>3
      <3>. QED  BY <3>1, <3>2, <3>3
    <2>3. ASSUME NEW id
          PROVE  id \in IdsOf(ql) <=>
                   \E l \in 1 .. Len(ql) : ~ql[l].is_dummy /\ ql[l].client_qid = id
      BY <2>1 DEF IdsOf, Reals
    <2>4. \A l \in 1 .. Len(ql) : l # j => ql[l].client_qid # i
      BY DEF QueriesOK
    <2>. QED  BY <2>2, <2>3, <2>4, ZenonT(60)
  <1>5. ASSUME NEW id \in IdsOf(left) PROVE Table(left)[id] = Table(ql)[id]
    <2>1. PICK k \in 1 .. Len(left) : ~left[k].is_dummy /\ left[k].client_qid = id
      BY <1>1, TableAt
    <2>2. Table(left)[id] = Entry(left[k])
      BY <1>1, <2>1, TableAt
    <2>3. Table(ql)[id] = Entry(ql[m(k)])
      BY <1>2, <2>1, TableAt
    <2>. QED  BY <1>2, <2>2, <2>3
  <1>6. Table(left) = [x \in IdsOf(left) |-> Table(left)[x]]
    BY DEF Table
  <1>7. Table(ql) = [x \in IdsOf(ql) |-> Table(ql)[x]]
    BY DEF Table
  <1>8. Less(Table(ql), i) = [x \in IdsOf(ql) \ {i} |-> Table(ql)[x]]
    BY TableAt DEF Less
  <1>9. Table(left) = IF ql[j].is_dummy THEN Table(ql) ELSE Less(Table(ql), i)
    BY <1>4, <1>5, <1>6, <1>7, <1>8
  <1>. QED  BY <1>9 DEF left

-----------------------------------------------------------------------------
(* The steps                                                               *)

(* What every step does to the service, and to what the table needs.       *)
ServiceStep == Service!Next /\ TableInv'

(* A list with the same entries, and a step that sends nothing.            *)
LEMMA SameQuiet ==
  ASSUME IInv, IInv', TableInv, sent' = Nothing, Len(qlist') = Len(qlist),
         \A j \in 1 .. Len(qlist) :
             /\ qlist'[j].client_qid = qlist[j].client_qid
             /\ qlist'[j].is_dummy = qlist[j].is_dummy
             /\ qlist'[j].client = qlist[j].client
             /\ qlist'[j].cached_fail_msg = qlist[j].cached_fail_msg
             /\ ~qlist[j].is_dummy => qlist'[j].resp_sent = qlist[j].resp_sent
  PROVE  ServiceStep
  <1>1. QueriesOK(qlist, fdmaster)
    BY QueriesOfInvariant
  <1>2. QueriesOK(qlist', fdmaster')
    BY DEF IInv, TypeOK, ClientIdsUnique, QueriesOK
  <1>3. Table(qlist') = Table(qlist)
    BY <1>1, <1>2, SameTable DEF Entry
  <1>4. TableOK(qlist')
    BY DEF TableInv, TableOK
  <1>. QED  BY <1>3, <1>4, QuietStep DEF ServiceStep, TableInv

(* Steps that leave the list alone and send nothing.                       *)
LEMMA OthersQuiet ==
  ASSUME IInv, IInv', TableInv, sent' = Nothing, qlist' = qlist
  PROVE  ServiceStep
  <1>. QED  BY SameQuiet

(* Deleting the j-th query of the list keeps what the table needs.         *)
LEMMA DestroyNeeds ==
  ASSUME NEW ql, NEW fds, NEW socks, NEW j \in 1 .. Len(ql), QueriesOK(ql, fds),
         TableOK(ql), Destroy(ql, fds, socks, j)
  PROVE  TableInv'
  <1>1. /\ Len(Without(ql, j)) = Len(ql) - 1
        /\ \A k \in 1 .. Len(ql) - 1 :
              Without(ql, j)[k] = IF k < j THEN ql[k] ELSE ql[k + 1]
    BY WithoutElement DEF QueriesOK
  <1>2. Len(ql) \in Nat /\ j \in Nat
    BY DEF QueriesOK
  <1>3. TableOK(Without(ql, j))
    <2>. SUFFICES ASSUME NEW k \in 1 .. Len(ql) - 1
                  PROVE  LET q == Without(ql, j)[k] IN
                         IF q.is_dummy THEN q.cached_fail_msg = <<>>
                         ELSE q.client \in Clients /\ q.client_qid \in DnsIds
      BY <1>1 DEF TableOK
    <2>1. k \in 1 .. Len(ql) /\ k + 1 \in 1 .. Len(ql)
      BY <1>2
    <2>. QED  BY <1>1, <2>1 DEF TableOK
  <1>4. TableOK(qlist')
    BY <1>3 DEF Destroy
  <1>. QED  BY <1>4 DEF TableInv

(* query_timeout() forgets a query, or sends its client the failure.       *)
LEMMA ExpiryServes ==
  ASSUME IInv, IInv', TableInv, query_timeout
  PROVE  ServiceStep
  <1>. DEFINE j == Min(Expired)
              q == qlist[j]
  <1>1. QueriesOK(qlist, fdmaster) /\ QueriesOK(qlist', fdmaster') /\ Len(qlist) \in Nat
    BY QueriesOfInvariant DEF IInv, TypeOK, ClientIdsUnique, QueriesOK
  <1>2. /\ Destroy(qlist, fdmaster, upstream_sockets, j) /\ Expired # {}
        /\ sent' = IF q.cached_fail_msg # <<>> /\ ~q.resp_sent
                   THEN [to |-> q.client, id |-> q.client_qid,
                         about |-> q.cached_fail_msg[1], sock |-> q.sock_arr[1]]
                   ELSE Nothing
    BY DEF query_timeout
  <1>3. j \in 1 .. Len(qlist)
    <2>1. at[1] \in Nat
      BY DEF IInv, TypeOK
    <2>2. Expired \subseteq 1 .. Len(qlist) /\ Expired \subseteq Nat
      BY <1>1, <2>1 DEF Expired
    <2>. QED  BY <1>2, <2>2, MinOfNats
  <1>. HIDE DEF j
  <1>4. TableInv' /\ qlist' = Without(qlist, j)
    BY <1>1, <1>2, <1>3, DestroyNeeds DEF TableInv, Destroy
  <1>5. Table(qlist') = IF q.is_dummy THEN Table(qlist) ELSE Less(Table(qlist), q.client_qid)
    BY <1>1, <1>3, <1>4, WithoutTable
  <1>6. CASE q.is_dummy
    <2>1. q.cached_fail_msg = <<>>
      BY <1>3, <1>6 DEF TableInv, TableOK
    <2>. QED  BY <1>2, <1>4, <1>5, <1>6, <2>1, QuietStep DEF ServiceStep
  <1>7. CASE ~q.is_dummy
    <2>1. q.client_qid \in DnsIds
      BY <1>3, <1>7 DEF TableInv, TableOK
    <2>2. /\ q.client_qid \in DOMAIN Table(qlist)
          /\ Table(qlist)[q.client_qid] = Entry(q)
      BY <1>1, <1>3, <1>7, TableAt
    <2>3. CASE q.cached_fail_msg # <<>> /\ ~q.resp_sent
      <3>1. sent' = [to |-> q.client, id |-> q.client_qid,
                     about |-> q.cached_fail_msg[1], sock |-> q.sock_arr[1]]
        BY <1>2, <2>3
      <3>2. sent' \in Answer
        <4>2. q \in Query
          BY <1>1, <1>3 DEF QueriesOK
        <4>3. q.sock_arr[1] \in Fds
          BY <4>2, SocketsCounted
        <4>4. PICK a \in About : q.cached_fail_msg = <<a>>
          BY <2>3, <4>2 DEF Query
        <4>5. q.client \in About /\ q.client_qid \in Nat /\ q.cached_fail_msg[1] \in About
          BY <4>2, <4>4 DEF Query
        <4>. QED  BY <3>1, <4>3, <4>5 DEF Answer
      <3>3. Entry(q).state = "refused" /\ Entry(q).client = q.client
        BY <2>3 DEF Entry
      <3>. QED  BY <1>4, <1>5, <1>7, <2>1, <2>2, <3>1, <3>2, <3>3, ReplyStep DEF ServiceStep
    <2>4. CASE ~(q.cached_fail_msg # <<>> /\ ~q.resp_sent)
      BY <1>2, <1>4, <1>5, <1>7, <2>1, <2>2, <2>4, ForgetStep DEF ServiceStep
    <2>. QED  BY <2>3, <2>4
  <1>. QED  BY <1>6, <1>7

(* A reply is sent on, or kept, or counted.                                *)
LEMMA ReplyServes ==
  ASSUME IInv, IInv', TableInv, udp_handle_reply
  PROVE  ServiceStep
  <1>. DEFINE x == CHOOSE x \in Readable : \A y \in Readable : Earlier(x, y)
              j == x[1] + 1
              q == qlist[j]
              f == q.sock_arr[x[2]]
              got == rx[f] # <<>>
              m == Head(rx[f])
              good == got /\ m.kind # "bad"
              last == q.serv_sent_cnt = 1
              open == good /\ Unanswered(q)
              answer == open /\ (m.kind = "ok" \/ last)
              keep == open /\ ~answer /\ q.cached_fail_msg = <<>>
  <1>1. /\ sent' = IF answer
                   THEN [to |-> q.client, id |-> q.client_qid, about |-> m.about,
                         sock |-> q.sock_arr[1]]
                   ELSE Nothing
        /\ IF last THEN Destroy(qlist, fdmaster, upstream_sockets, j)
           ELSE qlist' = [qlist EXCEPT ![j] =
                     [q EXCEPT !.serv_sent_cnt = @ - 1,
                               !.resp_sent = @ \/ answer,
                               !.cached_fail_msg = IF keep THEN <<m.about>> ELSE @]]
    BY DEF udp_handle_reply
  <1>2. /\ QueriesOK(qlist, fdmaster) /\ QueriesOK(qlist', fdmaster')
        /\ qlist \in Seq(Query) /\ rx \in [Fds -> Seq(Reply)]
    BY QueriesOfInvariant DEF IInv, TypeOK, ClientIdsUnique, QueriesOK
  <1>3. x \in Readable
    <2>1. Readable \subseteq Nat \X Nat
      BY DEF Readable
    <2>. QED  BY <2>1, FirstReadable DEF udp_handle_reply
  <1>. HIDE DEF x
  <1>4. x[1] \in 0 .. Len(qlist) - 1 /\ x[2] \in DOMAIN q.sock_arr
    BY <1>3 DEF Readable
  <1>5. j \in 1 .. Len(qlist) /\ q \in Query
    BY <1>2, <1>4
  <1>6. f \in Fds /\ q.sock_arr[1] \in Fds
    BY <1>4, <1>5, SocketsCounted DEF Socks
  <1>7. got => m \in Reply
    BY <1>2, <1>6
  <1>8. /\ answer => ~q.is_dummy /\ ~q.resp_sent /\ got
        /\ keep => ~q.is_dummy /\ ~q.resp_sent /\ got /\ ~answer /\ q.cached_fail_msg = <<>>
    BY DEF Unanswered
  <1>9. q.is_dummy \in BOOLEAN /\ q.resp_sent \in BOOLEAN
    BY <1>5 DEF Query
  <1>. HIDE DEF j, m, got, answer, keep, last
  <1>10. answer => sent' \in Answer /\ sent'.to = q.client /\ sent'.id = q.client_qid
    BY <1>1, <1>5, <1>6, <1>7, <1>8 DEF Answer, Reply, Query
  <1>11. ~q.is_dummy =>
           /\ q.client_qid \in DnsIds /\ q.client \in Clients
           /\ q.client_qid \in DOMAIN Table(qlist)
           /\ Table(qlist)[q.client_qid] = Entry(q)
    BY <1>2, <1>5, TableAt DEF TableInv, TableOK
  <1>12. /\ Entry(q).client = q.client
         /\ ~q.resp_sent => Entry(q).state # "answered"
         /\ ~q.resp_sent /\ q.cached_fail_msg = <<>> => Entry(q).state = "waiting"
    BY DEF Entry
  <1>13. CASE last
    <2>1. TableInv' /\ qlist' = Without(qlist, j)
      BY <1>1, <1>2, <1>5, <1>13, DestroyNeeds DEF TableInv, Destroy
    <2>2. Table(qlist') = IF q.is_dummy THEN Table(qlist) ELSE Less(Table(qlist), q.client_qid)
      BY <1>2, <1>5, <2>1, WithoutTable
    <2>. HIDE DEF q
    <2>3. CASE answer
      BY <1>8, <1>10, <1>11, <1>12, <2>1, <2>2, <2>3, ReplyStep DEF ServiceStep
    <2>4. CASE ~answer /\ q.is_dummy
      BY <1>1, <2>1, <2>2, <2>4, QuietStep DEF ServiceStep
    <2>5. CASE ~answer /\ ~q.is_dummy
      BY <1>1, <1>11, <2>1, <2>2, <2>5, ForgetStep DEF ServiceStep
    <2>. QED  BY <2>3, <2>4, <2>5
  <1>14. CASE ~last
    <2>. DEFINE n == q.serv_sent_cnt - 1
                told == q.resp_sent \/ answer
                kept == IF keep THEN <<m.about>> ELSE q.cached_fail_msg
                q2 == [q EXCEPT !.serv_sent_cnt = n, !.resp_sent = told,
                                !.cached_fail_msg = kept]
    <2>1. qlist' = [qlist EXCEPT ![j] = q2]
      BY <1>1, <1>14
    <2>. HIDE DEF n, told, kept
    <2>2. /\ q2.client_qid = q.client_qid /\ q2.is_dummy = q.is_dummy /\ q2.client = q.client
          /\ q2.resp_sent = told /\ q2.cached_fail_msg = kept
      BY <1>5 DEF Query
    <2>. HIDE DEF q2
    <2>3. /\ Len(qlist') = Len(qlist) /\ qlist'[j] = q2
          /\ \A k \in 1 .. Len(qlist) : k # j => qlist'[k] = qlist[k]
      BY <1>2, <1>5, <2>1
    <2>4. TableInv'
      <3>1. q.is_dummy => kept = <<>>
        BY <1>5, <1>8 DEF kept, TableInv, TableOK
      <3>2. TableOK(qlist')
        BY <1>5, <1>11, <2>2, <2>3, <3>1 DEF TableInv, TableOK
      <3>. QED  BY <3>2 DEF TableInv
    <2>5. ~q.is_dummy => Table(qlist') = Put(Table(qlist), q.client_qid, Entry(q2))
      BY <1>2, <1>5, <2>1, <2>2, PutTable
    <2>6. CASE answer
      <3>1. Entry(q2) = [client |-> q.client, state |-> "answered"]
        BY <2>2, <2>6 DEF Entry, told
      <3>. HIDE DEF q
      <3>. QED  BY <1>8, <1>10, <1>11, <1>12, <2>4, <2>5, <2>6, <3>1, ReplyStep DEF ServiceStep
    <2>7. CASE keep
      <3>1. ~told /\ kept = <<m.about>>
        BY <1>8, <2>7 DEF told, kept
      <3>2. kept # <<>>
        BY <3>1
      <3>3. Entry(q2) = [client |-> q.client, state |-> "refused"]
        BY <2>2, <3>1, <3>2 DEF Entry
      <3>4. sent' = Nothing
        BY <1>1, <1>8, <2>7
      <3>. HIDE DEF q
      <3>. QED  BY <1>8, <1>11, <1>12, <2>4, <2>5, <2>7, <3>3, <3>4, RefuseStep DEF ServiceStep
    <2>8. CASE ~answer /\ ~keep
      <3>1. told = q.resp_sent /\ kept = q.cached_fail_msg
        BY <1>9, <2>8 DEF told, kept
      <3>2. sent' = Nothing
        BY <1>1, <2>8
      <3>. QED  BY <2>2, <2>3, <3>1, <3>2, SameQuiet
    <2>. QED  BY <2>6, <2>7, <2>8
  <1>. QED  BY <1>13, <1>14

(* A probe sends a client nothing, whichever query it takes.               *)
LEMMA ProbingServes ==
  ASSUME IInv, IInv', TableInv, retry_srvlist
  PROVE  ServiceStep
  <1>1. QueriesOK(qlist, fdmaster) /\ QueriesOK(qlist', fdmaster') /\ qlist \in Seq(Query)
    BY QueriesOfInvariant DEF IInv, TypeOK, ClientIdsUnique, QueriesOK
  <1>2. PICK id \in UnusedId \cup Collisions :
          \/ /\ Repeats(id) # {}
             /\ qlist' = [qlist EXCEPT ![Min(Repeats(id))].client_time = 0,
                                       ![Min(Repeats(id))].ttl = ReactivateInterval]
          \/ CreateAllowed(TRUE) /\ qlist' = Append(qlist, NewQuery(TRUE, Nothing, id))
          \/ UNCHANGED qlist
    BY DEF retry_srvlist
  <1>3. id \in Nat /\ Nothing \in About /\ sent' = Nothing
    BY RelayAssumption DEF UnusedId, About, retry_srvlist
  <1>4. CASE /\ Repeats(id) # {}
             /\ qlist' = [qlist EXCEPT ![Min(Repeats(id))].client_time = 0,
                                       ![Min(Repeats(id))].ttl = ReactivateInterval]
    <2>. DEFINE j == Min(Repeats(id))
                q == [qlist[j] EXCEPT !.client_time = 0, !.ttl = ReactivateInterval]
    <2>1. j \in 1 .. Len(qlist) /\ qlist[j] \in Query
      BY <1>1, <1>4, RepetitionFound
    <2>2. /\ q.client_qid = qlist[j].client_qid /\ q.is_dummy = qlist[j].is_dummy
          /\ q.client = qlist[j].client /\ q.cached_fail_msg = qlist[j].cached_fail_msg
          /\ q.resp_sent = qlist[j].resp_sent
      BY <2>1 DEF Query
    <2>3. qlist' = [qlist EXCEPT ![j] = q]
      BY <1>1, <1>4, <2>1
    <2>. HIDE DEF j, q
    <2>4. /\ Len(qlist') = Len(qlist) /\ qlist'[j] = q
          /\ \A k \in 1 .. Len(qlist) : k # j => qlist'[k] = qlist[k]
      BY <1>1, <2>1, <2>3
    <2>. QED  BY <1>3, <2>2, <2>4, SameQuiet
  <1>5. CASE CreateAllowed(TRUE) /\ qlist' = Append(qlist, NewQuery(TRUE, Nothing, id))
    <2>. DEFINE q == NewQuery(TRUE, Nothing, id)
    <2>1. q \in Query
      BY <1>3, <1>5, NewQueryTyped DEF CreateAllowed
    <2>2. q.is_dummy /\ q.cached_fail_msg = <<>>
      BY DEF NewQuery
    <2>. HIDE DEF q
    <2>3. qlist' = Append(qlist, q)
      BY <1>5 DEF q
    <2>4. Table(qlist') = Table(qlist)
      BY <1>1, <2>1, <2>2, <2>3, AppendTable
    <2>5. TableOK(qlist')
      BY <1>1, <2>1, <2>2, <2>3 DEF TableInv, TableOK
    <2>. QED  BY <1>3, <2>4, <2>5, QuietStep DEF ServiceStep, TableInv
  <1>6. CASE UNCHANGED qlist
    BY <1>3, <1>6, OthersQuiet
  <1>. QED  BY <1>2, <1>4, <1>5, <1>6

(* An entry that is put and deleted leaves no trace.                       *)
LEMMA LessPut ==
  ASSUME NEW t, t = [x \in DOMAIN t |-> t[x]], NEW id, id \notin DOMAIN t, NEW e
  PROVE  Less(Put(t, id, e), id) = t
  <1>1. DOMAIN Put(t, id, e) \ {id} = DOMAIN t
    BY DEF Put
  <1>2. \A x \in DOMAIN t : Put(t, id, e)[x] = t[x]
    BY DEF Put
  <1>3. Less(Put(t, id, e), id) = [x \in DOMAIN t |-> t[x]]
    BY <1>1, <1>2 DEF Less
  <1>. QED  BY <1>3

(* send2current() leaves the entries of its list, or deletes the query's.  *)
LEMMA SendingServes ==
  ASSUME IInv', NEW ql, NEW fds, NEW socks, NEW j \in 1 .. Len(ql), NEW client,
         QueriesOK(ql, fds), TableOK(ql), send2current(ql, fds, socks, j, client)
  PROVE  /\ TableInv'
         /\ \/ Table(qlist') = Table(ql)
            \/ Table(qlist') = IF ql[j].is_dummy THEN Table(ql)
                               ELSE Less(Table(ql), ql[j].client_qid)
  <1>1. \/ Destroy(ql, fds, socks, j)
        \/ \E n, list : qlist' = [ql EXCEPT ![j] = [ql[j] EXCEPT !.serv_sent_cnt = n,
                                                                 !.srv_list = list]]
    BY Zenon DEF send2current
  <1>2. QueriesOK(qlist', fdmaster')
    BY DEF IInv, TypeOK, ClientIdsUnique, QueriesOK
  <1>3. CASE Destroy(ql, fds, socks, j)
    <2>1. TableInv' /\ qlist' = Without(ql, j)
      BY <1>3, DestroyNeeds DEF Destroy
    <2>. QED  BY <1>2, <2>1, WithoutTable
  <1>4. ASSUME NEW n, NEW list,
               qlist' = [ql EXCEPT ![j] = [ql[j] EXCEPT !.serv_sent_cnt = n,
                                                        !.srv_list = list]]
        PROVE  TableInv' /\ Table(qlist') = Table(ql)
    <2>. DEFINE q == [ql[j] EXCEPT !.serv_sent_cnt = n, !.srv_list = list]
    <2>1. ql \in Seq(Query) /\ ql[j] \in Query
      BY DEF QueriesOK
    <2>2. /\ q.client_qid = ql[j].client_qid /\ q.is_dummy = ql[j].is_dummy
          /\ q.client = ql[j].client /\ q.cached_fail_msg = ql[j].cached_fail_msg
          /\ q.resp_sent = ql[j].resp_sent
      BY <2>1 DEF Query
    <2>. HIDE DEF q
    <2>3. qlist' = [ql EXCEPT ![j] = q]
      BY <1>4 DEF q
    <2>4. /\ Len(qlist') = Len(ql) /\ qlist'[j] = q
          /\ \A k \in 1 .. Len(ql) : k # j => qlist'[k] = ql[k]
      BY <2>1, <2>3
    <2>5. Table(qlist') = Table(ql)
      BY <1>2, <2>2, <2>4, SameTable DEF Entry
    <2>6. TableOK(qlist')
      BY <2>2, <2>4 DEF TableOK
    <2>. QED  BY <2>5, <2>6 DEF TableInv
  <1>. QED  BY <1>1, <1>3, <1>4

(* A request is answered at once, accepted, dropped, or ends the query it  *)
(* repeats.                                                                *)
LEMMA RequestServes ==
  ASSUME IInv, IInv', TableInv, udp_handle_request
  PROVE  ServiceStep
  <1>1. QueriesOK(qlist, fdmaster) /\ QueriesOK(qlist', fdmaster') /\ qlist \in Seq(Query)
    BY QueriesOfInvariant DEF IInv, TypeOK, ClientIdsUnique, QueriesOK
  <1>2. PICK x \in Questions :
          \/ ReplyServerFailure(x[1], x[2])
          \/ ForwardRepetition(x[1], x[2])
          \/ ForwardNew(x[1], x[2])
          \/ DropNew(x[2])
    BY DEF udp_handle_request
  <1>3. x[1] \in Clients /\ x[1] \in About /\ x[2] \in Nat /\ x[2] \in DnsIds
    BY RelayAssumption DEF About, DnsIds
  <1>4. CASE ReplyServerFailure(x[1], x[2])
    <2>1. qlist' = qlist /\ sent' = LocalAnswer(x[1], x[2])
      BY <1>4 DEF ReplyServerFailure, queryvars
    <2>2. Table(qlist') = Table(qlist) /\ TableOK(qlist')
      BY <2>1 DEF TableInv
    <2>. QED  BY <2>1, <2>2, LocalStep DEF ServiceStep, TableInv
  <1>5. CASE ForwardRepetition(x[1], x[2])
    <2>. DEFINE j == Min(Repeats(x[2]))
                q == [qlist[j] EXCEPT !.client_time = 0]
                ql == [qlist EXCEPT ![j] = q]
    <2>1. /\ Repeats(x[2]) # {} /\ sent' = Nothing
          /\ send2current(ql, fdmaster, upstream_sockets, j, x[1])
      BY <1>5 DEF ForwardRepetition
    <2>2. j \in 1 .. Len(qlist) /\ qlist[j] \in Query
      BY <1>1, <2>1, RepetitionFound
    <2>3. /\ q \in Query
          /\ q.client_qid = qlist[j].client_qid /\ q.is_dummy = qlist[j].is_dummy
          /\ q.client = qlist[j].client /\ q.cached_fail_msg = qlist[j].cached_fail_msg
          /\ q.resp_sent = qlist[j].resp_sent
      BY <2>2 DEF Query
    <2>. HIDE DEF q, j
    <2>4. QueriesOK(ql, fdmaster)
      BY <1>1, <2>2, <2>3, ChangeKeepsQueries
    <2>5. /\ Len(ql) = Len(qlist) /\ j \in 1 .. Len(ql) /\ ql[j] = q
          /\ \A k \in 1 .. Len(qlist) : k # j => ql[k] = qlist[k]
      BY <1>1, <2>2, <2>3
    <2>. HIDE DEF ql
    <2>6. Table(ql) = Table(qlist)
      BY <1>1, <2>3, <2>4, <2>5, SameTable DEF Entry
    <2>7. TableOK(ql)
      BY <2>3, <2>5 DEF TableInv, TableOK
    <2>8. /\ TableInv'
          /\ \/ Table(qlist') = Table(ql)
             \/ Table(qlist') = IF ql[j].is_dummy THEN Table(ql)
                                ELSE Less(Table(ql), ql[j].client_qid)
      BY <2>1, <2>4, <2>5, <2>7, SendingServes
    <2>9. ~q.is_dummy => q.client_qid \in DnsIds /\ q.client_qid \in DOMAIN Table(qlist)
      BY <1>1, <2>2, <2>3, TableAt DEF TableInv, TableOK
    <2>10. CASE Table(qlist') = Table(qlist)
      BY <2>1, <2>8, <2>10, QuietStep DEF ServiceStep
    <2>11. CASE ~q.is_dummy /\ Table(qlist') = Less(Table(qlist), q.client_qid)
      BY <2>1, <2>8, <2>9, <2>11, ForgetStep DEF ServiceStep
    <2>. QED  BY <2>5, <2>6, <2>8, <2>10, <2>11
  <1>6. CASE ForwardNew(x[1], x[2])
    <2>. DEFINE q == NewQuery(FALSE, x[1], x[2])
                ql == Append(qlist, q)
                fds == fdmaster \cup Socks(q)
                socks == upstream_sockets + 3
    <2>1. /\ Repeats(x[2]) = {} /\ CreateAllowed(FALSE) /\ sent' = Nothing
          /\ send2current(ql, fds, socks, Len(qlist) + 1, x[1])
      BY <1>6 DEF ForwardNew
    <2>2. q \in Query /\ q.client_qid = x[2] /\ Socks(q) \subseteq Fds
      BY <1>3, <2>1, NewQueryTyped DEF CreateAllowed
    <2>3. ~q.is_dummy /\ q.client = x[1] /\ Entry(q) = [client |-> x[1], state |-> "waiting"]
      BY DEF NewQuery, Entry
    <2>. HIDE DEF q
    <2>4. QueriesOK(qlist, fds)
      BY <1>1, <2>2 DEF QueriesOK
    <2>5. \A k \in 1 .. Len(qlist) : qlist[k].client_qid # q.client_qid
      BY <2>1, <2>2 DEF Repeats
    <2>6. QueriesOK(ql, fds)
      BY <2>2, <2>4, <2>5, AppendKeepsQueries
    <2>7. Len(qlist) + 1 \in 1 .. Len(ql) /\ ql[Len(qlist) + 1] = q
      BY <1>1, <2>2
    <2>8. /\ x[2] \notin DOMAIN Table(qlist)
          /\ Table(ql) = Put(Table(qlist), x[2], [client |-> x[1], state |-> "waiting"])
      BY <1>1, <2>2, <2>3, <2>6, AppendTable, TableAt
    <2>9. TableOK(ql)
      BY <1>1, <1>3, <2>2, <2>3 DEF TableInv, TableOK
    <2>. HIDE DEF ql, fds, socks
    <2>10. /\ TableInv'
           /\ \/ Table(qlist') = Table(ql)
              \/ Table(qlist') = Less(Table(ql), x[2])
      BY <2>1, <2>2, <2>3, <2>6, <2>7, <2>9, SendingServes
    <2>11. CASE Table(qlist') = Table(ql)
      BY <1>3, <2>1, <2>8, <2>10, <2>11, AcceptStep DEF ServiceStep
    <2>12. CASE Table(qlist') = Less(Table(ql), x[2])
      <3>1. Table(qlist) = [id \in DOMAIN Table(qlist) |-> Table(qlist)[id]]
        BY DEF Table
      <3>2. Less(Table(ql), x[2]) = Table(qlist)
        BY <2>8, <3>1, LessPut
      <3>. QED  BY <2>1, <2>10, <2>12, <3>2, QuietStep DEF ServiceStep
    <2>. QED  BY <2>10, <2>11, <2>12
  <1>7. CASE DropNew(x[2])
    BY <1>7, OthersQuiet DEF DropNew
  <1>. QED  BY <1>2, <1>4, <1>5, <1>6, <1>7

(* A second more is nothing to the clients.                                *)
LEMMA TickServes ==
  ASSUME IInv, IInv', TableInv, Tick
  PROVE  ServiceStep
  <1>1. qlist \in Seq(Query) /\ qlist' \in Seq(Query) /\ sent' = Nothing
    BY DEF IInv, TypeOK, Tick
  <1>2. qlist' = [j \in DOMAIN qlist |->
                    [qlist[j] EXCEPT !.client_time = Older(@, qlist[j].ttl + 1)]]
    BY DEF Tick
  <1>3. Len(qlist') = Len(qlist)
    BY <1>1, <1>2
  <1>4. \A j \in 1 .. Len(qlist) :
             /\ qlist'[j].client_qid = qlist[j].client_qid
             /\ qlist'[j].is_dummy = qlist[j].is_dummy
             /\ qlist'[j].client = qlist[j].client
             /\ qlist'[j].cached_fail_msg = qlist[j].cached_fail_msg
             /\ qlist'[j].resp_sent = qlist[j].resp_sent
    <2>. SUFFICES ASSUME NEW j \in 1 .. Len(qlist)
                  PROVE  /\ qlist'[j].client_qid = qlist[j].client_qid
                         /\ qlist'[j].is_dummy = qlist[j].is_dummy
                         /\ qlist'[j].client = qlist[j].client
                         /\ qlist'[j].cached_fail_msg = qlist[j].cached_fail_msg
                         /\ qlist'[j].resp_sent = qlist[j].resp_sent
      OBVIOUS
    <2>. DEFINE age == Older(qlist[j].client_time, qlist[j].ttl + 1)
    <2>1. qlist'[j] = [qlist[j] EXCEPT !.client_time = age]
      BY <1>1, <1>2
    <2>. HIDE DEF age
    <2>2. qlist[j] \in Query
      BY <1>1
    <2>. QED  BY <2>1, <2>2 DEF Query
  <1>. QED  BY <1>1, <1>3, <1>4, SameQuiet

-----------------------------------------------------------------------------
(* The theorem                                                             *)

(* The initial table is empty.                                             *)
LEMMA InitServes == Init => TableInv /\ Service!Init
  <1>. SUFFICES ASSUME Init PROVE TableInv /\ Service!Init
    OBVIOUS
  <1>1. qlist = <<>> /\ sent = Nothing
    BY DEF Init
  <1>2. RealIds = {}
    BY <1>1 DEF RealIds
  <1>3. [id \in RealIds |-> Entry(QueryOf(id))] = <<>>
    BY <1>2
  <1>. QED  BY <1>1, <1>3 DEF TableInv, TableOK, Service!Init

(* Every step of the relay is one of the service, or none.                 *)
LEMMA StepServes ==
  ASSUME IInv, IInv', TableInv, Next
  PROVE  ServiceStep
  <1>1. CASE Select \/ Interrupt
    BY <1>1, OthersQuiet DEF Select, Interrupt, queryvars
  <1>2. CASE Round
    <2>1. CASE reactivate_servers \/ deactivate_servers
      BY <2>1, OthersQuiet DEF reactivate_servers, deactivate_servers, queryvars
    <2>2. CASE retry_srvlist
      BY <2>2, ProbingServes
    <2>3. CASE udp_handle_reply
      BY <2>3, ReplyServes
    <2>4. CASE HandleListHead \/ RepliesDone \/ RoundDone \/ IgnoreRequest
      BY <2>4, OthersQuiet DEF HandleListHead, RepliesDone, RoundDone, IgnoreRequest, queryvars
    <2>5. CASE AnswerLocally
      <3>1. PICK x \in Questions : sent' = LocalAnswer(x[1], x[2])
        BY <2>5 DEF AnswerLocally
      <3>2. qlist' = qlist
        BY <2>5 DEF AnswerLocally, queryvars
      <3>3. Table(qlist') = Table(qlist) /\ TableOK(qlist')
        BY <3>2 DEF TableInv
      <3>. QED  BY <3>1, <3>3, LocalStep DEF ServiceStep, TableInv
    <2>6. CASE udp_handle_request
      BY <2>6, RequestServes
    <2>7. CASE query_timeout
      BY <2>7, ExpiryServes
    <2>. QED  BY <1>2, <2>1, <2>2, <2>3, <2>4, <2>5, <2>6, <2>7 DEF Round
  <1>3. CASE \E f \in Fds : \E k \in DOMAIN flight[f] : ReplyArrives(f, k)
    BY <1>3, OthersQuiet DEF ReplyArrives, queryvars
  <1>4. CASE Tick
    BY <1>4, TickServes
  <1>. QED  BY <1>1, <1>2, <1>3, <1>4 DEF Next

(* Whatever order requests, replies, repetitions, probes and timeouts come *)
(* in: a client is sent at most one answer per query of its own, under the *)
(* id it chose, an answered query never waits again, and the probes are    *)
(* never seen.  dnrd keeps the promise that RelayService states.           *)
THEOREM RelayImplementsService == Spec => ImplementsService
  <1>1. Init => TableInv /\ Service!Init
    BY InitServes
  <1>2. IInv /\ IInv' /\ TableInv /\ [Next]_vars =>
          TableInv' /\ [Service!Next]_<<[id \in RealIds |-> Entry(QueryOf(id))],
                                        IF sent = Nothing THEN Nothing
                                        ELSE <<sent.to, sent.id>>>>
    <2>. SUFFICES ASSUME IInv, IInv', TableInv, [Next]_vars
                  PROVE  TableInv' /\
                         [Service!Next]_<<[id \in RealIds |-> Entry(QueryOf(id))],
                                          IF sent = Nothing THEN Nothing
                                          ELSE <<sent.to, sent.id>>>>
      OBVIOUS
    <2>1. CASE Next
      BY <2>1, StepServes DEF ServiceStep
    <2>2. CASE UNCHANGED vars
      BY <2>2 DEF vars, queryvars, TableInv, TableOK, RealIds, QueryOf
    <2>. QED  BY <2>1, <2>2
  <1>. QED  BY <1>1, <1>2, Invariance, PTL DEF Spec, ImplementsService, Service!Spec
=============================================================================
