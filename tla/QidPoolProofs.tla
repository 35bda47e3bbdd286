--------------------------- MODULE QidPoolProofs ----------------------------
(***************************************************************************)
(* Proofs about QidPool for every pool size and every set of holders.      *)
(***************************************************************************)
EXTENDS QidPool, FiniteSetTheorems, TLAPS

(* The records that hold an identifier are a finite set, so the count that *)
(* FreeDistinct relates to pool_ptr is a number.                           *)
LEMMA AllocatedFinite ==
    /\ IsFiniteSet(Allocated)
    /\ Cardinality(Allocated) \in Nat
    /\ Cardinality(Allocated) <= Cardinality(Holders)
  <1>1. Allocated \subseteq Holders
    BY DEF Allocated
  <1>. QED  BY <1>1, PoolAssumption, FS_Subset, FS_CardinalityType

(* With a record still to allocate, query_create's limit leaves a free     *)
(* cell: pool_ptr is a valid index, so the unchecked qid_get stays inside. *)
LEMMA FreeCellLeft ==
  ASSUME IInv, NEW h \in Holders, my_qid[h] = NoId
  PROVE  pool_ptr \in 0 .. PoolSize - 1
  <1>1. Allocated \subseteq Holders \ {h}
    BY DEF Allocated
  <1>2. /\ IsFiniteSet(Holders \ {h})
        /\ Cardinality(Holders \ {h}) = Cardinality(Holders) - 1
        /\ Cardinality(Holders) \in Nat
    BY PoolAssumption, FS_RemoveElement, FS_CardinalityType
  <1>3. Cardinality(Allocated) <= Cardinality(Holders) - 1
    BY <1>1, <1>2, FS_Subset
  <1>. QED  BY <1>2, <1>3, AllocatedFinite, PoolAssumption
            DEF IInv, FreeDistinct, TypeOK

(* With a record allocated, the cell qid_return writes exists.             *)
LEMMA UsedCellLeft ==
  ASSUME IInv, NEW h \in Holders, my_qid[h] # NoId
  PROVE  pool_ptr + 1 \in Cells
  <1>1. h \in Allocated
    BY DEF Allocated
  <1>2. Cardinality(Allocated) # 0
    BY <1>1, AllocatedFinite, FS_EmptySet
  <1>. QED  BY <1>2, AllocatedFinite, PoolAssumption
            DEF IInv, FreeDistinct, TypeOK, Cells

LEMMA InitInvariant == Init => IInv
  <1>. SUFFICES ASSUME Init PROVE IInv
    OBVIOUS
  <1>1. TypeOK
    BY PoolAssumption DEF Init, TypeOK, Cells, Ids, NoId
  <1>2. Allocated = {}
    BY DEF Init, Allocated
  <1>3. Free = Ids
    BY PoolAssumption DEF Init, Free, Cells, Ids
  <1>4. HeldDistinct /\ Conserved
    BY <1>2, <1>3 DEF HeldDistinct, Conserved
  <1>5. FreeDistinct
    BY <1>2, FS_EmptySet, PoolAssumption DEF Init, FreeDistinct, Cells
  <1>. QED  BY <1>1, <1>4, <1>5 DEF IInv

(* qid_get preserves the invariant: the drawn identifier leaves the free   *)
(* cells, the last free cell takes its place.                              *)
LEMMA GetInvariant ==
  ASSUME IInv, NEW h \in Holders, qid_get(h)
  PROVE  IInv'
  <1>1. pool_ptr \in 0 .. PoolSize - 1 /\ PoolSize \in Nat
    BY FreeCellLeft, PoolAssumption DEF qid_get
  <1>2. PICK i \in 0 .. pool_ptr :
          /\ my_qid' = [my_qid EXCEPT ![h] = qid_pool[i]]
          /\ qid_pool' = [qid_pool EXCEPT ![i] = qid_pool[pool_ptr % PoolSize]]
    BY DEF qid_get
  <1>3. pool_ptr % PoolSize = pool_ptr /\ i \in Cells /\ pool_ptr \in Cells
    BY <1>1 DEF Cells
  <1>4. qid_pool' = [qid_pool EXCEPT ![i] = qid_pool[pool_ptr]]
    BY <1>2, <1>3
  <1>5. pool_ptr' = pool_ptr - 1
    BY DEF qid_get
  <1>6. TypeOK'
    <2>1. qid_pool[i] \in Ids /\ qid_pool[pool_ptr] \in Ids
      BY <1>3 DEF IInv, TypeOK
    <2>2. qid_pool' \in [Cells -> Ids] /\ my_qid' \in [Holders -> Ids \cup {NoId}]
      BY <1>2, <1>4, <2>1 DEF IInv, TypeOK
    <2>3. pool_ptr' \in -1 .. PoolSize - 1
      BY <1>1, <1>5
    <2>. QED  BY <2>2, <2>3 DEF TypeOK, Ids, Cells, NoId
  <1>7. qid_pool[i] \in Ids /\ qid_pool[i] # NoId
    BY <1>3 DEF IInv, TypeOK, Ids, Cells, NoId
  <1>8. h \notin Allocated /\ Allocated' = Allocated \cup {h}
    BY <1>2, <1>7 DEF qid_get, Allocated, IInv, TypeOK
  <1>9. qid_pool[i] \in Free /\ \A g \in Allocated : my_qid[g] # qid_pool[i]
    BY DEF IInv, Conserved, Free
  <1>10. HeldDistinct'
    BY <1>2, <1>8, <1>9 DEF IInv, HeldDistinct, TypeOK, Allocated
  <1>11. \A j \in 0 .. pool_ptr' :
           qid_pool'[j] = IF j = i THEN qid_pool[pool_ptr] ELSE qid_pool[j]
    BY <1>1, <1>4, <1>5 DEF IInv, TypeOK, Cells
  <1>12. \A j, k \in 0 .. pool_ptr' : qid_pool'[j] = qid_pool'[k] => j = k
    BY <1>1, <1>5, <1>11 DEF IInv, FreeDistinct
  <1>13. pool_ptr' = PoolSize - 1 - Cardinality(Allocated')
    <2>1. Cardinality(Allocated') = Cardinality(Allocated) + 1
      BY <1>8, AllocatedFinite, FS_AddElement
    <2>2. pool_ptr = PoolSize - 1 - Cardinality(Allocated)
      BY DEF IInv, FreeDistinct
    <2>. QED  BY <1>1, <1>5, <2>1, <2>2, AllocatedFinite
  <1>14. Free' = Free \ {qid_pool[i]}
    <2>1. Free' = {qid_pool'[j] : j \in 0 .. pool_ptr'}
      BY DEF Free
    <2>2. ASSUME NEW x \in Free'  PROVE x \in Free \ {qid_pool[i]}
      <3>1. PICK j \in 0 .. pool_ptr' : x = qid_pool'[j]
        BY <2>1, <2>2
      <3>2. j \in 0 .. pool_ptr /\ j # pool_ptr
        BY <1>1, <1>5, <3>1
      <3>3. CASE j = i
        <4>1. x = qid_pool[pool_ptr] /\ i # pool_ptr
          BY <1>11, <3>1, <3>2, <3>3
        <4>2. qid_pool[pool_ptr] # qid_pool[i]
          BY <1>1, <4>1 DEF IInv, FreeDistinct
        <4>. QED  BY <1>1, <4>1, <4>2 DEF Free
      <3>4. CASE j # i
        <4>1. x = qid_pool[j] /\ qid_pool[j] # qid_pool[i]
          BY <1>11, <3>1, <3>2, <3>4 DEF IInv, FreeDistinct
        <4>. QED  BY <3>2, <4>1 DEF Free
      <3>. QED  BY <3>3, <3>4
    <2>3. ASSUME NEW x \in Free, x # qid_pool[i]  PROVE x \in Free'
      <3>1. PICK j \in 0 .. pool_ptr : x = qid_pool[j]
        BY <2>3 DEF Free
      <3>2. CASE j = pool_ptr
        <4>1. i \in 0 .. pool_ptr' /\ x = qid_pool'[i]
          BY <1>1, <1>5, <1>11, <2>3, <3>1, <3>2
        <4>. QED  BY <2>1, <4>1
      <3>3. CASE j # pool_ptr
        <4>1. j \in 0 .. pool_ptr' /\ x = qid_pool'[j]
          BY <1>1, <1>5, <1>11, <2>3, <3>1, <3>3
        <4>. QED  BY <2>1, <4>1
      <3>. QED  BY <3>2, <3>3
    <2>. QED  BY <2>2, <2>3
  <1>15. {my_qid'[g] : g \in Allocated'} =
           {my_qid[g] : g \in Allocated} \cup {qid_pool[i]}
    BY <1>2, <1>8 DEF IInv, TypeOK, Allocated
  <1>16. Conserved'
    <2>. DEFINE H == {my_qid[g] : g \in Allocated}
                H2 == {my_qid'[g] : g \in Allocated'}
    <2>1. Free \cup H = Ids /\ Free \cap H = {}
      BY DEF IInv, Conserved
    <2>2. H2 = H \cup {qid_pool[i]}
      BY <1>15
    <2>3. Free' \cup H2 = Ids /\ Free' \cap H2 = {}
      BY <1>9, <1>14, <2>1, <2>2
    <2>. QED  BY <2>3 DEF Conserved, Ids, Cells
  <1>. QED  BY <1>6, <1>10, <1>12, <1>13, <1>16 DEF IInv, FreeDistinct

(* qid_return preserves the invariant: the identifier goes behind the last *)
(* free cell.                                                              *)
LEMMA ReturnInvariant ==
  ASSUME IInv, NEW h \in Holders, qid_return(h)
  PROVE  IInv'
  <1>1. /\ pool_ptr + 1 \in Cells
        /\ pool_ptr \in Int
        /\ PoolSize \in Nat
    BY UsedCellLeft, PoolAssumption DEF qid_return, IInv, TypeOK
  <1>2. (pool_ptr + 1) % PoolSize = pool_ptr + 1
    BY <1>1 DEF Cells
  <1>3. /\ qid_pool' = [qid_pool EXCEPT ![pool_ptr + 1] = my_qid[h]]
        /\ pool_ptr' = pool_ptr + 1
        /\ my_qid' = [my_qid EXCEPT ![h] = NoId]
        /\ my_qid[h] # NoId
    BY <1>2 DEF qid_return
  <1>4. my_qid[h] \in Ids
    BY <1>3 DEF IInv, TypeOK
  <1>5. TypeOK'
    BY <1>1, <1>3, <1>4 DEF IInv, TypeOK, Cells
  <1>6. h \in Allocated /\ Allocated' = Allocated \ {h}
    BY <1>3 DEF Allocated, IInv, TypeOK
  <1>7. HeldDistinct'
    BY <1>3, <1>6 DEF IInv, HeldDistinct, TypeOK, Allocated
  <1>8. my_qid[h] \notin Free
    BY <1>6 DEF IInv, Conserved
  <1>9. /\ \A j \in 0 .. pool_ptr : qid_pool'[j] = qid_pool[j]
        /\ qid_pool'[pool_ptr'] = my_qid[h]
    BY <1>1, <1>3 DEF IInv, TypeOK, Cells
  <1>10. \A j, k \in 0 .. pool_ptr' : qid_pool'[j] = qid_pool'[k] => j = k
    <2>1. \A j \in 0 .. pool_ptr : qid_pool'[j] # my_qid[h]
      BY <1>8, <1>9 DEF Free
    <2>2. \A j \in 0 .. pool_ptr' : j \in 0 .. pool_ptr \/ j = pool_ptr'
      BY <1>1, <1>3
    <2>. QED  BY <1>9, <2>1, <2>2 DEF IInv, FreeDistinct
  <1>11. pool_ptr' = PoolSize - 1 - Cardinality(Allocated')
    <2>1. Cardinality(Allocated') = Cardinality(Allocated) - 1
      BY <1>6, AllocatedFinite, FS_RemoveElement
    <2>2. pool_ptr = PoolSize - 1 - Cardinality(Allocated)
      BY DEF IInv, FreeDistinct
    <2>. QED  BY <1>1, <1>3, <2>1, <2>2, AllocatedFinite
  <1>12. Free' = Free \cup {my_qid[h]}
    <2>1. Free' = {qid_pool'[j] : j \in 0 .. pool_ptr'}
      BY DEF Free
    <2>2. 0 .. pool_ptr' = (0 .. pool_ptr) \cup {pool_ptr'}
      BY <1>1, <1>3 DEF Cells
    <2>. QED  BY <1>9, <2>1, <2>2 DEF Free
  <1>13. {my_qid'[g] : g \in Allocated'} =
           {my_qid[g] : g \in Allocated} \ {my_qid[h]}
    BY <1>3, <1>6 DEF IInv, TypeOK, HeldDistinct, Allocated
  <1>14. Conserved'
    <2>. DEFINE H == {my_qid[g] : g \in Allocated}
                H2 == {my_qid'[g] : g \in Allocated'}
    <2>1. Free \cup H = Ids /\ Free \cap H = {}
      BY DEF IInv, Conserved
    <2>2. H2 = H \ {my_qid[h]}
      BY <1>13
    <2>3. Free' \cup H2 = Ids /\ Free' \cap H2 = {}
      BY <1>4, <1>8, <1>12, <2>1, <2>2
    <2>. QED  BY <2>3 DEF Conserved, Ids, Cells
  <1>. QED  BY <1>5, <1>7, <1>10, <1>11, <1>14 DEF IInv, FreeDistinct

LEMMA NextInvariant == IInv /\ [Next]_vars => IInv'
  <1>. SUFFICES ASSUME IInv, [Next]_vars PROVE IInv'
    OBVIOUS
  <1>1. ASSUME NEW h \in Holders, qid_get(h)  PROVE IInv'
    BY <1>1, GetInvariant
  <1>2. ASSUME NEW h \in Holders, qid_return(h)  PROVE IInv'
    BY <1>2, ReturnInvariant
  <1>3. CASE UNCHANGED vars
    BY <1>3 DEF vars, IInv, TypeOK, HeldDistinct, Conserved, FreeDistinct,
                Free, Allocated
  <1>. QED  BY <1>1, <1>2, <1>3 DEF Next

(* The inductive invariant holds in every reachable state.                 *)
THEOREM Invariance == Spec => []IInv
  <1>. QED  BY InitInvariant, NextInvariant, PTL DEF Spec

(* No identifier of the pool is lost, duplicated or free while held, for   *)
(* every pool size and every number of concurrent queries it allows.       *)
THEOREM PoolConserved == Spec => []Conserved
  <1>1. IInv => Conserved
    BY DEF IInv
  <1>. QED  BY <1>1, Invariance, PTL

(* The array of qid.c implements the abstract allocator.                   *)
THEOREM PoolImplementsAllocator == Spec => ImplementsAllocator
  <1>1. Init => Allocator!Init
    BY DEF Init, Allocator!Init
  <1>2. IInv /\ [Next]_vars => [Allocator!Next]_my_qid
    <2>. SUFFICES ASSUME IInv, [Next]_vars PROVE [Allocator!Next]_my_qid
      OBVIOUS
    <2>1. ASSUME NEW h \in Holders, qid_get(h)  PROVE Allocator!Get(h)
      <3>1. PICK i \in 0 .. pool_ptr :
              my_qid' = [my_qid EXCEPT ![h] = qid_pool[i]]
        BY <2>1 DEF qid_get
      <3>2. qid_pool[i] \in Free
        BY DEF Free
      <3>3. qid_pool[i] \in Ids /\ \A g \in Allocated : my_qid[g] # qid_pool[i]
        BY <3>2 DEF IInv, Conserved
      <3>4. qid_pool[i] \in Ids \ Allocator!InUse
        BY <3>3 DEF Allocator!InUse, Allocated
      <3>. QED  BY <2>1, <3>1, <3>4 DEF Allocator!Get, qid_get
    <2>2. ASSUME NEW h \in Holders, qid_return(h)  PROVE Allocator!Return(h)
      BY <2>2 DEF qid_return, Allocator!Return
    <2>3. CASE UNCHANGED vars
      BY <2>3 DEF vars
    <2>. QED  BY <2>1, <2>2, <2>3 DEF Next, Allocator!Next
  <1>. QED  BY <1>1, <1>2, Invariance, PTL
            DEF Spec, ImplementsAllocator, Allocator!Spec
=============================================================================
