------------------------------ MODULE QidPool -------------------------------
(***************************************************************************)
(* The pool of upstream query identifiers: src/qid.c, and the two places   *)
(* that use it, query_create (qid_get) and query_destroy (qid_return) of   *)
(* src/query.c.                                                            *)
(*                                                                         *)
(* The pool is an array of PoolSize identifiers and an index pool_ptr:     *)
(* qid_pool[0..pool_ptr] are the free ones.  qid_get draws a random cell   *)
(* and moves the last free cell into it, qid_return appends.  Neither      *)
(* looks at pool_ptr: what keeps it inside the array is the limit on       *)
(* concurrent queries of query_create, here the number of Holders.         *)
(***************************************************************************)
EXTENDS Integers, FiniteSets

CONSTANTS
    PoolSize,   \* QID_POOL_SIZE, 65536 in the code
    Holders     \* the query records that may be allocated at the same time

ASSUME PoolAssumption ==
    /\ PoolSize \in Nat \ {0}
    /\ IsFiniteSet(Holders)
    /\ Cardinality(Holders) <= PoolSize

VARIABLES
    qid_pool,   \* the array
    pool_ptr,   \* index of the last free cell, -1 when none is free
    my_qid      \* my_qid[h]: the identifier query record h holds

vars == <<qid_pool, pool_ptr, my_qid>>

Cells == 0 .. PoolSize - 1
Ids == Cells
NoId == -1      \* held by a record that is not allocated

Allocated == {h \in Holders : my_qid[h] # NoId}
Free == {qid_pool[i] : i \in 0 .. pool_ptr}

TypeOK ==
    /\ qid_pool \in [Cells -> Ids]
    /\ pool_ptr \in -1 .. PoolSize - 1
    /\ my_qid \in [Holders -> Ids \cup {NoId}]

\* qid_init_pool: cell i holds identifier i, every cell is free.
Init ==
    /\ qid_pool = [i \in Cells |-> i]
    /\ pool_ptr = PoolSize - 1
    /\ my_qid = [h \in Holders |-> NoId]

(* Variants of the two operations with a plausible bug each: the drawn     *)
(* cell is not refilled, the range of the random index misses the last     *)
(* cell, the freed identifier overwrites the last free cell.               *)
GetWithoutRefill(h) ==
    /\ my_qid[h] = NoId
    /\ \E i \in 0 .. pool_ptr : my_qid' = [my_qid EXCEPT ![h] = qid_pool[i]]
    /\ pool_ptr' = pool_ptr - 1
    /\ UNCHANGED qid_pool

ReturnOverLast(h) ==
    /\ my_qid[h] # NoId
    /\ qid_pool' = [qid_pool EXCEPT ![pool_ptr % PoolSize] = my_qid[h]]
    /\ pool_ptr' = pool_ptr + 1
    /\ my_qid' = [my_qid EXCEPT ![h] = NoId]

(* qid_get, called last in query_create for a fresh record h.  myrand(max) *)
(* multiplies in float and rounds, so that it can return max itself: every *)
(* free cell can be drawn.                                                 *)
qid_get(h) ==
    /\ my_qid[h] = NoId
    /\ \E i \in 0 .. pool_ptr :
          /\ my_qid' = [my_qid EXCEPT ![h] = qid_pool[i]]
          /\ qid_pool' = [qid_pool EXCEPT ![i] = qid_pool[pool_ptr % PoolSize]]
    /\ pool_ptr' = pool_ptr - 1

\* qid_return, called first in query_destroy of record h.
qid_return(h) ==
    /\ my_qid[h] # NoId
    /\ qid_pool' = [qid_pool EXCEPT ![(pool_ptr + 1) % PoolSize] = my_qid[h]]
    /\ pool_ptr' = pool_ptr + 1
    /\ my_qid' = [my_qid EXCEPT ![h] = NoId]

Next == \E h \in Holders : qid_get(h) \/ qid_return(h)

Spec == Init /\ [][Next]_vars

-----------------------------------------------------------------------------
(* Properties *)

\* Two queries in flight never share an identifier: a shared one would make
\* the answers of two upstream requests indistinguishable on the wire.
HeldDistinct ==
    \A g, h \in Allocated : g # h => my_qid[g] # my_qid[h]

\* No identifier is ever lost or both free and held, although qid_get and
\* qid_return move cells around and wrap their index without any check.
Conserved ==
    /\ Free \cup {my_qid[h] : h \in Allocated} = Ids
    /\ Free \cap {my_qid[h] : h \in Allocated} = {}

\* The free cells hold distinct identifiers, as many as no record holds.
FreeDistinct ==
    /\ \A i, j \in 0 .. pool_ptr : qid_pool[i] = qid_pool[j] => i = j
    /\ pool_ptr = PoolSize - 1 - Cardinality(Allocated)

\* The inductive invariant: each part needs the others to survive a step.
IInv == TypeOK /\ HeldDistinct /\ Conserved /\ FreeDistinct

Allocator == INSTANCE QidAllocator WITH held <- my_qid

\* The array implements the abstract allocator: qid_get draws an identifier
\* nobody holds, qid_return gives back the caller's and nothing else.
ImplementsAllocator == Allocator!Spec
=============================================================================
