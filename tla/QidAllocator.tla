---------------------------- MODULE QidAllocator ----------------------------
(***************************************************************************)
(* What the query identifier pool of dnrd (src/qid.c) promises to its only *)
(* user, the query list of src/query.c: an identifier handed out is not    *)
(* handed out again until its holder gives it back, and any identifier     *)
(* nobody holds may be the next one (upstream ids must stay unpredictable).*)
(***************************************************************************)
CONSTANTS
    Ids,        \* the identifiers of the pool
    Holders,    \* the query records that may hold one
    NoId        \* no identifier: held by a record that is not allocated

VARIABLE held   \* held[h]: the identifier of record h (query_t.my_qid)

InUse == {held[h] : h \in Holders} \ {NoId}

TypeOK == held \in [Holders -> Ids \cup {NoId}]

Init == held = [h \in Holders |-> NoId]

\* A new record draws any identifier that is not in use.
Get(h) ==
    /\ held[h] = NoId
    /\ \E id \in Ids \ InUse : held' = [held EXCEPT ![h] = id]

\* A destroyed record gives its identifier back.
Return(h) ==
    /\ held[h] # NoId
    /\ held' = [held EXCEPT ![h] = NoId]

Next == \E h \in Holders : Get(h) \/ Return(h)

Spec == Init /\ [][Next]_held
=============================================================================
