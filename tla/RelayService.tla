---------------------------- MODULE RelayService ----------------------------
(***************************************************************************)
(* What dnrd does for its clients, without servers, sockets or time: a     *)
(* table of the requests that are being forwarded, by their DNS id, and    *)
(* the answers sent.  A request is waiting, or a server already refused it *)
(* while others may still answer, or it was answered and its entry stays   *)
(* until the other servers are done.                                       *)
(***************************************************************************)
CONSTANTS
    Clients,
    DnsIds,
    Nothing     \* no datagram

VARIABLES
    table,      \* table[id] for the ids being forwarded: client and state
    out         \* <<client, id>> of the datagram the last step sent

State == {"waiting", "refused", "answered"}

Init == table = <<>> /\ out = Nothing

Set(id, client, state) ==
    table' = [x \in DOMAIN table \cup {id} |->
                IF x = id THEN [client |-> client, state |-> state] ELSE table[x]]

Drop(id) == table' = [x \in DOMAIN table \ {id} |-> table[x]]

Tell(id) == out' = <<table[id].client, id>>

\* A request that is in the table already adds nothing.
Accept(id, client) ==
    /\ id \notin DOMAIN table
    /\ Set(id, client, "waiting")
    /\ out' = Nothing

Refuse(id) ==
    /\ id \in DOMAIN table /\ table[id].state = "waiting"
    /\ Set(id, table[id].client, "refused")
    /\ out' = Nothing

\* An answer goes to the client of the entry, once.
Reply(id) ==
    /\ id \in DOMAIN table /\ table[id].state # "answered"
    /\ Set(id, table[id].client, "answered") \/ Drop(id)
    /\ Tell(id)

\* An entry goes without an answer: it had one, or nobody answers.
Forget(id) ==
    /\ id \in DOMAIN table
    /\ Drop(id)
    /\ out' = Nothing

\* An answer from the master records or the cache, or a server failure.
ReplyLocally(id, client) ==
    /\ out' = <<client, id>>
    /\ UNCHANGED table

Quiet == out' = Nothing /\ UNCHANGED table

Next ==
    \/ \E id \in DnsIds :
          \/ \E client \in Clients : Accept(id, client) \/ ReplyLocally(id, client)
          \/ Refuse(id) \/ Reply(id) \/ Forget(id)
    \/ Quiet

Spec == Init /\ [][Next]_<<table, out>>
=============================================================================
