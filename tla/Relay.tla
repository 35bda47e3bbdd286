------------------------------- MODULE Relay --------------------------------
(***************************************************************************)
(* The forwarding core of dnrd: the select loop of src/relay.c, the packet *)
(* handlers of src/udp.c, the query list of src/query.c and the server     *)
(* lists of src/infnode.c, which all work on the same global state.  The   *)
(* daemon is one process; what is interleaved is the daemon with its       *)
(* clients, the upstream servers, the network and the clock.               *)
(*                                                                         *)
(* Times are kept as ages (now - t), saturated at the largest value the    *)
(* code distinguishes; an unset time (0 in the code) is Never.             *)
(***************************************************************************)
EXTENDS Integers, Sequences, FiniteSets, FiniteSetsExt

CONSTANTS
    NInf,               \* number of entries of inf_list after its head
    InfOf,              \* InfOf[s]: the interface whose srvlist holds server s
    ForwardTimeout,     \* forward_timeout (-t), 0 turns deactivation off
    ReactivateInterval, \* reactivate_interval (-r)
    MaxSockets,         \* max_sockets (-M)
    FirstFd,            \* the lowest descriptor free for upstream sockets: 0 in
                        \* a daemon, which closed stdin; more with -d
    MaxFd,              \* descriptors the process may open for upstream sockets
    Clients,            \* hosts that send requests
    Questions,          \* <<client, DNS id>> of the requests they may send
    ProbeIds,           \* DNS ids the reactivation probes carry
    Collisions,         \* ids of clients' requests that a probe may hit on
    Routes,             \* sets of interfaces that -H and -D select for a host
    Flaky,              \* servers for which sendto() may fail
    ReplyKinds,         \* "ok": rcode 0, "fail": other rcode, "bad": malformed
    Signals,            \* whether signals arrive
    MaxSent,            \* bound: a query with as many sends is not sent again
    MaxFlight,          \* bound: packets the network holds for one socket
    Nothing             \* no value: no client, no server, no datagram

Servers == DOMAIN InfOf
Infs == 1 .. NInf
Head0 == 0              \* the head of inf_list, whose srvlist has no server
Fds == FirstFd .. FirstFd + MaxFd - 1
isock == FirstFd + MaxFd    \* the descriptor the clients' requests arrive at
Never == -1

ASSUME RelayAssumption ==
    /\ NInf \in Nat \ {0}
    /\ InfOf \in Seq(1 .. NInf)
    /\ \A i \in 1 .. NInf : \E s \in DOMAIN InfOf : InfOf[s] = i
    /\ ForwardTimeout \in Nat
    /\ ReactivateInterval \in Nat \ {0}
    /\ MaxSockets \in Nat /\ FirstFd \in Nat /\ MaxFd \in Nat
    /\ Questions \subseteq Clients \X Nat /\ ProbeIds \subseteq Nat /\ Collisions \subseteq Nat
    /\ Routes \subseteq SUBSET (1 .. NInf)
    /\ Flaky \subseteq DOMAIN InfOf
    /\ ReplyKinds \subseteq {"ok", "fail", "bad"}
    /\ Signals \in BOOLEAN
    /\ MaxSent \in Nat /\ MaxFlight \in Nat
    /\ Nothing \notin Clients /\ Nothing \notin Nat

VARIABLES
    pc,             \* where run() stands
    fdread,         \* the descriptors pselect() reported in this round
    intr,           \* pselect() was interrupted by a signal
    at,             \* <<p, c>>: loop position, element after the p-th, socket c
    todo,           \* servers retry_srvlist() still has to probe
    qlist,          \* the query list
    fdmaster,       \* the descriptors given to pselect()
    upstream_sockets,
    inactive,       \* inactive[s]: age of the deactivation, Never if active
    send_time,      \* send_time[s]: age of the oldest unanswered send
    current,        \* current[i]: the server interface i forwards to
    react_try,      \* age of last_try in reactivate_servers()
    deact_try,      \* age of last_try in deactivate_servers()
    flight,         \* flight[f]: requests sent from socket f, answer pending
    rx,             \* rx[f]: datagrams waiting in the receive queue of f
    sent            \* the datagram the last step sent to a client

servervars == <<inactive, send_time, current>>
queryvars == <<qlist, fdmaster, upstream_sockets>>
netvars == <<flight, rx>>
loopvars == <<fdread, intr, at, todo, react_try, deact_try>>
vars == <<pc, loopvars, queryvars, servervars, netvars, sent>>

-----------------------------------------------------------------------------
(* Types *)

About == Clients \cup {Nothing}     \* whose question; Nothing: a probe's
Request == [srv : Servers, about : About]
Reply == [srv : Servers, about : About, kind : {"ok", "fail", "bad"}]
Answer == [to : About, id : Nat, about : About, sock : Fds \cup {isock}]

\* The value that stands for no datagram is none.
ASSUME NothingAssumption == Nothing \notin Answer

Query == [is_dummy : BOOLEAN,
          sock_arr : [1 .. 1 -> Fds] \cup [1 .. 3 -> Fds],
          client : About,
          client_qid : Nat,
          client_time : Nat,            \* its age
          ttl : Nat,
          serv_sent_cnt : Int,
          cached_fail_msg : {<<>>} \cup {<<a>> : a \in About},
          resp_sent : BOOLEAN,
          srv_list : [1 .. 3 -> Servers \cup {Nothing}]]

Age == Nat \cup {Never}

TypeOK ==
    /\ pc \in {"select", "reactivate", "probe", "replies", "request", "timeout",
              "crashed"}
    /\ fdread \subseteq Fds \cup {isock}
    /\ intr \in BOOLEAN
    /\ at \in Nat \X (1 .. 3)
    /\ todo \subseteq Servers
    /\ qlist \in Seq(Query)
    /\ fdmaster \subseteq Fds \cup {isock}
    /\ upstream_sockets \in Int
    /\ inactive \in [Servers -> Age]
    /\ send_time \in [Servers -> Age]
    /\ current \in [Infs -> Servers \cup {Nothing}]
    /\ react_try \in Age /\ deact_try \in Age
    /\ flight \in [Fds -> Seq(Request)]
    /\ rx \in [Fds -> Seq(Reply)]
    /\ sent \in Answer \cup {Nothing}

-----------------------------------------------------------------------------
(* Server lists *)

\* The active servers of interface i, given the deactivation ages.
ActiveOn(i, ina) == {s \in Servers : InfOf[s] = i /\ ina[s] = Never}

\* How many servers a walk of the circular list from start passes before s;
\* Head0, the sentinel of the list, is before the first server.
Steps(start, s) == IF s >= start THEN s - start ELSE s - start + Cardinality(Servers)

FirstFrom(start, S) ==
    IF S = {} THEN Nothing
    ELSE CHOOSE s \in S : \A t \in S : Steps(start, s) <= Steps(start, t)

\* A slip: the head of the list comes back when no server is active.
next_activeOrHead(i, start, ina) ==
    IF ActiveOn(i, ina) = {} THEN Head0 ELSE FirstFrom(start, ActiveOn(i, ina))

\* next_active(): start is the sentinel or a server deactivated just before.
next_active(i, start, ina) == FirstFrom(start, ActiveOn(i, ina))

Deactivated(ina, S) == [s \in Servers |-> IF s \in S THEN 0 ELSE ina[s]]
Cleared(age, S) == [s \in Servers |-> IF s \in S THEN Never ELSE age[s]]

\* udp_send() sets send_time only when no earlier send is unanswered.
Sending(age, S) ==
    [s \in Servers |-> IF s \in S /\ age[s] = Never THEN 0 ELSE age[s]]

-----------------------------------------------------------------------------
(* The query list *)

Socks(q) == {q.sock_arr[c] : c \in DOMAIN q.sock_arr}

\* qlist without its j-th element.
Without(s, j) == [k \in 1 .. Len(s) - 1 |-> IF k < j THEN s[k] ELSE s[k + 1]]

\* Slips: three sockets are uncounted for every query; the sockets are used
\* again without being emptied; the last query of the list is not found.
DestroyThree(ql, fds, socks, j) ==
    LET gone == Socks(ql[j]) IN
    /\ qlist' = Without(ql, j)
    /\ fdmaster' = fds \ gone
    /\ upstream_sockets' = socks - 3
    /\ flight' = [f \in Fds |-> IF f \in gone THEN <<>> ELSE flight[f]]
    /\ rx' = [f \in Fds |-> IF f \in gone THEN <<>> ELSE rx[f]]

DestroyRecycled(ql, fds, socks, j) ==
    LET gone == Socks(ql[j]) IN
    /\ qlist' = Without(ql, j)
    /\ fdmaster' = fds \ gone
    /\ upstream_sockets' = socks - Len(ql[j].sock_arr)
    /\ UNCHANGED <<flight, rx>>

DestroyButLast(ql, fds, socks, j) ==
    LET gone == IF j = Len(ql) THEN {} ELSE Socks(ql[j]) IN
    /\ qlist' = IF gone = {} THEN ql ELSE Without(ql, j)
    /\ fdmaster' = fds \ gone
    /\ upstream_sockets' = socks - Cardinality(gone)
    /\ flight' = [f \in Fds |-> IF f \in gone THEN <<>> ELSE flight[f]]
    /\ rx' = [f \in Fds |-> IF f \in gone THEN <<>> ELSE rx[f]]

\* query_delete_next() and query_destroy() of the j-th element of ql: the
\* sockets are closed, what was on its way to them is lost.
Destroy(ql, fds, socks, j) ==
    LET gone == Socks(ql[j]) IN
    /\ qlist' = Without(ql, j)
    /\ fdmaster' = fds \ gone
    /\ upstream_sockets' = socks - Len(ql[j].sock_arr)
    /\ flight' = [f \in Fds |-> IF f \in gone THEN <<>> ELSE flight[f]]
    /\ rx' = [f \in Fds |-> IF f \in gone THEN <<>> ELSE rx[f]]

FreeFds == Fds \ fdmaster

\* socket() returns the lowest free descriptor.
LowestFree(n) ==
    LET f1 == Min(FreeFds)
        f2 == Min(FreeFds \ {f1})
        f3 == Min(FreeFds \ {f1, f2})
    IN  IF n = 1 THEN <<f1>> ELSE <<f1, f2, f3>>

SocketsOf(dummy) == IF dummy THEN 1 ELSE 3

NewQuery(dummy, client, id) ==
    [is_dummy |-> dummy, sock_arr |-> LowestFree(SocketsOf(dummy)),
     client |-> client, client_qid |-> id, client_time |-> 0,
     ttl |-> IF dummy THEN ReactivateInterval ELSE ForwardTimeout,
     serv_sent_cnt |-> 0, cached_fail_msg |-> <<>>, resp_sent |-> FALSE,
     srv_list |-> [c \in 1 .. 3 |-> Nothing]]

\* A slip: the probes' queries are not looked at.
RepeatsOfRequests(id) ==
    {j \in 1 .. Len(qlist) : qlist[j].client_qid = id /\ ~qlist[j].is_dummy}

\* The list positions query_add() takes for a repetition: it compares ids only.
Repeats(id) == {j \in 1 .. Len(qlist) : qlist[j].client_qid = id}

\* A slip: the limit is off by one.
LimitPassed == upstream_sockets > MaxSockets

LimitReached == upstream_sockets >= MaxSockets

\* A slip: the sockets left open are not counted.
CreateRefusedUncounted(dummy) ==
    \/ LimitReached /\ UNCHANGED <<fdmaster, upstream_sockets>>
    \/ /\ ~LimitReached
       /\ Cardinality(FreeFds) < SocketsOf(dummy)
       /\ fdmaster' = fdmaster \cup FreeFds
       /\ UNCHANGED upstream_sockets

\* query_create() gives up: at the limit, or when socket() fails, in which
\* case the sockets it opened before stay open, counted and in fdmaster.
CreateRefused(dummy) ==
    \/ LimitReached /\ UNCHANGED <<fdmaster, upstream_sockets>>
    \/ /\ ~LimitReached
       /\ Cardinality(FreeFds) < SocketsOf(dummy)
       /\ fdmaster' = fdmaster \cup FreeFds
       /\ upstream_sockets' = upstream_sockets + Cardinality(FreeFds)

CreateAllowed(dummy) ==
    ~LimitReached /\ Cardinality(FreeFds) >= SocketsOf(dummy)

-----------------------------------------------------------------------------
(* One round of run(): pselect(), then the servers, the replies, a request *)
(* and the expired queries                                                 *)

Init ==
    /\ pc = "select" /\ fdread = {} /\ intr = FALSE /\ at = <<0, 1>> /\ todo = {}
    /\ qlist = <<>> /\ fdmaster = {isock} /\ upstream_sockets = 0
    /\ inactive = [s \in Servers |-> Never]
    /\ send_time = [s \in Servers |-> Never]
    /\ current = [i \in Infs |-> next_active(i, Head0, inactive)]
    /\ react_try = Never /\ deact_try = Never
    /\ flight = [f \in Fds |-> <<>>] /\ rx = [f \in Fds |-> <<>>]
    /\ sent = Nothing

\* The sockets with a reply are readable; a request may be waiting as well.
\* With neither, pselect() ends at its timeout.
Select ==
    /\ pc = "select"
    /\ \E requests \in SUBSET {isock} :
          fdread' = requests \cup {f \in fdmaster \ {isock} : rx[f] # <<>>}
    /\ pc' = "reactivate"
    /\ sent' = Nothing
    /\ UNCHANGED <<intr, at, todo, react_try, deact_try, queryvars, servervars, netvars>>

\* pselect() returns -1/EINTR: only the server maintenance runs.
Interrupt ==
    /\ pc = "select" /\ Signals
    /\ intr' = TRUE
    /\ pc' = "reactivate"
    /\ sent' = Nothing
    /\ UNCHANGED <<fdread, at, todo, react_try, deact_try, queryvars, servervars, netvars>>

\* reactivate_servers(): the gate, and the servers retry_srvlist() will probe.
reactivate_servers ==
    /\ pc = "reactivate"
    /\ IF react_try >= ReactivateInterval
       THEN /\ react_try' = 0
            /\ todo' = {s \in Servers : inactive[s] >= ReactivateInterval}
       ELSE /\ react_try' = IF react_try = Never THEN 0 ELSE react_try
            /\ UNCHANGED todo
    /\ pc' = "probe"
    /\ sent' = Nothing
    /\ UNCHANGED <<fdread, intr, at, deact_try, queryvars, servervars, netvars>>

\* The network keeps request m for socket f, or loses it when it is full.
Carry(f, m) == IF Len(flight[f]) < MaxFlight THEN Append(flight[f], m) ELSE flight[f]

\* udp_send() of a probe to s over socket f; it may fail for a flaky server.
SendProbe(s, f) ==
    \/ /\ flight' = [flight EXCEPT ![f] = Carry(f, [srv |-> s, about |-> Nothing])]
       /\ send_time' = Sending(send_time, {s})
    \/ s \in Flaky /\ UNCHANGED <<flight, send_time>>

\* retry_srvlist() for the next due server: udp_send_dummy() adds a query with
\* an arbitrary id, the successor of the last probe's my_qid.  Ids that nothing
\* in the list has are all alike; one that is in the list, or that a client
\* will use (Collisions), makes the probe and a client's query one.
UsedIds == {qlist[j].client_qid : j \in DOMAIN qlist}
UnusedId ==
    {id \in ProbeIds \ UsedIds : \A other \in ProbeIds \ UsedIds : id <= other}

retry_srvlist ==
    /\ pc = "probe" /\ todo # {}
    /\ LET s == Min(todo) IN
       /\ todo' = todo \ {s}
       /\ inactive' = Deactivated(inactive, {s})
       /\ \E id \in UnusedId \cup Collisions :
          \/ /\ Repeats(id) # {}
             /\ LET j == Min(Repeats(id)) IN
                /\ qlist' = [qlist EXCEPT ![j].client_time = 0,
                                          ![j].ttl = ReactivateInterval]
                /\ SendProbe(s, qlist[j].sock_arr[1])
             /\ UNCHANGED <<fdmaster, upstream_sockets>>
          \/ /\ Repeats(id) = {} /\ CreateAllowed(TRUE)
             /\ LET q == NewQuery(TRUE, Nothing, id) IN
                /\ qlist' = Append(qlist, q)
                /\ fdmaster' = fdmaster \cup Socks(q)
                /\ upstream_sockets' = upstream_sockets + 1
                /\ SendProbe(s, q.sock_arr[1])
          \/ /\ Repeats(id) = {} /\ CreateRefused(TRUE)
             /\ UNCHANGED <<qlist, flight, send_time>>
    /\ sent' = Nothing
    /\ UNCHANGED <<pc, fdread, intr, at, react_try, deact_try, current, rx>>

\* Slips: one second too early; the interfaces keep their current server; the
\* first call does not start the clock.
OverdueAtOnce == {s \in Servers : inactive[s] = Never /\ send_time[s] >= ForwardTimeout}

DeactivateOnly ==
    IF deact_try >= 1
    THEN /\ deact_try' = 0
         /\ inactive' = Deactivated(inactive,
                {s \in Servers : inactive[s] = Never /\ send_time[s] > ForwardTimeout})
         /\ UNCHANGED current
    ELSE /\ deact_try' = IF deact_try = Never THEN 0 ELSE deact_try
         /\ UNCHANGED <<inactive, current>>

DeactivateUnstarted ==
    IF deact_try >= 1
    THEN LET late == {s \in Servers : inactive[s] = Never /\ send_time[s] > ForwardTimeout} IN
         /\ deact_try' = 0
         /\ inactive' = Deactivated(inactive, late)
         /\ current' = [i \in Infs |->
                IF current[i] \in late
                THEN next_active(i, current[i], Deactivated(inactive, late))
                ELSE current[i]]
    ELSE UNCHANGED <<deact_try, inactive, current>>

\* deactivate_servers(1): every active server whose oldest send is overdue; the
\* interfaces whose current server is among them move on to the next one left.
Overdue == {s \in Servers : inactive[s] = Never /\ send_time[s] > ForwardTimeout}

Deactivate ==
    IF deact_try >= 1
    THEN LET ina == Deactivated(inactive, Overdue) IN
         /\ deact_try' = 0
         /\ inactive' = ina
         /\ current' = [i \in Infs |->
                IF current[i] \in Overdue THEN next_active(i, current[i], ina)
                ELSE current[i]]
    ELSE /\ deact_try' = IF deact_try = Never THEN 0 ELSE deact_try
         /\ UNCHANGED <<inactive, current>>

deactivate_servers ==
    /\ pc = "probe" /\ todo = {}
    /\ IF ForwardTimeout # 0 THEN Deactivate
       ELSE UNCHANGED <<deact_try, inactive, current>>
    /\ pc' = IF intr THEN "select" ELSE IF fdread = {} THEN "timeout" ELSE "replies"
    /\ intr' = FALSE
    /\ sent' = Nothing
    /\ UNCHANGED <<fdread, at, todo, react_try, queryvars, send_time, netvars>>

(* The reply loop of run().  at = <<p, c>> says that the elements up to the *)
(* p-th are done, and of the next one the sockets before c.                 *)

Earlier(x, y) == x[1] < y[1] \/ (x[1] = y[1] /\ x[2] <= y[2])

\* The sockets the scan still reaches.
Readable ==
    {x \in (0 .. Len(qlist) - 1) \X (1 .. 3) :
        /\ x[2] \in DOMAIN qlist[x[1] + 1].sock_arr
        /\ qlist[x[1] + 1].sock_arr[x[2]] \in fdread
        /\ Earlier(at, x)}

\* Where the scan goes after <<p, c>>, with ql the list it left.  When the last
\* element was deleted, q->next is the list head, which has the descriptor 0
\* three times: the scan goes on there if 0 is readable, and then starts all over.
ScanAfter(p, c, ql) ==
    IF p = Len(ql) THEN IF c < 3 /\ 0 \in fdread THEN <<p, c + 1>> ELSE <<0, 1>>
    ELSE IF ql[p + 1].is_dummy \/ c = 3 THEN <<p + 1, 1>>
    ELSE <<p, c + 1>>

AtHead == at[1] = Len(qlist) /\ at[2] > 1

\* The query's client is still to be told.  Two slips: answering twice, and
\* answering the probes.
UnansweredOrNot(q) == ~q.is_dummy
UnansweredOrProbe(q) == ~q.resp_sent
Unanswered(q) == ~q.is_dummy /\ ~q.resp_sent

\* The servers a reply proves alive: its sender and, once it is the last of its
\* query, all that were asked.  A slip: the sender is forgotten.
HeardNobody(m) == {}
Heard(m) == {m.srv}
Listed(q) == {s \in Servers : \E c \in 1 .. 3 : q.srv_list[c] = s}

\* udp_handle_reply(): reads one datagram from socket c of the j-th query.
\* With nothing to read (recvmsg() fails) it counts one server less, like for
\* a malformed reply.
udp_handle_reply ==
    /\ pc = "replies" /\ Readable # {}
    /\ LET x == CHOOSE x \in Readable : \A y \in Readable : Earlier(x, y)
           j == x[1] + 1
           q == qlist[j]
           f == q.sock_arr[x[2]]
           got == rx[f] # <<>>
           m == Head(rx[f])
           good == got /\ m.kind # "bad"
           last == q.serv_sent_cnt = 1
           open == good /\ Unanswered(q)
           answer == open /\ (m.kind = "ok" \/ last)
           keep == open /\ ~answer /\ q.cached_fail_msg = <<>>
           alive == (IF got THEN Heard(m) ELSE {})
                    \cup (IF good /\ last THEN Listed(q) ELSE {})
       IN
       /\ inactive' = Cleared(inactive, alive)
       /\ send_time' = Cleared(send_time, alive)
       /\ sent' = IF answer
                  THEN [to |-> q.client, id |-> q.client_qid, about |-> m.about,
                        sock |-> q.sock_arr[1]]
                  ELSE Nothing
       /\ IF last
          THEN Destroy(qlist, fdmaster, upstream_sockets, j)
          ELSE /\ qlist' = [qlist EXCEPT ![j] =
                     [q EXCEPT !.serv_sent_cnt = @ - 1,
                               !.resp_sent = @ \/ answer,
                               !.cached_fail_msg = IF keep THEN <<m.about>> ELSE @]]
               /\ rx' = [rx EXCEPT ![f] = IF got THEN Tail(@) ELSE @]
               /\ UNCHANGED <<fdmaster, upstream_sockets, flight>>
       /\ at' = ScanAfter(x[1], x[2], qlist')
    /\ UNCHANGED <<pc, fdread, intr, todo, react_try, deact_try, current>>

\* udp_handle_reply() for the list head, with q->srv a null pointer: it is
\* dereferenced for the log when there is nothing to read from descriptor 0, or
\* a malformed reply.  A good one is read from the query that owns descriptor 0.
HandleListHead ==
    /\ pc = "replies" /\ AtHead
    /\ IF rx[0] = <<>> \/ Head(rx[0]).kind = "bad"
       THEN pc' = "crashed" /\ UNCHANGED <<at, inactive, send_time, rx>>
       ELSE /\ inactive' = Cleared(inactive, Heard(Head(rx[0])))
            /\ send_time' = Cleared(send_time, Heard(Head(rx[0])))
            /\ rx' = [rx EXCEPT ![0] = Tail(@)]
            /\ at' = ScanAfter(at[1], at[2], qlist)
            /\ UNCHANGED pc
    /\ sent' = Nothing
    /\ UNCHANGED <<fdread, intr, todo, react_try, deact_try, queryvars, current, flight>>

RepliesDone ==
    /\ pc = "replies" /\ Readable = {} /\ ~AtHead
    /\ pc' = IF isock \in fdread THEN "request" ELSE "timeout"
    /\ at' = <<0, 1>> /\ fdread' = {}
    /\ sent' = Nothing
    /\ UNCHANGED <<intr, todo, react_try, deact_try, queryvars, servervars, netvars>>

-----------------------------------------------------------------------------
(* udp_handle_request() *)

\* The request is malformed, or handle_query() finds it bogus: no answer.
IgnoreRequest ==
    /\ pc = "request"
    /\ pc' = "timeout"
    /\ sent' = Nothing
    /\ UNCHANGED <<loopvars, queryvars, servervars, netvars>>

LocalAnswer(client, id) ==
    [to |-> client, id |-> id, about |-> client, sock |-> isock]

\* The master records or the cache hold the answer.
AnswerLocally ==
    /\ pc = "request"
    /\ \E x \in Questions : sent' = LocalAnswer(x[1], x[2])
    /\ pc' = "timeout"
    /\ UNCHANGED <<loopvars, queryvars, servervars, netvars>>

(* handle_query(): the first interface with an active server takes the      *)
(* query, its current server becomes the first active one; the interfaces   *)
(* before it have none.  Without any, the loop ends at the head of the list.*)
ChosenInf ==
    LET withActive == {i \in Infs : ActiveOn(i, inactive) # {}} IN
    IF withActive = {} THEN Head0 ELSE Min(withActive)

FirstActive == next_active(ChosenInf, Head0, inactive)

\* The chosen server did not answer for too long: deactivate_current().
Stale ==
    /\ ChosenInf # Head0
    /\ ForwardTimeout # 0 /\ send_time[FirstActive] > ForwardTimeout

InactiveAtChoice ==
    IF Stale THEN Deactivated(inactive, {FirstActive}) ELSE inactive

CurrentAtChoice ==
    [i \in Infs |->
        IF i = ChosenInf
        THEN IF Stale THEN next_active(i, FirstActive, InactiveAtChoice)
             ELSE FirstActive
        ELSE IF ChosenInf = Head0 \/ i < ChosenInf THEN Nothing
        ELSE current[i]]

\* The head's current is its sentinel and never NULL, so that with every server
\* inactive the query is forwarded, to nobody.
NoCurrent == ChosenInf # Head0 /\ CurrentAtChoice[ChosenInf] = Nothing

ReplyServerFailure(client, id) ==
    /\ NoCurrent
    /\ inactive' = InactiveAtChoice
    /\ current' = CurrentAtChoice
    /\ sent' = LocalAnswer(client, id)
    /\ UNCHANGED <<queryvars, send_time, netvars>>

(* send2current(): one send for each of the first three interfaces of the   *)
(* route (of the first one for a probe's query), each to the current server *)
(* or, while sendto() fails, to the next active one, deactivating it.       *)
Slot(route, i) == Cardinality({k \in route : k <= i})
Used(route, q) == {i \in route : Slot(route, i) <= SocketsOf(q.is_dummy)}

\* The interface send2current() looks at for its return value.
InfAfter(route, q) ==
    IF Cardinality(Used(route, q)) < SocketsOf(q.is_dummy)
       \/ Max(Used(route, q)) = NInf
    THEN Head0
    ELSE Max(Used(route, q)) + 1

\* Which server interface i gets the query to, bad being those sendto() fails
\* for, and which servers it gave up on before.
SendsTo(i, bad) ==
    IF CurrentAtChoice[i] = Nothing THEN Nothing
    ELSE FirstFrom(CurrentAtChoice[i], ActiveOn(i, InactiveAtChoice) \ bad)

GivesUpOn(i, bad) ==
    IF CurrentAtChoice[i] = Nothing THEN {}
    ELSE {s \in ActiveOn(i, InactiveAtChoice) :
            SendsTo(i, bad) # Nothing =>
                Steps(CurrentAtChoice[i], s) <
                Steps(CurrentAtChoice[i], SendsTo(i, bad))}

\* master_dontknow() makes no packet for an unusual request, then the query
\* stays although send2current() reported a failure.
send2current(ql, fds, socks, j, client) ==
    \E route \in Routes, bad \in SUBSET Flaky :
    LET q == ql[j]
        used == Used(route, q)
        to == [i \in used |-> SendsTo(i, bad)]
        cur == [i \in Infs |-> IF i \in used THEN to[i] ELSE CurrentAtChoice[i]]
        sentBy(c) == {i \in used : Slot(route, i) = c /\ to[i] # Nothing}
        over(f) == {i \in used : q.sock_arr[Slot(route, i)] = f /\ to[i] # Nothing}
        failed == InfAfter(route, q) # Head0 /\ cur[InfAfter(route, q)] = Nothing
    IN
    /\ inactive' = Deactivated(InactiveAtChoice, UNION {GivesUpOn(i, bad) : i \in used})
    /\ current' = cur
    /\ send_time' = Sending(send_time, {to[i] : i \in used})
    /\ \/ failed /\ Destroy(ql, fds, socks, j)
       \/ /\ qlist' = [ql EXCEPT ![j] =
                [q EXCEPT !.serv_sent_cnt = @ + Cardinality(used),
                          !.srv_list = [c \in 1 .. 3 |->
                              IF sentBy(c) = {} THEN @[c]
                              ELSE to[CHOOSE i \in sentBy(c) : TRUE]]]]
          /\ flight' = [f \in Fds |->
                IF over(f) = {} THEN flight[f]
                ELSE Carry(f, [srv |-> to[CHOOSE i \in over(f) : TRUE],
                               about |-> client])]
          /\ fdmaster' = fds
          /\ upstream_sockets' = socks
          /\ UNCHANGED rx

\* The request is a repetition for query_add(): the query in the list is sent
\* once more, whoever asked it.
ForwardRepetition(client, id) ==
    /\ ~NoCurrent /\ Repeats(id) # {}
    /\ LET j == Min(Repeats(id)) IN
       /\ qlist[j].serv_sent_cnt < MaxSent
       /\ send2current([qlist EXCEPT ![j].client_time = 0],
                       fdmaster, upstream_sockets, j, client)
    /\ sent' = Nothing

ForwardNew(client, id) ==
    /\ ~NoCurrent /\ Repeats(id) = {} /\ CreateAllowed(FALSE)
    /\ LET q == NewQuery(FALSE, client, id) IN
       send2current(Append(qlist, q), fdmaster \cup Socks(q),
                    upstream_sockets + 3, Len(qlist) + 1, client)
    /\ sent' = Nothing

DropNew(id) ==
    /\ ~NoCurrent /\ Repeats(id) = {} /\ CreateRefused(FALSE)
    /\ inactive' = InactiveAtChoice
    /\ current' = CurrentAtChoice
    /\ sent' = Nothing
    /\ UNCHANGED <<qlist, send_time, netvars>>

udp_handle_request ==
    /\ pc = "request"
    /\ \E x \in Questions :
          \/ ReplyServerFailure(x[1], x[2])
          \/ ForwardRepetition(x[1], x[2])
          \/ ForwardNew(x[1], x[2])
          \/ DropNew(x[2])
    /\ pc' = "timeout"
    /\ UNCHANGED loopvars

-----------------------------------------------------------------------------
(* query_timeout() *)

\* A slip: the probes never expire.
ExpiredRequests ==
    {j \in at[1] + 1 .. Len(qlist) :
        qlist[j].client_time > qlist[j].ttl /\ ~qlist[j].is_dummy}

Expired == {j \in at[1] + 1 .. Len(qlist) : qlist[j].client_time > qlist[j].ttl}

\* The first expired query from the loop position on is deleted, a failure
\* that was kept for it is sent.  q = q->next skips the element after it, and
\* starts all over when it was the last one.
query_timeout ==
    /\ pc = "timeout" /\ Expired # {}
    /\ LET j == Min(Expired)
           q == qlist[j]
       IN  /\ sent' = IF q.cached_fail_msg # <<>> /\ ~q.resp_sent
                      THEN [to |-> q.client, id |-> q.client_qid,
                            about |-> q.cached_fail_msg[1], sock |-> q.sock_arr[1]]
                      ELSE Nothing
           /\ Destroy(qlist, fdmaster, upstream_sockets, j)
           /\ at' = IF j = Len(qlist) THEN <<0, 1>> ELSE <<j, 1>>
    /\ UNCHANGED <<pc, fdread, intr, todo, react_try, deact_try, servervars>>

RoundDone ==
    /\ pc = "timeout" /\ Expired = {}
    /\ pc' = "select" /\ at' = <<0, 1>>
    /\ sent' = Nothing
    /\ UNCHANGED <<fdread, intr, todo, react_try, deact_try, queryvars, servervars, netvars>>

-----------------------------------------------------------------------------
(* The environment *)

\* A server's reply to the k-th pending request of socket f arrives.  Replies
\* may be reordered, and one that never arrives was lost.  An arrival while
\* the daemon is neither waiting nor reading replies is one before the next
\* pselect().
ReplyArrives(f, k) ==
    /\ pc \in {"select", "replies"}
    /\ k \in DOMAIN flight[f]
    /\ Len(rx[f]) < MaxFlight
    /\ \A j \in DOMAIN qlist : f \in Socks(qlist[j]) => qlist[j].serv_sent_cnt > -MaxSent
    /\ \E kind \in ReplyKinds :
          rx' = [rx EXCEPT ![f] = Append(@, [srv |-> flight[f][k].srv,
                     about |-> flight[f][k].about, kind |-> kind])]
    /\ flight' = [flight EXCEPT ![f] = Without(@, k)]
    /\ sent' = Nothing
    /\ UNCHANGED <<pc, loopvars, queryvars, servervars>>

\* A second passes.  A tick right after pselect() is one right before it, and
\* within retry_srvlist() and query_timeout() the clock is read once.  Nothing
\* blocks outside pselect(): the rest of a round takes less than a second, and
\* the clock ticks at most once after deactivate_servers() looked at it.
Older(age, cap) == IF age = Never \/ age >= cap THEN age ELSE age + 1

Tick ==
    /\ pc = "select" \/ (pc \in {"replies", "request"} /\ deact_try = 0)
    /\ inactive' = [s \in Servers |-> Older(inactive[s], ReactivateInterval)]
    /\ send_time' = [s \in Servers |-> Older(send_time[s], ForwardTimeout + 1)]
    /\ react_try' = Older(react_try, ReactivateInterval)
    /\ deact_try' = Older(deact_try, 1)
    /\ qlist' = [j \in DOMAIN qlist |->
         [qlist[j] EXCEPT !.client_time = Older(@, qlist[j].ttl + 1)]]
    /\ sent' = Nothing
    /\ UNCHANGED <<pc, fdread, intr, at, todo, fdmaster, upstream_sockets,
                   current, netvars>>

-----------------------------------------------------------------------------
(* Specification *)

\* The steps of run() after pselect(); each is finite work.
Round ==
    \/ reactivate_servers \/ retry_srvlist \/ deactivate_servers
    \/ udp_handle_reply \/ HandleListHead \/ RepliesDone
    \/ IgnoreRequest \/ AnswerLocally \/ udp_handle_request
    \/ query_timeout \/ RoundDone

Next ==
    \/ Select \/ Interrupt \/ Round
    \/ \E f \in Fds : \E k \in DOMAIN flight[f] : ReplyArrives(f, k)
    \/ Tick

Spec == Init /\ [][Next]_vars

\* A reply of server s arrives while the daemon waits in pselect().
ReplyFrom(s) ==
    /\ pc = "select"
    /\ \E f \in Fds : \E k \in DOMAIN flight[f] : flight[f][k].srv = s /\ ReplyArrives(f, k)

\* run() never stops in the middle of a round, the clock goes on, signals do
\* not interrupt every pselect(), and a server that is asked again and again
\* answers in time at last, unless it is flaky: its answer comes while the
\* daemon waits, where it spends its time.
FairSpec ==
    /\ Spec
    /\ WF_vars(Round) /\ SF_vars(Select) /\ SF_vars(Tick)
    /\ \A s \in Servers \ Flaky : SF_vars(ReplyFrom(s))

-----------------------------------------------------------------------------
(* Properties *)

\* The process may open all the sockets the limit of query_create() allows.
EnoughFds == MaxFd >= MaxSockets + 2

\* The counter that enforces -M is the number of descriptors in the select set,
\* each belongs to at most one query, and none is left behind unless socket()
\* fails: query_create() and query_destroy() agree on how many sockets a query
\* has, whichever path deletes it.
SocketsAccounted ==
    /\ UNION {Socks(qlist[j]) : j \in DOMAIN qlist} \subseteq fdmaster
    /\ EnoughFds => fdmaster = {isock} \cup UNION {Socks(qlist[j]) : j \in DOMAIN qlist}
    /\ \A j, k \in DOMAIN qlist : j # k => Socks(qlist[j]) \cap Socks(qlist[k]) = {}
    /\ upstream_sockets = Cardinality(fdmaster \ {isock})

\* The limit is tested before three sockets are opened.
SocketLimit == upstream_sockets <= MaxSockets + 2

\* No two queries in the list have the same client id: query_add() finds the
\* older one, even when reactivation probes with arbitrary ids are in between.
ClientIdsUnique ==
    \A j, k \in DOMAIN qlist :
        j # k => qlist[j].client_qid # qlist[k].client_qid

\* Queries go to the current server of an interface without a further look: it
\* is one of the interface's own and active, whichever of the four places that
\* deactivate servers ran last.
CurrentActive ==
    \A i \in Infs : current[i] # Nothing =>
        InfOf[current[i]] = i /\ inactive[current[i]] = Never

\* The servers retry_srvlist() still has to probe are inactive: nothing between
\* the walk over the lists and the sends makes one of them active.
ProbesDue ==
    /\ todo # {} => pc = "probe"
    /\ \A s \in todo : inactive[s] # Never

\* The inductive invariant of the proofs.
IInv == TypeOK /\ ProbesDue /\ CurrentActive /\ ClientIdsUnique /\ SocketLimit

\* What a client is sent answers a question it asked.
AnswersOwnQuestion == sent # Nothing => sent.about = sent.to

\* The list position of the query that owns socket f, as a set.
Owner(f) == {j \in DOMAIN qlist : f \in Socks(qlist[j])}

\* A step in which the query of socket f is asked once more.
Repeated(f) ==
    pc = "request" /\ \E j \in Owner(f) : qlist'[j].client_time = 0
        /\ qlist'[j].serv_sent_cnt > qlist[j].serv_sent_cnt

\* No query keeps its sockets for good, although query_timeout() skips elements
\* and signals skip query_timeout().  Only a client that repeats its request
\* for ever keeps its query.
QueriesEnd ==
    \A f \in Fds : []<>(Owner(f) = {}) \/ []<><<Repeated(f)>>_vars

\* A server that answers is not left out for good: as long as it is inactive it
\* is probed, and the reply to one of the probes makes it active.
ServersReturn == \A s \in Servers \ Flaky : []<>(inactive[s] = Never)

\* A server that does not answer a send is deactivated, or its timer was reset.
SilentDeactivated ==
    \A s \in Servers : send_time[s] # Never ~> (send_time[s] = Never \/ inactive[s] # Never)

\* Whatever the reply loop and query_timeout() delete under their own feet, a
\* round comes to an end.
RoundsEnd == []<>(pc = "select")

\* A server is deactivated only when a send to it went unanswered for more
\* than forward_timeout, or failed.
DeactivatedForSilence ==
    [][\A s \in Servers \ Flaky :
         inactive[s] = Never /\ inactive'[s] # Never => send_time[s] > ForwardTimeout]_vars

-----------------------------------------------------------------------------
(* Relay implements RelayService: the probes are invisible, a query of the  *)
(* list is an entry of the table.                                           *)

RealIds == {qlist[j].client_qid : j \in {k \in DOMAIN qlist : ~qlist[k].is_dummy}}
QueryOf(id) == qlist[CHOOSE j \in DOMAIN qlist : qlist[j].client_qid = id]

Entry(q) ==
    [client |-> q.client,
     state |-> IF q.resp_sent THEN "answered"
               ELSE IF q.cached_fail_msg # <<>> THEN "refused" ELSE "waiting"]

Service == INSTANCE RelayService WITH
    DnsIds <- {x[2] : x \in Questions},
    table <- [id \in RealIds |-> Entry(QueryOf(id))],
    out <- IF sent = Nothing THEN Nothing ELSE <<sent.to, sent.id>>

\* Whatever order replies, repetitions, probes and timeouts come in, a client
\* is answered once per entry, under its own id, and an entry that was
\* answered never goes back to waiting.
ImplementsService == Service!Spec

-----------------------------------------------------------------------------
(* What comments and the manual page say, and the code does not do          *)

\* relay.c, of run(): "This function runs continuously, waiting for packets to
\* arrive and processing them accordingly."
RunsContinuously == pc # "crashed"
=============================================================================
