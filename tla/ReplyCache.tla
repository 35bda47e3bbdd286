----------------------------- MODULE ReplyCache -----------------------------
(***************************************************************************)
(* The reply cache: src/cache.c, and the three places that call it, the    *)
(* lookup of handle_query, the store of udp_handle_reply and the expiry at *)
(* the end of each round of run().                                         *)
(*                                                                         *)
(* Entries are cells of a doubly linked list, in the order they came.      *)
(* cache_expire is a loop over the list that removes as it goes; one       *)
(* action here is one turn of it.  Times are ages, in any unit.            *)
(***************************************************************************)
EXTENDS Integers, Sequences, FiniteSets

CONSTANTS
    Cells,          \* memory for entries
    Keys,           \* <<name, type, class>> of the questions
    Srvs,           \* the servers an answer may be attributed to
    NegTime,        \* CACHE_NEGTIME
    PosTime,        \* CACHE_TIME
    MaxTime,        \* CACHE_MAXTIME
    MinCycle,       \* CACHE_MINCYCLE
    LowWater,       \* CACHE_LOWWATER
    HighWater,      \* CACHE_HIGHWATER
    Params,         \* values of --cache: <<>>, <<high>> or <<low, high>>
    IgnoreInactive, \* ignore_inactive_cache_hits (-i)
    RoundTime,      \* the longest time from one call of cache_expire to the next
    MaxAge,         \* bound: the ages of entries are told apart up to it
    Null

ASSUME CacheAssumption ==
    /\ IsFiniteSet(Cells)
    /\ NegTime \in Nat /\ PosTime \in Nat /\ MaxTime \in Nat
    /\ MinCycle \in Nat /\ RoundTime \in Nat \ {0} /\ MaxAge \in Nat
    /\ RoundTime <= NegTime /\ RoundTime <= PosTime /\ RoundTime <= MaxTime
    /\ LowWater \in Nat /\ HighWater \in Nat /\ LowWater <= HighWater
    /\ \A param \in Params :
          param \in Seq(Int) /\ Len(param) <= 2 /\ (Len(param) > 0 => param[1] >= 0)
    /\ IgnoreInactive \in BOOLEAN
    /\ Null \notin Cells /\ Null \notin Nat

VARIABLES
    mem,            \* mem[c]: the entry in cell c, Null if c is free
    next, prev,     \* the links of the entries
    cachelist,      \* the first entry
    lastcache,      \* the last entry
    marks,          \* <<cache_lowwater, cache_highwater>>
    inactive,       \* the servers that are deactivated
    pc,             \* "run", or where cache_expire stands: "walk" or "oldest"
    cx,             \* its loop variable
    total,          \* entries it has seen and not removed
    cv,             \* entries expire_oldest has yet to remove
    lastexpire,     \* age of the last expiry, Null before the first call
    round,          \* age of the last call of cache_expire
    reply           \* what the last step gave to handle_query

listvars == <<mem, next, prev, cachelist, lastcache>>
loopvars == <<pc, cx, total, cv, lastexpire>>
vars == <<listvars, marks, inactive, loopvars, round, reply>>

Entry == [key : Keys, positive : BOOLEAN, server : Srvs,
          created : Nat, lastused : Nat]

ASSUME EntryAssumption == Null \notin Entry

\* msg after cache_lookup, and its return value: whether msg is an answer.
Reply == [asked : Keys, entry : Entry, hit : BOOLEAN]

Pointers == [Cells -> Cells \cup {Null}]

TypeOK ==
    /\ mem \in [Cells -> Entry \cup {Null}]
    /\ next \in Pointers /\ prev \in Pointers
    /\ cachelist \in Cells \cup {Null} /\ lastcache \in Cells \cup {Null}
    /\ marks \in Nat \X Nat
    /\ inactive \subseteq Srvs
    /\ pc \in {"run", "walk", "oldest"}
    /\ cx \in Cells \cup {Null}
    /\ total \in Nat
    /\ cv \subseteq Cells
    /\ lastexpire \in Nat \cup {Null} /\ round \in Nat
    /\ reply \in Reply \cup {Null}

Live == {c \in Cells : mem[c] # Null}

\* Which cell malloc() returns, and in which order equally old entries are
\* freed, makes no difference.
Some(S) == CHOOSE c \in S : TRUE

-----------------------------------------------------------------------------
(* Start-up *)

\* A slip: one mark given alone leaves the other at its default.
MarksAsGiven(param) ==
    CASE Len(param) = 0 -> <<LowWater, HighWater>>
      [] Len(param) = 1 -> <<LowWater, param[1]>>
      [] Len(param) = 2 -> param

\* cache_init(): low is three quarters of high unless given, and when it is
\* above high; a negative high brings the defaults back.
ThreeQuarters(high) == (high * 75) \div 100

cache_init(param) ==
    LET given == CASE Len(param) = 0 -> <<LowWater, HighWater>>
                   [] Len(param) = 1 -> <<ThreeQuarters(param[1]), param[1]>>
                   [] Len(param) = 2 -> param
    IN  IF given[2] < 0 THEN <<LowWater, HighWater>>
        ELSE IF given[1] > given[2] THEN <<ThreeQuarters(given[2]), given[2]>>
        ELSE given

Init ==
    /\ mem = [c \in Cells |-> Null]
    /\ next = [c \in Cells |-> Null] /\ prev = [c \in Cells |-> Null]
    /\ cachelist = Null /\ lastcache = Null
    /\ \E param \in Params : marks = cache_init(param)
    /\ inactive = {}
    /\ pc = "run" /\ cx = Null /\ total = 0 /\ cv = {}
    /\ lastexpire = Null /\ round = 0
    /\ reply = Null

-----------------------------------------------------------------------------
(* The list *)

append_cx(c) ==
    IF lastcache = Null
    THEN /\ cachelist' = c /\ lastcache' = c
         /\ next' = [next EXCEPT ![c] = Null]
         /\ prev' = [prev EXCEPT ![c] = Null]
    ELSE /\ next' = [next EXCEPT ![c] = Null, ![lastcache] = c]
         /\ prev' = [prev EXCEPT ![c] = lastcache]
         /\ lastcache' = c
         /\ UNCHANGED cachelist

\* Slips: the last entry is not moved back; the previous link of the entry
\* after is not.
RemoveButLast(c) ==
    /\ prev' = [k \in Cells |-> IF k = next[c] THEN prev[c] ELSE prev[k]]
    /\ next' = [k \in Cells |-> IF k = prev[c] THEN next[c] ELSE next[k]]
    /\ cachelist' = IF prev[c] = Null THEN next[c] ELSE cachelist
    /\ mem' = [mem EXCEPT ![c] = Null]
    /\ UNCHANGED lastcache

RemoveOneWay(c) ==
    /\ next' = [k \in Cells |-> IF k = prev[c] THEN next[c] ELSE next[k]]
    /\ lastcache' = IF next[c] = Null THEN prev[c] ELSE lastcache
    /\ cachelist' = IF prev[c] = Null THEN next[c] ELSE cachelist
    /\ mem' = [mem EXCEPT ![c] = Null]
    /\ UNCHANGED prev

\* remove_cx() and free_cx()
remove_cx(c) ==
    /\ prev' = [k \in Cells |-> IF k = next[c] THEN prev[c] ELSE prev[k]]
    /\ lastcache' = IF next[c] = Null THEN prev[c] ELSE lastcache
    /\ next' = [k \in Cells |-> IF k = prev[c] THEN next[c] ELSE next[k]]
    /\ cachelist' = IF prev[c] = Null THEN next[c] ELSE cachelist
    /\ mem' = [mem EXCEPT ![c] = Null]

\* The cells from c on, following the links of ptr; From[n] looks at n of them.
Chain(c, ptr) ==
    LET From[n \in 0 .. Cardinality(Cells)] ==
          [d \in Cells \cup {Null} |->
              IF d = Null \/ n = 0 THEN <<>> ELSE <<d>> \o From[n - 1][ptr[d]]]
    IN  From[Cardinality(Cells)][c]

Walk == Chain(cachelist, next)

-----------------------------------------------------------------------------
(* Stores and lookups *)

\* cache_dnspacket(): whatever is in the list, the answer is added at its end.
cache_dnspacket(key, positive, server) ==
    /\ pc = "run" /\ Cells \ Live # {}
    /\ LET c == Some(Cells \ Live) IN
       /\ mem' = [mem EXCEPT ![c] = [key |-> key, positive |-> positive,
                      server |-> server, created |-> 0, lastused |-> 0]]
       /\ append_cx(c)
    /\ reply' = Null
    /\ UNCHANGED <<marks, inactive, loopvars, round>>

\* A slip: an answer is taken for the last one with its question.
FoundLast(key) ==
    {c \in Live : /\ mem[c].key = key
                  /\ \A d \in Live : mem[d].key = key => mem[d].created >= mem[c].created}

\* The entry the search of cache_lookup() stops at, if any.
Found(key) ==
    LET w == Walk IN
    {c \in Live : \E i \in DOMAIN w :
        /\ w[i] = c /\ mem[c].key = key
        /\ \A j \in 1 .. i - 1 : mem[w[j]].key # key}

\* cache_lookup(): a positive answer is used once more, and its expiry starts
\* again, also when it is then not given out for its server is inactive.  The
\* question is overwritten with it in any case.
cache_lookup(key) ==
    /\ pc = "run"
    /\ \/ /\ Found(key) = {}
          /\ reply' = Null
          /\ UNCHANGED mem
       \/ \E c \in Found(key) :
          /\ mem' = IF mem[c].positive THEN [mem EXCEPT ![c].lastused = 0] ELSE mem
          /\ reply' = [asked |-> key, entry |-> mem[c],
                       hit |-> ~(IgnoreInactive /\ mem[c].server \in inactive)]
    /\ UNCHANGED <<next, prev, cachelist, lastcache, marks, inactive, loopvars, round>>

-----------------------------------------------------------------------------
(* cache_expire() *)

\* The time since the last expiry, or since the first call.
SinceExpiry == IF lastexpire = Null THEN 0 ELSE lastexpire

\* Called at the end of a round, it returns at once within MinCycle.
TooSoon ==
    /\ pc = "run" /\ SinceExpiry < MinCycle
    /\ lastexpire' = SinceExpiry
    /\ round' = 0
    /\ reply' = Null
    /\ UNCHANGED <<listvars, marks, inactive, pc, cx, total, cv>>

StartExpiry ==
    /\ pc = "run" /\ SinceExpiry >= MinCycle
    /\ pc' = "walk" /\ cx' = cachelist /\ total' = 0
    /\ round' = 0
    /\ reply' = Null
    /\ UNCHANGED <<listvars, marks, inactive, cv, lastexpire>>

\* lastused + CACHE_TIME, or CACHE_NEGTIME, is over; or the entry is too old.
\* A slip: one that is used has no greatest age.
ExpiredUnused(e) == e.lastused > (IF e.positive THEN PosTime ELSE NegTime)

Expired(e) ==
    \/ e.lastused > (IF e.positive THEN PosTime ELSE NegTime)
    \/ e.created > MaxTime

\* A slip: the loop stays at an entry it has freed.
VisitAgain ==
    /\ pc = "walk" /\ cx # Null
    /\ IF Expired(mem[cx])
       THEN remove_cx(cx) /\ UNCHANGED <<cx, total>>
       ELSE cx' = next[cx] /\ total' = total + 1 /\ UNCHANGED listvars
    /\ reply' = Null
    /\ UNCHANGED <<marks, inactive, pc, cv, lastexpire, round>>

\* One turn of the loop: cx->next is read before cx is freed.
Visit ==
    /\ pc = "walk" /\ cx # Null
    /\ cx' = next[cx]
    /\ IF Expired(mem[cx])
       THEN remove_cx(cx) /\ UNCHANGED total
       ELSE total' = total + 1 /\ UNCHANGED listvars
    /\ reply' = Null
    /\ UNCHANGED <<marks, inactive, pc, cv, lastexpire, round>>

\* qsort() with cmp_cachemru() puts the entries used last first: the first n
\* are the ones no entry left was used after.
UsedLast(n) ==
    {out \in SUBSET Live :
        /\ Cardinality(out) = n
        /\ \A c \in out, d \in Live \ out : mem[c].lastused <= mem[d].lastused}

\* A slip: one entry more is let in.
EvictsFewer == total > marks[2] + 1

\* Above the high water mark expire_oldest() removes down to the low one.
Evicts == total > marks[2]

EndOfWalk ==
    /\ pc = "walk" /\ cx = Null
    /\ IF Evicts
       THEN /\ cv' \in UsedLast(total - marks[1])
            /\ pc' = "oldest"
            /\ UNCHANGED lastexpire
       ELSE /\ pc' = "run" /\ lastexpire' = 0
            /\ UNCHANGED cv
    /\ total' = 0
    /\ reply' = Null
    /\ UNCHANGED <<listvars, marks, inactive, cx, round>>

Evict ==
    /\ pc = "oldest"
    /\ remove_cx(Some(cv))
    /\ cv' = cv \ {Some(cv)}
    /\ IF cv' = {} THEN pc' = "run" /\ lastexpire' = 0 ELSE UNCHANGED <<pc, lastexpire>>
    /\ reply' = Null
    /\ UNCHANGED <<marks, inactive, cx, total, round>>

-----------------------------------------------------------------------------
(* The rest of the program *)

\* The relay deactivates a server, or hears from it again.
ServerChanges ==
    /\ pc = "run" /\ IgnoreInactive
    /\ \E s \in Srvs :
          inactive' = IF s \in inactive THEN inactive \ {s} ELSE inactive \cup {s}
    /\ reply' = Null
    /\ UNCHANGED <<listvars, marks, loopvars, round>>

Older(age, cap) == IF age < cap THEN age + 1 ELSE age

\* Time passes; run() calls cache_expire before RoundTime is over.
Tick ==
    /\ pc = "run" /\ round < RoundTime
    /\ mem' = [c \in Cells |-> IF c \in Live
                 THEN [mem[c] EXCEPT !.created = Older(@, MaxAge),
                                     !.lastused = Older(@, MaxAge)]
                 ELSE Null]
    /\ lastexpire' = IF lastexpire = Null THEN Null ELSE Older(lastexpire, MinCycle)
    /\ round' = round + 1
    /\ reply' = Null
    /\ UNCHANGED <<next, prev, cachelist, lastcache, marks, inactive, pc, cx, total, cv>>

cache_expire == TooSoon \/ StartExpiry \/ Visit \/ EndOfWalk \/ Evict

Next ==
    \/ \E key \in Keys, positive \in BOOLEAN, server \in Srvs :
          cache_dnspacket(key, positive, server)
    \/ \E key \in Keys : cache_lookup(key)
    \/ cache_expire
    \/ ServerChanges
    \/ Tick

Spec == Init /\ [][Next]_vars

\* run() never stops, and the clock goes on.
FairSpec == Spec /\ WF_vars(cache_expire) /\ WF_vars(Tick)

-----------------------------------------------------------------------------
(* Properties *)

Reversed(s) == [i \in DOMAIN s |-> s[Len(s) + 1 - i]]

\* The links survive every order of additions and removals: from either end
\* the same cells are met, all the entries there are and no freed one.
ListWhole ==
    LET w == Walk IN
    /\ {w[i] : i \in DOMAIN w} = Live
    /\ Len(w) = Cardinality(Live)
    /\ Chain(lastcache, prev) = Reversed(w)

\* Where cache_expire() stands is an entry, and so is what it has yet to evict.
LoopOnList ==
    /\ cx # Null => pc = "walk" /\ mem[cx] # Null
    /\ \A c \in cv : pc = "oldest" /\ mem[c] # Null

\* The low water mark is not above the high one, whatever --cache says, so that
\* expire_oldest() never has fewer entries than it is to remove.
MarksOrdered == marks[1] <= marks[2]

\* What a lookup gives out is not older than CACHE_MAXTIME, a negative answer
\* not older than CACHE_NEGTIME, but for the time between two expiries: the
\* lookup itself compares no times.
Slack == MinCycle + RoundTime
FreshEnough ==
    reply # Null =>
        /\ reply.entry.created <= MaxTime + Slack
        /\ reply.entry.lastused <=
              (IF reply.entry.positive THEN PosTime ELSE NegTime) + Slack

\* After an expiry the list is not above the high water mark, and one that had
\* to evict leaves exactly the low one.
DownToLow ==
    [][pc # "run" /\ pc' = "run" =>
         /\ Cardinality(Live') <= marks[2]
         /\ pc = "oldest" => Cardinality(Live') = marks[1]]_vars

\* No entry is kept for ever, also one that every request uses again.
EntriesEnd == \A c \in Cells : []<>(mem[c] = Null)

-----------------------------------------------------------------------------
(* The inductive invariant                                                  *)

\* s enumerates the entries in the order of the list.
Listing(s) ==
    LET n == Cardinality(Live) IN
    /\ \A i, j \in 1 .. n : s[i] = s[j] => i = j
    /\ \A c \in Live : \E i \in 1 .. n : s[i] = c
    /\ cachelist = IF n = 0 THEN Null ELSE s[1]
    /\ lastcache = IF n = 0 THEN Null ELSE s[n]
    /\ \A i \in 1 .. n :
          /\ next[s[i]] = IF i = n THEN Null ELSE s[i + 1]
          /\ prev[s[i]] = IF i = 1 THEN Null ELSE s[i - 1]

\* The walk has counted the entries before cx, and none of them is expired.
Visited(s) ==
    LET n == Cardinality(Live) IN
    pc = "walk" =>
        /\ total <= n
        /\ cx = IF total = n THEN Null ELSE s[total + 1]
        /\ \A i \in 1 .. total : ~Expired(mem[s[i]])

Enumerated ==
    \E s \in [1 .. Cardinality(Live) -> Live] : Listing(s) /\ Visited(s)

\* Evicting what is in cv leaves as many entries as the low water mark.
EvictionExact ==
    pc = "oldest" =>
        /\ cv # {} /\ cv \subseteq Live
        /\ Cardinality(Live) - Cardinality(cv) = marks[1]
        /\ \A c \in Live : ~Expired(mem[c])

LoopIdle == /\ pc # "walk" => cx = Null
            /\ pc # "oldest" => cv = {}

\* How long ago an expiry left only what was not expired.
Unchecked ==
    IF lastexpire # Null /\ lastexpire < MinCycle THEN lastexpire ELSE MinCycle + round

Within(e, time) ==
    /\ e.created <= MaxTime + time
    /\ e.lastused <= (IF e.positive THEN PosTime ELSE NegTime) + time

AgesBounded ==
    /\ round <= RoundTime
    /\ pc = "run" =>
          \A c \in Live :
             IF lastexpire = Null THEN mem[c].created <= round /\ mem[c].lastused <= round
                                  ELSE Within(mem[c], Unchecked)

\* A list of entries that each step keeps whole, with the loop of
\* cache_expire() at a known place of it, the water marks in order, and no
\* entry older than the expiry before allowed it to be.
IInv ==
    /\ TypeOK
    /\ MarksOrdered
    /\ Enumerated
    /\ EvictionExact
    /\ LoopIdle
    /\ AgesBounded
    /\ FreshEnough

-----------------------------------------------------------------------------
(* What it implements                                                       *)

Content(e) == <<e.key, e.positive, e.server>>
Contents(s) == [i \in DOMAIN s |-> Content(mem[s[i]])]

Store == INSTANCE AnswerStore WITH
    Answers <- Keys \X BOOLEAN \X Srvs,
    QuestionOf <- LAMBDA answer : answer[1],
    None <- Null,
    kept <- Contents(Walk),
    given <- IF reply # Null /\ reply.hit THEN Content(reply.entry) ELSE Null

\* The linked list implements a sequence of answers: lookups give out the first
\* one for the question, whatever has been removed around it.
ImplementsStore == Store!Spec
=============================================================================
