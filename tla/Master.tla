------------------------------- MODULE Master -------------------------------
(* The local master of master.c: the table read from the files of the dnrd  *)
(* root, and the answers made from it.  A question is read by the loop of   *)
(* DnsName and the rest of parse_query() of dns.c.  Texts are sequences of  *)
(* bytes without the terminator.  -m off, which makes every function of the *)
(* file return at once, is not modelled.                                    *)
EXTENDS DnsName, SequencesExt

CONSTANTS
    HostsFiles, \* the hosts files there are: "system" is /etc/hosts
    Disks,      \* what the files may hold
    Garbage,    \* texts that uninitialised buffers may hold
    ARPADOMAIN, \* ".in-addr.arpa"
    Localhost,  \* "localhost"
    Loopback,   \* "0.0.127.in-addr.arpa"
    AuthOption  \* "+auth"

VARIABLES
    dbv,    \* the table, dbv[0 .. dbc - 1]
    loaded, \* history: the files as last read, and domain[] as it was then
    rooted, \* 1 once chroot() was called
    stage,  \* what master_lookup() is at
    query,  \* the rr_t of the question
    reply   \* the packet made of it

tableVars == <<dbv, loaded, rooted>>
vars == <<nameVars, tableVars, stage, query, reply>>

Plus == 43
Texts == Seq(Bytes)
Invalid == << >>    \* an address that inet_aton() refuses
NoReply == << >>
NoQuery == [flags |-> 0, name |-> << >>, type |-> 0, class |-> 0]   \* parse_query() failed

DNS_TYPE_A == 1
DNS_TYPE_NS == 2
DNS_TYPE_PTR == 12
DNS_CLASS_INET == 1

---------------------------------------------------------------------------
(* Texts.                                                                  *)
strnlwr(s) == [k \in DOMAIN s |-> IF s[k] \in 65 .. 90 THEN s[k] + 32 ELSE s[k]]

\* strchr(s, '.'): what lies before the first dot, and behind it
Dots(s) == {k \in DOMAIN s : s[k] = Dot}
BeforeDot(s) == IF Dots(s) = {} THEN s ELSE SubSeq(s, 1, Min(Dots(s)) - 1)
AfterDot(s) == IF Dots(s) = {} THEN << >> ELSE SubSeq(s, Min(Dots(s)) + 1, Len(s))

Decimal(n) ==
    (IF n >= 100 THEN <<48 + (n \div 100)>> ELSE << >>)
        \o (IF n >= 10 THEN <<48 + ((n \div 10) % 10)>> ELSE << >>) \o <<48 + (n % 10)>>

\* inet_ntoa() of the swapped address
Arpa(ip) ==
    Decimal(ip[4]) \o <<Dot>> \o Decimal(ip[3]) \o <<Dot>> \o Decimal(ip[2]) \o <<Dot>> \o Decimal(ip[1])

ReverseZone(ip) == AfterDot(Arpa(ip) \o ARPADOMAIN)

WithDomain(word, domain) == IF domain = << >> THEN word ELSE word \o <<Dot>> \o domain

get_hostname(word, domain) ==
    CASE Head(word) = Plus -> word
      [] Head(word) # Plus /\ Last(word) = Plus -> WithDomain(Front(word), domain)
      [] Head(word) # Plus /\ Last(word) = Dot -> Front(word)
      [] Dots(word) = {} /\ Plus \notin {Head(word), Last(word)} -> WithDomain(word, domain)
      [] OTHER -> word

\* the loops over the words of a line end with the first empty name
Hostnames(words, domain) ==
    LET names == [n \in DOMAIN words |-> get_hostname(words[n], domain)]
        ends == {n \in DOMAIN names : names[n] = << >>}
    IN IF ends = {} THEN names ELSE SubSeq(names, 1, Min(ends) - 1)

---------------------------------------------------------------------------
(* The files.  A line is a directive, "ip", "domain", "hosts" or "other"    *)
(* for what is logged and passed over, with its address, the hosts file it  *)
(* names ("system" for "-") and the words behind them.                      *)
Line == [directive : STRING, ip : {Invalid} \cup [1 .. 4 -> Bytes], file : HostsFiles,
         words : Seq(Texts \ {<< >>})]

Disk == [master : Seq(Line), blacklist : Seq(Texts), files : [HostsFiles -> Seq(Line)]]

ASSUME MasterAssumption ==
    /\ \E p \in Packets : Len(p) = 12
    /\ "system" \in HostsFiles /\ Disks \subseteq Disk /\ Garbage \subseteq Texts
    /\ {ARPADOMAIN, Localhost} \subseteq Texts
    /\ strnlwr(ARPADOMAIN) = ARPADOMAIN /\ strnlwr(Localhost) = Localhost
    /\ Loopback = ReverseZone(<<127, 0, 0, 1>>)

---------------------------------------------------------------------------
(* The table.                                                              *)
Rec(type, object, data) == [type |-> type, object |-> strnlwr(object), data |-> data]

add_nameip(name, ip) == IF ip = Invalid THEN << >> ELSE <<Rec("nameip", name, ip)>>

add_dns(domain, dns) == <<Rec("dns", domain, strnlwr(dns))>>

add_authority(domain) == <<Rec("authority", domain, << >>)>>

add_nameips(names, ip) == FlattenSeq([n \in DOMAIN names |-> add_nameip(names[n], ip)])

read_hosts(lines, domain) ==
    FlattenSeq([n \in DOMAIN lines |->
        IF lines[n].directive = "ip" THEN add_nameips(Hostnames(lines[n].words, domain), lines[n].ip) ELSE << >>])

(* One line of the master file, with the table and the domain so far.       *)
read_line(s, line, files) ==
    LET names == Hostnames(line.words, s.domain)
        add(db) == [s EXCEPT !.dbv = @ \o db]
        ofDomain == Hostnames(Tail(line.words), Head(line.words))
    IN CASE line.directive = "ip" ->
              add(add_nameips(IF names = << >> THEN <<s.domain>> ELSE names, line.ip))
         [] line.directive = "domain" /\ line.words = << >> -> [s EXCEPT !.domain = << >>]
         [] line.directive = "domain" /\ line.words # << >> ->
              [domain |-> Head(line.words),
               dbv |-> s.dbv \o FlattenSeq([n \in DOMAIN ofDomain |->
                            IF ofDomain[n] = AuthOption
                            THEN add_authority(Head(line.words))
                            ELSE add_dns(Head(line.words), ofDomain[n])])]
         [] line.directive = "hosts" ->
              add(read_hosts(files[line.file], IF line.words = << >> THEN s.domain ELSE Head(line.words)))
         [] OTHER -> s

read_configuration(disk, domain, db) ==
    LET after[n \in 0 .. Len(disk.master)] ==
            IF n = 0 THEN [dbv |-> db, domain |-> domain]
            ELSE read_line(after[n - 1], disk.master[n], disk.files)
    IN after[Len(disk.master)].dbv

read_blacklist(names) == FlattenSeq([n \in DOMAIN names |-> add_authority(names[n])])

authority_lookup(db, domain) == \E n \in DOMAIN db : db[n].type = "authority" /\ db[n].object = domain

\* Mutant of auto_authority: a reverse zone with an address in it is left to others.
no_authority(db) == db

(* The zones of all addresses, each once.                                   *)
add_zone(all, rec) ==
    IF rec.type = "nameip" /\ ~authority_lookup(all, ReverseZone(rec.data))
    THEN all \o add_authority(ReverseZone(rec.data)) ELSE all

auto_authority(db) ==
    LET all[n \in 0 .. Len(db)] == IF n = 0 THEN db ELSE add_zone(all[n - 1], db[n])
    IN all[Len(db)]

(* What the table becomes when db is what was there before.                 *)
Database(disk, domain, db) ==
    auto_authority(read_configuration(disk, domain,
        db \o add_nameip(Localhost, <<127, 0, 0, 1>>) \o add_dns(Loopback, Localhost)
           \o read_blacklist(disk.blacklist)))

reset_master == << >>

\* behind chroot() there is no /etc/hosts
Readable(disk, r) == IF r = 1 THEN [disk EXCEPT !.files["system"] = << >>] ELSE disk

master_init(disk, domain, db, r) ==
    /\ dbv' = Database(Readable(disk, r), domain, db)
    /\ loaded' = [disk |-> Readable(disk, r), domain |-> domain]

---------------------------------------------------------------------------
(* Lookups: the places of all the records that match, of which the code     *)
(* returns the first; dns_lookup() goes on behind it.                       *)
ptr_lookup(arpanum) == {n \in DOMAIN dbv : dbv[n].type = "nameip" /\ Arpa(dbv[n].data) = arpanum}

name_lookup(name) == {n \in DOMAIN dbv : dbv[n].type = "nameip" /\ dbv[n].object = name}

InDomain(name, domain) == name = domain \/ IsSuffix(<<Dot>> \o domain, name)

dns_lookup(name) == {n \in DOMAIN dbv : dbv[n].type = "dns" /\ InDomain(name, dbv[n].object)}

\* the records at these places, one after the other
InOrder(places) == [k \in 1 .. Cardinality(places) |->
    dbv[CHOOSE n \in places : Cardinality({m \in places : m <= n}) = k]]

---------------------------------------------------------------------------
(* Answers.                                                                *)
compile_name(name) ==
    LET labels[s \in Texts] ==
            LET label == BeforeDot(s) IN
            IF label = << >> THEN <<0>> ELSE <<Len(label) % 64>> \o label \o labels[AfterDot(s)]
    IN labels[name]

\* htons() of the lower 16 bits
compile_int(n) == <<(n \div 256) % 256, n % 256>>

\* the buffer of replies, against which nothing is tested
PACKET_ASSEMBLYSIZE == 600

DEFAULT_TTL == <<0, 0, 14, 16>>

Record(owner, type, rdata) ==
    owner \o compile_int(type) \o compile_int(DNS_CLASS_INET) \o DEFAULT_TTL
          \o compile_int(Len(rdata)) \o rdata

compile_objectname == <<192, 12>>

begin_assembly(q) == compile_name(q.name) \o compile_int(q.type) \o compile_int(q.class)

end_assembly(id, aa, rcode, question, answers, servers) ==
    id \o <<128 + 4 * aa, rcode>> \o compile_int(1) \o compile_int(Len(answers))
       \o compile_int(Len(servers)) \o compile_int(0)
       \o question \o FlattenSeq(answers) \o FlattenSeq(servers)

\* Mutant of compile_namepointer: every later owner is the question's name.
PointToQuestion(offset) == compile_objectname

compile_namepointer(offset) == <<192, offset % 64>>

(* The servers of the domains of a name, behind offset bytes of packet.     *)
compile_dnsrecords(offset, object) ==
    LET found == InOrder(dns_lookup(object)) IN
    [n \in DOMAIN found |->
        Record(IF n = 1 THEN compile_name(found[1].object) ELSE compile_namepointer(offset),
               DNS_TYPE_NS, compile_name(found[n].data))]

\* the reply with one answer and the servers of the domain
Assemble(id, q, rdata) ==
    LET question == begin_assembly(q)
        answer == Record(compile_objectname, q.type, rdata)
        servers == compile_dnsrecords(PACKET_DATABEGIN + Len(question) + Len(answer), q.name)
    IN end_assembly(id, IF servers = << >> THEN 0 ELSE 1, 0, question, <<answer>>, servers)

AssembleServers(id, q) ==
    LET found == InOrder(dns_lookup(q.name)) IN
    end_assembly(id, 1, 0, begin_assembly(q),
        [n \in DOMAIN found |-> Record(compile_objectname, DNS_TYPE_NS, compile_name(found[n].data))], << >>)

Negative(id, q) == end_assembly(id, 1, 0, begin_assembly(q), << >>, << >>)

\* GET_OPCODE() with its mask 0xe800: QR counts, and the second bit does not
GET_OPCODE(flags) == (flags \div 8192) * 4 + ((flags \div 2048) % 2)

Usual(q) == q # NoQuery /\ q.class = DNS_CLASS_INET /\ GET_OPCODE(q.flags) = 0

IsArpa(name) == IsSuffix(ARPADOMAIN, name)
ArpaNumber(name) == SubSeq(name, 1, Len(name) - Len(ARPADOMAIN))

\* the places of the records that answer the question
Answers(q) ==
    CASE q.type = DNS_TYPE_PTR /\ IsArpa(q.name) -> ptr_lookup(ArpaNumber(q.name))
      [] q.type = DNS_TYPE_A -> name_lookup(q.name)
      [] q.type = DNS_TYPE_NS -> dns_lookup(q.name)
      [] OTHER -> {}

\* what the first of them says
Told(q) ==
    LET rec == dbv[Min(Answers(q))] IN IF q.type = DNS_TYPE_PTR THEN rec.object ELSE rec.data

Handled(q) == q.type \in {DNS_TYPE_A, DNS_TYPE_NS} \/ (q.type = DNS_TYPE_PTR /\ IsArpa(q.name))

\* Mutant of OurAuthority: nothing below a zone is ours.
OnlyTheZone(name) == authority_lookup(dbv, name)

\* a name without a dot has no authority
OurAuthority(name) ==
    Dots(name) # {} /\ (authority_lookup(dbv, name) \/ authority_lookup(dbv, AfterDot(name)))

master_lookup(q, id) ==
    CASE ~Usual(q) -> NoReply
      [] Usual(q) /\ Answers(q) # {} /\ q.type = DNS_TYPE_A -> Assemble(id, q, Told(q))
      [] Usual(q) /\ Answers(q) # {} /\ q.type = DNS_TYPE_PTR -> Assemble(id, q, compile_name(Told(q)))
      [] Usual(q) /\ Answers(q) # {} /\ q.type = DNS_TYPE_NS -> AssembleServers(id, q)
      [] Usual(q) /\ Answers(q) = {} /\ Handled(q) /\ OurAuthority(q.name) -> Negative(id, q)
      [] OTHER -> NoReply

\* its id is that of the cleared packet
master_dontknow(q) ==
    IF Usual(q) THEN end_assembly(<<0, 0>>, 0, 1, begin_assembly(q), << >>, << >>) ELSE NoReply

---------------------------------------------------------------------------
(* The steps.  run() of relay.c takes one packet at a time, and rereads the *)
(* files between two packets.                                              *)

\* the locals before any question: those of a packet that is all header
NoPacket == CHOOSE p \in Packets : Len(p) = PACKET_DATABEGIN

Init ==
    /\ NameInit /\ msg = NoPacket
    /\ \E disk \in Disks, g \in Garbage :
        /\ dbv = Database(disk, g, << >>)
        /\ loaded = [disk |-> disk, domain |-> g]
    /\ rooted = 0
    /\ stage = "idle" /\ query = NoQuery /\ reply = NoReply

\* main() goes on from master_init() to chroot()
chroot ==
    /\ rooted = 0 /\ stage = "idle" /\ rooted' = 1
    /\ UNCHANGED <<nameVars, dbv, loaded, stage, query, reply>>

(* Behind a SIGHUP, with files that may have been edited.                   *)
master_reinit ==
    /\ stage = "idle" /\ rooted = 1
    /\ \E disk \in Disks, g \in Garbage : master_init(disk, g, reset_master, 1)
    /\ UNCHANGED <<nameVars, rooted, stage, query, reply>>

Short(p, k) == p[k + 1] * 256 + p[k + 2]

qdcount(p) == Short(p, 4)

(* parse_query() calls get_objname(), unless there is no question.          *)
Arrive(p) ==
    /\ stage = "idle" /\ rooted = 1
    /\ \/ qdcount(p) = 0 /\ stage' = "forward" /\ UNCHANGED nameVars
       \/ qdcount(p) # 0 /\ stage' = "parse" /\ Begin(p, PACKET_DATABEGIN)
    /\ UNCHANGED <<tableVars, query, reply>>

ReadName ==
    /\ stage = "parse" /\ get_objname
    /\ UNCHANGED <<tableVars, stage, query, reply>>

\* the text up to the first zero byte in it
CString(s) ==
    LET zeros == {k \in DOMAIN s : s[k] = 0}
    IN IF zeros = {} THEN s ELSE SubSeq(s, 1, Min(zeros) - 1)

WithoutDot(s) == IF s # << >> /\ Last(s) = Dot THEN Front(s) ELSE s

(* The rest of parse_query().  The terminator of the root's name goes into  *)
(* the upper byte of the flags, and the name is what the stack held.        *)
parse_query ==
    /\ stage = "parse" /\ pc # "name"
    /\ IF pc = "refused" \/ i + 4 > Len(msg)
       THEN query' = NoQuery
       ELSE \E name \in IF j = -1 THEN Garbage ELSE {dest} :
                query' = [flags |-> IF j = -1 THEN Short(msg, 2) % 256 ELSE Short(msg, 2),
                          name |-> strnlwr(WithoutDot(CString(name))),
                          type |-> Short(msg, i), class |-> Short(msg, i + 2)]
    /\ stage' = "lookup"
    /\ UNCHANGED <<nameVars, tableVars, reply>>

(* What the master has no answer for goes to the servers; when none can be  *)
(* reached, master_dontknow() parses the packet once more.                  *)
Lookup ==
    /\ stage = "lookup"
    /\ reply' = master_lookup(query, SubSeq(msg, 1, 2))
    /\ stage' = IF reply' = NoReply THEN "forward" ELSE "answered"
    /\ UNCHANGED <<nameVars, tableVars, query>>

DontKnow ==
    /\ stage = "forward"
    /\ reply' = master_dontknow(query)
    /\ stage' = "dontknow"
    /\ UNCHANGED <<nameVars, tableVars, query>>

\* the locals are gone
Return ==
    /\ stage \in {"answered", "forward", "dontknow"}
    /\ Begin(NoPacket, PACKET_DATABEGIN)
    /\ stage' = "idle" /\ query' = NoQuery /\ reply' = NoReply
    /\ UNCHANGED tableVars

Next ==
    \/ chroot \/ master_reinit
    \/ \E p \in Packets : Arrive(p)
    \/ ReadName \/ parse_query \/ Lookup \/ DontKnow \/ Return

Spec == Init /\ [][Next]_vars

\* The loop is not left before it ends.
FairSpec == Spec /\ WF_vars(ReadName) /\ WF_vars(parse_query)

---------------------------------------------------------------------------
(* What the files say, without the table: every line with an address, of    *)
(* the master file (<<n, 0>>) or of the hosts file of its line n (<<n, m>>),*)
(* gives its names that address.                                            *)
Master == loaded.disk.master

DomainsBefore(n) == {k \in 1 .. n - 1 : Master[k].directive = "domain"}

\* the domain of the last domain line before line n
DomainAt(n) ==
    IF DomainsBefore(n) = {} THEN loaded.domain
    ELSE LET words == Master[Max(DomainsBefore(n))].words IN IF words = << >> THEN words ELSE words[1]

HostsOf(n) == loaded.disk.files[Master[n].file]

HostLines ==
    {<<n, 0>> : n \in {k \in DOMAIN Master : Master[k].directive = "ip"}}
    \cup UNION {{<<n, m>> : m \in {k \in DOMAIN HostsOf(n) : HostsOf(n)[k].directive = "ip"}} :
                    n \in {k \in DOMAIN Master : Master[k].directive = "hosts"}}

Address(l) == IF l[2] = 0 THEN Master[l[1]].ip ELSE HostsOf(l[1])[l[2]].ip

\* a line of the master file without names is about the domain
GivenOn(l) ==
    LET line == Master[l[1]]
        names == Hostnames(line.words, DomainAt(l[1]))
        domain == IF line.words = << >> THEN DomainAt(l[1]) ELSE line.words[1]
    IN IF l[2] # 0 THEN Hostnames(HostsOf(l[1])[l[2]].words, domain)
       ELSE IF names = << >> THEN <<DomainAt(l[1])>> ELSE names

NamesOn(l) == [n \in DOMAIN GivenOn(l) |-> strnlwr(GivenOn(l)[n])]

Used == {l \in HostLines : Address(l) # Invalid /\ NamesOn(l) # << >>}

Before(l, k) == l[1] < k[1] \/ (l[1] = k[1] /\ l[2] < k[2])
Earliest(lines) == {l \in lines : \A k \in lines : ~Before(k, l)}

\* {address} of a name, {name} of an address
Addresses(name) ==
    IF name = Localhost THEN {<<127, 0, 0, 1>>}
    ELSE {Address(l) : l \in Earliest({k \in Used : \E n \in DOMAIN NamesOn(k) : NamesOn(k)[n] = name})}

NamesFor(arpanum) ==
    IF arpanum = Arpa(<<127, 0, 0, 1>>) THEN {Localhost}
    ELSE {NamesOn(l)[1] : l \in Earliest({k \in Used : Arpa(Address(k)) = arpanum})}

\* the domain lines, with the servers and "+auth" behind the domain
DomainLines == {n \in DOMAIN Master : Master[n].directive = "domain" /\ Master[n].words # << >>}
Behind(n) == ToSet(Hostnames(Tail(Master[n].words), Master[n].words[1]))

ServersFor(name) ==
    (IF InDomain(name, Loopback) THEN {Localhost} ELSE {})
    \cup UNION {{strnlwr(word) : word \in Behind(n) \ {AuthOption}} :
                    n \in {k \in DomainLines : InDomain(name, strnlwr(Master[k].words[1]))}}

Zones ==
    ToSet(loaded.disk.blacklist)
    \cup {Master[n].words[1] : n \in {k \in DomainLines : AuthOption \in Behind(k)}}
    \cup {ReverseZone(Address(l)) : l \in Used} \cup {Loopback}

OwnZone(name) == Dots(name) # {} /\ {name, AfterDot(name)} \cap {strnlwr(zone) : zone \in Zones} # {}

---------------------------------------------------------------------------
(* What a reply says, read with the definition of names of DnsName.  Names  *)
(* end with a dot there.                                                    *)
NameAt(k) == CHOOSE name \in NamesAt(reply)[Len(reply)][k] : TRUE

RecordAt(k) ==
    LET head == InPlaceEnd(reply)[k]
        size == Short(reply, head + 8)
    IN [owner |-> NameAt(k), type |-> Short(reply, head),
        data |-> IF Short(reply, head) = DNS_TYPE_A THEN SubSeq(reply, head + 11, head + 10 + size)
                 ELSE NameAt(head + 10),
        next |-> head + 10 + size]

QuestionEnd == InPlaceEnd(reply)[PACKET_DATABEGIN] + 4
Count == Short(reply, 6) + Short(reply, 8)

\* the answers, and the servers behind them
Records ==
    LET rec[n \in 1 .. Count] == RecordAt(IF n = 1 THEN QuestionEnd ELSE rec[n - 1].next)
    IN [n \in 1 .. Count |-> rec[n]]

QuestionName == NameAt(PACKET_DATABEGIN)
Ancount == Short(reply, 6)
Dotted(name) == IF name = << >> THEN name ELSE name \o <<Dot>>

---------------------------------------------------------------------------
(* Types, and what lookups rely on: localhost is first in the table, and no *)
(* address is in it without the authority for its zone, so that a PTR       *)
(* question for a neighbour is not forwarded (README-master:36-46).  Twice  *)
(* the files were read, the second time by a process within chroot().       *)
MasterInv ==
    /\ \A n \in DOMAIN dbv :
        /\ dbv[n].type \in {"nameip", "dns", "authority"}
        /\ dbv[n].object = strnlwr(dbv[n].object)
        /\ dbv[n].type = "nameip" => authority_lookup(dbv, ReverseZone(dbv[n].data))
    /\ dbv[1] = Rec("nameip", Localhost, <<127, 0, 0, 1>>)
    /\ rooted \in {0, 1}
    /\ stage \in {"idle", "parse", "lookup", "answered", "forward", "dontknow"}
    /\ stage \in {"idle", "parse", "lookup", "forward"} => reply = NoReply
    /\ stage = "answered" => reply # NoReply /\ Usual(query)

(* An A or PTR question is answered with the first line of the files, as    *)
(* they were last read, that has the name or the address, an NS question    *)
(* with the servers of its domains; where no line has it, the answer is     *)
(* negative exactly in a zone the files make ours, and everything else is   *)
(* forwarded.  Reading collects domains in force, hosts files, blacklist    *)
(* and zones in one table, over reloads with other files.                   *)
ZoneAnswers ==
    LET found ==
            CASE query.type = DNS_TYPE_A -> Addresses(query.name)
              [] query.type = DNS_TYPE_PTR /\ IsArpa(query.name) -> NamesFor(ArpaNumber(query.name))
              [] query.type = DNS_TYPE_NS -> ServersFor(query.name)
              [] OTHER -> {}
        ours == found # {} \/ (Handled(query) /\ OwnZone(query.name))
    IN stage \in {"answered", "forward"} =>
        /\ stage = "answered" <=> Usual(query) /\ ours
        /\ Answers(query) = {} <=> found = {}
        /\ found # {} => Told(query) \in found

(* Names: labels of 63 bytes at most, none of them empty.  Others, which    *)
(* files and even packets may hold, compile_name() ends early or cuts.      *)
ShortLabels(name) == \A k \in 1 .. Len(name) - 63 : Dots(name) \cap (k .. k + 63) # {}
IsName(name) ==
    ShortLabels(name) /\ \A k \in Dots(name) : k - 1 \notin Dots(name) \cup {0} /\ k # Len(name)

\* the domains a name belongs to
Domains(name) == {dbv[n].object : n \in dns_lookup(name)}

\* the owner of a second server is a pointer of six bits, to the first owner
OwnerReachable ==
    \/ Cardinality(dns_lookup(query.name)) <= 1
    \/ Ancount = 0 \/ query.type = DNS_TYPE_NS
    \/ Cardinality(Domains(query.name)) = 1 /\ Records[Ancount].next < 64

(* A local reply reads back as what was asked and what the table says: the  *)
(* question, answers owned by the name asked, then the servers, owned by    *)
(* their domain, and nothing behind them.  Names are cut into labels again, *)
(* lengths are filled in afterwards and owners are pointers.  (Replies that *)
(* do not fit the buffer are beyond the model.)                             *)
AnswerReadsBack ==
  stage = "answered" /\ Len(reply) <= PACKET_ASSEMBLYSIZE =>
    /\ Ancount = 0 <=> Answers(query) = {}
    /\ /\ Ancount > 0
       /\ j = -1 => ShortLabels(query.name)
       /\ query.type # DNS_TYPE_A => IsName(Told(query))
       => Records[1].data = IF query.type = DNS_TYPE_A THEN Told(query) ELSE Dotted(Told(query))
    /\ /\ IsName(query.name) /\ OwnerReachable
       /\ Ancount > 0 => \A name \in Domains(query.name) \cup ServersFor(query.name) : IsName(name)
       =>
        /\ SubSeq(reply, 1, 2) = SubSeq(msg, 1, 2)
        /\ QuestionName = Dotted(query.name)
        /\ Short(reply, QuestionEnd - 4) = query.type
        /\ Len(reply) = IF Count = 0 THEN QuestionEnd ELSE Records[Count].next
        /\ \A n \in 1 .. Ancount :
            Records[n].owner = Dotted(query.name) /\ Records[n].type = query.type
        /\ \A n \in Ancount + 1 .. Count :
            Records[n].type = DNS_TYPE_NS /\ Records[n].owner \in {Dotted(d) : d \in Domains(query.name)}
        /\ Ancount > 0 =>
            {Records[n].data : n \in {k \in 1 .. Count : Records[k].type = DNS_TYPE_NS}}
                = {Dotted(name) : name \in ServersFor(query.name)}
        /\ reply[3] = IF Count = 1 /\ query.type # DNS_TYPE_NS THEN 128 ELSE 132

(* A local reply is about the name of the question, in lower case.  (It is  *)
(* not for the root, whose name parse_query() leaves to the stack.)         *)
AnswersTheQuestion ==
    stage = "answered" => QuestionName \in {strnlwr(name) : name \in QuestionNames}
=============================================================================
