------------------------------ MODULE MCMaster ------------------------------
(* Master with a few files, every packet of up to four bytes behind the     *)
(* header over five bytes, and questions for the names that matter.          *)
EXTENDS Master

dot == <<46>>
h == <<104>>
g == <<103>>
n1 == <<110>>
n2 == <<109>>
d == <<100>>
xd == <<120, 46, 100>>
plus == <<43>>

Arpa_ == <<46, 105, 110, 45, 97, 100, 100, 114, 46, 97, 114, 112, 97>>
Localhost_ == <<108, 111, 99, 97, 108, 104, 111, 115, 116>>
Loopback_ == <<48, 46, 48, 46, 49, 50, 55>> \o Arpa_
Auth_ == <<43, 97, 117, 116, 104>>

Ip(a, words) == [directive |-> "ip", ip |-> a, file |-> "system", words |-> words]
Domain(words) == [directive |-> "domain", ip |-> << >>, file |-> "system", words |-> words]
HostsLine(file, words) == [directive |-> "hosts", ip |-> << >>, file |-> file, words |-> words]
Other == [directive |-> "other", ip |-> << >>, file |-> "system", words |-> <<h>>]

Long == [k \in 1 .. 36 |-> 97]

Ten(k) == <<10, 0, 0, k>>

SystemHosts == <<Ip(Ten(7), <<<<72>>, g>>), Other, Ip(Ten(8), <<>>)>>
AllHostsFiles == {"system", "own"}
Files == [system |-> SystemHosts, own |-> <<Ip(Ten(1), <<xd, h>>), Ip(Ten(2), <<n1>>)>>]

Empty == [master |-> << >>, blacklist |-> << >>, files |-> Files]

\* a domain with servers and authority; names with "+", "." and neither
Zone == [Empty EXCEPT !.master =
            <<Domain(<<d, n1, n2 \o dot, Auth_>>), Ip(Ten(1), <<h, xd \o plus, g \o dot>>),
              Ip(Ten(2), << >>), Ip(Ten(1), <<n1, Long>>)>>]

\* two domains, one below the other, an address that is none, and no domain
Nested == [Empty EXCEPT !.master =
            <<Domain(<<d, n1>>), Domain(<<<<88, 46, 68>>, n2>>), Ip(Invalid, <<h>>), Ip(Ten(1), <<h, g \o <<46, 103>>>>),
              Domain(<< >>), Ip(Ten(2), <<h>>), Ip(Ten(1), << >>)>>,
            !.blacklist = <<<<103, 46, 68>>>>]

\* before any domain line, and the hosts files
Hosts == [Empty EXCEPT !.master =
            <<Ip(Ten(1), <<n1>>), HostsLine("system", << >>), Domain(<<d>>), HostsLine("own", << >>),
              HostsLine("own", <<n2>>), Other, Ip(Ten(3), <<h>>)>>,
            !.blacklist = <<xd, d>>]

\* a server listed twice, in a line and again for its domain
Doubled == [Empty EXCEPT !.master = <<Domain(<<d, n1, n1>>), Ip(Ten(1), <<h>>), Domain(<<d, n2, n1>>)>>]

AllDisks == {Empty, Zone, Nested, Hosts, Doubled}

AnyGarbage == {<< >>, <<103, 46, 100>>}

Header(flags) == <<0, 7, flags, 0, 0, 1, 0, 0, 0, 0, 0, 0>>

Tails == UNION {[1 .. n -> {0, 1, 192, 12, 14}] : n \in 0 .. 4} \cup [1 .. 2 -> {1, 64, 97}]

\* labels that become a name, and what may be behind it
Label(s) == <<Len(s)>> \o s
ToArpa == Label(<<105, 110, 45, 97, 100, 100, 114>>) \o Label(<<97, 114, 112, 97>>)
OfTen(k) == Label(<<48 + k>>) \o Label(<<48>>) \o Label(<<48>>) \o Label(<<49, 48>>) \o ToArpa

Wire == {Label(s) : s \in {Localhost_, h, g, d, <<72, 46, 68>>, <<104, 0, 100>>, <<120, 46>>, <<46, 100>>}}
    \cup {Label(s) \o Label(d) : s \in {h, <<71>>, <<120>>, n1, n2, <<122>>}}
    \cup {Label(<<121>>) \o Label(<<120>>) \o Label(d), Label(h) \o Label(<<120>>) \o Label(d), Label(g) \o Label(g),
          Label(<<121>>) \o Label(g) \o Label(d)}
    \cup {OfTen(k) : k \in {1, 2, 7, 9}} \cup {Label(<<49>>) \o Label(<<48>>) \o Label(<<48>>) \o Label(<<49, 50, 55>>) \o ToArpa}
    \cup {ToArpa, << >>}
    \cup {Label(Long) \o Label(d), Label(Long \o h) \o Label(d)}

Questions == {Header(1) \o w \o <<0, 0, type, 0, 1>> : w \in Wire, type \in {1, 2, 12, 28}}
Odd == {Header(flags) \o Label(h) \o Label(d) \o <<0, 0, 1, 0, class>> :
            flags \in {1, 8, 16, 32, 64}, class \in {1, 3}}
    \cup {<<0, 7, 1, 0, 0, 0, 0, 0, 0, 0, 0, 0>> \o Label(h) \o <<0, 0, 1, 0, 1>>,
          Header(1) \o <<1, 104, 192, 12, 0, 1, 0, 1>>,
          Header(1) \o <<192, 20, 0, 1, 0, 1, 0, 1, 1, 104, 192, 24, 1, 100, 0>>,
          Header(9) \o <<0, 0, 1, 0, 1>>}

AllPackets == {Header(1) \o t : t \in Tails} \cup Questions \cup Odd
=============================================================================
