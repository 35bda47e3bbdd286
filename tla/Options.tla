------------------------------ MODULE Options -------------------------------
(* parse_args() of args.c: what a command line makes of the program, and    *)
(* the list of interfaces and servers that add_interface() of infnode.c and *)
(* add_srv() of srvnode.c build from its -s options.                        *)
EXTENDS Integers, Sequences

CONSTANT SystemInfs     \* the interfaces the machine has

(* One option: its letter, the address, and the interface behind the ":".   *)
(* The letter "set" stands for the options that only give a global a value  *)
(* (-a, -b, -c, -i, -B, -M, -S, -t, -u, -R, -x), "?" for an unknown option  *)
(* or a missing parameter, "word" for an argument that is no option.        *)
Option == [opt : STRING, arg : Int, inf : STRING]
BadAddress == 0
NoInterface == ""

(* The globals the later steps depend on, at their initial values.          *)
Globals == [verdict |-> "start", inf_list |-> << >>, opt_debug |-> 0, gotterminal |-> 1,
            reactivate_interval |-> 1]

validate_interface(inf) == inf \in SystemInfs

search_infnode(list, inf) == \E n \in DOMAIN list : list[n].inf = inf

\* at the head of the list, with no server yet
add_interface(list, inf) == <<[inf |-> inf, srvlist |-> << >>]>> \o list

\* Mutant of add_srv: a server goes to the front of its interface's list.
add_srvFirst(srvlist, addr) == <<addr>> \o srvlist

\* behind last_srvnode()
add_srv(srvlist, addr) == Append(srvlist, addr)

(* Option -s: the interface is added when it is new, and gets the server.   *)
ServerOption(list, o) ==
    LET known == IF search_infnode(list, o.inf) THEN list ELSE add_interface(list, o.inf)
    IN [n \in DOMAIN known |->
            IF known[n].inf = o.inf THEN [known[n] EXCEPT !.srvlist = add_srv(@, o.arg)] ELSE known[n]]

(* An option whose interface or address is refused ends the program.        *)
Refused(o) ==
    \/ o.opt = "?"
    \/ o.opt \in {"s", "D", "H"} /\ ~validate_interface(o.inf)
    \/ o.opt \in {"s", "set"} /\ o.arg = BadAddress

(* One turn of the loop.  -k, -h and -v end it there, whatever follows.     *)
ParseOption(o, g) ==
    IF g.verdict # "start" THEN g
    ELSE IF Refused(o) THEN [g EXCEPT !.verdict = "refuse"]
    ELSE CASE o.opt = "k" -> [g EXCEPT !.verdict = "kill"]
           [] o.opt \in {"h", "v"} -> [g EXCEPT !.verdict = "quit"]
           [] o.opt = "s" -> [g EXCEPT !.inf_list = ServerOption(@, o)]
           [] o.opt = "d" -> [g EXCEPT !.opt_debug = o.arg]
           [] o.opt = "l" -> [g EXCEPT !.gotterminal = 0]
           [] o.opt = "r" -> [g EXCEPT !.reactivate_interval = o.arg]
           [] OTHER -> g

(* The loop, and the test behind it: getopt_long() has moved the arguments  *)
(* that are no options to the end.                                          *)
parse_args(argv) ==
    LET after[n \in 0 .. Len(argv)] ==
            IF n = 0 THEN Globals ELSE ParseOption(argv[n], after[n - 1])
        g == after[Len(argv)]
    IN IF g.verdict = "start" /\ \E n \in DOMAIN argv : argv[n].opt = "word"
       THEN [g EXCEPT !.verdict = "refuse"]
       ELSE g

(* What that list is, without the loop.  The places of the -s options for    *)
(* an interface:                                                            *)
Mentions(argv, inf) == {k \in DOMAIN argv : argv[k].opt = "s" /\ argv[k].inf = inf}

\* the servers that stand there, in the order of the command line
InOrder(srvlist, argv, inf) ==
    \E at \in [DOMAIN srvlist -> Mentions(argv, inf)] :
        /\ \A k \in Mentions(argv, inf) : \E n \in DOMAIN srvlist : at[n] = k
        /\ \A n, m \in DOMAIN srvlist : n < m => at[n] < at[m]
        /\ \A n \in DOMAIN srvlist : srvlist[n] = argv[at[n]].arg

\* interfaces come in the reverse of the order in which they are first named
ListsTheServers(list, argv) ==
    /\ \A k \in DOMAIN argv : argv[k].opt = "s" => search_infnode(list, argv[k].inf)
    /\ \A n \in DOMAIN list : Mentions(argv, list[n].inf) # {}
    /\ \A n \in DOMAIN list : InOrder(list[n].srvlist, argv, list[n].inf)
    /\ \A n, m \in DOMAIN list : n < m =>
            \E k \in Mentions(argv, list[m].inf) : \A l \in Mentions(argv, list[n].inf) : k < l
=============================================================================
