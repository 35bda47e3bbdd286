---------------------------- MODULE MCLifecycle -----------------------------
(* Lifecycle with a few process ids and command lines.                       *)
EXTENDS Lifecycle, TLC

CONSTANTS p1, p2, f1, f2

Opt(letter, arg, inf) == [opt |-> letter, arg |-> arg, inf |-> inf]

Daemon == <<Opt("s", 1, "a"), Opt("s", 2, "b"), Opt("s", 3, "a"), Opt("D", 0, "b"), Opt("l", 0, "")>>
Terminal == <<Opt("r", 0, ""), Opt("d", 1, ""), Opt("s", 1, "b")>>
Kill == <<Opt("k", 0, ""), Opt("?", 0, "")>>
BadServer == <<Opt("s", 1, "c"), Opt("k", 0, "")>>
Words == <<Opt("word", 0, ""), Opt("s", 1, "a")>>
Help == <<Opt("set", 1, ""), Opt("h", 0, "")>>

Few == {Daemon, Terminal, Kill}
Many == {Daemon, Terminal, Kill, BadServer, Words, Help}
=============================================================================
