------------------------------ MODULE MCRelay -------------------------------
(* Relay with small networks: OnOne has one server on one interface,       *)
(* OneEach one server on each of two interfaces, and so on.                *)
EXTENDS Relay, TLC

OnOne == <<1>>
OneEach == <<1, 2>>
TwoAndOne == <<1, 1, 2>>

\* The interfaces a host's requests go to: all without -H and -D, else any.
NoHosts == {Infs}
SomeHosts == (SUBSET Infs) \ {{}}

CONSTANTS c1, c2    \* two clients

OneClient == {<<c1, 1>>}
OwnIds == {<<c1, 1>>, <<c2, 2>>}    \* the two clients use different ids
SameId == {<<c1, 1>>, <<c2, 1>>}    \* the two clients happen to use the same
=============================================================================
