------------------------------ MODULE DnsName -------------------------------
(* get_objname() of dns.c: the loop that turns a name of a DNS packet,      *)
(* labels and compression pointers, into dotted text.  The packet and the   *)
(* place to start at are given by whoever calls it; one step is one turn of *)
(* the loop.  A packet is a sequence of bytes: the code's msg[k] is         *)
(* msg[k + 1] here.                                                         *)
EXTENDS Integers, Sequences

CONSTANTS
    Packets,    \* the packets that may arrive
    DestSize,   \* size of the caller's buffer, RR_NAMESIZE in parse_query()
    UdpMaxSize  \* UDP_MAXSIZE, the bound on pointers of check.h

Bytes == 0 .. 255

\* The program reads no packet of less than a header (check_query()) or of
\* more than UDP_MAXSIZE.
ASSUME DnsNameAssumption ==
    /\ DestSize \in Nat \ {0}
    /\ UdpMaxSize \in Nat
    /\ Packets \subseteq {p \in Seq(Bytes) : Len(p) >= 12 /\ Len(p) <= UdpMaxSize}

VARIABLES
    msg,        \* the packet
    i,          \* the index of the next byte to read
    j,          \* the index of the next byte of dest to write
    depth,      \* pointers followed
    compressed, \* where the packet goes on after the first pointer, or 0
    dest,       \* the text written so far
    pc          \* "name" within the loop, then "done" (i returned) or "refused" (-1)

nameVars == <<msg, i, j, depth, compressed, dest, pc>>

PACKET_DATABEGIN == 12
Dot == 46

Byte(k) == msg[k + 1]

---------------------------------------------------------------------------
(* The call, with the place of the name: the header and what lies behind    *)
(* the packet are refused.                                                  *)
Begin(p, index) ==
    /\ msg' = p /\ i' = index
    /\ j' = 0 /\ depth' = 0 /\ compressed' = 0 /\ dest' = << >>
    /\ pc' = IF index < PACKET_DATABEGIN \/ index >= Len(p) THEN "refused" ELSE "name"

Refuse ==
    /\ pc' = "refused"
    /\ UNCHANGED <<msg, i, j, depth, compressed, dest>>

\* Mutant of LabelCrosses: only the buffer is compared.
BufferOnly(c) == j + c + 1 >= DestSize

(* The byte just read is the last of the packet and not the end of a name. *)
Truncated == i + 1 >= Len(msg)

IsPointer(c) == c >= 192

\* where a pointer whose first byte is c leads to
Target(c) == (c % 64) * 256 + Byte(i + 1)

\* Mutant of Deeper: pointers are not counted.
NotCounted == depth

Deeper == depth + 1

TooDeep == Deeper >= Len(msg) \/ Deeper > UdpMaxSize

LabelCrosses(c) == j + c + 1 >= DestSize \/ i + 1 + c >= Len(msg)

\* Mutant of FirstPointer: every pointer moves the place where the packet goes on.
EveryPointer == i + 2

\* where the record goes on: after the first pointer
FirstPointer == IF compressed = 0 THEN i + 2 ELSE compressed

(* The end of the name.  The dot after the last label is overwritten by the *)
(* terminator; without any label that is dest[-1], and dest stays as it was.*)
EndOfName ==
    /\ pc = "name" /\ Byte(i) = 0
    /\ i' = IF compressed = 0 THEN i + 1 ELSE compressed
    /\ j' = j - 1
    /\ dest' = SubSeq(dest, 1, Len(dest) - 1)
    /\ pc' = IF j - 1 >= DestSize THEN "refused" ELSE "done"
    /\ UNCHANGED <<msg, depth, compressed>>

FollowPointer ==
    /\ pc = "name" /\ IsPointer(Byte(i)) /\ ~Truncated
    /\ ~TooDeep /\ Target(Byte(i)) < Len(msg)
    /\ depth' = Deeper
    /\ compressed' = FirstPointer
    /\ i' = Target(Byte(i))
    /\ UNCHANGED <<msg, j, dest, pc>>

(* init_dns() with tolerant_mode, which is 1, makes every byte valid_char:  *)
(* that test of the copying loop never fails.                               *)
CopyLabel ==
    LET c == Byte(i) IN
    /\ pc = "name" /\ c \in 1 .. 63 /\ ~Truncated
    /\ ~LabelCrosses(c)
    /\ dest' = dest \o SubSeq(msg, i + 2, i + 1 + c) \o <<Dot>>
    /\ j' = j + c + 1
    /\ i' = i + 1 + c
    /\ UNCHANGED <<msg, depth, compressed, pc>>

(* Every return(-1) of the loop. *)
RefuseName ==
    LET c == Byte(i) IN
    /\ pc = "name" /\ c # 0
    /\ \/ Truncated
       \/ IsPointer(c) /\ ~Truncated /\ (TooDeep \/ Target(c) >= Len(msg))
       \/ c \in 1 .. 63 /\ ~Truncated /\ LabelCrosses(c)
       \/ c \in 64 .. 191
    /\ Refuse

get_objname == EndOfName \/ FollowPointer \/ CopyLabel \/ RefuseName

NameInit ==
    /\ msg \in Packets
    /\ i = PACKET_DATABEGIN
    /\ j = 0 /\ depth = 0 /\ compressed = 0 /\ dest = << >>
    /\ pc = IF Len(msg) > PACKET_DATABEGIN THEN "name" ELSE "refused"

NameNext == get_objname

NameSpec == NameInit /\ [][NameNext]_nameVars /\ WF_nameVars(NameNext)

---------------------------------------------------------------------------
(* What a name is, without a loop (RFC 1035, 4.1.4): the label at k and the *)
(* name after it, or the name a pointer leads to.  names are those of the   *)
(* other places; {} is where there is none.                                 *)
LabelAt(p, k) == p[k + 1] \in 1 .. 63 /\ k + 1 + p[k + 1] < Len(p)

Led(p, k) == (p[k + 1] % 64) * 256 + p[k + 2]
PointerAt(p, k) == p[k + 1] >= 192 /\ k + 1 < Len(p) /\ Led(p, k) < Len(p)

NamesHere(p, k, names) ==
    LET c == p[k + 1] IN
    CASE c = 0 -> {<< >>}
      [] LabelAt(p, k) -> {SubSeq(p, k + 2, k + 1 + c) \o <<Dot>> \o rest : rest \in names[k + 1 + c]}
      [] PointerAt(p, k) -> names[Led(p, k)]
      [] OTHER -> {}

(* NamesAt(p)[n] has the names that visit n places at most: none for labels *)
(* and pointers that never end.  A name that ends visits no place twice, so *)
(* Len(p) places are enough.                                                *)
NamesAt(p) ==
    LET names[n \in 0 .. Len(p)] ==
            [k \in 0 .. Len(p) - 1 |-> IF n = 0 THEN {} ELSE NamesHere(p, k, names[n - 1])]
    IN names

\* The name of a question; and the place behind a name: its first pointer or
\* its zero byte end it.
QuestionNames == IF Len(msg) > PACKET_DATABEGIN THEN NamesAt(msg)[Len(msg)][PACKET_DATABEGIN] ELSE {}

EndHere(p, k, end) ==
    IF p[k + 1] = 0 THEN k + 1
    ELSE IF p[k + 1] >= 192 THEN k + 2
    ELSE IF k + 1 + p[k + 1] < Len(p) THEN end[k + 1 + p[k + 1]]
    ELSE Len(p)

InPlaceEnd(p) ==
    LET end[k \in 0 .. Len(p) - 1] == EndHere(p, k, end)
    IN end

(* Every byte read lies in the packet and every byte written in the buffer, *)
(* but for the terminator of a name without labels; the index returned is   *)
(* behind the start and not behind the packet.  Three different tests keep  *)
(* the loop inside, over labels and pointers in any order.                  *)
InBounds ==
    /\ pc = "name" => i \in 0 .. Len(msg) - 1 /\ j \in 0 .. DestSize - 1 /\ depth < Len(msg)
    /\ pc = "done" => i \in PACKET_DATABEGIN + 1 .. Len(msg) /\ j \in -1 .. DestSize - 2

(* Type correctness.  The text is a sequence of bytes of the packet and dots. *)
NameTypeOK ==
    /\ msg \in Packets
    /\ i \in Nat /\ j \in Nat \cup {-1} /\ depth \in Nat /\ compressed \in Nat
    /\ pc \in {"name", "done", "refused"}
    /\ dest \in Seq(Bytes)

(* What InBounds rests on: a place to go on at is known once a pointer was  *)
(* followed, and until then the loop is behind the header.                  *)
PlaceKept ==
    pc = "name" =>
        /\ compressed \in {0} \cup (PACKET_DATABEGIN + 2 .. Len(msg))
        /\ compressed = 0 => i >= PACKET_DATABEGIN

NameInv == NameTypeOK /\ InBounds /\ PlaceKept

(* The loop returns the text of the name, and the place behind it in the    *)
(* record, exactly when the packet holds a name that ends and fits; it       *)
(* refuses every other packet.                                              *)
DecodesTheName ==
    /\ pc = "done" =>
        /\ dest \o <<Dot>> \in QuestionNames \/ (j = -1 /\ << >> \in QuestionNames)
        /\ i = InPlaceEnd(msg)[PACKET_DATABEGIN]
    /\ pc = "refused" => \A name \in QuestionNames : Len(name) >= DestSize

(* Pointers that lead in a circle, with labels on the way or without, do    *)
(* not keep the program in the loop: depth ends the ones, the buffer the    *)
(* others.                                                                  *)
NamesEnd == []<>(pc # "name")
=============================================================================
