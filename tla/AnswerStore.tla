---------------------------- MODULE AnswerStore -----------------------------
(***************************************************************************)
(* What the reply cache of dnrd (src/cache.c) promises to the relay: it    *)
(* keeps answers in the order they came, gives one out for the question it *)
(* answers, the first that came, unchanged, and may forget any of them.    *)
(***************************************************************************)
EXTENDS Naturals, Sequences

CONSTANTS
    Answers,        \* what servers answered
    QuestionOf(_),  \* the question an answer belongs to
    None            \* no answer

VARIABLES
    kept,   \* the answers kept, in the order they came
    given   \* the answer the last step gave out

TypeOK == kept \in Seq(Answers) /\ given \in Answers \cup {None}

Init == kept = <<>> /\ given = None

Keep ==
    /\ kept' \in {Append(kept, a) : a \in Answers}
    /\ given' = None

\* The sequences s becomes when one of its elements is forgotten.
Shorter(s) == {SubSeq(s, 1, i - 1) \o SubSeq(s, i + 1, Len(s)) : i \in DOMAIN s}

Forget == kept' \in Shorter(kept) /\ given' = None

\* The elements of s that are the first for their question.
Firsts(s) ==
    {s[i] : i \in {k \in DOMAIN s :
                \A j \in 1 .. k - 1 : QuestionOf(s[j]) # QuestionOf(s[k])}}

Give == given' \in Firsts(kept) /\ UNCHANGED kept

GiveNothing == given' = None /\ UNCHANGED kept

Next == Keep \/ Forget \/ Give \/ GiveNothing

Spec == Init /\ [][Next]_<<kept, given>>
=============================================================================
