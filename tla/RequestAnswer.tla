---------------------------- MODULE RequestAnswer ----------------------------
(***************************************************************************)
(* What a radio broker promises the manager about the commands it forwards *)
(* to its end devices: it takes them one by one, in the order they come,   *)
(* and each is answered at most once, before the next is taken, or given   *)
(* up.  Where no device is late, the answer to a command is what its own   *)
(* device said to that very command, although what is said may be lost;    *)
(* with late, it is made of what devices said to commands taken so far.    *)
(***************************************************************************)
EXTENDS Integers, Sequences

CONSTANTS
    Dev,       \* the end devices
    NULL       \* no device

VARIABLES
    asked,     \* the device each command taken so far is for, NULL if unknown
    open,      \* the number of the command being served, or 0
    answers,   \* the answers sent, in order
    late       \* what a device says may arrive after it was given up

vars == <<asked, open, answers, late>>

\* What device dev said to command n.
Said == [n : Nat, dev : Dev]
SaidSoFar == {[n |-> n, dev |-> asked[n]] : n \in {n \in 1 .. Len(asked) : asked[n] # NULL}}

Init == asked = <<>> /\ open = 0 /\ answers = <<>> /\ late \in BOOLEAN

Ask(d) ==
    /\ open = 0
    /\ asked' = Append(asked, d)
    /\ open' = IF d = NULL THEN 0 ELSE Len(asked) + 1
    /\ UNCHANGED <<answers, late>>

Answer(S) ==
    /\ open # 0 /\ S # {} /\ S \subseteq SaidSoFar
    /\ ~ late => S = {[n |-> open, dev |-> asked[open]]}
    /\ answers' = Append(answers, [to |-> open, carries |-> S])
    /\ open' = 0
    /\ UNCHANGED <<asked, late>>

GiveUp == open # 0 /\ open' = 0 /\ UNCHANGED <<asked, answers, late>>

Next == \/ \E d \in Dev \cup {NULL} : Ask(d)
        \/ \E S \in SUBSET SaidSoFar : Answer(S)
        \/ GiveUp

Spec == Init /\ [][Next]_vars

----------------------------------------------------------------------------
TypeOK ==
    /\ asked \in Seq(Dev \cup {NULL})
    /\ open \in 0 .. Len(asked) /\ late \in BOOLEAN
    /\ open # 0 => open = Len(asked) /\ asked[open] # NULL
    /\ answers \in Seq([to : Nat \ {0}, carries : SUBSET Said])

\* No command is answered twice, none out of order, none before it was taken,
\* and never the command that is still being served.
InOrder ==
    /\ \A j, k \in 1 .. Len(answers) : j < k => answers[j].to < answers[k].to
    /\ \A j \in 1 .. Len(answers) : answers[j].to <= Len(asked) /\ answers[j].to # open

\* Where no device is late an answer is the target's own, to that command.
OwnAnswer ==
    ~ late => \A j \in 1 .. Len(answers) :
        answers[j].carries = {[n |-> answers[j].to, dev |-> asked[answers[j].to]]}
==============================================================================
