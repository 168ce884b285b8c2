----------------------------- MODULE Precedence -----------------------------
(***************************************************************************)
(* A switch of the program: rows of a condition and a value, in order, of  *)
(* which the first whose condition holds is the answer.  And its loops     *)
(* over a list: one that keeps some of it, and one that goes from each     *)
(* entry to what it leads on to.                                           *)
(***************************************************************************)
EXTENDS Integers, SequencesExt

FirstHolding(rows) ==
    LET first == CHOOSE i \in DOMAIN rows :
                     rows[i][1] /\ \A j \in 1..(i - 1) : ~rows[j][1]
    IN  rows[first][2]

\* What a record says, and of what it says nothing of, what the one below it says.
LaidOver(top, bottom) ==
    [p \in DOMAIN top \cup DOMAIN bottom |-> IF p \in DOMAIN top THEN top[p] ELSE bottom[p]]

\* A function from 1 to some number, which is what a loop goes over.
IsList(s) == s \in Seq(ToSet(s))

\* What stands at some places of a list, in its order.
Picked(list, places) == FlattenSeq([i \in DOMAIN list |-> IF i \in places THEN <<list[i]>> ELSE <<>>])

\* What a step finds at each of a list, one after the other: a step is told what was seen, and
\* what it has seen by then is seen for the next.
Gather(step, list, seen) ==
    LET got[n \in 0..Len(list)] ==
            IF n = 0 THEN [found |-> <<>>, seen |-> seen]
            ELSE LET before == got[n - 1]
                     more == step[list[n]][before.seen]
                 IN  [found |-> before.found \o more.found, seen |-> more.seen]
    IN  got[Len(list)]
=============================================================================
