----------------------------- MODULE MCTransfer -----------------------------
EXTENDS Transfer

MCBox(m, n)  == [moof |-> m, size |-> n]
MCFragment(n) == IF n = 1 THEN <<MCBox(TRUE, 1)>> ELSE <<MCBox(TRUE, 1), MCBox(FALSE, n - 1)>>

\* Init segments, or none when the file is cut badly; then fragments that join a
\* chunk, fill it or exceed it; a rest that is no box or none;
\* and an empty file.
MCLayouts ==
  LET init == <<MCBox(FALSE, 1)>>
      two  == <<MCBox(FALSE, 1), MCBox(FALSE, 3)>>
      cuts == {<<>>, <<1>>, <<4>>, <<1, 1>>, <<1, 4>>, <<4, 2>>, <<2, 2>>,
               <<1, 1, 1>>, <<1, 2, 2>>, <<2, 1, 1>>, <<2, 2, 2>>}
      ends == {<<init, 0>>, <<init, 1>>, <<two, 0>>, <<<<>>, 1>>}
  IN {[boxes |-> e[1] \o FlattenSeq([k \in DOMAIN c |-> MCFragment(c[k])]), tail |-> e[2]] :
        e \in ends, c \in cuts} \cup {NoLayout}
=============================================================================
