------------------------------ MODULE MCReview ------------------------------
(* A small instance of Review for TLC. *)
EXTENDS Review

CONSTANTS decider, other, parked1, parked2, edited, later

\* One command at a time, often interrupted, and two at once.
MCAlone == [procs |-> {decider}, inbox |-> {}, parked |-> {parked1, parked2}, work |-> {edited, later}, offered |-> {edited},
            crashes |-> 3, sessions |-> 2]
MCTwo == [procs |-> {decider, other}, inbox |-> {decider}, parked |-> {parked1}, work |-> {edited}, offered |-> {}, crashes |-> 1, sessions |-> 1]
MCScenes == {MCAlone, MCTwo}

\* The second proposal needs the first.
MCPassing == {t \in Trees : parked2 \in t => parked1 \in t}
=============================================================================
