----------------------------- MODULE BestChain -----------------------------
(***************************************************************************)
(* What fork choice promises (protocol.md, sections 5 and 5.2): the node   *)
(* considers valid blocks one at a time, and after each of them its head   *)
(* is the block with the most cumulative work, the greater hash winning a  *)
(* tie.  The abstract specification that ChainNode implements when it      *)
(* serves one request at a time and does not crash.                        *)
(***************************************************************************)
EXTENDS Integers

CONSTANTS Hash,     \* block hashes
          NoBlock   \* the head of an empty chain

VARIABLES work,     \* work[h]: the cumulative work of a block h considered so far
          head      \* the canonical head

Considered == DOMAIN work

Prefers(h, g) == \/ work[h] > work[g]
                 \/ work[h] = work[g] /\ h > g

\* The head is the best block considered so far.
IsBest(h) == h \in Considered /\ \A g \in Considered \ {h} : Prefers(h, g)

Init == work = [h \in {} |-> 0] /\ head = NoBlock

Consider(h) ==
    /\ h \notin Considered
    /\ Considered' = Considered \cup {h}
    /\ \A g \in Considered : work'[g] = work[g]
    /\ IsBest(head)'

Next == \E h \in Hash : Consider(h)

Spec == Init /\ [][Next]_<<work, head>>
=============================================================================
