----------------------------- MODULE MCRetrieval -----------------------------
(***************************************************************************)
(* A small instance of Retrieval for TLC: a question that stands alone, a  *)
(* fragment that needs its antecedent, ambient talk and a topic that may   *)
(* come up, on a clock whose unit is half a cooldown.                      *)
(***************************************************************************)
EXTENDS Retrieval

Texts == {"q", "f", "a"}
Questions == {"q", "f"}
FollowUps == {"f"}
Topics == {"t"}

\* The antecedent tells fragments apart, the topic does not.
NearQueries ==
    [q \in Query |-> {p \in Query :
        \/ p = q
        \/ Len(p) > 1 /\ Len(q) > 1 /\ p[1] = q[1] /\ Last(p) = Last(q)}]
RelatedQueries == [q \in Query |-> {p \in Query : Last(p) = Last(q)}]

MessageSymmetry == Permutations(Message)
=============================================================================
