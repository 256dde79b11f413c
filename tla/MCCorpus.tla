------------------------------ MODULE MCCorpus ------------------------------
(***************************************************************************)
(* A small instance of Corpus for TLC: two teams and two documents, two    *)
(* admins and two runs at once.                                            *)
(***************************************************************************)
EXTENDS Corpus, TLC

CONSTANTS t1, t2, a1, a2, s1, s2
Teams == {t1, t2}
Admins == {a1, a2}
Slots == {s1, s2}
Alike == Permutations(Teams) \cup Permutations(Admins) \cup Permutations(Slots)
=============================================================================
