------------------------------ MODULE MCAnswers ------------------------------
(***************************************************************************)
(* A small instance of Answers for TLC: the synthesis of one answer of at  *)
(* most two chunks of prose, and a page that may open at any time.         *)
(***************************************************************************)
EXTENDS Answers

Answer1 == {"s1"}

NoScript == {[w \in Answer1 |-> <<>>]}

NoSources == [s \in Answer1 |-> {}]
=============================================================================
