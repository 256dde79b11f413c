------------------------------ MODULE MCPipeline ------------------------------
(***************************************************************************)
(* A small instance of Pipeline for TLC: two chunks of one document and    *)
(* one of code, in corpora that have everything, only code, only words,    *)
(* only weak and equal matches or nothing for a query.                     *)
(***************************************************************************)
EXTENDS Pipeline

Chunks == {"a", "b", "f"}
CodeChunks == {"f"}
Docs == {"doc", "file"}
Places == [c \in Chunks |-> CASE c = "a" -> 2 [] c = "b" -> 1 [] OTHER -> 3]
Docs_ == [c \in Chunks |-> IF c = "f" THEN "file" ELSE "doc"]

\* Distances: 1 strong, 2 and 3 within the floor of text, 4 and 5 that of code.
Of(a, b, f) == [c \in Chunks |-> CASE c = "a" -> a [] c = "b" -> b [] OTHER -> f]
OfCode(f) == [c \in CodeChunks |-> f]

Ranked(text, code, words, again, codeAgain, wordsAgain) ==
    [text |-> [q \in Query |-> IF q = "asked" THEN text ELSE again],
     code |-> [q \in Query |-> OfCode(IF q = "asked" THEN code ELSE codeAgain)],
     words |-> [q \in Query |-> IF q = "asked" THEN words ELSE wordsAgain]]

Nothing == Of(7, 8, 9)

MCCorpora ==
    {Ranked(Of(1, 2, 9), 4, <<"b">>, Nothing, 9, <<>>),
     Ranked(Of(3, 3, 9), 5, <<"f">>, Nothing, 9, <<>>),
     Ranked(Nothing, 4, <<>>, Nothing, 4, <<>>),
     Ranked(Nothing, 9, <<"a">>, Nothing, 9, <<"a">>),
     Ranked(Nothing, 9, <<>>, Of(2, 7, 9), 9, <<"a">>),
     Ranked(Nothing, 9, <<>>, Of(2, 7, 9), 5, <<>>),
     Ranked(Nothing, 9, <<>>, Nothing, 9, <<>>)}

MCInputs ==
    {i \in Input :
        /\ i.empty => ~i.scoped /\ ~i.vector /\ i.heuristic = "filler" /\ i.lane = "ambient"
        /\ i.lane = "ambient" => ~i.vector
        /\ i.lane = "question" => i.heuristic # "ambiguous"
        /\ ~i.scoped => ~i.toolShaped}

Usual == [strict |-> FALSE, judge |-> TRUE, router |-> TRUE, expander |-> TRUE,
          reranker |-> TRUE, parents |-> TRUE, synthesizer |-> TRUE]

MCSetups ==
    {Usual, [Usual EXCEPT !.strict = TRUE, !.expander = FALSE],
     [Usual EXCEPT !.parents = FALSE, !.reranker = FALSE, !.judge = FALSE],
     [Usual EXCEPT !.synthesizer = FALSE, !.router = FALSE]}
=============================================================================
