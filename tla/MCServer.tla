------------------------------- MODULE MCServer -------------------------------
(* An instance of Server for TLC. *)
EXTENDS Server

\* No header, one that ends in a client, and one that ends in nothing.
SomeHops == {<<>>, <<"x", "y">>, <<"x", "">>}

OldTalks == {<<>>, <<"user", "ai">>, <<"system">>}

\* Three quizzes of the first and one of the second have a mean just below a rank, which
\* rounds up to it.
SomePapers == {[preset |-> "long", correct |-> 14], [preset |-> "fast", correct |-> 3]}

Symmetry == Permutations(Requests)
=============================================================================
