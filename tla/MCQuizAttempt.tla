---------------------------- MODULE MCQuizAttempt ----------------------------
(* Instances of QuizAttempt for TLC. *)
EXTENDS QuizAttempt, TLC

AllWrites == Writes
OnlySave  == {"save"}

\* Every attempt of a learner who sends one request at a time; the ranked ones, apart
\* from a test, of a learner who does not.
Attempts  == {k \in [exam : BOOLEAN, ranked : BOOLEAN, test : BOOLEAN, solo : BOOLEAN] :
                k.solo \/ (k.ranked /\ ~k.test)}
Hasty     == [exam : BOOLEAN, ranked : {TRUE}, test : {FALSE}, solo : {FALSE}]

TabOrder  == Permutations(Tabs)
=============================================================================
