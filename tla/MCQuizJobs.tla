------------------------------ MODULE MCQuizJobs ------------------------------
(* Instances of QuizJobs for TLC. *)
EXTENDS QuizJobs
=============================================================================
