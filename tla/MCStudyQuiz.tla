----------------------------- MODULE MCStudyQuiz -----------------------------
(* Instances of StudyQuiz for TLC. *)
EXTENDS StudyQuiz

AllFaults == {"read", "quiz", "study", "delete", "record", "telemetry", "crash"}
Waits     == [faulty |-> {}, patient |-> TRUE]
Roams     == [faulty |-> {}, patient |-> FALSE]
Suffers   == [faulty |-> AllFaults, patient |-> FALSE]

WaitsOrSuffers == {Waits, Suffers}
OnlyRoams      == {Roams}
=============================================================================
