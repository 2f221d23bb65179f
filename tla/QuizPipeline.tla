----------------------------- MODULE QuizPipeline -----------------------------
(***************************************************************************)
(* The work of a quiz job: what QuizStart of handlers.go (path "study") and *)
(* TestAttemptStart of tests.go (path "test") give to quizJobs.Start.  It  *)
(* generates the questions (QuizGen) under a deadline, bills them and saves *)
(* the quiz; the manager of QuizJobs runs it.  The manager sees only that  *)
(* it reports and how it ends, and QuizJobs lets it do either at any time; *)
(* so a behaviour is about the manager or about the work.                  *)
(***************************************************************************)
EXTENDS QuizJobs, QuizGen

CONSTANT Paths  \* the handlers considered: "study", "test"

ASSUME QuizPipelineAssumption == Paths \subseteq {"study", "test"}

VARIABLES
    focus,  \* what this behaviour is about: "jobs", "work"
    tail    \* [pc, path, alive, billed, outcome]: the work after the generation, the
            \* handler (None until it matters), whether jobCtx is alive, the tokens in
            \* usage_log (None: AddUsage failed in time), the outcome

pipelineVars == <<vars, genVars, focus, tail>>

Tails == [pc : {"generate", "bill", "save", "over"}, path : Paths \cup {None}, alive : BOOLEAN,
          billed : Nat \cup {None}, outcome : Terminal \cup {None}]

PipelineTypeOK ==
    /\ TypeOK /\ GenTypeOK
    /\ focus \in {"jobs", "work"} /\ tail \in Tails

PipelineInit ==
    /\ Init /\ GenInit
    /\ focus \in {"jobs", "work"}
    /\ focus = "jobs" => /\ provider = CHOOSE p \in Providers : TRUE
                         /\ gen.web = CHOOSE w \in Web : TRUE
    /\ tail = [pc |-> "generate", path |-> None, alive |-> TRUE, billed |-> 0, outcome |-> None]

-----------------------------------------------------------------------------

\* A step of GenerateWithTrace, while there is time.
Generation ==
    /\ tail.pc = "generate" /\ tail.alive /\ ~Over
    /\ GenNext /\ UNCHANGED tail

\* The 15 minutes of jobCtx pass.  What is asked from then on fails, so what is left of the
\* generation comes to nothing but the tokens it has used.
Expire ==
    /\ tail.pc # "over" /\ tail.alive
    /\ tail' = [tail EXCEPT !.alive = FALSE]
    /\ IF Over THEN UNCHANGED <<gen, figures, loop, conv>>
       ELSE /\ gen' = [gen EXCEPT !.pc = "failed", !.usage = @ + loop.usage, !.draft = <<>>]
            /\ figures' = [figures EXCEPT !.tokens = gen'.usage]
            /\ loop' = NoLoop /\ conv' = <<>>
    /\ UNCHANGED <<provider, metered, seen>>

\* The work goes on at pc, or returns with an outcome.
Goes(pc)    == tail' = [tail EXCEPT !.pc = pc]
Returns(o)  == tail' = [tail EXCEPT !.pc = "over", !.outcome = o]

\* Mutant: the study's job looks at the error before it bills, as the test's does.
AfterUnbilled(p) ==
    tail' = [tail EXCEPT !.path = p,
                         !.pc = IF ~Generated THEN "over" ELSE IF p = "study" THEN "bill" ELSE "save",
                         !.outcome = IF Generated THEN None ELSE "failed"]

\* The study's job bills before it looks at the error, the test's when the quiz is saved.
After(p) ==
    tail' = [tail EXCEPT !.path = p,
                         !.pc = IF p = "study" THEN "bill" ELSE IF Generated THEN "save" ELSE "over",
                         !.outcome = IF p = "study" \/ Generated THEN None ELSE "failed"]

GenerationOver ==
    /\ tail.pc = "generate" /\ Over
    /\ \E p \in Paths : After(p)
    /\ UNCHANGED genVars

\* recordAIUsage on jobCtx: after the deadline nothing can be written.  Its error is at
\* most logged.
Bill ==
    /\ tail.pc = "bill"
    /\ \E logged \in IF tail.alive THEN {gen.usage, None} ELSE {0} :
          tail' = [tail EXCEPT
              !.billed  = logged,
              !.pc      = IF tail.path = "study" /\ Generated THEN "save" ELSE "over",
              !.outcome = IF tail.path = "test" THEN "succeeded"
                          ELSE IF Generated THEN None ELSE "failed"]
    /\ UNCHANGED genVars

\* DeleteByStudyInProgress, persistStudyState and persistQuizState for a study, the last
\* alone for a test.
SaveQuiz ==
    /\ tail.pc = "save"
    /\ \/ tail.alive /\ tail.path = "study" /\ Returns("succeeded")
       \/ tail.alive /\ tail.path = "test" /\ Goes("bill")
       \/ Returns("failed")
    /\ UNCHANGED genVars

JobsNext == focus = "jobs" /\ Next /\ UNCHANGED <<genVars, tail, focus>>

WorkNext ==
    /\ focus = "work" /\ UNCHANGED <<vars, focus>>
    /\ Generation \/ Expire \/ GenerationOver \/ Bill \/ SaveQuiz

PipelineNext == JobsNext \/ WorkNext

\* QuizJobs' fairness; and the work goes on: every request has a timeout.
PipelineSpec ==
    PipelineInit /\ [][PipelineNext]_pipelineVars /\ Fairness /\ WF_pipelineVars(WorkNext)

-----------------------------------------------------------------------------
(* Properties *)

\* When a job is over, the learner was shown what the provider counted, or was estimated
\* for it, on every way out.  In time it is in the log too, whatever became of the quiz,
\* unless AddUsage failed; after the deadline it is there or nothing is, since the bill
\* cannot be written any more; and a job of a test that fails returns before the bill.
TokensBilled ==
    tail.pc = "over" =>
        /\ figures.calls > 0 => figures.tokens = metered
        /\ \/ tail.billed \in {metered, None}
           \/ tail.billed = 0 /\ ~tail.alive
           \/ tail.path = "test" /\ tail.outcome = "failed"

\* The work of a job comes to an end, whatever provider, author and reviewer reply.
WorkEnds == focus = "work" => <>(tail.pc = "over")

=============================================================================
