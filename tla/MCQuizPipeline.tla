---------------------------- MODULE MCQuizPipeline ----------------------------
(* An instance of QuizPipeline for TLC. *)
EXTENDS QuizPipeline

Question(sound, els) == [sound |-> sound, elements |-> els]

\* A good question; one with a broken element before another good one; one that is not
\* sound; and one question too many.
SomeReplies == { << Question(TRUE, <<"e">>) >>,
                 << Question(TRUE, <<"broken", "f">>) >>,
                 << Question(FALSE, <<>>) >>,
                 << Question(TRUE, <<>>), Question(TRUE, <<"e">>) >> }

\* One that lacks anything, or one that fails for other reasons.
AnyProvider == [accepts : SUBSET {"tools", "options"}, reliable : {TRUE}]
               \cup {[accepts |-> {"tools", "options"}, reliable |-> FALSE]}
=============================================================================
