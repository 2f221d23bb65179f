------------------------------- MODULE QuizGen -------------------------------
(***************************************************************************)
(* The generation of a quiz, GenerateWithTrace of                          *)
(* src/internal/quizgen/quizgen.go: research with the tools of the web, an *)
(* author, an adversarial review, and up to MaxAttempts rounds of the last *)
(* two.  The research is a call of ToolLoop whose tools collect sources.   *)
(* A question is whether it is sound (what validate asks of its texts,     *)
(* options and key) and its structured elements.  Of the figures shown to  *)
(* the learner, searches and pages are left out: they count like sources.  *)
(***************************************************************************)
EXTENDS ToolLoop

CONSTANTS
    Count,         \* Spec.Count
    MaxAttempts,   \* maxAttempts
    Web,           \* values of Spec.Web considered
    MaxElements,   \* elements.MaxElements
    Elements,      \* structured elements
    ValidElements, \* those that pass Element.Validate
    Replies,       \* questions a reply of author or reviewer may hold
    MaxFound       \* bound: results of all searches

ASSUME QuizGenAssumption ==
    /\ Count \in Nat \ {0} /\ MaxAttempts \in Nat \ {0} /\ MaxElements \in Nat
    /\ MaxFound \in Nat /\ Web \subseteq BOOLEAN /\ ValidElements \subseteq Elements
    /\ Replies \subseteq Seq([sound : BOOLEAN, elements : Seq(Elements)])

VARIABLES
    gen,      \* [pc, web, attempt, sources, draft, quiz, usage]
    seen,     \* the research's own metrics
    figures   \* metrics of GenerateWithTrace, as delivered with the last Progress

genVars == <<loopVars, gen, seen, figures>>

GenPCs    == {"start", "research", "author", "review", "review again", "done", "failed"}
NoFigures == [attempt |-> 0, calls |-> 0, tokens |-> 0, sources |-> 0]
Figures   == [attempt : 0..MaxAttempts, calls : Nat, tokens : Nat, sources : Nat]

GenTypeOK ==
    /\ LoopTypeOK
    /\ gen.pc \in GenPCs /\ gen.web \in Web /\ gen.attempt \in 0..MaxAttempts
    /\ gen.sources \in Nat /\ gen.usage \in Nat
    /\ seen \in Figures /\ figures \in Figures

GenInit ==
    /\ LoopInit
    /\ gen \in [pc : {"start"}, web : Web, attempt : {0}, sources : {0},
                draft : {<<>>}, quiz : {<<>>}, usage : {0}]
    /\ seen = NoFigures /\ figures = NoFigures

-----------------------------------------------------------------------------
(* What a reply holds *)

\* parseQuestionsRecoveringElements: elements that are not valid, or too many, are
\* removed, and the question stays.
Parsed(qs) ==
    [i \in DOMAIN qs |->
        LET valid == SelectSeq(qs[i].elements, LAMBDA e : e \in ValidElements)
        IN  [qs[i] EXCEPT !.elements =
                SubSeq(valid, 1, IF Len(valid) < MaxElements THEN Len(valid) ELSE MaxElements)]]

\* Mutant: the reviewer's elements are taken.
ElementsReviewed(authored, reviewed) == reviewed

\* preserveAuthorElements, question by question.
preserveAuthorElements(authored, reviewed) ==
    IF Len(authored) # Len(reviewed) THEN reviewed
    ELSE [i \in DOMAIN reviewed |-> [reviewed[i] EXCEPT !.elements = authored[i].elements]]

\* elements.ValidateAll
ElementsValid(q) ==
    /\ Len(q.elements) <= MaxElements
    /\ \A k \in DOMAIN q.elements : q.elements[k] \in ValidElements

validate(qs) ==
    /\ Len(qs) = Count
    /\ \A i \in DOMAIN qs : qs[i].sound /\ ElementsValid(qs[i])

-----------------------------------------------------------------------------
(* Research *)

\* Without the web there is nothing to research; the author starts.
Authoring(g) == [g EXCEPT !.pc = "author", !.attempt = 1]

BeginGeneration ==
    /\ gen.pc = "start"
    /\ IF gen.web
       THEN gen' = [gen EXCEPT !.pc = "research"] /\ StreamWithTools
       ELSE gen' = Authoring(gen) /\ UNCHANGED loopVars
    /\ UNCHANGED <<seen, figures>>

\* emit: report takes a copy of the research's metrics for its own.
Emit == figures' = seen'

\* A round, whose usage is an event: one more call of the model, and its tokens.
ResearchRound ==
    /\ gen.pc = "research"
    /\ AskRound \/ AskAgain
    /\ IF loop'.usage > loop.usage
       THEN /\ seen' = [seen EXCEPT !.calls = @ + 1, !.tokens = loop'.usage]
            /\ Emit
       ELSE UNCHANGED <<seen, figures>>
    /\ UNCHANGED gen

\* search_web with n results, which become sources; or fetch_url, or a tool that fails.
ResearchTool ==
    /\ gen.pc = "research"
    /\ Exec
    /\ \E n \in 0..(MaxFound - seen.sources) : seen' = [seen EXCEPT !.sources = @ + n]
    /\ Emit
    /\ UNCHANGED gen

\* The fallback's usage is no event: it is counted when research returns.
ResearchPlain ==
    /\ gen.pc = "research" /\ StreamPlain
    /\ UNCHANGED <<gen, seen, figures>>

\* research returns: a brief that has text and sources, or an error; what the loop spent
\* is counted either way.
ResearchReturns ==
    /\ gen.pc = "research" /\ loop.pc \in {"answered", "failed"}
    /\ LET spent == [gen EXCEPT !.usage = @ + loop.usage, !.sources = seen.sources] IN
       gen' = IF loop.pc = "answered" /\ loop.told /\ seen.sources > 0
              THEN Authoring(spent) ELSE [spent EXCEPT !.pc = "failed"]
    /\ seen' = [seen EXCEPT !.calls = IF @ = 0 THEN 1 ELSE @, !.tokens = loop.usage]
    /\ IF seen.tokens # loop.usage THEN Emit ELSE UNCHANGED figures
    /\ loop' = NoLoop /\ conv' = <<>>
    /\ UNCHANGED <<provider, metered>>

-----------------------------------------------------------------------------
(* Author and review: one request of Complete each *)

NextAttempt(g) ==
    IF g.attempt < MaxAttempts
    THEN [g EXCEPT !.pc = "author", !.attempt = @ + 1, !.draft = <<>>]
    ELSE [g EXCEPT !.pc = "failed", !.draft = <<>>]

\* The call returned n tokens and g is the generation as it goes on: usage and figures
\* are counted before anything is reported.
Spent(n, g) ==
    /\ gen' = [g EXCEPT !.usage = gen.usage + n]
    /\ figures' = [figures EXCEPT !.attempt = gen.attempt, !.calls = @ + 1,
                                  !.tokens = gen.usage + n]
    /\ UNCHANGED <<provider, loop, conv, seen>>

\* The request fails, or its reply has no choices, whose usage Complete drops.
CompleteFailed(g) == Spent(0, g) /\ UNCHANGED metered

\* The reply is no JSON of questions: an error, but its tokens are counted.
CompleteUnparsed(g) ==
    \E used \in Reports : Spent(Counted(used), g) /\ metered' = metered + Counted(used)

\* The reply holds the questions that g has.
CompleteParsed(g) == CompleteUnparsed(g)

author ==
    /\ gen.pc = "author"
    /\ \/ CompleteFailed(NextAttempt(gen)) \/ CompleteUnparsed(NextAttempt(gen))
       \/ \E qs \in Replies : CompleteParsed([gen EXCEPT !.pc = "review", !.draft = Parsed(qs)])

\* What the reviewer's questions come to.
Reviewed(qs) ==
    LET final == preserveAuthorElements(gen.draft, Parsed(qs)) IN
    IF validate(final) THEN [gen EXCEPT !.pc = "done", !.quiz = final] ELSE NextAttempt(gen)

\* A review that fails is done once more on the same draft; one whose questions are not
\* valid is not.
review ==
    /\ gen.pc = "review"
    /\ \/ LET again == [gen EXCEPT !.pc = "review again"]
          IN  CompleteFailed(again) \/ CompleteUnparsed(again)
       \/ \E qs \in Replies : CompleteParsed(Reviewed(qs))

reviewAgain ==
    /\ gen.pc = "review again"
    /\ \/ CompleteFailed(NextAttempt(gen)) \/ CompleteUnparsed(NextAttempt(gen))
       \/ \E qs \in Replies : CompleteParsed(Reviewed(qs))

GenNext ==
    \/ BeginGeneration
    \/ ResearchRound \/ ResearchTool \/ ResearchPlain \/ ResearchReturns
    \/ author \/ review \/ reviewAgain

-----------------------------------------------------------------------------
(* Properties *)

Generated == gen.pc = "done"
Over      == gen.pc \in {"done", "failed"}

\* A quiz that is returned keeps the contract, whatever the author and the reviewer
\* replied: the number of questions, each sound, with valid elements, a research that
\* read something behind it; and each question has the elements of the author's
\* question in its place, if the author wrote as many.
QuizHonoursContract ==
    Generated =>
        /\ Len(gen.quiz) = Count
        /\ \A i \in 1..Count : gen.quiz[i].sound /\ ElementsValid(gen.quiz[i])
        /\ gen.web => gen.sources > 0
        /\ Len(gen.draft) = Count =>
              \A i \in 1..Count : gen.quiz[i].elements = gen.draft[i].elements
=============================================================================
