------------------------------- MODULE ToolLoop -------------------------------
(***************************************************************************)
(* One call of StreamWithTools (src/internal/ai/tools.go): rounds of a     *)
(* streaming request and of the tools the model asks for, until it answers *)
(* without tools or has used up its rounds.  A provider that refuses       *)
(* stream_options is asked again without (streamRound), and one that       *)
(* refuses tools in the first round is asked without tools (Client.Stream  *)
(* of ai/ai.go).  A stream that breaks off is read as one that ended.      *)
(* Texts are left out but for whether there is any.                        *)
(***************************************************************************)
EXTENDS Naturals, Sequences

CONSTANTS
    MaxToolRounds,  \* maxToolRounds
    MaxCalls,       \* bound: tool calls of one answer
    Reports,        \* tokens an answer may report; 0: it reports none
    Estimate,       \* what fallbackUsage makes of an answer that reports none
    Providers       \* providers considered, see provider

ASSUME ToolLoopAssumption ==
    /\ MaxToolRounds \in Nat \ {0} /\ MaxCalls \in Nat
    /\ Reports \subseteq Nat /\ Estimate \in Nat \ {0}
    /\ Providers \subseteq [accepts : SUBSET {"tools", "options"}, reliable : BOOLEAN]

VARIABLES
    provider,  \* what it accepts, and whether it fails for other reasons; constant
    loop,      \* [pc, round, told, usage]: the line, the rounds done, whether there
               \* is any text yet, the tokens summed
    conv,      \* the messages after the prompt
    metered    \* tokens of every answer of the provider that has choices (history)

loopVars == <<provider, loop, conv, metered>>

LoopPCs == {"idle", "ask", "again", "tools", "plain", "answered", "failed"}

LoopTypeOK ==
    /\ provider \in Providers
    /\ loop \in [pc : LoopPCs, round : 0..MaxToolRounds, told : BOOLEAN, usage : Nat]
    /\ metered \in Nat

NoLoop == [pc |-> "idle", round |-> 0, told |-> FALSE, usage |-> 0]

LoopInit ==
    /\ provider \in Providers
    /\ loop = NoLoop /\ conv = <<>> /\ metered = 0

-----------------------------------------------------------------------------
(* The conversation *)

Asked(r, n) == [role |-> "assistant", round |-> r, calls |-> n]
Result(r, k) == [role |-> "tool", round |-> r, call |-> k]

\* The answer whose calls are run, how many it asked for, and how many have a result.
Calling == CHOOSE i \in DOMAIN conv : conv[i].role = "assistant" /\ conv[i].round = loop.round
Wanted  == conv[Calling].calls
Served  == Len(conv) - Calling

-----------------------------------------------------------------------------
(* The provider *)

\* The tools go with every request but the one after the last round.
Offered == IF loop.round < MaxToolRounds THEN {"tools"} ELSE {}

\* What an error to a request for these features may name: something the provider does
\* not accept; or nothing, where it may fail for other reasons too.
Errors(features) ==
    (SUBSET (features \ provider.accepts)) \ (IF provider.reliable THEN {{}} ELSE {})

\* It answers only what it accepts.
Answers(features) == features \subseteq provider.accepts

\* The tokens of an answer that reports n.
Counted(n) == IF n = 0 THEN Estimate ELSE n

-----------------------------------------------------------------------------
(* The loop *)

StreamWithTools ==
    /\ loop.pc = "idle"
    /\ loop' = [NoLoop EXCEPT !.pc = "ask"]
    /\ UNCHANGED <<provider, conv, metered>>

\* Mutant: a provider without tools is not asked without them.
RoundFailedForGood(names) == loop' = [loop EXCEPT !.pc = "failed"]

\* Mutant: a round that fails is asked again.
RoundFailedRetried(names) == loop' = [loop EXCEPT !.pc = "ask"]

\* A round that fails ends the call, with the tokens spent so far; the first one may be
\* answered without tools.
RoundFailed(names) ==
    loop' = [loop EXCEPT !.pc = IF loop.round = 0 /\ "tools" \in names
                                THEN "plain" ELSE "failed"]

\* An answer with n calls, with or without text.  The calls of an answer to the request
\* without tools are not run.
RoundAnswered(n, text, used) ==
    /\ metered' = metered + Counted(used)
    /\ LET more == n > 0 /\ loop.round < MaxToolRounds IN
       /\ loop' = [loop EXCEPT !.pc = IF more THEN "tools" ELSE "answered",
                               !.told = @ \/ text, !.usage = @ + Counted(used)]
       /\ conv' = IF more THEN Append(conv, Asked(loop.round, n)) ELSE conv

\* streamRound, with stream_options.
AskRound ==
    /\ loop.pc = "ask"
    /\ \/ /\ Answers(Offered \cup {"options"})
          /\ \E n \in 0..MaxCalls, text \in BOOLEAN, used \in Reports :
                RoundAnswered(n, text, used)
       \/ /\ \E names \in Errors(Offered \cup {"options"}) :
                IF "options" \in names THEN loop' = [loop EXCEPT !.pc = "again"]
                                       ELSE RoundFailed(names)
          /\ UNCHANGED <<conv, metered>>
    /\ UNCHANGED provider

\* streamRound again, without them.
AskAgain ==
    /\ loop.pc = "again"
    /\ \/ /\ Answers(Offered)
          /\ \E n \in 0..MaxCalls, text \in BOOLEAN, used \in Reports :
                RoundAnswered(n, text, used)
       \/ /\ \E names \in Errors(Offered) : RoundFailed(names)
          /\ UNCHANGED <<conv, metered>>
    /\ UNCHANGED provider

\* Mutant: a tool that fails leaves no result.
ExecDropped ==
    /\ loop.pc = "tools"
    /\ \E done \in BOOLEAN :
          /\ conv' = IF done THEN Append(conv, Result(loop.round, Served + 1)) ELSE conv
          /\ loop' = IF done /\ Served + 1 < Wanted THEN loop
                     ELSE [loop EXCEPT !.pc = "ask", !.round = @ + 1]
    /\ UNCHANGED <<provider, metered>>

\* The next call is run.  A tool that fails, that is unknown, or whose arguments broke
\* off has a result that says so.
Exec ==
    /\ loop.pc = "tools"
    /\ conv' = Append(conv, Result(loop.round, Served + 1))
    /\ loop' = IF Served + 1 < Wanted THEN loop
               ELSE [loop EXCEPT !.pc = "ask", !.round = @ + 1]
    /\ UNCHANGED <<provider, metered>>

\* Client.Stream: without tools, and with stream_options whatever was refused before.
StreamPlain ==
    /\ loop.pc = "plain"
    /\ \/ /\ Answers({"options"})
          /\ \E text \in BOOLEAN, used \in Reports :
                /\ loop' = [loop EXCEPT !.pc = "answered", !.told = text,
                                        !.usage = @ + Counted(used)]
                /\ metered' = metered + Counted(used)
       \/ /\ Errors({"options"}) # {}
          /\ loop' = [loop EXCEPT !.pc = "failed"]
          /\ UNCHANGED metered
    /\ UNCHANGED <<provider, conv>>

-----------------------------------------------------------------------------
(* Properties *)

\* Whenever the provider is asked, every call it made has exactly one result, in the
\* order of the calls and before anything else is said: what the API demands.
EveryCallAnswered ==
    loop.pc \in {"ask", "again"} =>
        \A i \in DOMAIN conv :
            /\ conv[i].role = "assistant" =>
                  \A k \in 1..conv[i].calls :
                      i + k \in DOMAIN conv /\ conv[i + k] = Result(conv[i].round, k)
            /\ conv[i].role = "tool" =>
                  i > conv[i].call /\ conv[i - conv[i].call].role = "assistant"

\* A provider that fails for no other reason gives an answer, whichever one of the two
\* features it lacks.
LackingOneServed ==
    loop.pc = "failed" => ~provider.reliable \/ provider.accepts = {}

=============================================================================
