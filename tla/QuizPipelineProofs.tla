-------------------------- MODULE QuizPipelineProofs --------------------------
(* Theorems about the work of a quiz job, for every bound, every provider, every *)
(* set of replies and every deadline: the calls of the research, the generation  *)
(* and what the handlers bill.                                                   *)
EXTENDS QuizPipeline, SequenceTheorems, TLAPS

LEMMA Constants ==
    /\ MaxToolRounds \in Nat /\ MaxToolRounds > 0 /\ MaxCalls \in Nat
    /\ Reports \subseteq Nat /\ Estimate \in Nat
    /\ Providers \subseteq [accepts : SUBSET {"tools", "options"}, reliable : BOOLEAN]
    /\ Count \in Nat /\ MaxAttempts \in Nat /\ MaxAttempts > 0 /\ MaxFound \in Nat
    /\ Web \subseteq BOOLEAN /\ Replies \subseteq Seq([sound : BOOLEAN, elements : Seq(Elements)])
    /\ Paths \subseteq {"study", "test"}
<1>1. /\ MaxToolRounds \in Nat /\ MaxToolRounds > 0 /\ MaxCalls \in Nat
      /\ Reports \subseteq Nat /\ Estimate \in Nat
  BY ToolLoopAssumption
<1>2. Providers \subseteq [accepts : SUBSET {"tools", "options"}, reliable : BOOLEAN]
  BY ToolLoopAssumption
<1>3. /\ Count \in Nat /\ MaxAttempts \in Nat /\ MaxAttempts > 0 /\ MaxFound \in Nat
      /\ Web \subseteq BOOLEAN
  BY QuizGenAssumption
<1>4. Replies \subseteq Seq([sound : BOOLEAN, elements : Seq(Elements)])
  BY QuizGenAssumption
<1>5. QED
  BY <1>1, <1>2, <1>3, <1>4, QuizPipelineAssumption

\* What an answer counts for is a number of tokens.
LEMMA CountedType ==
    ASSUME NEW n \in Reports
    PROVE  Counted(n) \in Nat
BY Constants DEF Counted

-----------------------------------------------------------------------------
(* The loop *)

\* A request is repeated without stream_options only where the provider lacks them, and
\* made without tools only where it lacks those; a provider that has answered with tools
\* has them, and no tool runs after the last round.
LoopInv ==
    /\ LoopTypeOK
    /\ loop.pc = "again" => "options" \notin provider.accepts
    /\ loop.pc = "plain" => "tools" \notin provider.accepts
    /\ loop.round > 0 \/ loop.pc = "tools" => "tools" \in provider.accepts
    /\ loop.pc = "tools" => loop.round < MaxToolRounds
    /\ LackingOneServed

Loops == [pc : LoopPCs, round : 0..MaxToolRounds, told : BOOLEAN, usage : Nat]

\* The provider's answer and the loop count the same tokens.
Charged == \E n \in Nat : loop'.usage = loop.usage + n /\ metered' = metered + n

\* A loop at another line, with more usage.
LEMMA LoopMoves ==
    ASSUME LoopInv, NEW pc \in LoopPCs, NEW told \in BOOLEAN, NEW used \in Nat,
           loop' = [loop EXCEPT !.pc = pc, !.told = told, !.usage = loop.usage + used]
    PROVE  /\ loop' \in Loops /\ loop'.pc = pc /\ loop'.round = loop.round
           /\ loop'.usage = loop.usage + used
<1>1. loop \in Loops /\ loop.usage + used \in Nat
  BY DEF LoopInv, LoopTypeOK, Loops
<1>2. QED
  BY <1>1 DEF Loops

\* Nothing was asked, or the answer had no choices.
LEMMA NothingCharged ==
    ASSUME LoopInv, loop'.usage = loop.usage, metered' = metered
    PROVE  Charged
<1>1. loop.usage = loop.usage + 0 /\ metered = metered + 0
  BY DEF LoopInv, LoopTypeOK
<1>2. QED
  BY <1>1 DEF Charged

LEMMA LoopTyped ==
    ASSUME LoopInv
    PROVE  /\ loop \in Loops /\ metered \in Nat /\ loop.usage \in Nat
           /\ loop.round \in Nat /\ loop.round <= MaxToolRounds
           /\ provider.accepts \subseteq {"tools", "options"}
BY Constants DEF LoopInv, LoopTypeOK, Loops

\* A round that is answered goes on to its tools only if it was asked with them.
LEMMA AnsweredKeeps ==
    ASSUME LoopInv, NEW n \in 0..MaxCalls, NEW text \in BOOLEAN, NEW used \in Reports,
           RoundAnswered(n, text, used), Answers(Offered), UNCHANGED provider
    PROVE  LoopInv' /\ Charged
<1>1. Counted(used) \in Nat
  BY CountedType
<1>2. PICK pc \in {"tools", "answered"} :
        /\ pc = "tools" => loop.round < MaxToolRounds
        /\ loop' = [loop EXCEPT !.pc = pc, !.told = loop.told \/ text,
                                !.usage = loop.usage + Counted(used)]
  BY DEF RoundAnswered
<1>3. metered' = metered + Counted(used)
  BY DEF RoundAnswered
<1>4. /\ loop' \in Loops /\ loop'.pc = pc /\ loop'.round = loop.round
      /\ loop'.usage = loop.usage + Counted(used) /\ metered' \in Nat
  <2>1. (loop.told \/ text) \in BOOLEAN /\ pc \in LoopPCs
    BY DEF LoopPCs
  <2>2. metered' \in Nat
    BY <1>1, <1>3, LoopTyped
  <2>3. QED
    BY <1>1, <1>2, <2>1, <2>2, LoopMoves
<1>5. pc = "tools" => "tools" \in provider.accepts
  BY <1>2 DEF Answers, Offered
<1>6. LoopInv'
  BY <1>2, <1>4, <1>5 DEF LoopInv, LoopTypeOK, Loops, LackingOneServed
<1>7. QED
  BY <1>1, <1>3, <1>4, <1>6 DEF Charged

\* Where the error names nothing but the tools, a provider that has none is asked
\* without them, and one that fails for no other reason never fails.
LEMMA FailedKeeps ==
    ASSUME LoopInv, NEW features \in {Offered, Offered \cup {"options"}},
           NEW names \in Errors(features), "options" \notin names,
           RoundFailed(names), UNCHANGED <<provider, metered>>
    PROVE  LoopInv' /\ Charged
<1>1. PICK pc \in {"plain", "failed"} :
        /\ loop' = [loop EXCEPT !.pc = pc]
        /\ pc = "plain" <=> loop.round = 0 /\ "tools" \in names
  BY DEF RoundFailed
<1>2. loop' \in Loops /\ loop'.pc = pc /\ loop'.round = loop.round /\ loop'.usage = loop.usage
  BY <1>1, LoopTyped DEF Loops, LoopPCs
<1>3. /\ names \subseteq {"tools", "options"} /\ names \cap provider.accepts = {}
      /\ provider.reliable => names # {}
  BY DEF Errors, Offered
<1>4. provider.reliable => "tools" \in names /\ loop.round = 0
  <2>1. provider.reliable => "tools" \in names
    BY <1>3
  <2>2. "tools" \in names => ~(loop.round > 0)
    BY <1>3 DEF LoopInv
  <2>3. QED
    BY <2>1, <2>2, LoopTyped
<1>5. LoopInv'
  BY <1>1, <1>2, <1>3, <1>4 DEF LoopInv, LoopTypeOK, Loops, LackingOneServed
<1>6. QED
  BY <1>2, <1>5, NothingCharged

LEMMA RoundKeeps ==
    ASSUME LoopInv, AskRound \/ AskAgain
    PROVE  LoopInv' /\ Charged
<1>1. CASE AskRound
  <2>1. CASE /\ Answers(Offered \cup {"options"})
             /\ \E n \in 0..MaxCalls, text \in BOOLEAN, used \in Reports :
                   RoundAnswered(n, text, used)
    BY <1>1, <2>1, AnsweredKeeps DEF AskRound, Answers
  <2>2. ASSUME NEW names \in Errors(Offered \cup {"options"}), "options" \in names,
               loop' = [loop EXCEPT !.pc = "again"], UNCHANGED <<provider, metered>>
        PROVE  LoopInv' /\ Charged
    <3>1. /\ loop' \in Loops /\ loop'.pc = "again" /\ loop'.round = loop.round
          /\ loop'.usage = loop.usage
      BY <2>2, LoopTyped DEF Loops, LoopPCs
    <3>2. "options" \notin provider.accepts
      BY <2>2 DEF Errors
    <3>3. LoopInv'
      BY <2>2, <3>1, <3>2 DEF LoopInv, LoopTypeOK, Loops, LackingOneServed
    <3>4. QED
      BY <2>2, <3>1, <3>3, NothingCharged
  <2>3. ASSUME NEW names \in Errors(Offered \cup {"options"}), "options" \notin names,
               RoundFailed(names), UNCHANGED <<provider, metered>>
        PROVE  LoopInv' /\ Charged
    BY <2>3, FailedKeeps
  <2>4. QED
    BY <1>1, <2>1, <2>2, <2>3 DEF AskRound
<1>2. CASE AskAgain
  <2>1. CASE /\ Answers(Offered)
             /\ \E n \in 0..MaxCalls, text \in BOOLEAN, used \in Reports :
                   RoundAnswered(n, text, used)
    BY <1>2, <2>1, AnsweredKeeps DEF AskAgain
  <2>2. ASSUME NEW names \in Errors(Offered), RoundFailed(names),
               UNCHANGED <<provider, metered>>
        PROVE  LoopInv' /\ Charged
    <3>1. "options" \notin names
      BY DEF Errors, Offered
    <3>2. QED
      BY <2>2, <3>1, FailedKeeps
  <2>3. QED
    BY <1>2, <2>1, <2>2 DEF AskAgain
<1>3. QED
  BY <1>1, <1>2

LEMMA ExecKeeps ==
    ASSUME LoopInv, Exec
    PROVE  LoopInv' /\ loop'.usage = loop.usage
<1>1. CASE loop' = loop
  BY <1>1 DEF Exec, LoopInv, LoopTypeOK, LackingOneServed
<1>2. CASE loop' = [loop EXCEPT !.pc = "ask", !.round = loop.round + 1]
  <2>1. loop.pc = "tools" /\ loop.round < MaxToolRounds /\ UNCHANGED <<provider, metered>>
    BY DEF Exec, LoopInv
  <2>2. /\ loop' \in Loops /\ loop'.pc = "ask" /\ loop'.usage = loop.usage
        /\ loop'.round = loop.round + 1
    <3>1. loop.round + 1 \in 0..MaxToolRounds
      BY <2>1, LoopTyped, Constants
    <3>2. QED
      BY <1>2, <3>1, LoopTyped DEF Loops, LoopPCs
  <2>3. QED
    BY <2>1, <2>2 DEF LoopInv, LoopTypeOK, Loops, LackingOneServed
<1>3. QED
  BY <1>1, <1>2 DEF Exec

LEMMA PlainKeeps ==
    ASSUME LoopInv, StreamPlain
    PROVE  LoopInv' /\ Charged
<1>1. ASSUME NEW text \in BOOLEAN, NEW used \in Reports,
             loop' = [loop EXCEPT !.pc = "answered", !.told = text,
                                  !.usage = loop.usage + Counted(used)],
             metered' = metered + Counted(used)
      PROVE  LoopInv' /\ Charged
  <2>1. Counted(used) \in Nat
    BY CountedType
  <2>2. /\ loop' \in Loops /\ loop'.pc = "answered" /\ loop'.round = loop.round
        /\ loop'.usage = loop.usage + Counted(used) /\ metered' \in Nat
    <3>1. metered' \in Nat /\ "answered" \in LoopPCs
      BY <1>1, <2>1, LoopTyped DEF LoopPCs
    <3>2. QED
      BY <1>1, <2>1, <3>1, LoopMoves
  <2>3. LoopInv'
    BY <2>2 DEF StreamPlain, LoopInv, LoopTypeOK, Loops, LackingOneServed
  <2>4. QED
    BY <1>1, <2>1, <2>2, <2>3 DEF Charged
<1>2. ASSUME Errors({"options"}) # {}, loop' = [loop EXCEPT !.pc = "failed"], UNCHANGED metered
      PROVE  LoopInv' /\ Charged
  <2>1. /\ loop' \in Loops /\ loop'.pc = "failed" /\ loop'.round = loop.round
        /\ loop'.usage = loop.usage
    BY <1>2, LoopTyped DEF Loops, LoopPCs
  <2>2. provider.reliable => provider.accepts = {}
    BY <1>2, LoopTyped DEF Errors, StreamPlain, LoopInv
  <2>3. LoopInv'
    BY <1>2, <2>1, <2>2 DEF StreamPlain, LoopInv, LoopTypeOK, Loops, LackingOneServed
  <2>4. QED
    BY <1>2, <2>1, <2>3, NothingCharged
<1>3. QED
  BY <1>1, <1>2 DEF StreamPlain

\* A call that begins, or that is over, has used nothing yet.
LEMMA FreshLoop ==
    ASSUME LoopInv, NEW pc \in LoopPCs \ {"again", "plain", "tools", "failed"},
           loop' = [pc |-> pc, round |-> 0, told |-> FALSE, usage |-> 0], UNCHANGED provider, metered' \in Nat
    PROVE  LoopInv' /\ loop'.usage = 0
<1>1. 0 \in 0..MaxToolRounds
  BY Constants
<1>2. /\ loop' \in Loops /\ loop'.pc = pc /\ loop'.round = 0 /\ loop'.usage = 0
  <2>1. pc \in LoopPCs /\ FALSE \in BOOLEAN /\ 0 \in Nat
    OBVIOUS
  <2>2. [pc |-> pc, round |-> 0, told |-> FALSE, usage |-> 0] \in Loops
    BY <1>1, <2>1 DEF Loops
  <2>3. QED
    BY <2>2
<1>3. LoopTypeOK'
  BY <1>2 DEF LoopInv, LoopTypeOK, Loops
<1>4. pc # "again" /\ pc # "plain" /\ pc # "tools" /\ pc # "failed" /\ ~(0 > 0)
  OBVIOUS
<1>5. QED
  BY <1>2, <1>3, <1>4 DEF LoopInv, LackingOneServed

-----------------------------------------------------------------------------
(* The conversation of the research *)

Messages == [role : {"assistant"}, round : Nat, calls : Nat \ {0}]
            \cup [role : {"tool"}, round : Nat, call : Nat]

\* The call that the answer at position i made is followed by its results.
Complete(i) ==
    conv[i].role = "assistant" =>
        \A k \in 1..conv[i].calls : i + k \in DOMAIN conv /\ conv[i + k] = Result(conv[i].round, k)

\* A result follows the answer that asked for it.
Follows(i) ==
    conv[i].role = "tool" => i > conv[i].call /\ conv[i - conv[i].call].role = "assistant"

\* While tools run, the answer of this round is at position i, and has a result for each
\* of its first calls, but not for the last yet.
Running(i) ==
    /\ i \in DOMAIN conv /\ conv[i].role = "assistant" /\ conv[i].round = loop.round
    /\ Len(conv) < i + conv[i].calls
    /\ \A j \in i + 1..Len(conv) : conv[j] = Result(loop.round, j - i)
    /\ \A j \in 1..i - 1 : conv[j].round < loop.round /\ Complete(j)

ConvInv ==
    /\ conv \in Seq(Messages)
    /\ loop.pc = "idle" => conv = <<>>
    /\ \A i \in DOMAIN conv : Follows(i)
    /\ IF loop.pc = "tools" THEN \E i \in DOMAIN conv : Running(i)
       ELSE \A i \in DOMAIN conv : conv[i].round < loop.round /\ Complete(i)

LEMMA AskedType ==
    /\ \A r \in Nat, n \in Nat \ {0} :
          /\ Asked(r, n) \in Messages /\ Asked(r, n).role = "assistant"
          /\ Asked(r, n).round = r /\ Asked(r, n).calls = n
    /\ \A r, k \in Nat :
          /\ Result(r, k) \in Messages /\ Result(r, k).role = "tool"
          /\ Result(r, k).round = r /\ Result(r, k).call = k
BY DEF Asked, Result, Messages

\* What is appended leaves the rest in its place.
LEMMA Appended ==
    ASSUME NEW s \in Seq(Messages), NEW m \in Messages
    PROVE  /\ Append(s, m) \in Seq(Messages) /\ Len(s) \in Nat
           /\ Len(Append(s, m)) = Len(s) + 1
           /\ DOMAIN s = 1..Len(s) /\ DOMAIN Append(s, m) = 1..Len(s) + 1
           /\ \A i \in 1..Len(s) : Append(s, m)[i] = s[i] /\ s[i] \in Messages
           /\ Append(s, m)[Len(s) + 1] = m
<1>1. /\ Append(s, m) \in Seq(Messages) /\ Len(Append(s, m)) = Len(s) + 1 /\ Len(s) \in Nat
      /\ \A i \in 1..Len(s) : Append(s, m)[i] = s[i]
      /\ Append(s, m)[Len(s) + 1] = m
  OBVIOUS
<1>2. DOMAIN s = 1..Len(s) /\ \A i \in 1..Len(s) : s[i] \in Messages
  OBVIOUS
<1>3. QED
  BY <1>1, <1>2

\* A round that ends without calls, or fails.
LEMMA ConvStays ==
    ASSUME ConvInv, loop.pc \notin {"tools", "idle"}, UNCHANGED conv, loop'.round = loop.round,
           loop'.pc \notin {"tools", "idle"}
    PROVE  ConvInv'
BY DEF ConvInv, Follows, Complete, Result

\* The calls of an answer are about to be run.
LEMMA ConvAsked ==
    ASSUME ConvInv, LoopInv, NEW n \in Nat \ {0}, loop.pc \notin {"tools", "idle"},
           conv' = Append(conv, Asked(loop.round, n)), loop'.pc = "tools", loop'.round = loop.round
    PROVE  ConvInv'
<1>0. PICK L : L = Len(conv) + 1
  OBVIOUS
<1>1. loop.round \in Nat /\ Asked(loop.round, n) \in Messages
  BY Constants, AskedType DEF LoopInv, LoopTypeOK
<1>2. /\ conv \in Seq(Messages) /\ conv' \in Seq(Messages) /\ Len(conv) \in Nat /\ Len(conv') = L
      /\ DOMAIN conv = 1..Len(conv) /\ DOMAIN conv' = 1..L
      /\ \A i \in 1..Len(conv) : conv'[i] = conv[i]
      /\ conv'[L] = Asked(loop.round, n)
  BY <1>0, <1>1, Appended DEF ConvInv
<1>3. /\ \A i \in 1..Len(conv) : Follows(i) /\ conv[i].round < loop.round /\ Complete(i)
  BY <1>2 DEF ConvInv
<1>4. \A i \in 1..Len(conv) : conv[i].role = "tool" => conv[i].call \in Nat
  BY <1>2 DEF Messages
<1>5. \A i \in 1..L : Follows(i)'
  <2> SUFFICES ASSUME NEW i \in 1..L PROVE Follows(i)'
    OBVIOUS
  <2>1. CASE i = L
    BY <1>1, <1>2, <2>1, AskedType DEF Follows
  <2>2. CASE i # L
    BY <1>2, <1>3, <1>4, <2>2 DEF Follows
  <2>3. QED
    BY <2>1, <2>2
<1>6. \A j \in 1..L - 1 : conv'[j].round < loop.round /\ Complete(j)'
  BY <1>2, <1>3 DEF Complete, Result
<1>7. Running(L)'
  <2>1. conv'[L].role = "assistant" /\ conv'[L].round = loop.round /\ conv'[L].calls = n
    BY <1>1, <1>2, AskedType
  <2>2. L \in DOMAIN conv' /\ Len(conv') < L + n
    BY <1>2
  <2>3. \A j \in L + 1..Len(conv') : FALSE
    BY <1>2
  <2>4. QED
    BY <1>6, <2>1, <2>2, <2>3 DEF Running
<1>8. QED
  BY <1>2, <1>5, <1>7 DEF ConvInv

\* A call has its result; the one that was the last ends the round.
LEMMA ConvServed ==
    ASSUME ConvInv, LoopInv, Exec
    PROVE  ConvInv'
<1>1. PICK i \in DOMAIN conv : Running(i)
  BY DEF ConvInv, Exec
<1> DEFINE L == Len(conv)
           r == loop.round
           n == conv[i].calls
<1>2. /\ conv \in Seq(Messages) /\ L \in Nat /\ DOMAIN conv = 1..L /\ r \in Nat
      /\ \A j \in 1..L : conv[j] \in Messages
  BY DEF ConvInv, LoopInv, LoopTypeOK
<1>3. i \in 1..L /\ n \in Nat \ {0} /\ L < i + n
  BY <1>1, <1>2 DEF Running, Messages
<1>4. Calling = i
  <2>1. \A j \in 1..L : conv[j].role = "assistant" /\ conv[j].round = r => j = i
    <3> SUFFICES ASSUME NEW j \in 1..L, conv[j].role = "assistant", conv[j].round = r, j # i
                 PROVE  FALSE
      OBVIOUS
    <3>1. CASE j < i
      <4>1. j \in 1..i - 1
        BY <1>3, <3>1
      <4>2. conv[j].round < r
        BY <1>1, <4>1 DEF Running
      <4>3. QED
        BY <1>2, <4>2
    <3>2. CASE j > i
      <4>1. j \in i + 1..L /\ j - i \in Nat
        BY <1>3, <3>2
      <4>2. conv[j] = Result(r, j - i)
        BY <1>1, <4>1 DEF Running
      <4>3. QED
        BY <1>2, <4>1, <4>2, AskedType
    <3>3. QED
      BY <1>3, <3>1, <3>2
  <2>2. QED
    BY <1>1, <1>2, <2>1 DEF Calling, Running
<1>5. Wanted = n /\ Served = L - i /\ Served + 1 \in Nat
  BY <1>2, <1>3, <1>4 DEF Wanted, Served
<1> DEFINE m == Result(r, L - i + 1)
<1>6. m \in Messages /\ m.role = "tool" /\ m.round = r /\ m.call = L - i + 1
  BY <1>2, <1>5, AskedType
<1>7. conv' = Append(conv, m)
  BY <1>5 DEF Exec
<1>8. /\ conv' \in Seq(Messages) /\ Len(conv') = L + 1 /\ DOMAIN conv' = 1..L + 1
      /\ \A j \in 1..L : conv'[j] = conv[j]
      /\ conv'[L + 1] = m
  BY <1>2, <1>6, <1>7, Appended
<1> HIDE DEF m
<1>9. \A j \in i + 1..L + 1 : conv'[j] = Result(r, j - i)
  <2> SUFFICES ASSUME NEW j \in i + 1..L + 1 PROVE conv'[j] = Result(r, j - i)
    OBVIOUS
  <2>1. CASE j = L + 1
    <3>1. j - i = L - i + 1
      BY <1>2, <1>3, <2>1
    <3>2. QED
      BY <1>8, <2>1, <3>1 DEF m
  <2>2. CASE j # L + 1
    BY <1>1, <1>2, <1>3, <1>8, <2>2 DEF Running
  <2>3. QED
    BY <2>1, <2>2
<1>10. \A j \in 1..i - 1 : conv'[j].round < r /\ Complete(j)'
  BY <1>1, <1>2, <1>3, <1>8 DEF Running, Complete
<1>11. conv'[i] = conv[i] /\ conv[i].role = "assistant" /\ conv[i].round = r
  BY <1>1, <1>3, <1>8 DEF Running
<1>12. \A j \in 1..L + 1 : Follows(j)'
  <2> SUFFICES ASSUME NEW j \in 1..L + 1 PROVE Follows(j)'
    OBVIOUS
  <2>1. CASE j = L + 1
    <3>1. conv'[j].call = L - i + 1 /\ j - conv'[j].call = i
      BY <1>2, <1>3, <1>6, <1>8, <2>1
    <3>2. QED
      BY <1>2, <1>3, <1>11, <2>1, <3>1 DEF Follows
  <2>2. CASE j # L + 1
    <3>1. j \in 1..L /\ Follows(j) /\ (conv[j].role = "tool" => conv[j].call \in Nat)
      BY <1>2, <2>2 DEF ConvInv, Messages
    <3>2. QED
      BY <1>2, <1>8, <3>1 DEF Follows
  <2>3. QED
    BY <2>1, <2>2
<1>13. CASE L - i + 1 < n
  <2>1. loop' = loop
    BY <1>5, <1>13 DEF Exec
  <2>2. i \in DOMAIN conv' /\ Len(conv') < i + conv'[i].calls
    BY <1>2, <1>3, <1>8, <1>11, <1>13
  <2>3. \A j \in i + 1..Len(conv') : conv'[j] = Result(r, j - i)
    BY <1>8, <1>9
  <2>4. Running(i)'
    BY <1>10, <1>11, <2>1, <2>2, <2>3 DEF Running
  <2>5. QED
    BY <1>8, <1>12, <2>1, <2>2, <2>4 DEF ConvInv, Exec
<1>14. CASE ~(L - i + 1 < n)
  <2>1. loop'.pc = "ask" /\ loop'.round = r + 1
    BY <1>5, <1>14 DEF Exec, LoopInv, LoopTypeOK
  <2>2. n = L - i + 1
    BY <1>2, <1>3, <1>14
  <2>3. \A j \in 1..L + 1 : conv'[j].round < r + 1 /\ Complete(j)'
    <3> SUFFICES ASSUME NEW j \in 1..L + 1 PROVE conv'[j].round < r + 1 /\ Complete(j)'
      OBVIOUS
    <3>1. CASE j < i
      <4>1. j \in 1..i - 1 /\ j \in 1..L
        BY <1>2, <1>3, <3>1
      <4>2. conv[j].round \in Nat /\ conv'[j] = conv[j]
        BY <1>2, <1>8, <4>1 DEF Messages
      <4>3. conv'[j].round < r /\ Complete(j)'
        BY <1>10, <4>1
      <4>4. conv'[j].round < r + 1
        BY <1>2, <4>2, <4>3
      <4>5. QED
        BY <4>3, <4>4
    <3>2. CASE j = i
      <4>1. \A k \in 1..n : i + k \in i + 1..L + 1 /\ i + k \in 1..L + 1 /\ i + k - i = k
        BY <1>2, <1>3, <2>2
      <4>2. \A k \in 1..n : i + k \in 1..L + 1 /\ conv'[i + k] = Result(r, k)
        BY <1>9, <4>1
      <4>3. QED
        BY <1>2, <1>8, <1>11, <3>2, <4>2 DEF Complete
    <3>3. CASE j > i
      <4>1. j \in i + 1..L + 1 /\ j - i \in Nat
        BY <1>2, <1>3, <3>3
      <4>2. conv'[j].round = r /\ conv'[j].role = "tool"
        BY <1>2, <1>9, <4>1, AskedType
      <4>3. QED
        BY <1>2, <4>2 DEF Complete
    <3>4. QED
      BY <1>2, <1>3, <3>1, <3>2, <3>3
  <2>4. QED
    BY <1>8, <1>12, <2>1, <2>3 DEF ConvInv
<1>15. QED
  BY <1>13, <1>14

LEMMA ConvRound ==
    ASSUME ConvInv, LoopInv, AskRound \/ AskAgain
    PROVE  ConvInv'
<1>1. loop.pc \in {"ask", "again"} /\ loop \in Loops
  BY DEF AskRound, AskAgain, LoopInv, LoopTypeOK, Loops
<1>2. ASSUME NEW n \in 0..MaxCalls, NEW text \in BOOLEAN, NEW used \in Reports,
             RoundAnswered(n, text, used)
      PROVE  ConvInv'
  <2>1. CASE n > 0 /\ loop.round < MaxToolRounds
    <3>1. conv' = Append(conv, Asked(loop.round, n)) /\ n \in Nat \ {0}
      BY <1>2, <2>1, Constants DEF RoundAnswered
    <3>2. loop'.pc = "tools" /\ loop'.round = loop.round
      BY <1>1, <1>2, <2>1 DEF RoundAnswered, Loops
    <3>3. QED
      BY <1>1, <3>1, <3>2, ConvAsked
  <2>2. CASE ~(n > 0 /\ loop.round < MaxToolRounds)
    <3>1. loop'.pc = "answered" /\ loop'.round = loop.round /\ UNCHANGED conv
      BY <1>1, <1>2, <2>2 DEF RoundAnswered, Loops
    <3>2. QED
      BY <1>1, <3>1, ConvStays
  <2>3. QED
    BY <2>1, <2>2
<1>3. ASSUME UNCHANGED conv, loop' = [loop EXCEPT !.pc = "again"] \/ \E names : RoundFailed(names)
      PROVE  ConvInv'
  <2>1. loop'.pc \in {"again", "plain", "failed"} /\ loop'.round = loop.round
    BY <1>1, <1>3 DEF RoundFailed, Loops
  <2>2. QED
    BY <1>1, <1>3, <2>1, ConvStays
<1>4. QED
  BY <1>2, <1>3 DEF AskRound, AskAgain

-----------------------------------------------------------------------------
(* What a reply comes to *)

\* A function on the first n numbers is a sequence of that length.
LEMMA SequenceOf ==
    ASSUME NEW n \in Nat, NEW f, NEW S, f \in [1..n -> S]
    PROVE  Len(f) = n /\ DOMAIN f = 1..n
<1>1. f \in Seq(S)
  BY SeqDef
<1>2. Len(f) \in Nat /\ DOMAIN f = 1..Len(f) /\ DOMAIN f = 1..n
  BY <1>1, LenProperties
<1>3. Len(f) = n
  BY <1>2
<1>4. QED
  BY <1>2, <1>3

\* Elements are removed from a reply, and no question.
LEMMA ParsedKeeps ==
    ASSUME NEW qs \in Replies
    PROVE  /\ Len(qs) \in Nat /\ DOMAIN qs = 1..Len(qs)
           /\ DOMAIN Parsed(qs) = 1..Len(qs) /\ Len(Parsed(qs)) = Len(qs)
           /\ \A i \in 1..Len(qs) :
                 Parsed(qs)[i] = [sound |-> qs[i].sound, elements |-> Parsed(qs)[i].elements]
<1>1. qs \in Seq([sound : BOOLEAN, elements : Seq(Elements)])
  BY Constants
<1>2. /\ Len(qs) \in Nat /\ DOMAIN qs = 1..Len(qs)
      /\ \A i \in 1..Len(qs) : qs[i] \in [sound : BOOLEAN, elements : Seq(Elements)]
  BY <1>1, LenProperties
<1>3. Parsed(qs) \in [1..Len(qs) -> {Parsed(qs)[i] : i \in 1..Len(qs)}]
  BY <1>2 DEF Parsed
<1>4. DOMAIN Parsed(qs) = 1..Len(qs) /\ Len(Parsed(qs)) = Len(qs)
  BY <1>2, <1>3, SequenceOf
<1>5. ASSUME NEW i \in 1..Len(qs)
      PROVE  Parsed(qs)[i] = [sound |-> qs[i].sound, elements |-> Parsed(qs)[i].elements]
  <2>1. PICK e : Parsed(qs)[i] = [qs[i] EXCEPT !.elements = e]
    BY <1>2 DEF Parsed
  <2>2. Parsed(qs)[i] = [sound |-> qs[i].sound, elements |-> e]
    BY <1>2, <2>1
  <2>3. QED
    BY <2>2
<1>6. QED
  BY <1>2, <1>4, <1>5

\* The contract of a quiz, with the author's draft behind it.
Contract(quiz, draft) ==
    /\ Len(quiz) = Count
    /\ \A i \in 1..Count : quiz[i].sound /\ ElementsValid(quiz[i])
    /\ Len(draft) = Count => \A i \in 1..Count : quiz[i].elements = draft[i].elements

\* What is valid keeps the contract, since the author's elements are put back.
LEMMA FinalHonours ==
    ASSUME NEW qs \in Replies, NEW draft,
           validate(preserveAuthorElements(draft, Parsed(qs)))
    PROVE  Contract(preserveAuthorElements(draft, Parsed(qs)), draft)
<1> DEFINE final == preserveAuthorElements(draft, Parsed(qs))
<1>1. DOMAIN Parsed(qs) = 1..Len(qs) /\ Len(Parsed(qs)) = Len(qs) /\ Len(qs) \in Nat
  BY ParsedKeeps
<1>2. Len(final) = Count /\ \A i \in DOMAIN final : final[i].sound /\ ElementsValid(final[i])
  BY DEF validate
<1>3. CASE Len(draft) # Len(Parsed(qs))
  <2>1. final = Parsed(qs)
    BY <1>3 DEF preserveAuthorElements
  <2>2. DOMAIN final = 1..Count /\ Len(draft) # Count
    BY <1>1, <1>2, <1>3, <2>1
  <2>3. QED
    BY <1>2, <2>2 DEF Contract
<1>4. CASE Len(draft) = Len(Parsed(qs))
  <2>1. final = [i \in 1..Len(qs) |-> [Parsed(qs)[i] EXCEPT !.elements = draft[i].elements]]
    BY <1>1, <1>4 DEF preserveAuthorElements
  <2>2. final \in [1..Len(qs) -> {final[i] : i \in 1..Len(qs)}]
    BY <2>1
  <2>3. Len(final) = Len(qs) /\ DOMAIN final = 1..Len(qs)
    BY <1>1, <2>2, SequenceOf
  <2>4. DOMAIN final = 1..Count
    BY <1>2, <2>3
  <2>5. ASSUME NEW i \in 1..Count
        PROVE  final[i].elements = draft[i].elements
    <3>1. i \in 1..Len(qs)
      BY <2>3, <2>4
    <3>2. final[i] = [Parsed(qs)[i] EXCEPT !.elements = draft[i].elements]
      BY <2>1, <3>1
    <3>3. Parsed(qs)[i] = [sound |-> qs[i].sound, elements |-> Parsed(qs)[i].elements]
      BY <3>1, ParsedKeeps
    <3>4. QED
      BY <3>2, <3>3
  <2>6. QED
    BY <1>2, <2>4, <2>5 DEF Contract
<1>5. QED
  BY <1>3, <1>4

-----------------------------------------------------------------------------
(* The generation *)

\* The drafts and the quizzes there may be, and the records of a generation.
Drafts  == {<<>>} \cup {Parsed(qs) : qs \in Replies}
Quizzes == {<<>>} \cup {preserveAuthorElements(d, Parsed(qs)) : d \in Drafts, qs \in Replies}
Gens    == [pc : GenPCs, web : BOOLEAN, attempt : 0..MaxAttempts, sources : Nat,
            draft : Drafts, quiz : Quizzes, usage : Nat]

LEMMA QuizMakes ==
    ASSUME NEW draft \in Drafts, NEW qs \in Replies
    PROVE  preserveAuthorElements(draft, Parsed(qs)) \in Quizzes
BY DEF Quizzes

\* Numbers of tokens add up to one.
LEMMA Sums == \A a, b \in Nat : a + b \in Nat /\ a + 0 = a
OBVIOUS

LEMMA AuthoringMakes ==
    ASSUME NEW g \in Gens
    PROVE  /\ Authoring(g) \in Gens /\ Authoring(g).pc = "author"
           /\ Authoring(g).web = g.web /\ Authoring(g).sources = g.sources
           /\ Authoring(g).usage = g.usage
<1>1. 1 \in 0..MaxAttempts /\ "author" \in GenPCs
  BY Constants DEF GenPCs
<1>2. QED
  BY <1>1 DEF Authoring, Gens

LEMMA NextAttemptMakes ==
    ASSUME NEW g \in Gens
    PROVE  /\ NextAttempt(g) \in Gens /\ NextAttempt(g).pc \in {"author", "failed"}
           /\ NextAttempt(g).web = g.web /\ NextAttempt(g).sources = g.sources
<1>1. g.attempt \in 0..MaxAttempts /\ "author" \in GenPCs /\ "failed" \in GenPCs /\ <<>> \in Drafts
  BY DEF Gens, GenPCs, Drafts
<1>2. CASE g.attempt < MaxAttempts
  <2>1. g.attempt + 1 \in 0..MaxAttempts
    BY <1>1, <1>2, Constants
  <2>2. QED
    BY <1>1, <1>2, <2>1 DEF NextAttempt, Gens
<1>3. CASE ~(g.attempt < MaxAttempts)
  BY <1>1, <1>3 DEF NextAttempt, Gens
<1>4. QED
  BY <1>2, <1>3

-----------------------------------------------------------------------------
(* The invariant of the work *)

\* The learner's figures and the generation count what the provider counts; a round of
\* the research is in the loop's sum until the research returns.
Counts ==
    /\ metered = gen.usage + loop.usage
    /\ gen.pc # "research" => loop.usage = 0 /\ loop.pc = "idle"
    /\ gen.pc \in {"start", "research"} => gen.usage = 0 /\ figures.tokens = seen.tokens
    /\ gen.pc # "research" => figures.tokens = gen.usage

\* Where the web was asked for, nothing is written before something was read.
Researched ==
    gen.web /\ gen.pc \notin {"start", "research", "failed"} => gen.sources > 0

Honoured == gen.pc = "done" => Contract(gen.quiz, gen.draft)

\* The log holds the sum, or could not be written, which it never can after the deadline;
\* but for a test that failed.
Logged == tail.billed \in {gen.usage, None} \/ (tail.billed = 0 /\ ~tail.alive)
Billing ==
    /\ tail.pc # "generate" => Over /\ tail.path \in {"study", "test"}
    /\ tail.pc = "save" /\ tail.path = "study" => Logged
    /\ tail.pc = "over" => Logged \/ (tail.path = "test" /\ tail.outcome = "failed")

GenInv ==
    /\ LoopInv
    /\ gen \in Gens /\ seen \in Figures /\ figures \in Figures
    /\ Counts /\ Researched /\ Honoured

WorkInv == GenInv /\ tail \in Tails /\ Billing

LEMMA InitInv == PipelineInit => WorkInv
<1> SUFFICES ASSUME PipelineInit PROVE WorkInv
  OBVIOUS
<1>1. 0 \in 0..MaxToolRounds /\ 0 \in 0..MaxAttempts /\ 0 \in Nat /\ FALSE \in BOOLEAN
  BY Constants
<1>2. /\ loop = [pc |-> "idle", round |-> 0, told |-> FALSE, usage |-> 0]
      /\ metered = 0 /\ provider \in Providers
  BY DEF PipelineInit, GenInit, LoopInit, NoLoop
<1>3. LoopInv
  BY <1>1, <1>2 DEF LoopInv, LoopTypeOK, LoopPCs, LackingOneServed
<1>4. /\ gen \in Gens /\ gen.pc = "start" /\ gen.usage = 0
  <2>1. "start" \in GenPCs /\ <<>> \in Drafts /\ <<>> \in Quizzes /\ Web \subseteq BOOLEAN
    BY Constants DEF GenPCs, Drafts, Quizzes
  <2>2. QED
    BY <1>1, <2>1 DEF PipelineInit, GenInit, Gens
<1>5. seen \in Figures /\ figures \in Figures /\ figures.tokens = 0 /\ seen.tokens = 0
  BY <1>1 DEF PipelineInit, GenInit, NoFigures, Figures
<1>6. GenInv
  BY <1>2, <1>3, <1>4, <1>5 DEF GenInv, Counts, Researched, Honoured
<1>7. tail \in Tails /\ tail.pc = "generate"
  BY <1>1 DEF PipelineInit, Tails
<1>8. QED
  BY <1>6, <1>7 DEF WorkInv, Billing

-----------------------------------------------------------------------------
(* The steps of the generation *)

\* What the invariant says of the types.
LEMMA GenTyped ==
    ASSUME GenInv
    PROVE  /\ gen \in Gens /\ gen.usage \in Nat /\ gen.sources \in Nat /\ gen.web \in BOOLEAN
           /\ seen \in Figures /\ seen.calls \in Nat /\ seen.tokens \in Nat /\ seen.sources \in Nat
           /\ figures \in Figures /\ figures.calls \in Nat
           /\ loop.usage \in Nat /\ metered \in Nat
BY LoopTyped DEF GenInv, Gens, Figures

LEMMA BeginKeeps ==
    ASSUME GenInv, BeginGeneration
    PROVE  GenInv'
<1>1. gen.pc = "start" /\ gen.usage = 0 /\ loop.usage = 0 /\ metered = 0
  BY GenTyped DEF BeginGeneration, GenInv, Counts
<1>2. UNCHANGED <<seen, figures, metered, provider>> /\ metered' \in Nat
  BY GenTyped DEF BeginGeneration, StreamWithTools, loopVars
<1>3. CASE gen' = [gen EXCEPT !.pc = "research"] /\ StreamWithTools
  <2>1. loop' = [pc |-> "ask", round |-> 0, told |-> FALSE, usage |-> 0]
    BY <1>3 DEF StreamWithTools, NoLoop
  <2>2. LoopInv' /\ loop'.usage = 0
    BY <1>2, <2>1, FreshLoop DEF GenInv, LoopPCs
  <2>3. gen' \in Gens /\ gen'.pc = "research" /\ gen'.usage = gen.usage
    BY <1>3, GenTyped DEF Gens, GenPCs
  <2>4. QED
    BY <1>1, <1>2, <2>2, <2>3 DEF GenInv, Counts, Researched, Honoured
<1>4. CASE ~gen.web /\ gen' = Authoring(gen) /\ UNCHANGED loopVars
  <2>1. LoopInv' /\ UNCHANGED loop
    BY <1>4 DEF loopVars, GenInv, LoopInv, LoopTypeOK, LackingOneServed
  <2>2. /\ gen' \in Gens /\ gen'.pc = "author" /\ gen'.usage = gen.usage
        /\ gen'.web = gen.web
    BY <1>4, GenTyped, AuthoringMakes
  <2>3. QED
    BY <1>1, <1>2, <1>4, <2>1, <2>2 DEF GenInv, Counts, Researched, Honoured
<1>5. QED
  BY <1>3, <1>4 DEF BeginGeneration

\* A step of the loop while the research runs.
LEMMA ResearchGoesOn ==
    ASSUME GenInv, gen.pc = "research", UNCHANGED gen, LoopInv', Charged,
           seen' \in Figures, figures' \in Figures, figures'.tokens = seen'.tokens
    PROVE  GenInv'
<1>1. PICK n \in Nat : loop'.usage = loop.usage + n /\ metered' = metered + n
  BY DEF Charged
<1>2. gen.usage = 0 /\ metered = gen.usage + loop.usage /\ metered' = gen.usage + loop'.usage
  BY <1>1, GenTyped DEF GenInv, Counts
<1>3. QED
  BY <1>2 DEF GenInv, Counts, Researched, Honoured

LEMMA ResearchRoundKeeps ==
    ASSUME GenInv, ResearchRound
    PROVE  GenInv'
<1>1. LoopInv' /\ Charged
  BY RoundKeeps DEF ResearchRound, GenInv
<1>2. loop'.usage \in Nat
  BY <1>1 DEF LoopInv, LoopTypeOK
<1>3. CASE UNCHANGED <<seen, figures>>
  BY <1>1, <1>3, ResearchGoesOn DEF ResearchRound, GenInv, Counts
<1>4. CASE seen' = [seen EXCEPT !.calls = seen.calls + 1, !.tokens = loop'.usage] /\ figures' = seen'
  <2>1. seen' \in Figures
    <3>1. seen.calls + 1 \in Nat
      BY GenTyped
    <3>2. QED
      BY <1>2, <1>4, <3>1, GenTyped DEF Figures
  <2>2. QED
    BY <1>1, <1>4, <2>1, ResearchGoesOn DEF ResearchRound
<1>5. QED
  BY <1>3, <1>4 DEF ResearchRound, Emit

LEMMA ResearchToolKeeps ==
    ASSUME GenInv, ResearchTool
    PROVE  GenInv'
<1>1. LoopInv' /\ loop'.usage = loop.usage /\ UNCHANGED metered
  BY ExecKeeps DEF ResearchTool, GenInv, Exec
<1>2. Charged
  BY <1>1, NothingCharged DEF GenInv
<1>3. PICK n \in 0..(MaxFound - seen.sources) : seen' = [seen EXCEPT !.sources = seen.sources + n]
  BY DEF ResearchTool
<1>4. seen.sources + n \in Nat
  BY <1>3, GenTyped, Constants
<1>5. seen' \in Figures
  BY <1>3, <1>4, GenTyped DEF Figures
<1>6. QED
  BY <1>1, <1>2, <1>5, ResearchGoesOn DEF ResearchTool, Emit

LEMMA ResearchPlainKeeps ==
    ASSUME GenInv, ResearchPlain
    PROVE  GenInv'
<1>1. LoopInv' /\ Charged
  BY PlainKeeps DEF ResearchPlain, GenInv
<1>2. QED
  BY <1>1, ResearchGoesOn DEF ResearchPlain, GenInv, Counts

\* The research hands its sum over, and the loop is empty again.
LEMMA ResearchReturnsKeeps ==
    ASSUME GenInv, ResearchReturns
    PROVE  GenInv'
<1> DEFINE spent == [gen EXCEPT !.usage = gen.usage + loop.usage, !.sources = seen.sources]
<1>1. /\ gen.pc = "research" /\ UNCHANGED <<provider, metered>> /\ metered' \in Nat
      /\ loop' = [pc |-> "idle", round |-> 0, told |-> FALSE, usage |-> 0]
  BY GenTyped DEF ResearchReturns, NoLoop
<1>2. LoopInv' /\ loop'.usage = 0 /\ loop'.pc = "idle"
  BY <1>1, FreshLoop DEF GenInv, LoopPCs
<1>3. gen.usage + loop.usage \in Nat /\ gen.usage + loop.usage = loop.usage /\ metered = loop.usage
  BY <1>1, GenTyped DEF GenInv, Counts
<1>4. /\ spent \in Gens /\ spent.usage = loop.usage /\ spent.sources = seen.sources
      /\ spent.web = gen.web
  BY <1>3, GenTyped DEF Gens
<1>5. /\ gen' \in Gens /\ gen'.usage = loop.usage /\ gen'.pc \in {"author", "failed"}
      /\ gen'.pc # "failed" => gen'.sources > 0
  <2> HIDE DEF spent
  <2>1. CASE gen' = Authoring(spent) /\ seen.sources > 0
    BY <1>4, <2>1, AuthoringMakes
  <2>2. CASE gen' = [spent EXCEPT !.pc = "failed"]
    BY <1>4, <2>2 DEF Gens, GenPCs
  <2>3. QED
    BY <2>1, <2>2 DEF ResearchReturns, spent
<1>6. /\ seen' = [seen EXCEPT !.calls = IF seen.calls = 0 THEN 1 ELSE seen.calls,
                              !.tokens = loop.usage]
      /\ IF seen.tokens # loop.usage THEN figures' = seen' ELSE UNCHANGED figures
  BY DEF ResearchReturns, Emit
<1>7. seen' \in Figures /\ seen'.tokens = loop.usage
  <2>1. (IF seen.calls = 0 THEN 1 ELSE seen.calls) \in Nat
    BY GenTyped
  <2>2. QED
    BY <1>6, <2>1, GenTyped DEF Figures
<1>8. figures' \in Figures /\ figures'.tokens = loop.usage
  BY <1>1, <1>6, <1>7, GenTyped DEF GenInv, Counts
<1>9. QED
  BY <1>1, <1>2, <1>3, <1>5, <1>7, <1>8 DEF GenInv, Counts, Researched, Honoured

\* Author and reviewer spend, and the generation goes on as g.
LEMMA SpentKeeps ==
    ASSUME GenInv, gen.pc \in {"author", "review", "review again"}, NEW n \in Nat,
           NEW g \in Gens, g.pc \in GenPCs \ {"start", "research"},
           g.web = gen.web, g.sources = gen.sources,
           g.pc = "done" => Contract(g.quiz, g.draft),
           Spent(n, g), metered' = metered + n
    PROVE  GenInv'
<1>1. UNCHANGED <<provider, loop, conv, seen>>
  BY DEF Spent
<1>2. /\ gen.usage + n \in Nat /\ loop.usage = 0 /\ loop.pc = "idle" /\ metered = gen.usage
      /\ metered' = gen.usage + n
  <2>1. loop.usage = 0 /\ loop.pc = "idle" /\ metered = gen.usage + loop.usage
    BY DEF GenInv, Counts
  <2>2. gen.usage \in Nat
    BY GenTyped
  <2>3. metered = gen.usage /\ gen.usage + n \in Nat
    BY <2>1, <2>2, Sums, Zenon
  <2>4. QED
    BY <2>1, <2>3
<1>3. gen' = [g EXCEPT !.usage = gen.usage + n]
  BY DEF Spent
<1>4. /\ gen' \in Gens /\ gen'.usage = gen.usage + n /\ gen'.pc = g.pc /\ gen'.web = gen.web
      /\ gen'.sources = gen.sources /\ gen'.quiz = g.quiz /\ gen'.draft = g.draft
  BY <1>2, <1>3 DEF Gens
<1>5. figures' \in Figures /\ figures'.tokens = gen.usage + n
  <2>1. gen.attempt \in 0..MaxAttempts /\ figures.calls + 1 \in Nat
    <3>1. gen.attempt \in 0..MaxAttempts
      BY GenTyped DEF Gens
    <3>2. figures.calls + 1 \in Nat
      BY GenTyped, Sums, 1 \in Nat, Zenon
    <3>3. QED
      BY <3>1, <3>2
  <2>2. figures' = [figures EXCEPT !.attempt = gen.attempt, !.calls = figures.calls + 1,
                                   !.tokens = gen.usage + n]
    BY DEF Spent
  <2>3. QED
    BY <1>2, <2>1, <2>2, GenTyped DEF Figures
<1>6. LoopInv'
  <2>1. metered' \in Nat
    BY <1>2
  <2>2. QED
    BY <1>1, <2>1 DEF GenInv, LoopInv, LoopTypeOK, LackingOneServed
<1>7. Counts'
  <2>1. gen'.pc # "research" /\ gen'.pc \notin {"start", "research"}
    BY <1>4
  <2>2. loop'.usage = 0 /\ loop'.pc = "idle"
    BY <1>1, <1>2
  <2>3. metered' = gen'.usage + loop'.usage
    BY <1>2, <1>4, <2>2, Sums, Zenon
  <2>4. QED
    BY <1>4, <1>5, <2>1, <2>2, <2>3 DEF Counts
<1>8. Researched' /\ Honoured'
  BY <1>4 DEF GenInv, Researched, Honoured
<1>9. QED
  BY <1>1, <1>4, <1>5, <1>6, <1>7, <1>8, GenTyped DEF GenInv

LEMMA CompletedKeeps ==
    ASSUME GenInv, gen.pc \in {"author", "review", "review again"},
           NEW g \in Gens, g.pc \in GenPCs \ {"start", "research"},
           g.web = gen.web, g.sources = gen.sources,
           g.pc = "done" => Contract(g.quiz, g.draft),
           CompleteFailed(g) \/ CompleteUnparsed(g)
    PROVE  GenInv'
<1>1. CASE CompleteFailed(g)
  <2>1. metered + 0 = metered
    BY GenTyped, Sums, Zenon
  <2>2. metered' = metered + 0 /\ Spent(0, g) /\ 0 \in Nat
    BY <1>1, <2>1 DEF CompleteFailed
  <2>3. QED
    BY <2>2, SpentKeeps
<1>2. CASE CompleteUnparsed(g)
  <2>1. PICK used \in Reports : Spent(Counted(used), g) /\ metered' = metered + Counted(used)
    BY <1>2 DEF CompleteUnparsed
  <2>2. Counted(used) \in Nat
    BY CountedType
  <2>3. QED
    BY <2>1, <2>2, SpentKeeps
<1>3. QED
  BY <1>1, <1>2

\* Another attempt, or the end of them.
LEMMA RetriedKeeps ==
    ASSUME GenInv, gen.pc \in {"author", "review", "review again"},
           CompleteFailed(NextAttempt(gen)) \/ CompleteUnparsed(NextAttempt(gen))
    PROVE  GenInv'
<1>1. /\ NextAttempt(gen) \in Gens /\ NextAttempt(gen).pc \in {"author", "failed"}
      /\ NextAttempt(gen).web = gen.web /\ NextAttempt(gen).sources = gen.sources
  BY GenTyped, NextAttemptMakes
<1>2. {"author", "failed"} \subseteq GenPCs \ {"start", "research", "done"}
  BY DEF GenPCs
<1>3. QED
  BY <1>1, <1>2, CompletedKeeps

LEMMA AuthorKeeps ==
    ASSUME GenInv, author
    PROVE  GenInv'
<1>1. gen.pc = "author"
  BY DEF author
<1>2. CASE CompleteFailed(NextAttempt(gen)) \/ CompleteUnparsed(NextAttempt(gen))
  BY <1>1, <1>2, RetriedKeeps
<1>3. ASSUME NEW qs \in Replies, CompleteParsed([gen EXCEPT !.pc = "review", !.draft = Parsed(qs)])
      PROVE  GenInv'
  <2> DEFINE g == [gen EXCEPT !.pc = "review", !.draft = Parsed(qs)]
  <2>1. Parsed(qs) \in Drafts /\ "review" \in GenPCs
    BY DEF Drafts, GenPCs
  <2>2. g \in Gens /\ g.pc = "review" /\ g.web = gen.web /\ g.sources = gen.sources
    BY <2>1, GenTyped DEF Gens
  <2>3. CompleteUnparsed(g)
    BY <1>3 DEF CompleteParsed
  <2> HIDE DEF g
  <2>4. QED
    BY <1>1, <2>1, <2>2, <2>3, CompletedKeeps
<1>4. QED
  BY <1>2, <1>3 DEF author

\* A quiz is returned only if it is valid with the author's elements in it.
LEMMA ReviewedKeeps ==
    ASSUME GenInv, gen.pc \in {"review", "review again"}, NEW qs \in Replies,
           CompleteParsed(Reviewed(qs))
    PROVE  GenInv'
<1> DEFINE final == preserveAuthorElements(gen.draft, Parsed(qs))
<1> DEFINE g == [gen EXCEPT !.pc = "done", !.quiz = final]
<1>1. CASE validate(final)
  <2>1. CompleteUnparsed(g)
    BY <1>1 DEF CompleteParsed, Reviewed
  <2>2. Contract(final, gen.draft)
    BY <1>1, FinalHonours
  <2>3. final \in Quizzes /\ "done" \in GenPCs
    <3>1. gen.draft \in Drafts
      BY GenTyped DEF Gens
    <3>2. final \in Quizzes
      BY <3>1, QuizMakes
    <3>3. QED
      BY <3>2 DEF GenPCs
  <2> HIDE DEF final
  <2>4. /\ g \in Gens /\ g.pc = "done" /\ g.web = gen.web /\ g.sources = gen.sources
        /\ g.quiz = final /\ g.draft = gen.draft
    BY <2>3, GenTyped DEF Gens
  <2> HIDE DEF g
  <2>5. QED
    BY <2>1, <2>2, <2>3, <2>4, CompletedKeeps
<1>2. CASE ~validate(final)
  <2>1. CompleteUnparsed(NextAttempt(gen))
    BY <1>2 DEF CompleteParsed, Reviewed
  <2>2. QED
    BY <2>1, RetriedKeeps
<1>3. QED
  BY <1>1, <1>2

LEMMA ReviewKeeps ==
    ASSUME GenInv, review \/ reviewAgain
    PROVE  GenInv'
<1>1. gen.pc \in {"review", "review again"}
  BY DEF review, reviewAgain
<1>2. ASSUME NEW qs \in Replies, CompleteParsed(Reviewed(qs)) PROVE GenInv'
  BY <1>1, <1>2, ReviewedKeeps
<1>3. CASE CompleteFailed(NextAttempt(gen)) \/ CompleteUnparsed(NextAttempt(gen))
  BY <1>1, <1>3, RetriedKeeps
<1> DEFINE again == [gen EXCEPT !.pc = "review again"]
<1>4. CASE CompleteFailed(again) \/ CompleteUnparsed(again)
  <2>1. "review again" \in GenPCs
    BY DEF GenPCs
  <2>2. /\ again \in Gens /\ again.pc = "review again"
        /\ again.web = gen.web /\ again.sources = gen.sources
    BY <2>1, GenTyped DEF Gens
  <2> HIDE DEF again
  <2>3. QED
    BY <1>1, <1>4, <2>1, <2>2, CompletedKeeps
<1>5. QED
  BY <1>2, <1>3, <1>4 DEF review, reviewAgain

LEMMA GenKeeps ==
    ASSUME GenInv, GenNext
    PROVE  GenInv'
BY BeginKeeps, ResearchRoundKeeps, ResearchToolKeeps, ResearchPlainKeeps,
   ResearchReturnsKeeps, AuthorKeeps, ReviewKeeps DEF GenNext

-----------------------------------------------------------------------------
(* The steps of the work *)

\* What the invariant of the generation is about.
Same == UNCHANGED <<provider, loop, metered, gen, seen, figures>>

LEMMA SameKeeps ==
    ASSUME GenInv, Same
    PROVE  GenInv'
BY DEF Same, GenInv, LoopInv, LoopTypeOK, LackingOneServed, Counts, Researched, Honoured

LEMMA GenVarsSame == UNCHANGED genVars => Same
BY DEF genVars, loopVars, Same

LEMMA GenerationKeeps ==
    ASSUME WorkInv, Generation
    PROVE  WorkInv'
<1>1. GenInv'
  BY GenKeeps DEF Generation, WorkInv
<1>2. tail' \in Tails /\ tail'.pc = "generate"
  BY DEF Generation, WorkInv
<1>3. QED
  BY <1>1, <1>2 DEF WorkInv, Billing

\* The deadline leaves a quiz that is there alone, and turns any other generation into a
\* failed one with all its tokens.
LEMMA ExpireKeeps ==
    ASSUME WorkInv, Expire
    PROVE  WorkInv'
<1>1. /\ tail' \in Tails /\ tail'.pc = tail.pc /\ tail'.path = tail.path
      /\ tail'.billed = tail.billed /\ tail'.outcome = tail.outcome /\ ~tail'.alive
  BY DEF Expire, WorkInv, Tails
<1>2. CASE Over
  <2>1. Same
    BY <1>2 DEF Expire, Same
  <2>2. GenInv'
    BY <2>1, SameKeeps DEF WorkInv
  <2>3. QED
    BY <1>1, <2>1, <2>2 DEF WorkInv, Billing, Logged, Over, Same
<1>3. CASE ~Over
  <2>1. tail.pc = "generate" /\ GenInv
    BY <1>3 DEF WorkInv, Billing
  <2>2. /\ gen' = [gen EXCEPT !.pc = "failed", !.usage = gen.usage + loop.usage, !.draft = <<>>]
        /\ figures' = [figures EXCEPT !.tokens = gen'.usage]
        /\ loop' = [pc |-> "idle", round |-> 0, told |-> FALSE, usage |-> 0]
        /\ UNCHANGED <<provider, metered, seen>>
    BY <1>3 DEF Expire, NoLoop
  <2>3. gen.usage + loop.usage \in Nat /\ metered' \in Nat /\ metered = gen.usage + loop.usage
    BY <2>1, <2>2, GenTyped DEF GenInv, Counts
  <2>4. gen' \in Gens /\ gen'.pc = "failed" /\ gen'.usage = gen.usage + loop.usage
    <3>1. "failed" \in GenPCs /\ <<>> \in Drafts /\ gen \in Gens
      BY <2>1, GenTyped DEF GenPCs, Drafts
    <3>2. QED
      BY <2>2, <2>3, <3>1 DEF Gens
  <2>5. figures' \in Figures /\ figures'.tokens = gen'.usage
    BY <2>1, <2>2, <2>3, <2>4, GenTyped DEF Figures
  <2>6. LoopInv' /\ loop'.usage = 0 /\ loop'.pc = "idle"
    BY <2>1, <2>2, <2>3, FreshLoop DEF GenInv, LoopPCs
  <2>7. gen'.usage + 0 = gen'.usage
    BY <2>3, <2>4
  <2>8. Counts'
    BY <2>2, <2>3, <2>4, <2>5, <2>6, <2>7 DEF Counts
  <2>9. GenInv'
    BY <2>1, <2>2, <2>4, <2>5, <2>6, <2>8, GenTyped DEF GenInv, Researched, Honoured
  <2>10. QED
    BY <1>1, <2>1, <2>9 DEF WorkInv, Billing
<1>4. QED
  BY <1>2, <1>3

LEMMA GenerationOverKeeps ==
    ASSUME WorkInv, GenerationOver
    PROVE  WorkInv'
<1>1. Same /\ GenInv' /\ Over'
  BY SameKeeps, GenVarsSame DEF GenerationOver, WorkInv, Over, Same
<1>2. PICK p \in Paths : After(p)
  BY DEF GenerationOver
<1>3. p \in {"study", "test"}
  BY Constants
<1> DEFINE pc == IF p = "study" THEN "bill" ELSE IF Generated THEN "save" ELSE "over"
           outcomes == IF p = "study" \/ Generated THEN None ELSE "failed"
<1>4. tail' = [tail EXCEPT !.path = p, !.pc = pc, !.outcome = outcomes]
  BY <1>2 DEF After
<1>5. /\ pc \in {"bill", "save", "over"} /\ (pc = "save" => p = "test")
      /\ pc = "over" => p = "test" /\ outcomes = "failed"
  BY <1>3
<1>6. outcomes \in Terminal \cup {None}
  BY DEF Terminal
<1> HIDE DEF pc, outcomes
<1>7. tail' \in Tails /\ tail'.pc = pc /\ tail'.path = p /\ tail'.outcome = outcomes
  BY <1>4, <1>5, <1>6 DEF WorkInv, Tails
<1>8. QED
  BY <1>1, <1>3, <1>5, <1>7 DEF WorkInv, Billing

\* The log gets what the generation has used, or nothing, which it does after the deadline.
LEMMA BillKeeps ==
    ASSUME WorkInv, Bill
    PROVE  WorkInv'
<1>1. Same /\ GenInv' /\ Over /\ tail.path \in {"study", "test"}
  BY SameKeeps, GenVarsSame DEF Bill, WorkInv, Billing
<1> DEFINE pc == IF tail.path = "study" /\ Generated THEN "save" ELSE "over"
           outcomes == IF tail.path = "test" THEN "succeeded"
                       ELSE IF Generated THEN None ELSE "failed"
<1>2. PICK logged \in {gen.usage, None, 0} :
        /\ logged \in {gen.usage, None} \/ (logged = 0 /\ ~tail.alive)
        /\ tail' = [tail EXCEPT !.billed = logged, !.pc = pc, !.outcome = outcomes]
  BY DEF Bill
<1>3. pc \in {"save", "over"} /\ outcomes \in Terminal \cup {None} /\ logged \in Nat \cup {None}
  BY GenTyped DEF Terminal, WorkInv
<1> HIDE DEF pc, outcomes
<1>4. /\ tail' \in Tails /\ tail'.pc = pc /\ tail'.path = tail.path /\ tail'.billed = logged
      /\ tail'.alive = tail.alive
  BY <1>2, <1>3 DEF WorkInv, Tails
<1>5. Logged' /\ Over'
  BY <1>1, <1>2, <1>4 DEF Logged, Over, Same
<1>6. QED
  BY <1>1, <1>4, <1>5 DEF WorkInv, Billing

LEMMA SaveQuizKeeps ==
    ASSUME WorkInv, SaveQuiz
    PROVE  WorkInv'
<1>1. Same /\ GenInv' /\ Over /\ Over' /\ tail.pc = "save" /\ tail.path \in {"study", "test"}
  BY SameKeeps, GenVarsSame DEF SaveQuiz, WorkInv, Billing, Over, Same
<1>2. tail.path = "study" => Logged
  BY <1>1 DEF WorkInv, Billing
<1>3. CASE tail.path = "test" /\ Goes("bill")
  <2>1. tail' \in Tails /\ tail'.pc = "bill" /\ tail'.path = tail.path
    BY <1>3 DEF Goes, WorkInv, Tails
  <2>2. QED
    BY <1>1, <2>1 DEF WorkInv, Billing
<1>4. ASSUME NEW o \in {"succeeded", "failed"}, Returns(o), o = "succeeded" => tail.path = "study"
      PROVE  WorkInv'
  <2>1. /\ tail' \in Tails /\ tail'.pc = "over" /\ tail'.path = tail.path
        /\ tail'.billed = tail.billed /\ tail'.outcome = o /\ tail'.alive = tail.alive
    BY <1>4 DEF Returns, WorkInv, Tails, Terminal
  <2>2. tail.path = "study" => Logged'
    BY <1>1, <1>2, <2>1 DEF Logged, Same
  <2>3. QED
    BY <1>1, <1>4, <2>1, <2>2 DEF WorkInv, Billing
<1>5. QED
  BY <1>3, <1>4 DEF SaveQuiz

LEMMA NextInv == WorkInv /\ [PipelineNext]_pipelineVars => WorkInv'
<1> SUFFICES ASSUME WorkInv, [PipelineNext]_pipelineVars PROVE WorkInv'
  OBVIOUS
<1>1. ASSUME UNCHANGED <<genVars, tail>> PROVE WorkInv'
  <2>1. Same /\ GenInv'
    BY <1>1, SameKeeps, GenVarsSame DEF WorkInv
  <2>2. QED
    BY <1>1, <2>1 DEF WorkInv, Billing, Logged, Over, Same
<1>2. CASE JobsNext
  BY <1>1, <1>2 DEF JobsNext
<1>3. CASE WorkNext
  BY <1>3, GenerationKeeps, ExpireKeeps, GenerationOverKeeps, BillKeeps, SaveQuizKeeps
     DEF WorkNext
<1>4. CASE UNCHANGED pipelineVars
  BY <1>1, <1>4 DEF pipelineVars
<1>5. QED
  BY <1>2, <1>3, <1>4 DEF PipelineNext

-----------------------------------------------------------------------------
(* The conversation, from one step of the work to the next *)

\* Nothing is said outside the research, and nothing before it.
ConvWorkInv ==
    /\ WorkInv /\ ConvInv
    /\ gen.pc # "research" => conv = <<>>

LEMMA ConvEmpty ==
    ASSUME conv = <<>>, loop.pc # "tools"
    PROVE  ConvInv
BY DEF ConvInv

LEMMA ConvSame ==
    ASSUME ConvInv, UNCHANGED <<loop, conv>>
    PROVE  ConvInv'
BY DEF ConvInv, Running, Complete, Follows, Result

LEMMA ConvNext ==
    ASSUME ConvWorkInv, [PipelineNext]_pipelineVars
    PROVE  ConvInv' /\ (gen'.pc # "research" => conv' = <<>>)
<1>1. ConvInv /\ LoopInv /\ gen \in Gens /\ (gen.pc # "research" => conv = <<>>)
  BY DEF ConvWorkInv, WorkInv, GenInv
<1>2. ASSUME UNCHANGED <<loop, conv>>, gen'.pc = gen.pc \/ gen.pc # "research"
      PROVE  ConvInv' /\ (gen'.pc # "research" => conv' = <<>>)
  BY <1>1, <1>2, ConvSame
<1>3. CASE Generation
  <2>1. CASE BeginGeneration
    <3>1. conv = <<>> /\ UNCHANGED conv
      BY <1>1, <2>1 DEF BeginGeneration, StreamWithTools, loopVars
    <3>2. loop'.pc = "ask" \/ UNCHANGED loop
      BY <2>1 DEF BeginGeneration, StreamWithTools, loopVars, NoLoop
    <3>3. CASE UNCHANGED loop
      BY <1>1, <3>1, <3>3, ConvSame
    <3>4. CASE loop'.pc = "ask"
      BY <3>1, <3>4 DEF ConvInv
    <3>5. QED
      BY <3>1, <3>2, <3>3, <3>4
  <2>2. CASE ResearchRound
    BY <1>1, <2>2, ConvRound DEF ResearchRound
  <2>3. CASE ResearchTool
    BY <1>1, <2>3, ConvServed DEF ResearchTool
  <2>4. CASE ResearchPlain
    <3>1. loop.pc = "plain" /\ UNCHANGED conv
      BY <2>4 DEF ResearchPlain, StreamPlain
    <3>2. loop'.pc \in {"answered", "failed"} /\ loop'.round = loop.round
      BY <2>4 DEF ResearchPlain, StreamPlain, LoopInv, LoopTypeOK, ConvWorkInv, WorkInv, GenInv
    <3>3. QED
      BY <1>1, <2>4, <3>1, <3>2, ConvStays DEF ResearchPlain
  <2>5. CASE ResearchReturns
    BY <2>5 DEF ResearchReturns, ConvInv, NoLoop
  <2>6. CASE author \/ review \/ reviewAgain
    <3>1. UNCHANGED <<loop, conv>> /\ gen.pc # "research"
      BY <2>6 DEF author, review, reviewAgain, CompleteFailed, CompleteUnparsed, CompleteParsed, Spent
    <3>2. QED
      BY <1>2, <3>1
  <2>7. QED
    BY <1>3, <2>1, <2>2, <2>3, <2>4, <2>5, <2>6 DEF Generation, GenNext
<1>4. CASE Expire
  <2>1. CASE Over
    BY <1>2, <1>4, <2>1 DEF Expire
  <2>2. CASE ~Over
    BY <1>4, <2>2 DEF Expire, ConvInv, NoLoop
  <2>3. QED
    BY <2>1, <2>2
<1>5. CASE GenerationOver \/ Bill \/ SaveQuiz \/ JobsNext \/ UNCHANGED pipelineVars
  <2>1. UNCHANGED <<gen, loop, conv>>
    BY <1>5 DEF GenerationOver, Bill, SaveQuiz, JobsNext, pipelineVars, genVars, loopVars
  <2>2. QED
    BY <1>2, <2>1
<1>6. QED
  BY <1>3, <1>4, <1>5 DEF PipelineNext, WorkNext

-----------------------------------------------------------------------------
(* Theorems *)

\* However the generation ends - with a quiz, without one, or by the deadline in the middle
\* of a request - the learner is shown all tokens it took.  They are billed too where the
\* job is over before its deadline, unless AddUsage fails or the job is one of a test that
\* fails; after the deadline all of them are in the log or none (QuizStart,
\* TestAttemptStart).
THEOREM Billed == PipelineSpec => []TokensBilled
<1>1. WorkInv => TokensBilled
  <2> SUFFICES ASSUME WorkInv, tail.pc = "over"
               PROVE  /\ figures.tokens = metered
                      /\ \/ tail.billed \in {metered, None}
                         \/ tail.billed = 0 /\ ~tail.alive
                         \/ tail.path = "test" /\ tail.outcome = "failed"
    BY DEF TokensBilled
  <2>1. gen.pc # "research" /\ (Logged \/ (tail.path = "test" /\ tail.outcome = "failed"))
    BY DEF WorkInv, Billing, Over
  <2>2. figures.tokens = gen.usage /\ metered = gen.usage + 0
    BY <2>1 DEF WorkInv, GenInv, Counts
  <2>3. metered = gen.usage
    BY <2>2, GenTyped DEF WorkInv
  <2>4. QED
    BY <2>1, <2>2, <2>3 DEF Logged
<1>2. QED
  BY <1>1, InitInv, NextInv, PTL DEF PipelineSpec

\* A provider that fails for no other reason gives an answer, whichever one of tools and
\* stream_options it lacks (StreamWithTools, streamRound).
THEOREM LackingOneAnswered == PipelineSpec => []LackingOneServed
<1>1. WorkInv => LackingOneServed
  BY DEF WorkInv, GenInv, LoopInv
<1>2. QED
  BY <1>1, InitInv, NextInv, PTL DEF PipelineSpec

\* Whatever author and reviewer reply, and in whichever round, a quiz that is returned
\* keeps the contract (validate, preserveAuthorElements, research).
THEOREM ContractKept == PipelineSpec => []QuizHonoursContract
<1>1. WorkInv => QuizHonoursContract
  BY DEF WorkInv, GenInv, Researched, Honoured, Contract, QuizHonoursContract, Generated
<1>2. QED
  BY <1>1, InitInv, NextInv, PTL DEF PipelineSpec

\* Whatever the model answers, whichever tools fail and wherever the deadline cuts in: when
\* the provider is asked again, every call it made has its result, in order and before
\* anything else is said (StreamWithTools).
THEOREM CallsAnswered == PipelineSpec => []EveryCallAnswered
<1>1. PipelineInit => ConvWorkInv
  BY InitInv DEF PipelineInit, GenInit, LoopInit, NoLoop, ConvWorkInv, ConvInv
<1>2. ConvWorkInv /\ [PipelineNext]_pipelineVars => ConvWorkInv'
  BY NextInv, ConvNext DEF ConvWorkInv
<1>3. ConvWorkInv => EveryCallAnswered
  BY DEF ConvWorkInv, ConvInv, Complete, Follows, EveryCallAnswered
<1>4. QED
  BY <1>1, <1>2, <1>3, PTL DEF PipelineSpec

=============================================================================
