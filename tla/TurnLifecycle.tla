---------------------------- MODULE TurnLifecycle ----------------------------
(***************************************************************************)
(* What a chat turn promises, with the machinery hidden: "the durable      *)
(* lifecycle of one user question and its assistant answer"                *)
(* (src/internal/db/chat_turns.go:13).  A turn is asked once for its       *)
(* idempotency key, goes queued -> running -> succeeded or failed, may be  *)
(* asked again only from failed, and carries an answer exactly when it     *)
(* succeeded.  Deleting the chat removes its turns for good.               *)
(***************************************************************************)
EXTENDS Naturals

CONSTANTS Ids,      \* turn ids
          Idents    \* idempotency keys: (user, chat, client key)

VARIABLES phase,    \* [Ids -> Phases]
          attempt,  \* [Ids -> Nat], 0 unless the turn exists
          answers,  \* [Ids -> Nat], assistant messages under the question
          ident     \* [Ids -> Idents], what the turn is asked for

lifecycleVars == <<phase, attempt, answers, ident>>

Phases   == {"absent", "queued", "running", "succeeded", "failed", "gone"}
Existing == {t \in Ids : phase[t] \notin {"absent", "gone"}}

Init ==
    /\ phase   = [t \in Ids |-> "absent"]
    /\ attempt = [t \in Ids |-> 0]
    /\ answers = [t \in Ids |-> 0]
    /\ ident \in [Ids -> Idents]

\* A request settles what it will ask for before its turn exists.
Choose(t) ==
    /\ phase[t] = "absent"
    /\ \E i \in Idents : ident' = [ident EXCEPT ![t] = i]
    /\ phase' = phase
    /\ UNCHANGED <<attempt, answers>>

Ask(t) ==
    /\ phase[t] = "absent"
    /\ \A s \in Existing : ident[s] # ident[t]
    /\ phase'   = [phase EXCEPT ![t] = "queued"]
    /\ attempt' = [attempt EXCEPT ![t] = 1]
    /\ UNCHANGED <<answers, ident>>

Run(t) ==
    /\ phase[t] = "queued"
    /\ phase' = [phase EXCEPT ![t] = "running"]
    /\ UNCHANGED <<attempt, answers, ident>>

Succeed(t) ==
    /\ phase[t] = "running"
    /\ phase'   = [phase EXCEPT ![t] = "succeeded"]
    /\ answers' = [answers EXCEPT ![t] = 1]
    /\ UNCHANGED <<attempt, ident>>

Fail(t) ==
    /\ phase[t] = "running"
    /\ phase' = [phase EXCEPT ![t] = "failed"]
    /\ UNCHANGED <<attempt, answers, ident>>

AskAgain(t) ==
    /\ phase[t] = "failed"
    /\ phase'   = [phase EXCEPT ![t] = "queued"]
    /\ attempt' = [attempt EXCEPT ![t] = @ + 1]
    /\ UNCHANGED <<answers, ident>>

\* The turns in gone disappear with their chat, questions and answers included;
\* the requests in gone that never asked are given up.
Forget(gone, phaseAfter) ==
    /\ phase'   = [t \in Ids |-> IF t \in gone THEN "gone" ELSE phaseAfter[t]]
    /\ attempt' = [t \in Ids |-> IF t \in gone THEN 0 ELSE attempt[t]]
    /\ answers' = [t \in Ids |-> IF t \in gone THEN 0 ELSE answers[t]]
    /\ UNCHANGED ident

\* A restart fails everything unfinished, queued turns included.
Interrupted == [t \in Ids |-> IF phase[t] \in {"queued", "running"}
                              THEN "failed" ELSE phase[t]]

Next ==
    \/ \E t \in Ids : Choose(t) \/ Ask(t) \/ Run(t) \/ Succeed(t) \/ Fail(t) \/ AskAgain(t)
    \/ \E gone \in SUBSET Ids : Forget(gone, phase)
    \/ Forget({}, Interrupted)

Spec == Init /\ [][Next]_lifecycleVars

=============================================================================
