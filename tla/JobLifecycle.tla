----------------------------- MODULE JobLifecycle -----------------------------
(***************************************************************************)
(* What a background job promises to whoever polls it, with the goroutines *)
(* and the clock of quizjobs/manager.go hidden: it is queued, runs, ends   *)
(* once as succeeded or failed, and is forgotten only after it ended, or   *)
(* with everything else when the process restarts.                         *)
(***************************************************************************)
CONSTANT Ids

VARIABLE phase   \* [Ids -> Phases]

Phases  == {"absent", "queued", "running", "succeeded", "failed", "gone"}
Settled == {j \in Ids : phase[j] \in {"succeeded", "failed"}}
Known   == {j \in Ids : phase[j] \notin {"absent", "gone"}}

Init == phase = [j \in Ids |-> "absent"]

Without(gone) == [j \in Ids |-> IF j \in gone THEN "gone" ELSE phase[j]]

\* Whoever asks the manager for anything lets it forget some jobs that ended.
Accept(j) ==
    /\ phase[j] = "absent"
    /\ \E gone \in SUBSET Settled : phase' = [Without(gone) EXCEPT ![j] = "queued"]
Forget == \E gone \in SUBSET Settled : phase' = Without(gone)

Begin(j)  == phase[j] = "queued" /\ phase' = [phase EXCEPT ![j] = "running"]
Settle(j) ==
    /\ phase[j] = "running"
    /\ \E s \in {"succeeded", "failed"} : phase' = [phase EXCEPT ![j] = s]

\* The map is in memory only.
Lose == phase' = Without(Known)

Next == Lose \/ Forget \/ \E j \in Ids : Accept(j) \/ Begin(j) \/ Settle(j)

Spec == Init /\ [][Next]_phase

=============================================================================
