------------------------------- MODULE MCAIGate -------------------------------
(* Instances of AIGate for TLC. *)
EXTENDS AIGate, TLC

\* Everything may happen; or no kind returns before its bill, no bill fails and nothing
\* is taken away.
Anything  == [kinds |-> Kinds, admin |-> Powers, faulty |-> TRUE]
Orderly   == [kinds |-> {"turn", "quiz", "stream"}, admin |-> {"raise", "reset"},
              faulty |-> FALSE]
Both      == {Anything, Orderly}

\* Calls that look at the quota before they take the slot, and no admin.
CheckFirst == {[kinds |-> {"turn", "stream"}, admin |-> {}, faulty |-> FALSE]}

Interchangeable == Permutations(Calls)
=============================================================================
