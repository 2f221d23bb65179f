----------------------------- MODULE MCWorkspace -----------------------------
(* An instance of Workspace for TLC. *)
EXTENDS Workspace

CONSTANTS root, a, b

ThreeFiles == <<3, 1, 1>>
TwoFaces   == [i \in {root, a, b} |-> IF i = b THEN {"x", "y"} ELSE {"x"}]

\* The study alone, or with two notes.
NoNotes   == [i \in {root, a, b} |-> IF i = root THEN [up |-> "top", says |-> "x"] ELSE None]
TwoNotes  == [i \in {root, a, b} |-> [up |-> IF i = root THEN "top" ELSE root, says |-> "x"]]
NotesOrNot == {NoNotes, TwoNotes}

OneOrOther == {"files", "map", "chats"}

Symmetry == Permutations(Askers)
=============================================================================
