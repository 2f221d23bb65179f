------------------------------ MODULE Workspace ------------------------------
(***************************************************************************)
(* The workspace of a study: its files, its mind map and its chats, all    *)
(* changed by the learner, the files and the map by the tutor's tools too, *)
(* and all removed with the study (ON DELETE CASCADE in migrations 0002    *)
(* and 0009).  They share only this: the first opening of the map reads    *)
(* the notes, which MindMap's Outlines stand for, and SaveToNote copies an *)
(* answer, which Files's Body stands for.  So a behaviour may be about one *)
(* of them.                                                                *)
(***************************************************************************)
EXTENDS Files, MindMap, Chats

CONSTANT Focuses  \* what the behaviours are about: "files", "map", "chats", "all"

ASSUME WorkspaceAssumption == Focuses \subseteq {"files", "map", "chats", "all"}

VARIABLE focus    \* what this behaviour is about

workspaceVars == <<filesVars, mapVars, chatVars, focus>>

Init == FilesInit /\ MapInit /\ ChatsInit /\ focus \in Focuses

\* DeleteStudy: the row of the study, and with it everything in the workspace.
DeleteStudy == FilesGone /\ MapGone /\ ChatsGone

Next ==
    /\ \/ focus \in {"files", "all"} /\ FilesNext /\ UNCHANGED <<mapVars, chatVars>>
       \/ focus \in {"map", "all"} /\ MapNext /\ UNCHANGED <<filesVars, chatVars>>
       \/ focus \in {"chats", "all"} /\ ChatsNext /\ UNCHANGED <<filesVars, mapVars>>
       \/ DeleteStudy
    /\ UNCHANGED focus

Spec == Init /\ [][Next]_workspaceVars

\* The files, the map and the chats are there as long as the study is.
TypeOK ==
    /\ FilesTypeOK /\ MapTypeOK /\ ChatsTypeOK /\ focus \in Focuses
    /\ study = shown /\ (study <=> map # Gone)
=============================================================================
