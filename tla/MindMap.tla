------------------------------- MODULE MindMap -------------------------------
(***************************************************************************)
(* The mind map of one study: the graph of src/internal/mindmap/mindmap.go *)
(* with its validation and operations, the row of db/mindmap.go, the       *)
(* endpoints of handlers/mindmap.go, the tutor's tools of                  *)
(* handlers/aitools.go, and the editor of src/static/mind-map.js.          *)
(*                                                                         *)
(* The whole graph is one row.  The tools load it, change it and save it   *)
(* without a lock; the editor keeps a copy of its own and sends it whole.  *)
(* A graph is a function from ids to nodes; what a node says, its          *)
(* collapsed flag included, is one value.  A list that names an id twice   *)
(* is refused before anything else and is left out.                        *)
(***************************************************************************)
EXTENDS Naturals, FiniteSets

CONSTANTS
    Ids,       \* ids a node may have
    Root,      \* the id buildMindMapFromStudy gives the root
    Says,      \* what each node may say: label, description, metadata, collapsed flag
    MaxNodes, MaxDepth,
    Outlines,  \* graphs buildMindMapFromStudy may make of the study and its notes
    Callers,   \* tool calls and pages that may be served at the same time
    MaxSends,  \* bound: saves of the editor under way
    None,      \* no node, no map, no copy, no choice
    Gone       \* the map of a study that was deleted

VARIABLES
    map,      \* the row of study_mind_maps: None before the first opening, Gone at the end
    caller,   \* [Callers -> [pc, for, graph]]: a request, and what it loaded or built
    editor,   \* the editor's copy, None while the page is closed
    chosen,   \* the editor's pendingParent
    sent      \* the graphs of the PUTs under way

mapVars == <<map, caller, editor, chosen, sent>>

Node   == [up : Ids \cup {"top"}, says : UNION {Says[i] : i \in Ids}]
Graph  == [Ids -> Node \cup {None}]
Caller == [pc : {"idle", "build", "loaded"}, for : {"tool", "page"}, graph : Graph \cup {None}]

MapTypeOK ==
    /\ map \in Graph \cup {None, Gone}
    /\ caller \in [Callers -> Caller]
    /\ editor \in Graph \cup {None}
    /\ chosen \in Ids \cup {None}
    /\ sent \subseteq Graph

Idle == [pc |-> "idle", for |-> "tool", graph |-> None]

MapInit ==
    /\ map = None
    /\ caller = [c \in Callers |-> Idle]
    /\ editor = None
    /\ chosen = None
    /\ sent = {}

-----------------------------------------------------------------------------
(* Graphs *)

In(g)          == {i \in Ids : g[i] # None}
Children(g, S) == {i \in In(g) : g[i].up \in S}
Rounds         == 0..Cardinality(Ids)

\* walk: the nodes n levels below the root.
Level(g) ==
    LET level[n \in Rounds] == IF n = 0 THEN In(g) \cap {Root} ELSE Children(g, level[n - 1])
    IN  level

\* visit finishes a node when it has finished its children; it finishes none that
\* lies on a cycle or above one.
Acyclic(g) ==
    LET finished[n \in Rounds] ==
            IF n = 0 THEN {} ELSE {i \in In(g) : Children(g, {i}) \subseteq finished[n - 1]}
    IN  finished[Cardinality(Ids)] = In(g)

\* mark: a node and what lies below it.
Subtree(g, i) ==
    LET marked[n \in Rounds] ==
            IF n = 0 THEN {i} ELSE marked[n - 1] \cup Children(g, marked[n - 1])
    IN  marked[Cardinality(Ids)]

\* Mutant: a level too many.
ValidateDeeper(g) ==
    /\ In(g) # {} /\ Cardinality(In(g)) <= MaxNodes
    /\ {i \in In(g) : g[i].up = "top"} = {Root}
    /\ \A i \in In(g) : g[i].up \in In(g) \cup {"top"}
    /\ Acyclic(g)
    /\ \A n \in Rounds : n > MaxDepth + 1 => Level(g)[n] = {}

\* Validate: one root, which is root_id; parents that exist; no cycle; not too deep;
\* nothing the root does not reach.
Validate(g) ==
    /\ In(g) # {} /\ Cardinality(In(g)) <= MaxNodes
    /\ {i \in In(g) : g[i].up = "top"} = {Root}
    /\ \A i \in In(g) : g[i].up \in In(g) \cup {"top"}
    /\ Acyclic(g)
    /\ \A n \in Rounds : n > MaxDepth => Level(g)[n] = {}
    /\ UNION {Level(g)[n] : n \in Rounds} = In(g)

ASSUME MindMapAssumption ==
    /\ IsFiniteSet(Ids) /\ Root \in Ids /\ {None, Gone} \cap (Ids \cup Node \cup Graph) = {} /\ "top" \notin Ids
    /\ MaxNodes \in Nat \ {0} /\ MaxDepth \in Nat /\ MaxSends \in Nat
    /\ \A g \in Outlines : g \in Graph /\ Validate(g)

Put(g, i, p, s) == [g EXCEPT ![i] = [up |-> p, says |-> s]]
Without(g, S)   == [i \in Ids |-> IF i \in S THEN None ELSE g[i]]

\* AddNode: a new id under a node that is there.
AddNode(g) == UNION {{Put(g, i, p, s) : p \in In(g), s \in Says[i]} : i \in Ids \ In(g)}

\* UpdateNode, with CollapseNode and ExpandNode: any parent, as Validate looks at it.
UpdateNode(g) ==
    UNION {{Put(g, i, p, s) : p \in Ids \cup {"top"}, s \in Says[i]} : i \in In(g)}

\* Mutant: the branches beside it go as well.
RemoveSiblings(g) == {Without(g, Subtree(g, g[i].up) \ {g[i].up}) : i \in In(g) \ {Root}}

\* RemoveNode: the node and what lies below it.
RemoveNode(g) == {Without(g, Subtree(g, i)) : i \in In(g) \ {Root}}

-----------------------------------------------------------------------------
(* The server *)

\* Save: one statement, that replaces the row; Encode refuses what is not valid, and
\* the foreign key a study that is gone.
Save(g) == map # Gone /\ Validate(g) /\ map' = g

\* loadOrCreateMindMap, of a tool or of the page: what is stored, or else a graph of
\* the notes, which it is about to save.
Load(c, f) ==
    /\ caller[c].pc = "idle"
    /\ \/ map \notin {None, Gone} /\ caller' = [caller EXCEPT ![c] = [pc |-> "loaded", for |-> f, graph |-> map]]
       \/ /\ map = None
          /\ \E g \in Outlines :
                caller' = [caller EXCEPT ![c] = [pc |-> "build", for |-> f, graph |-> g]]
    /\ UNCHANGED <<map, editor, chosen, sent>>

\* It saves whatever was stored meanwhile.
SaveBuilt(c) ==
    /\ caller[c].pc = "build"
    /\ Save(caller[c].graph)
    /\ caller' = [caller EXCEPT ![c].pc = "loaded"]
    /\ UNCHANGED <<editor, chosen, sent>>

\* What the tools may make of a map: a node added, updated, removed, collapsed, expanded.
persistentMindMapTools(g) == AddNode(g) \cup UpdateNode(g) \cup RemoveNode(g)

\* mutateMindMap: the tool changes its copy and saves it.
Mutate(c) ==
    /\ caller[c].pc = "loaded" /\ caller[c].for = "tool"
    /\ \E g \in persistentMindMapTools(caller[c].graph) : Save(g)
    /\ caller' = [caller EXCEPT ![c] = Idle]
    /\ UNCHANGED <<editor, chosen, sent>>

\* A tool that only reads, a change that is refused, a statement that fails, or the
\* end of the process.
GiveUp(c) ==
    /\ caller[c].pc # "idle"
    /\ caller' = [caller EXCEPT ![c] = Idle]
    /\ UNCHANGED <<map, editor, chosen, sent>>

\* MindMapUpdate: a PUT arrives, in whatever order, or is lost or refused.
Update(g) ==
    /\ g \in sent
    /\ sent' = sent \ {g}
    /\ Save(g) \/ UNCHANGED map
    /\ UNCHANGED <<caller, editor, chosen>>

-----------------------------------------------------------------------------
(* The editor *)

\* MindMapPage answers: the page opens with its copy.
Open(c) ==
    /\ caller[c].pc = "loaded" /\ caller[c].for = "page"
    /\ editor' = caller[c].graph
    /\ chosen' = None
    /\ caller' = [caller EXCEPT ![c] = Idle]
    /\ UNCHANGED <<map, sent>>

Edit(g) ==
    /\ editor # None
    /\ editor' = g
    /\ UNCHANGED <<map, caller, sent>>

\* The click on a node while a parent is asked for.
Choose(i) ==
    /\ editor # None /\ i \in In(editor)
    /\ chosen' = i
    /\ UNCHANGED <<map, caller, editor, sent>>

\* addNode with a parent chosen: addNodeToGraph throws when the parent is not there.
\* Whatever the node says first.
AddToEditor(i, s) ==
    /\ chosen # None
    /\ editor # None /\ i \in Ids \ In(editor) /\ chosen \in In(editor)
    /\ Edit(Put(editor, i, chosen, s))
    /\ chosen' = None

\* removeNode: of the node clicked last, which is the parent chosen, if one is.
RemoveInEditor(i) ==
    /\ chosen \in {None, i}
    /\ editor # None /\ i \in In(editor) \ {Root}
    /\ Edit(Without(editor, Subtree(editor, i)))
    /\ UNCHANGED chosen

\* The inspector's fields and the fold of a branch.
Retell(i, s) ==
    /\ editor # None /\ i \in In(editor)
    /\ Edit(Put(editor, i, editor[i].up, s))
    /\ UNCHANGED chosen

\* save sends the copy as it is, also while an earlier one is under way.
Send ==
    /\ editor # None /\ Cardinality(sent) < MaxSends
    /\ sent' = sent \cup {editor}
    /\ UNCHANGED <<map, caller, editor, chosen>>

\* The page is left.
Close ==
    /\ editor # None
    /\ editor' = None /\ chosen' = None
    /\ UNCHANGED <<map, caller, sent>>

MapGone ==
    /\ map # Gone /\ map' = Gone
    /\ UNCHANGED <<caller, editor, chosen, sent>>

MapNext ==
    \/ \E c \in Callers : SaveBuilt(c) \/ Mutate(c) \/ GiveUp(c) \/ Open(c)
                          \/ \E f \in {"tool", "page"} : Load(c, f)
    \/ \E g \in sent : Update(g)
    \/ \E i \in Ids : Choose(i) \/ RemoveInEditor(i)
                      \/ \E s \in Says[i] : AddToEditor(i, s) \/ Retell(i, s)
    \/ Send \/ Close

MapSpec == MapInit /\ [][MapNext \/ MapGone]_mapVars

-----------------------------------------------------------------------------
(* Properties *)

\* A tree: from every node the parents lead to the root in at most d steps.
IsTree(g, d) ==
    /\ In(g) # {}
    /\ \A i \in In(g) : \E n \in 0..d, path \in [0..d -> In(g)] :
          /\ path[0] = i /\ path[n] = Root /\ g[Root].up = "top"
          /\ \A k \in 1..n : path[k] = g[path[k - 1]].up

\* The stored map is a tree of at most MaxNodes nodes that is not too deep, whatever
\* the tutor asks for and the editor sends.
StoredTree ==
    map \notin {None, Gone} => IsTree(map, MaxDepth) /\ Cardinality(In(map)) <= MaxNodes

\* The editor never makes anything but a tree, even where the parent it asked for was
\* removed before the node was added; so only size and depth refuse its save.
EditorTree == editor # None => IsTree(editor, Cardinality(Ids))

\* The map as it is stored and as it is edited.
MapsAreTrees == StoredTree /\ EditorTree

Differ(g, h) == {i \in Ids : g[i] # h[i]}

\* A tool of the tutor that raced with nobody changes one branch, or what one node
\* says, and leaves the rest of the map as the learner left it.
OneBranch ==
    [][\A c \in Callers :
          caller[c].graph = map /\ map' \notin {map, Gone} /\ caller[c].pc = "loaded" /\ caller'[c] = Idle =>
              \E i \in Ids : \/ Differ(map, map') = {i}
                             \/ i # Root /\ Differ(map, map') = Subtree(map, i)]_mapVars
=============================================================================
