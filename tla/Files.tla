-------------------------------- MODULE Files --------------------------------
(***************************************************************************)
(* The files of one study and their history: the endpoints of              *)
(* src/internal/handlers/files.go, versions.go and savenote.go, the        *)
(* tutor's file tools of aitools.go, and the FileRepo of                   *)
(* src/internal/db/repo.go, on the tables files and file_versions of       *)
(* migration 0002.                                                         *)
(*                                                                         *)
(* What a request looked up may have moved or gone when it writes, so a    *)
(* request that depends on it is cut in two.  A file's kind never changes, *)
(* ids are never reused and a version is never written again, so reads of  *)
(* these are one step with the write.  Names are left out.                 *)
(***************************************************************************)
EXTENDS Naturals, Sequences, SequencesExt

CONSTANTS
    Requests,     \* requests and tool calls that may be served at the same time
    MaxFiles,     \* bound: files ever created in the study
    MaxVersions,  \* bound: versions of each file
    Texts         \* contents, "" among them

ASSUME FilesAssumption ==
    /\ MaxFiles \in Nat \ {0} /\ MaxVersions \in [1..MaxFiles -> Nat \ {0}]
    /\ "" \in Texts

VARIABLES
    study,    \* whether the study is there
    file,     \* [FileIds -> File]: table files
    history,  \* [FileIds -> Seq(Body)]: a file's rows of file_versions, oldest first
    minted,   \* the last id AUTOINCREMENT handed out
    req       \* [Requests -> what the request is about to write]

filesVars == <<study, file, history, minted, req>>

FileIds == 1..MaxFiles
Body    == [text : Texts, elements : BOOLEAN]  \* content, and whether elements_json is set
File    == [kind : {"none", "folder", "note", "image"}, parent : 0..MaxFiles, body : Body]
Request == [pc : {"idle", "insert", "move", "restore"}, file : 0..MaxFiles,
            kind : {"folder", "note", "image"}, parent : 0..MaxFiles, body : Body]

FilesTypeOK ==
    /\ study \in BOOLEAN
    /\ file \in [FileIds -> File]
    /\ history \in [FileIds -> Seq(Body)]
    /\ minted \in 0..MaxFiles
    /\ req \in [Requests -> Request]

Blank     == [text |-> "", elements |-> FALSE]
NoFile    == [kind |-> "none", parent |-> 0, body |-> Blank]
NoRequest == [pc |-> "idle", file |-> 0, kind |-> "note", parent |-> 0, body |-> Blank]

FilesInit ==
    /\ study = TRUE
    /\ file = [i \in FileIds |-> NoFile]
    /\ history = [i \in FileIds |-> <<>>]
    /\ minted = 0
    /\ req = [r \in Requests |-> NoRequest]

Live == {i \in FileIds : file[i].kind # "none"}

\* REFERENCES files(id): the root, or a file that is there.
Exists(p) == p = 0 \/ p \in Live

\* Mutant: the parent may be of any kind.
ValidParentAnyKind(p) == Exists(p)

\* validParent, for the learner's requests.
ValidParent(p) == p = 0 \/ (p \in Live /\ file[p].kind = "folder")

\* The bounds: nothing is asked for that there is no room for left.
Ask(r, q) ==
    /\ req[r].pc = "idle" /\ study
    /\ q.pc = "insert" => minted < MaxFiles
    /\ q.pc = "restore" => Len(history[q.file]) < MaxVersions[q.file]
    /\ req' = [req EXCEPT ![r] = q]
Done(r)   == req' = [req EXCEPT ![r] = NoRequest]

-----------------------------------------------------------------------------
(* Files come *)

Creation(k, p, b) == [pc |-> "insert", file |-> 0, kind |-> k, parent |-> p, body |-> b]

\* FileCreate and FileUpload: the learner picks the folder; an image's bytes never
\* change and are left out.
AskCreate(r, k, p) ==
    /\ ValidParent(p)
    /\ Ask(r, Creation(k, p, Blank))
    /\ UNCHANGED <<study, file, history, minted>>

\* The tool create_note: the tutor names any parent.
ToolCreate(r, p, t) ==
    /\ Ask(r, Creation("note", p, [text |-> t, elements |-> FALSE]))
    /\ UNCHANGED <<study, file, history, minted>>

\* SaveToNote: an answer of the tutor, with its elements, at the root.
SaveToNote(r, b) ==
    /\ Ask(r, Creation("note", 0, b))
    /\ UNCHANGED <<study, file, history, minted>>

\* What a version of a file says, if the file has it.
GetVersion(i, v) == {b \in Body : i \in Live /\ v \in DOMAIN history[i] /\ history[i][v] = b}

\* VersionBranch: a new note beside the file, from one of its versions.
AskBranch(r, i, v) ==
    /\ \E b \in GetVersion(i, v) : Ask(r, Creation("note", file[i].parent, b))
    /\ UNCHANGED <<study, file, history, minted>>

\* CreateAuthored: the file and its first version.
Insert(r) ==
    /\ req[r].pc = "insert" /\ minted < MaxFiles
    /\ study /\ Exists(req[r].parent)
    /\ minted' = minted + 1
    /\ file' = [file EXCEPT ![minted + 1] = [kind |-> req[r].kind, parent |-> req[r].parent,
                                             body |-> req[r].body]]
    /\ history' = [history EXCEPT ![minted + 1] = <<req[r].body>>]
    /\ Done(r) /\ UNCHANGED study

-----------------------------------------------------------------------------
(* change *)

\* Mutant: the version is taken before the update.
WrittenLate(i, b) ==
    /\ Len(history[i]) < MaxVersions[i]
    /\ file' = [file EXCEPT ![i].body = b]
    /\ history' = [history EXCEPT ![i] = Append(@, file[i].body)]

\* The transactions of UpdateContent and RestoreVersion: the row and a version of it.
Written(i, b) ==
    /\ Len(history[i]) < MaxVersions[i]
    /\ file' = [file EXCEPT ![i].body = b]
    /\ history' = [history EXCEPT ![i] = Append(@, b)]

\* UpdateContent keeps the elements, and the version copies them from the row.
UpdateContent(i, t) == Written(i, [file[i].body EXCEPT !.text = t])

\* FileContent: the learner writes a note.
FileContent(i, t) ==
    /\ i \in Live /\ file[i].kind = "note"
    /\ UpdateContent(i, t)
    /\ UNCHANGED <<study, minted, req>>

\* The tool update_note, of any file of the study.
ToolUpdate(i, t) ==
    /\ i \in Live
    /\ UpdateContent(i, t)
    /\ UNCHANGED <<study, minted, req>>

\* VersionRestore, and RestoreVersion's reads before its transaction.
AskRestore(r, i, v) ==
    /\ \E b \in GetVersion(i, v) :
          Ask(r, [pc |-> "restore", file |-> i, kind |-> "note", parent |-> 0, body |-> b])
    /\ UNCHANGED <<study, file, history, minted>>

\* The transaction, which the file must still be there for.
Restore(r) ==
    /\ req[r].pc = "restore" /\ req[r].file \in Live
    /\ Written(req[r].file, req[r].body)
    /\ Done(r) /\ UNCHANGED <<study, minted>>

\* FileUpdate with a parent: the file and the folder are looked up; Move refuses the
\* file itself, and does not look further up.
AskMove(r, i, p) ==
    /\ i \in Live /\ ValidParent(p) /\ p # i
    /\ Ask(r, [pc |-> "move", file |-> i, kind |-> "note", parent |-> p, body |-> Blank])
    /\ UNCHANGED <<study, file, history, minted>>

\* Its UPDATE, which changes nothing when the file is gone.
Move(r) ==
    /\ req[r].pc = "move" /\ Exists(req[r].parent)
    /\ file' = IF req[r].file \in Live THEN [file EXCEPT ![req[r].file].parent = req[r].parent]
               ELSE file
    /\ Done(r) /\ UNCHANGED <<study, history, minted>>

-----------------------------------------------------------------------------
(* and go *)

\* ON DELETE CASCADE: the least set with the file and, of each folder in it, the files.
Below(i) ==
    {j \in Live : \A S \in SUBSET Live :
                      i \in S /\ (\A k \in Live : file[k].parent \in S => k \in S) => j \in S}

Removed(S) ==
    /\ file' = [i \in FileIds |-> IF i \in S THEN NoFile ELSE file[i]]
    /\ history' = [i \in FileIds |-> IF i \in S THEN <<>> ELSE history[i]]

FileDelete(i) ==
    /\ i \in Live
    /\ Removed(Below(i))
    /\ UNCHANGED <<study, minted, req>>

\* What was looked up is gone, a statement fails, or the process dies: nothing was
\* written yet.
Refused(r) ==
    /\ req[r].pc # "idle"
    /\ Done(r)
    /\ UNCHANGED <<study, file, history, minted>>

FilesGone ==
    /\ study /\ study' = FALSE
    /\ Removed(Live)
    /\ UNCHANGED <<minted, req>>

FilesRequest(r) ==
    \/ \E p \in 0..MaxFiles :
          \/ \E k \in {"folder", "note", "image"} : AskCreate(r, k, p)
          \/ \E t \in Texts : ToolCreate(r, p, t)
          \/ \E i \in FileIds : AskMove(r, i, p)
    \/ \E b \in Body : SaveToNote(r, b)
    \/ \E i \in FileIds : \E v \in 1..MaxVersions[i] : AskBranch(r, i, v) \/ AskRestore(r, i, v)
    \/ Insert(r) \/ Restore(r) \/ Move(r) \/ Refused(r)

\* buildFileTree: the files at the root.
Roots == {i \in Live : file[i].parent \notin Live}

\* What FileTree renders: these, and what is in a rendered folder.
Shown ==
    {i \in Live : \A S \in SUBSET Live :
        Roots \subseteq S /\ (\A j \in Live : file[j].parent \in S /\ file[file[j].parent].kind = "folder" => j \in S)
            => i \in S}

FilesNext ==
    \/ \E r \in Requests : FilesRequest(r)
    \/ \E i \in FileIds : FileDelete(i) \/ \E t \in Texts : FileContent(i, t) \/ ToolUpdate(i, t)

FilesSpec == FilesInit /\ [][FilesNext \/ FilesGone]_filesVars

-----------------------------------------------------------------------------
(* Properties *)

\* The newest version of a file is what the file says, whichever edits, tools and
\* restores overlapped: nobody's edit is missing from the history.
HistoryComplete ==
    \A i \in Live : history[i] # <<>> /\ history[i][Len(history[i])] = file[i].body

\* A file's history only grows, and ends with the file: what an edit, a tool or a
\* restore replaced can be restored.
HistoryGrows ==
    [][\A i \in Live : i \in Live' => IsPrefix(history[i], history'[i])]_filesVars

\* A file lies at the root or in a file that is there, also where the folder a
\* request looked up was removed before it wrote.
Homed == \A i \in Live : Exists(file[i].parent)

\* A file the tree shows goes on being shown until it is removed, but for one thing:
\* moving a folder into a folder below it, or something into a folder that is not
\* shown.
NothingVanishes ==
    [][file' # file =>
          \/ \E j \in Live : /\ file'[j].parent # file[j].parent
                             /\ file'[j].parent \in Below(j) \/ file'[j].parent \notin Shown \cup {0}
          \/ Shown \cap Live' \subseteq Shown']_filesVars
=============================================================================
