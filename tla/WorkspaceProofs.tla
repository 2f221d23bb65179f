--------------------------- MODULE WorkspaceProofs ---------------------------
(***************************************************************************)
(* Proofs about Workspace, for any number of requests, files and versions, *)
(* chats and messages, and nodes of a mind map: the history of a file and  *)
(* what the tree shows of it, the threads of a chat and what the tutor is  *)
(* told of them, and the graph that is stored and the one that is edited.  *)
(***************************************************************************)
EXTENDS Workspace, FiniteSetTheorems, SequenceTheorems, WellFoundedInduction, TLAPS

-----------------------------------------------------------------------------
(* The inductive invariant *)

\* Ids are handed out in order, so the next one is free.
Numbered == \A i \in Live : i <= minted

FilesInv == FilesTypeOK /\ Numbered /\ HistoryComplete /\ Homed

LEMMA BlankType == Blank \in Body
BY FilesAssumption DEF Blank, Body

LEMMA BoundType == MaxFiles \in Nat /\ MaxFiles # 0 /\ 0 \in 0..MaxFiles
<1>1. MaxFiles \in Nat /\ MaxFiles # 0
  BY FilesAssumption
<1>2. QED
  BY <1>1

LEMMA NoFileType == NoFile \in File /\ NoRequest \in Request /\ NoFile.kind = "none"
BY BlankType, BoundType DEF NoFile, NoRequest, File, Request

LEMMA FilesInitInv == FilesInit => FilesInv
<1> SUFFICES ASSUME FilesInit PROVE FilesInv
  OBVIOUS
<1>1. FilesTypeOK
  <2>1. <<>> \in Seq(Body)
    OBVIOUS
  <2>2. QED
    BY <2>1, BoundType, NoFileType DEF FilesInit, FilesTypeOK
<1>2. Live = {}
  BY NoFileType DEF FilesInit, Live
<1>3. QED
  BY <1>1, <1>2 DEF FilesInv, Numbered, HistoryComplete, Homed

-----------------------------------------------------------------------------
(* What a step may do *)

\* A request that asks or gives up writes nothing.
LEMMA AskType ==
    ASSUME FilesTypeOK, NEW r \in Requests, NEW q \in Request, Ask(r, q) \/ Done(r)
    PROVE  req' \in [Requests -> Request]
BY NoFileType DEF FilesTypeOK, Ask, Done

\* A new file, in a place that is there.
LEMMA InsertInv ==
    ASSUME FilesInv, NEW r \in Requests, Insert(r)
    PROVE  /\ FilesInv'
           /\ \A i \in Live : history'[i] = history[i]
<1> DEFINE n == minted + 1
           q == req[r]
           f == [kind |-> q.kind, parent |-> q.parent, body |-> q.body]
<1>1. /\ q \in Request /\ file \in [FileIds -> File] /\ history \in [FileIds -> Seq(Body)]
      /\ minted \in Nat /\ minted < MaxFiles /\ MaxFiles \in Nat
  BY BoundType DEF FilesInv, FilesTypeOK, Insert
<1>2. /\ n \in FileIds /\ n \in 0..MaxFiles /\ n \notin Live
  BY <1>1 DEF FileIds, FilesInv, Numbered
<1>3. f \in File /\ f.kind # "none" /\ f.parent = q.parent /\ f.body = q.body /\ q.body \in Body
  BY <1>1 DEF File, Request
<1>4. file' = [file EXCEPT ![n] = f] /\ history' = [history EXCEPT ![n] = <<q.body>>]
      /\ minted' = n /\ study' = study /\ Done(r)
  BY DEF Insert
<1> HIDE DEF f, q
<1>5. req' \in [Requests -> Request]
  BY <1>4, NoFileType DEF FilesInv, FilesTypeOK, Done
<1>6. /\ file' \in [FileIds -> File] /\ file'[n] = f
      /\ \A i \in FileIds \ {n} : file'[i] = file[i]
  BY <1>1, <1>2, <1>3, <1>4
<1>7. /\ history' \in [FileIds -> Seq(Body)] /\ history'[n] = <<q.body>>
      /\ \A i \in FileIds \ {n} : history'[i] = history[i]
  BY <1>1, <1>2, <1>3, <1>4
<1>8. Live' = Live \cup {n}
  BY <1>2, <1>3, <1>6 DEF Live
<1>9. FilesTypeOK'
  <2>1. minted' \in 0..MaxFiles /\ study' \in BOOLEAN
    BY <1>2, <1>4 DEF FilesInv, FilesTypeOK
  <2>2. QED
    BY <1>5, <1>6, <1>7, <2>1 DEF FilesTypeOK
<1>10. Numbered'
  BY <1>1, <1>4, <1>8 DEF FilesInv, Numbered, Live, FileIds
<1>11. HistoryComplete'
  <2> SUFFICES ASSUME NEW i \in Live'
               PROVE  history'[i] # <<>> /\ history'[i][Len(history'[i])] = file'[i].body
    BY DEF HistoryComplete
  <2>1. CASE i = n
    <3>1. <<q.body>> # <<>> /\ Len(<<q.body>>) = 1 /\ <<q.body>>[1] = q.body
      OBVIOUS
    <3>2. QED
      BY <1>3, <1>6, <1>7, <2>1, <3>1
  <2>2. CASE i # n
    <3>1. i \in Live /\ i \in FileIds
      BY <1>8, <2>2 DEF Live
    <3>2. QED
      BY <1>6, <1>7, <2>2, <3>1 DEF FilesInv, HistoryComplete
  <2>3. QED
    BY <2>1, <2>2
<1>12. Homed'
  <2>1. q.parent = 0 \/ q.parent \in Live
    BY DEF Insert, Exists, q
  <2>2. ASSUME NEW i \in Live' PROVE file'[i].parent = 0 \/ file'[i].parent \in Live'
    <3>1. CASE i = n
      BY <1>3, <1>6, <1>8, <2>1, <3>1
    <3>2. CASE i # n
      BY <1>6, <1>8, <3>2 DEF FilesInv, Homed, Exists, Live
    <3>3. QED
      BY <3>1, <3>2
  <2>3. QED
    BY <2>2 DEF Homed, Exists
<1>13. \A i \in Live : history'[i] = history[i]
  BY <1>2, <1>7 DEF Live
<1>14. QED
  BY <1>9, <1>10, <1>11, <1>12, <1>13 DEF FilesInv

\* A new content of a file, with its version.
LEMMA WrittenInv ==
    ASSUME FilesInv, NEW i \in Live, NEW b \in Body, Written(i, b),
           req' \in [Requests -> Request], study' = study, minted' = minted
    PROVE  /\ FilesInv'
           /\ \A j \in Live : history'[j] = history[j] \/ history'[j] = Append(history[j], b)
<1>1. /\ i \in FileIds /\ file \in [FileIds -> File] /\ history \in [FileIds -> Seq(Body)]
  BY DEF FilesInv, FilesTypeOK, Live
<1>2. /\ file' = [file EXCEPT ![i].body = b]
      /\ history' = [history EXCEPT ![i] = Append(@, b)]
  BY DEF Written
<1>3. /\ file' \in [FileIds -> File] /\ file'[i].body = b
      /\ \A j \in FileIds : file'[j].kind = file[j].kind /\ file'[j].parent = file[j].parent
      /\ \A j \in FileIds \ {i} : file'[j] = file[j]
  BY <1>1, <1>2 DEF File
<1>4. Append(history[i], b) \in Seq(Body)
  BY <1>1
<1>5. /\ history' \in [FileIds -> Seq(Body)] /\ history'[i] = Append(history[i], b)
      /\ \A j \in FileIds \ {i} : history'[j] = history[j]
  BY <1>1, <1>2, <1>4
<1>6. Live' = Live
  BY <1>3 DEF Live
<1>7. FilesTypeOK'
  BY <1>3, <1>5 DEF FilesInv, FilesTypeOK
<1>8. Numbered' /\ Homed'
  BY <1>3, <1>6 DEF FilesInv, Numbered, Homed, Exists, Live
<1>9. HistoryComplete'
  <2> SUFFICES ASSUME NEW j \in Live
               PROVE  history'[j] # <<>> /\ history'[j][Len(history'[j])] = file'[j].body
    BY <1>6 DEF HistoryComplete
  <2>1. CASE j = i
    <3>1. history[i] \in Seq(Body)
      BY <1>1
    <3>2. Len(Append(history[i], b)) = Len(history[i]) + 1 /\ Append(history[i], b) # <<>>
          /\ Append(history[i], b)[Len(history[i]) + 1] = b
      BY <3>1
    <3>3. QED
      BY <1>3, <1>5, <2>1, <3>2
  <2>2. CASE j # i
    BY <1>3, <1>5, <2>2 DEF FilesInv, HistoryComplete, Live
  <2>3. QED
    BY <2>1, <2>2
<1>10. \A j \in Live : history'[j] = history[j] \/ history'[j] = Append(history[j], b)
  BY <1>5 DEF Live
<1>11. QED
  BY <1>7, <1>8, <1>9, <1>10 DEF FilesInv

\* Files go together with what lies in them.
LEMMA RemovedInv ==
    ASSUME FilesInv, NEW S \in SUBSET Live, \A k \in Live : file[k].parent \in S => k \in S,
           Removed(S), study' \in BOOLEAN, req' = req, minted' = minted
    PROVE  /\ FilesInv'
           /\ \A i \in Live' : i \in Live /\ history'[i] = history[i]
<1>1. /\ file \in [FileIds -> File] /\ history \in [FileIds -> Seq(Body)] /\ <<>> \in Seq(Body)
  BY DEF FilesInv, FilesTypeOK
<1>2. /\ file' \in [FileIds -> File] /\ history' \in [FileIds -> Seq(Body)]
      /\ \A i \in S : file'[i] = NoFile
      /\ \A i \in FileIds \ S : file'[i] = file[i] /\ history'[i] = history[i]
  BY <1>1, NoFileType DEF Removed, Live
<1>3. Live' = Live \ S
  BY <1>2, NoFileType DEF Live
<1>4. FilesTypeOK'
  BY <1>2 DEF FilesInv, FilesTypeOK
<1>5. Numbered' /\ HistoryComplete'
  BY <1>2, <1>3 DEF FilesInv, Numbered, HistoryComplete, Live
<1>6. Homed'
  <2> SUFFICES ASSUME NEW i \in Live \ S PROVE file[i].parent = 0 \/ file[i].parent \in Live \ S
    BY <1>2, <1>3 DEF Homed, Exists, Live
  <2>1. QED
    BY DEF FilesInv, Homed, Exists
<1>7. \A i \in Live' : i \in Live /\ history'[i] = history[i]
  BY <1>2, <1>3 DEF Live
<1>8. QED
  BY <1>4, <1>5, <1>6, <1>7 DEF FilesInv

\* The set the cascade removes is closed.
LEMMA BelowClosed ==
    ASSUME NEW i
    PROVE  Below(i) \in SUBSET Live /\ \A k \in Live : file[k].parent \in Below(i) => k \in Below(i)
BY DEF Below

\* What a step makes of the files: it keeps the invariant, and of every file that
\* stays the history, or the history and one more version.
LEMMA StepInv ==
    ASSUME FilesInv, [FilesNext \/ FilesGone]_filesVars
    PROVE  /\ FilesInv'
           /\ \A i \in Live : i \in Live' =>
                 history'[i] = history[i] \/ \E b \in Body : history'[i] = Append(history[i], b)
<1>1. /\ file \in [FileIds -> File] /\ history \in [FileIds -> Seq(Body)]
      /\ req \in [Requests -> Request] /\ minted \in 0..MaxFiles /\ study \in BOOLEAN
      /\ FilesTypeOK /\ MaxFiles \in Nat
  BY FilesAssumption DEF FilesInv, FilesTypeOK
\* The steps that write nothing.
<1>2. ASSUME req' \in [Requests -> Request], UNCHANGED <<study, file, history, minted>>
      PROVE  FilesInv' /\ \A i \in Live : history'[i] = history[i]
  BY <1>1, <1>2 DEF FilesInv, FilesTypeOK, Numbered, HistoryComplete, Homed, Exists, Live
<1>3. ASSUME NEW r \in Requests, NEW p \in 0..MaxFiles, NEW b \in Body,
             NEW k \in {"folder", "note", "image"}, Ask(r, Creation(k, p, b))
      PROVE  req' \in [Requests -> Request]
  <2>1. Creation(k, p, b) \in Request
    BY <1>1 DEF Creation, Request
  <2>2. QED
    BY <1>1, <1>3, <2>1, AskType
<1>4. ASSUME NEW r \in Requests, NEW p \in 0..MaxFiles, NEW t \in Texts,
             NEW k \in {"folder", "note", "image"}, AskCreate(r, k, p) \/ ToolCreate(r, p, t)
      PROVE  req' \in [Requests -> Request] /\ UNCHANGED <<study, file, history, minted>>
  <2>1. [text |-> t, elements |-> FALSE] \in Body
    BY DEF Body
  <2>2. QED
    BY <1>3, <1>4, <2>1, BlankType DEF AskCreate, ToolCreate
<1>5. ASSUME NEW r \in Requests, NEW b \in Body, SaveToNote(r, b)
      PROVE  req' \in [Requests -> Request] /\ UNCHANGED <<study, file, history, minted>>
  BY <1>1, <1>3, <1>5 DEF SaveToNote
<1>6. ASSUME NEW r \in Requests, NEW i \in FileIds, NEW p \in 0..MaxFiles, AskMove(r, i, p)
      PROVE  req' \in [Requests -> Request] /\ UNCHANGED <<study, file, history, minted>>
  <2>1. [pc |-> "move", file |-> i, kind |-> "note", parent |-> p, body |-> Blank] \in Request
    BY <1>1, BlankType DEF Request, FileIds
  <2>2. QED
    BY <1>1, <1>6, <2>1, AskType DEF AskMove
<1>7. ASSUME NEW r \in Requests, NEW i \in FileIds, NEW v \in Nat, AskBranch(r, i, v) \/ AskRestore(r, i, v)
      PROVE  req' \in [Requests -> Request] /\ UNCHANGED <<study, file, history, minted>>
  <2>1. PICK b \in Body : \/ Ask(r, Creation("note", file[i].parent, b))
                          \/ Ask(r, [pc |-> "restore", file |-> i, kind |-> "note", parent |-> 0, body |-> b])
    BY <1>7 DEF AskBranch, AskRestore, GetVersion
  <2>2. file[i].parent \in 0..MaxFiles /\ i \in 0..MaxFiles /\ 0 \in 0..MaxFiles
    BY <1>1 DEF File, FileIds
  <2>3. [pc |-> "restore", file |-> i, kind |-> "note", parent |-> 0, body |-> b] \in Request
    BY <2>2 DEF Request
  <2>4. UNCHANGED <<study, file, history, minted>>
    BY <1>7 DEF AskBranch, AskRestore
  <2>5. CASE Ask(r, Creation("note", file[i].parent, b))
    BY <1>1, <1>3, <2>2, <2>4, <2>5, AskType
  <2>6. CASE Ask(r, [pc |-> "restore", file |-> i, kind |-> "note", parent |-> 0, body |-> b])
    BY <1>1, <2>3, <2>4, <2>6, AskType
  <2>7. QED
    BY <2>1, <2>5, <2>6
<1>8. ASSUME NEW r \in Requests, Refused(r)
      PROVE  req' \in [Requests -> Request] /\ UNCHANGED <<study, file, history, minted>>
  BY <1>1, <1>8, NoFileType DEF Refused, Done
\* The steps that write.
<1>9. ASSUME NEW r \in Requests, Restore(r)
      PROVE  /\ FilesInv'
             /\ \A i \in Live : \/ history'[i] = history[i]
                                \/ \E b \in Body : history'[i] = Append(history[i], b)
  <2>1. /\ req[r].file \in Live /\ req[r].body \in Body /\ Written(req[r].file, req[r].body)
        /\ study' = study /\ minted' = minted /\ Done(r)
    BY <1>1, <1>9 DEF Restore, Request
  <2>2. req' \in [Requests -> Request]
    BY <1>1, <2>1, NoFileType DEF Done
  <2>3. QED
    BY <2>1, <2>2, WrittenInv
<1>10. ASSUME NEW i \in FileIds, NEW t \in Texts, FileContent(i, t) \/ ToolUpdate(i, t)
       PROVE  /\ FilesInv'
              /\ \A j \in Live : \/ history'[j] = history[j]
                                 \/ \E b \in Body : history'[j] = Append(history[j], b)
  <2> DEFINE b == [file[i].body EXCEPT !.text = t]
  <2>1. b \in Body
    BY <1>1 DEF File, Body
  <2>2. i \in Live /\ Written(i, b) /\ req' = req /\ study' = study /\ minted' = minted
    BY <1>10 DEF FileContent, ToolUpdate, UpdateContent
  <2> HIDE DEF b
  <2>3. QED
    BY <1>1, <2>1, <2>2, WrittenInv
<1>11. ASSUME NEW r \in Requests, Move(r)
       PROVE  FilesInv' /\ \A i \in Live : history'[i] = history[i]
  <2> DEFINE q == req[r]
  <2>1. /\ q \in Request /\ Exists(q.parent) /\ q.parent \in 0..MaxFiles
        /\ Done(r) /\ UNCHANGED <<study, history, minted>>
        /\ file' = IF q.file \in Live THEN [file EXCEPT ![q.file].parent = q.parent] ELSE file
    BY <1>1, <1>11 DEF Move, Request
  <2> HIDE DEF q
  <2>2. req' \in [Requests -> Request]
    BY <1>1, <2>1, NoFileType DEF Done
  <2>3. /\ file' \in [FileIds -> File]
        /\ \A i \in FileIds : /\ file'[i].kind = file[i].kind /\ file'[i].body = file[i].body
                              /\ file'[i].parent \in {file[i].parent, q.parent}
    BY <1>1, <2>1 DEF File, Live
  <2>4. Live' = Live
    BY <2>3 DEF Live
  <2>5. FilesTypeOK' /\ Numbered' /\ HistoryComplete'
    BY <1>1, <2>1, <2>2, <2>3, <2>4 DEF FilesInv, FilesTypeOK, Numbered, HistoryComplete, Live
  <2>6. Homed'
    BY <2>1, <2>3, <2>4 DEF FilesInv, Homed, Exists, Live
  <2>7. QED
    BY <2>1, <2>5, <2>6 DEF FilesInv
<1>12. ASSUME NEW i \in FileIds, FileDelete(i)
       PROVE  FilesInv' /\ \A j \in Live : j \in Live' => history'[j] = history[j]
  BY <1>1, <1>12, BelowClosed, RemovedInv DEF FileDelete
<1>13. CASE FilesGone
  BY <1>1, <1>13, RemovedInv DEF FilesGone
<1>14. ASSUME NEW r \in Requests, FilesRequest(r)
       PROVE  /\ FilesInv'
              /\ \A i \in Live : \/ history'[i] = history[i]
                                 \/ \E b \in Body : history'[i] = Append(history[i], b)
  <2>1. CASE \E p \in 0..MaxFiles :
                \/ \E k \in {"folder", "note", "image"} : AskCreate(r, k, p)
                \/ \E t \in Texts : ToolCreate(r, p, t)
    BY <1>2, <1>4, <2>1, FilesAssumption
  <2>2. CASE \E p \in 0..MaxFiles, i \in FileIds : AskMove(r, i, p)
    BY <1>2, <1>6, <2>2
  <2>3. CASE \E b \in Body : SaveToNote(r, b)
    BY <1>2, <1>5, <2>3
  <2>4. CASE \E i \in FileIds : \E v \in 1..MaxVersions[i] : AskBranch(r, i, v) \/ AskRestore(r, i, v)
    BY <1>2, <1>7, <2>4
  <2>5. CASE Insert(r)
    BY <2>5, InsertInv
  <2>6. CASE Restore(r)
    BY <1>9, <2>6
  <2>7. CASE Move(r)
    BY <1>11, <2>7
  <2>8. CASE Refused(r)
    BY <1>2, <1>8, <2>8
  <2>9. QED
    BY <1>14, <2>1, <2>2, <2>3, <2>4, <2>5, <2>6, <2>7, <2>8 DEF FilesRequest
<1>15. CASE UNCHANGED filesVars
  BY <1>1, <1>2, <1>15 DEF filesVars
<1>16. QED
  BY <1>10, <1>12, <1>13, <1>14, <1>15 DEF FilesNext

\* The files of a workspace behave as Files says, whatever happens to the map.
LEMMA FilesStep == [Next]_workspaceVars => [FilesNext \/ FilesGone]_filesVars
BY DEF Next, DeleteStudy, workspaceVars, filesVars

\* Every edit is in the history: whichever edits, tools and restores overlap, the
\* newest version of a file is what the file says.
THEOREM EditsKept == Spec => []HistoryComplete
<1>1. Init => FilesInv
  BY FilesInitInv DEF Init
<1>2. FilesInv /\ [Next]_workspaceVars => FilesInv'
  BY FilesStep, StepInv
<1>3. FilesInv => HistoryComplete
  BY DEF FilesInv
<1>4. QED
  BY <1>1, <1>2, <1>3, PTL DEF Spec

\* Every file lies at the root or in a file that is there, though parents are looked
\* up before the write and may be removed meanwhile.
THEOREM NoStrays == Spec => []Homed
<1>1. Init => FilesInv
  BY FilesInitInv DEF Init
<1>2. FilesInv /\ [Next]_workspaceVars => FilesInv'
  BY FilesStep, StepInv
<1>3. FilesInv => Homed
  BY DEF FilesInv
<1>4. QED
  BY <1>1, <1>2, <1>3, PTL DEF Spec

\* A history only grows, for as long as its file is there.
THEOREM HistoryAppends == Spec => HistoryGrows
<1> DEFINE Grows == \A i \in Live : i \in Live' => IsPrefix(history[i], history'[i])
<1>1. ASSUME FilesInv, [FilesNext \/ FilesGone]_filesVars PROVE Grows
  <2> SUFFICES ASSUME NEW i \in Live, i \in Live' PROVE IsPrefix(history[i], history'[i])
    OBVIOUS
  <2>1. history[i] \in Seq(Body)
    BY <1>1 DEF FilesInv, FilesTypeOK, Live
  <2>2. PICK h \in {history[i]} \cup {Append(history[i], b) : b \in Body} : history'[i] = h
    BY <1>1, StepInv
  <2>3. IsPrefix(history[i], h)
    BY <2>1, <2>2 DEF IsPrefix
  <2>4. QED
    BY <2>2, <2>3
<1>2. FilesInv /\ [Next]_workspaceVars => [Grows]_filesVars
  BY <1>1, FilesStep
<1>3. Init => FilesInv
  BY FilesInitInv DEF Init
<1>4. FilesInv /\ [Next]_workspaceVars => FilesInv'
  BY FilesStep, StepInv
<1>5. QED
  BY <1>2, <1>3, <1>4, PTL DEF Spec, HistoryGrows

-----------------------------------------------------------------------------
(* What the tree shows *)

\* What is moved goes to the root or into a folder: a file keeps its kind, and an id that
\* was free when the request looked at it is never used again.
FoldersMeant ==
    \A r \in Requests : req[r].pc = "move" =>
        /\ req[r].parent <= minted
        /\ req[r].parent \in Live => file[req[r].parent].kind = "folder"

\* A set with what lies at the root and, of each folder in it, the files.
AllOpened(S) ==
    /\ Roots \subseteq S
    /\ \A j \in Live : file[j].parent \in S /\ file[file[j].parent].kind = "folder" => j \in S

LEMMA ShownLeast ==
    /\ Shown \subseteq Live
    /\ \A S \in SUBSET Live : AllOpened(S) => Shown \subseteq S
BY DEF Shown, AllOpened

LEMMA LiveFields ==
    ASSUME FilesInv
    PROVE  /\ MaxFiles \in Nat /\ minted \in Nat /\ file \in [FileIds -> File] /\ req \in [Requests -> Request]
           /\ Live \subseteq FileIds /\ \A i \in FileIds : i \in Live <=> file[i].kind # "none"
           /\ \A i \in Live : i \in Nat /\ i # 0 /\ i <= minted /\ (file[i].parent = 0 \/ file[i].parent \in Live)
           /\ \A i \in Live : i \in Roots <=> file[i].parent = 0
<1>1. /\ FilesTypeOK /\ Homed /\ Numbered /\ MaxFiles \in Nat
  BY BoundType DEF FilesInv
<1>2. \A i \in Live : i \in Nat /\ i # 0 /\ i <= minted /\ (file[i].parent = 0 \/ file[i].parent \in Live)
  BY <1>1 DEF Homed, Exists, Numbered, Live, FileIds
<1>3. \A i \in Live : i \in Roots <=> file[i].parent = 0
  BY <1>2 DEF Roots
<1>4. QED
  BY <1>1, <1>2, <1>3 DEF FilesTypeOK, Live

\* The steps by what they do to the table files.
FilesSame ==
    /\ Live' = Live /\ minted' = minted
    /\ \A i \in Live : file'[i].kind = file[i].kind /\ file'[i].parent = file[i].parent

FileMore ==
    /\ minted' = minted + 1 /\ Live' = Live \cup {minted + 1}
    /\ \A i \in Live : file'[i] = file[i]

FilesLess ==
    /\ minted' = minted
    /\ \E D \in SUBSET Live : /\ \A k \in Live : file[k].parent \in D => k \in D
                              /\ Live' = Live \ D /\ \A i \in Live \ D : file'[i] = file[i]

FileMoved ==
    /\ Live' = Live /\ minted' = minted
    /\ \E r \in Requests, i \in Live :
          /\ req[r].pc = "move" /\ Exists(req[r].parent)
          /\ file'[i].parent = req[r].parent /\ file'[i].kind = file[i].kind
          /\ \A j \in Live \ {i} : file'[j] = file[j]

LEMMA FilesKinds ==
    ASSUME FilesInv, [FilesNext \/ FilesGone]_filesVars
    PROVE  FilesSame \/ FileMore \/ FilesLess \/ FileMoved
<1>1. /\ file \in [FileIds -> File] /\ minted \in Nat /\ MaxFiles \in Nat /\ req \in [Requests -> Request]
      /\ Live \subseteq FileIds
  BY LiveFields
<1>2. ASSUME UNCHANGED <<file, minted>> PROVE FilesSame
  BY <1>2 DEF FilesSame, Live
<1>3. ASSUME NEW i \in Live, NEW b \in Body, Written(i, b), minted' = minted PROVE FilesSame
  <2>1. file' = [file EXCEPT ![i].body = b]
    BY <1>3 DEF Written
  <2>2. \A j \in FileIds : file'[j].kind = file[j].kind /\ file'[j].parent = file[j].parent
    BY <1>1, <2>1 DEF File
  <2>3. QED
    BY <1>1, <1>3, <2>2 DEF FilesSame, Live
<1>4. ASSUME NEW D \in SUBSET Live, \A k \in Live : file[k].parent \in D => k \in D, Removed(D), minted' = minted
      PROVE  FilesLess
  <2>1. /\ \A i \in FileIds : i \in D => file'[i].kind = "none"
        /\ \A i \in FileIds \ D : file'[i] = file[i]
    BY <1>4, NoFileType DEF Removed
  <2>2. Live' = Live \ D
    BY <2>1 DEF Live
  <2>3. QED
    BY <1>1, <1>4, <2>1, <2>2 DEF FilesLess
<1>5. ASSUME NEW r \in Requests, Insert(r) PROVE FileMore
  <2>1. PICK n \in FileIds : n = minted + 1 /\ n \notin Live
    <3>1. minted + 1 \in FileIds
      BY <1>1, <1>5 DEF Insert, FileIds
    <3>2. minted + 1 \notin Live
      BY <1>1, LiveFields
    <3>3. QED
      BY <3>1, <3>2
  <2>2. /\ minted' = n /\ req[r].kind # "none"
        /\ file' = [file EXCEPT ![n] = [kind |-> req[r].kind, parent |-> req[r].parent, body |-> req[r].body]]
    BY <1>1, <1>5, <2>1 DEF Insert, Request
  <2>3. file'[n].kind # "none" /\ \A j \in FileIds : j # n => file'[j] = file[j]
    BY <1>1, <2>2
  <2>4. Live' = Live \cup {n}
    BY <2>3 DEF Live
  <2>5. QED
    BY <1>1, <2>1, <2>2, <2>3, <2>4 DEF FileMore
<1>6. ASSUME NEW r \in Requests, Move(r) PROVE FilesSame \/ FileMoved
  <2>1. /\ req[r].pc = "move" /\ Exists(req[r].parent) /\ minted' = minted
        /\ file' = IF req[r].file \in Live THEN [file EXCEPT ![req[r].file].parent = req[r].parent] ELSE file
    BY <1>6 DEF Move
  <2>2. CASE req[r].file \notin Live
    BY <1>2, <2>1, <2>2
  <2>3. CASE req[r].file \in Live
    <3>1. PICK i \in Live, p \in {req[r].parent} : i = req[r].file
      BY <2>3
    <3>2. file' = [file EXCEPT ![i].parent = p]
      BY <2>1, <2>3, <3>1
    <3>3. file'[i].parent = p /\ file'[i].kind = file[i].kind /\ \A j \in FileIds : j # i => file'[j] = file[j]
      BY <1>1, <3>2 DEF File
    <3>4. Live' = Live
      BY <3>3 DEF Live
    <3>5. QED
      BY <1>1, <2>1, <3>1, <3>3, <3>4 DEF FileMoved
  <2>4. QED
    BY <2>2, <2>3
<1>7. ASSUME NEW r \in Requests, FilesRequest(r) PROVE FilesSame \/ FileMore \/ FileMoved
  <2>1. CASE Insert(r)
    BY <1>5, <2>1
  <2>2. CASE Move(r)
    BY <1>6, <2>2
  <2>3. CASE Restore(r)
    <3>1. req[r].file \in Live /\ req[r].body \in Body /\ Written(req[r].file, req[r].body) /\ minted' = minted
      BY <1>1, <2>3 DEF Restore, Request
    <3>2. QED
      BY <1>3, <3>1
  <2>4. CASE ~(Insert(r) \/ Move(r) \/ Restore(r))
    <3>1. UNCHANGED <<file, minted>>
      BY <1>7, <2>4 DEF FilesRequest, AskCreate, ToolCreate, AskMove, SaveToNote, AskBranch, AskRestore, Refused
    <3>2. QED
      BY <1>2, <3>1
  <2>5. QED
    BY <2>1, <2>2, <2>3, <2>4
<1>8. ASSUME NEW i \in FileIds, NEW t \in Texts, FileContent(i, t) \/ ToolUpdate(i, t) PROVE FilesSame
  <2> DEFINE b == [file[i].body EXCEPT !.text = t]
  <2>1. b \in Body
    BY <1>1 DEF File, Body
  <2>2. i \in Live /\ Written(i, b) /\ minted' = minted
    BY <1>8 DEF FileContent, ToolUpdate, UpdateContent
  <2> HIDE DEF b
  <2>3. QED
    BY <1>3, <2>1, <2>2
<1>9. ASSUME NEW i \in FileIds, FileDelete(i) PROVE FilesLess
  BY <1>4, <1>9, BelowClosed DEF FileDelete
<1>10. CASE FilesGone
  BY <1>4, <1>10 DEF FilesGone
<1>11. CASE UNCHANGED filesVars
  BY <1>2, <1>11 DEF filesVars
<1>12. QED
  BY <1>7, <1>8, <1>9, <1>10, <1>11 DEF FilesNext

LEMMA FoldersStep ==
    ASSUME FilesInv, FoldersMeant, [FilesNext \/ FilesGone]_filesVars
    PROVE  FoldersMeant'
<1>1. /\ minted \in Nat /\ req \in [Requests -> Request] /\ FilesInv'
      /\ \A i \in Live : i \in Nat /\ i # 0 /\ i <= minted
  BY LiveFields, StepInv
\* Of what was asked, the folder is one as long as it is there.
<1>2. /\ minted' \in Nat /\ minted <= minted'
      /\ \A p \in Nat : p <= minted /\ (p \in Live => file[p].kind = "folder") =>
             (p \in Live' => file'[p].kind = "folder")
  <2>1. FilesSame \/ FileMore \/ FilesLess \/ FileMoved
    BY FilesKinds
  <2>2. CASE FilesSame
    BY <1>1, <2>2 DEF FilesSame
  <2>3. CASE FileMore
    BY <1>1, <2>3 DEF FileMore
  <2>4. CASE FilesLess
    BY <1>1, <2>4 DEF FilesLess
  <2>5. CASE FileMoved
    BY <1>1, <2>5 DEF FileMoved
  <2>6. QED
    BY <2>1, <2>2, <2>3, <2>4, <2>5
<1>3. ASSUME NEW r \in Requests, req'[r].pc = "move"
      PROVE  \/ req'[r] = req[r]
             \/ /\ UNCHANGED <<file, minted>>
                /\ req'[r].parent = 0 \/ (req'[r].parent \in Live /\ file[req'[r].parent].kind = "folder")
  <2>1. ASSUME NEW q \in Requests, NEW z, req' = [req EXCEPT ![q] = z], z.pc # "move" PROVE req'[r] = req[r]
    BY <1>1, <1>3, <2>1
  <2>2. ASSUME NEW q \in Requests, NEW i, NEW p, AskMove(q, i, p)
        PROVE  \/ req'[r] = req[r]
               \/ /\ UNCHANGED <<file, minted>>
                  /\ req'[r].parent = 0 \/ (req'[r].parent \in Live /\ file[req'[r].parent].kind = "folder")
    BY <1>1, <2>2 DEF AskMove, Ask, ValidParent
  <2>3. ASSUME NEW q \in Requests, FilesRequest(q), ~ \E i \in FileIds, p \in 0..MaxFiles : AskMove(q, i, p)
        PROVE  req'[r] = req[r]
    <3>1. NoRequest.pc # "move" /\ \A k, p, b : Creation(k, p, b).pc # "move"
      BY DEF NoRequest, Creation
    <3>2. \E z : req' = [req EXCEPT ![q] = z] /\ z.pc # "move"
      <4>1. ASSUME NEW p, NEW k, NEW t, AskCreate(q, k, p) \/ ToolCreate(q, p, t) PROVE \E z : req' = [req EXCEPT ![q] = z] /\ z.pc # "move"
        BY <3>1, <4>1 DEF AskCreate, ToolCreate, Ask
      <4>2. ASSUME NEW b, SaveToNote(q, b) PROVE \E z : req' = [req EXCEPT ![q] = z] /\ z.pc # "move"
        BY <3>1, <4>2 DEF SaveToNote, Ask
      <4>3. ASSUME NEW i, NEW v, AskBranch(q, i, v) \/ AskRestore(q, i, v)
            PROVE  \E z : req' = [req EXCEPT ![q] = z] /\ z.pc # "move"
        BY <3>1, <4>3 DEF AskBranch, AskRestore, Ask
      <4>4. ASSUME Insert(q) \/ Restore(q) \/ Move(q) \/ Refused(q)
            PROVE  \E z : req' = [req EXCEPT ![q] = z] /\ z.pc # "move"
        BY <3>1, <4>4 DEF Insert, Restore, Move, Refused, Done
      <4>5. QED
        BY <2>3, <4>1, <4>2, <4>3, <4>4 DEF FilesRequest
    <3>3. QED
      BY <2>1, <3>2
  <2>4. CASE UNCHANGED req
    BY <2>4
  <2>5. QED
    BY <2>2, <2>3, <2>4 DEF FilesNext, FilesGone, FileDelete, FileContent, ToolUpdate, filesVars
<1>4. ASSUME NEW r \in Requests, req'[r].pc = "move"
      PROVE  req'[r].parent <= minted' /\ (req'[r].parent \in Live' => file'[req'[r].parent].kind = "folder")
  <2>1. PICK p \in Nat : p = req'[r].parent
    BY <1>1 DEF FilesInv, FilesTypeOK, Request
  <2>2. CASE req'[r] = req[r]
    <3>1. p <= minted /\ (p \in Live => file[p].kind = "folder")
      BY <1>4, <2>1, <2>2 DEF FoldersMeant
    <3>2. QED
      BY <1>1, <1>2, <2>1, <3>1
  <2>3. CASE UNCHANGED <<file, minted>> /\ (p = 0 \/ (p \in Live /\ file[p].kind = "folder"))
    <3>1. p <= minted /\ (p \in Live => file[p].kind = "folder")
      BY <1>1, <2>3
    <3>2. QED
      BY <1>1, <1>2, <2>1, <3>1
  <2>4. QED
    BY <1>3, <1>4, <2>1, <2>2, <2>3
<1>5. QED
  BY <1>4 DEF FoldersMeant

\* What is shown stays shown: a set that is closed after the step is, with what was
\* removed or moved, closed before it.
LEMMA ShownStays ==
    ASSUME FilesInv, FilesInv', FoldersMeant, FilesSame \/ FileMore \/ FilesLess \/ FileMoved,
           NEW i \in Shown, i \in Live'
    PROVE  \/ i \in Shown'
           \/ \E j \in Live : /\ file'[j].parent # file[j].parent
                              /\ file'[j].parent \in Below(j) \/ file'[j].parent \notin Shown \cup {0}
<1>1. /\ i \in Live /\ Shown \subseteq Live /\ \A S \in SUBSET Live : AllOpened(S) => Shown \subseteq S
  BY ShownLeast
<1>2. /\ \A j \in Live : j # 0 /\ (file[j].parent = 0 \/ file[j].parent \in Live)
      /\ \A j \in Live : j \in Roots <=> file[j].parent = 0
      /\ \A j \in Live' : j # 0 /\ (file'[j].parent = 0 \/ file'[j].parent \in Live')
      /\ \A j \in Live' : j \in Roots' <=> file'[j].parent = 0
  <2>1. \A j \in Live' : j # 0 /\ (file'[j].parent = 0 \/ file'[j].parent \in Live')
    <3>1. Homed' /\ MaxFiles \in Nat
      BY BoundType DEF FilesInv
    <3>2. QED
      BY <3>1 DEF Homed, Exists, Live, FileIds
  <2>2. 0 \notin Live'
    BY BoundType DEF Live, FileIds
  <2>3. \A j \in Live' : j \in Roots' <=> file'[j].parent = 0
    BY <2>1, <2>2 DEF Roots
  <2>4. QED
    BY <2>1, <2>3, LiveFields
\* What closed means after the step.
<1>3. ASSUME NEW S \in SUBSET Live', Roots' \subseteq S,
             \A j \in Live' : file'[j].parent \in S /\ file'[file'[j].parent].kind = "folder" => j \in S
      PROVE  /\ \A j \in Live' : file'[j].parent = 0 => j \in S
             /\ \A j \in Live' : file'[j].parent \in S /\ file'[file'[j].parent].kind = "folder" => j \in S
  BY <1>2, <1>3
<1>4. ASSUME NEW S \in SUBSET Live, \A j \in Live : file[j].parent = 0 => j \in S,
             \A j \in Live : file[j].parent \in S /\ file[file[j].parent].kind = "folder" => j \in S
      PROVE  Shown \subseteq S
  <2>1. AllOpened(S)
    BY <1>2, <1>4 DEF AllOpened, Roots
  <2>2. QED
    BY <1>1, <2>1
<1>5. ASSUME \A S \in SUBSET Live' :
                /\ \A j \in Live' : file'[j].parent = 0 => j \in S
                /\ \A j \in Live' : file'[j].parent \in S /\ file'[file'[j].parent].kind = "folder" => j \in S
                => i \in S
      PROVE  i \in Shown'
  BY <1>3, <1>5 DEF Shown
<1>6. CASE FilesSame
  <2> SUFFICES ASSUME NEW S \in SUBSET Live', \A j \in Live' : file'[j].parent = 0 => j \in S,
                      \A j \in Live' : file'[j].parent \in S /\ file'[file'[j].parent].kind = "folder" => j \in S
               PROVE  i \in S
    BY <1>5
  <2>1. QED
    BY <1>4, <1>6 DEF FilesSame
<1>7. CASE FileMore
  <2> SUFFICES ASSUME NEW S \in SUBSET Live', \A j \in Live' : file'[j].parent = 0 => j \in S,
                      \A j \in Live' : file'[j].parent \in S /\ file'[file'[j].parent].kind = "folder" => j \in S
               PROVE  i \in S
    BY <1>5
  <2> DEFINE T == S \cap Live
  <2>1. Shown \subseteq T
    <3>1. \A j \in Live : file[j].parent = 0 => j \in T
      BY <1>7 DEF FileMore
    <3>2. \A j \in Live : file[j].parent \in T /\ file[file[j].parent].kind = "folder" => j \in T
      BY <1>7 DEF FileMore
    <3> HIDE DEF T
    <3>3. T \in SUBSET Live
      BY DEF T
    <3>4. QED
      BY <1>4, <3>1, <3>2, <3>3
  <2>2. QED
    BY <2>1
<1>8. CASE FilesLess
  <2> SUFFICES ASSUME NEW S \in SUBSET Live', \A j \in Live' : file'[j].parent = 0 => j \in S,
                      \A j \in Live' : file'[j].parent \in S /\ file'[file'[j].parent].kind = "folder" => j \in S
               PROVE  i \in S
    BY <1>5
  <2>1. PICK D \in SUBSET Live : /\ \A k \in Live : file[k].parent \in D => k \in D
                                 /\ Live' = Live \ D /\ \A j \in Live \ D : file'[j] = file[j]
    BY <1>8 DEF FilesLess
  <2> DEFINE T == S \cup D
  <2>2. \A j \in Live : file[j].parent = 0 => j \in T
    BY <2>1
  <2>3. \A j \in Live : file[j].parent \in T /\ file[file[j].parent].kind = "folder" => j \in T
    BY <2>1
  <2>4. T \in SUBSET Live
    BY <2>1
  <2> HIDE DEF T
  <2>5. Shown \subseteq T
    BY <1>4, <2>2, <2>3, <2>4
  <2>6. QED
    BY <2>1, <2>5 DEF T
<1>9. CASE FileMoved
  <2>1. PICK r \in Requests, k \in Live, p \in {req[q].parent : q \in Requests} :
            /\ p = req[r].parent /\ Live' = Live /\ req[r].pc = "move" /\ Exists(p)
            /\ file'[k].parent = p /\ file'[k].kind = file[k].kind
            /\ \A j \in Live \ {k} : file'[j] = file[j]
    BY <1>9 DEF FileMoved
  <2> SUFFICES ASSUME p = file[k].parent \/ (p \notin Below(k) /\ p \in Shown \cup {0}),
                      NEW S \in SUBSET Live, \A j \in Live : file'[j].parent = 0 => j \in S,
                      \A j \in Live : file'[j].parent \in S /\ file'[file'[j].parent].kind = "folder" => j \in S
               PROVE  i \in S
    BY <1>5, <2>1
  <2>2. p \in Live => file[p].kind = "folder"
    BY <2>1 DEF FoldersMeant
  <2>3. \A j \in Live : file'[j].kind = file[j].kind
    BY <2>1
  <2>4. ASSUME NEW j \in Live \ {k} PROVE /\ file[j].parent = 0 => j \in S
                                          /\ file[j].parent \in S /\ file[file[j].parent].kind = "folder" => j \in S
    BY <2>1, <2>3
  <2>5. CASE p = file[k].parent
    <3>1. /\ file[k].parent = 0 => k \in S
          /\ file[k].parent \in S /\ file[file[k].parent].kind = "folder" => k \in S
      BY <2>1, <2>3, <2>5
    <3>2. Shown \subseteq S
      BY <1>4, <2>4, <3>1
    <3>3. QED
      BY <3>2
  <2>6. ASSUME k \in S PROVE i \in S
    <3>1. Shown \subseteq S
      BY <1>4, <2>4, <2>6
    <3>2. QED
      BY <3>1
  <2>7. CASE p = 0
    BY <2>1, <2>6, <2>7
  <2>8. CASE p \in Shown /\ p \notin Below(k)
    <3> DEFINE T == S \cup Below(k)
    <3>1. Below(k) \in SUBSET Live /\ k \in Below(k) /\ \A j \in Live : file[j].parent \in Below(k) => j \in Below(k)
      BY BelowClosed DEF Below
    <3>2. T \in SUBSET Live /\ \A j \in Live : file[j].parent = 0 => j \in T
      BY <2>4, <3>1
    <3>3. \A j \in Live : file[j].parent \in T /\ file[file[j].parent].kind = "folder" => j \in T
      BY <2>4, <3>1
    <3>4. Shown \subseteq T
      <4> HIDE DEF T
      <4>1. QED
        BY <1>4, <3>2, <3>3
    <3>5. p \in S /\ p \in Live
      BY <1>1, <2>8, <3>4
    <3>6. k \in S
      BY <2>1, <2>2, <2>3, <3>5
    <3>7. QED
      BY <2>6, <3>6
  <2>9. QED
    BY <2>5, <2>7, <2>8
<1>10. QED
  BY <1>6, <1>7, <1>8, <1>9

\* What the tree shows goes on being shown until it is removed, whatever is written,
\* moved and removed at the same time; but for a folder moved into one below it, or
\* something moved where it is not shown.
THEOREM ShownUntilRemoved == Spec => NothingVanishes
<1> DEFINE Stays == file' # file =>
                        \/ \E j \in Live : /\ file'[j].parent # file[j].parent
                                           /\ file'[j].parent \in Below(j) \/ file'[j].parent \notin Shown \cup {0}
                        \/ Shown \cap Live' \subseteq Shown'
           Inv   == FilesInv /\ FoldersMeant
<1>1. Init => Inv
  <2>1. FilesInit => FoldersMeant
    BY DEF FilesInit, FoldersMeant, NoRequest
  <2>2. QED
    BY <2>1, FilesInitInv DEF Init
<1>2. Inv /\ [Next]_workspaceVars => Inv'
  BY FilesStep, StepInv, FoldersStep
<1>3. ASSUME Inv, [FilesNext \/ FilesGone]_filesVars PROVE Stays
  <2>1. FilesInv /\ FilesInv' /\ FoldersMeant /\ (FilesSame \/ FileMore \/ FilesLess \/ FileMoved)
    BY <1>3, StepInv, FilesKinds
  <2>2. QED
    BY <2>1, ShownStays
<1>4. Inv /\ [Next]_workspaceVars => [Stays]_filesVars
  BY <1>3, FilesStep
<1>5. QED
  BY <1>1, <1>2, <1>4, PTL DEF Spec, NothingVanishes

-----------------------------------------------------------------------------
(* Recursion over numbers *)

\* A set of numbers that is not empty has a least one.
LEMMA LeastIn ==
    ASSUME NEW S \in SUBSET Nat, S # {}
    PROVE  \E x \in S : \A y \in S : x <= y
<1> DEFINE R == {p \in Nat \X Nat : p[1] < p[2]}
<1>1. IsWellFoundedOn(R, Nat)
  <2>1. R = OpToRel(<, Nat)
    BY DEF OpToRel
  <2>2. QED
    BY <2>1, NatLessThanWellFounded
<1> HIDE DEF R
<1>2. PICK x \in S : \A y \in S : ~ (<<y, x>> \in R)
  BY <1>1, WFMin
<1>3. ASSUME NEW y \in S PROVE x <= y
  <2>1. ~ (y < x)
    BY <1>2 DEF R
  <2>2. QED
    BY <2>1
<1>4. QED
  BY <1>3

\* A function that is given by its value at 0, and at n by a step from its value at a
\* number below n.
HasSteps(N, X, from, b, step) ==
    \E g \in [0..N -> X] : g[0] = b /\ \A n \in 1..N : g[n] = step[n][g[from[n]]]

LEMMA StepsExist ==
    ASSUME NEW N \in Nat, NEW X, NEW b \in X, NEW step \in [1..N -> [X -> X]],
           NEW from \in [1..N -> 0..N], \A n \in 1..N : from[n] < n
    PROVE  HasSteps(N, X, from, b, step)
<1> DEFINE Reaches(k) == \E g \in [0..k -> X] : g[0] = b /\ \A n \in 1..k : g[n] = step[n][g[from[n]]]
           Bad        == {k \in 0..N : ~Reaches(k)}
<1>1. Reaches(0)
  <2> DEFINE g == [n \in 0..0 |-> b]
  <2>1. g \in [0..0 -> X] /\ g[0] = b /\ 1..0 = {}
    OBVIOUS
  <2> HIDE DEF g
  <2>2. \A n \in 1..0 : g[n] = step[n][g[from[n]]]
    BY <2>1
  <2>3. QED
    BY <2>1, <2>2
<1>2. ASSUME NEW k \in 1..N, Reaches(k - 1) PROVE Reaches(k)
  <2>1. PICK g \in [0..(k - 1) -> X] : g[0] = b /\ \A n \in 1..(k - 1) : g[n] = step[n][g[from[n]]]
    BY <1>2
  <2> DEFINE h == [n \in 0..k |-> IF n = k THEN step[k][g[from[k]]] ELSE g[n]]
  <2>2. k \in Nat /\ from[k] \in 0..(k - 1) /\ 0 \in 0..k /\ 0 # k
    OBVIOUS
  <2>3. step[k] \in [X -> X] /\ g[from[k]] \in X
    BY <2>2
  <2>4. step[k][g[from[k]]] \in X
    BY <2>3
  <2>5. \A n \in 0..k : n # k => n \in 0..(k - 1) /\ g[n] \in X
    BY <2>2
  <2>6. h \in [0..k -> X]
    BY <2>4, <2>5
  <2>7. h[0] = b
    BY <2>1, <2>2
  <2>8. ASSUME NEW n \in 1..k PROVE h[n] = step[n][h[from[n]]]
    <3>1. n \in 1..N /\ n \in 0..k
      BY <2>2
    <3>2. from[n] \in 0..k /\ from[n] # k
      BY <2>2, <3>1
    <3>3. h[from[n]] = g[from[n]]
      BY <3>2
    <3>4. CASE n = k
      BY <3>1, <3>3, <3>4
    <3>5. CASE n # k
      <4>1. n \in 1..(k - 1)
        BY <3>5, <2>2
      <4>2. QED
        BY <2>1, <3>1, <3>3, <3>5, <4>1
    <3>6. QED
      BY <3>4, <3>5
  <2> HIDE DEF h
  <2>9. QED
    BY <2>6, <2>7, <2>8
<1> HIDE DEF Reaches
<1>3. Bad = {}
  <2> SUFFICES ASSUME Bad # {} PROVE FALSE
    OBVIOUS
  <2> Bad \in SUBSET Nat
    OBVIOUS
  <2> HIDE DEF Bad
  <2>1. PICK k \in Bad : \A j \in Bad : k <= j
    BY LeastIn
  <2> USE DEF Bad
  <2>2. k \in 1..N /\ k - 1 \in 0..N /\ k - 1 < k
    BY <1>1
  <2>3. k - 1 \notin Bad
    BY <2>1, <2>2
  <2>4. QED
    BY <1>2, <2>2, <2>3
<1>4. Reaches(N)
  BY <1>3
<1>5. QED
  BY <1>4 DEF Reaches, HasSteps

-----------------------------------------------------------------------------
(* The chats: threads *)

LEMMA ChatBounds ==
    MaxChats \in Nat /\ MaxMessages \in Nat /\ MaxMarks \in Nat
BY ChatsAssumption

\* A message hangs under an earlier one, or under none.
Upwards == \A m \in MsgIds : msg[m].parent \in 0..MaxMessages /\ msg[m].parent < m

\* What Thread is, by its definition, where messages hang under earlier ones.
LEMMA ThreadIs ==
    ASSUME Upwards
    PROVE  \A m \in MsgIds :
              Thread[m] = IF msg[m].parent = 0 THEN <<m>> ELSE Append(Thread[msg[m].parent], m)
<1> DEFINE X    == Seq(MsgIds)
           step == [m \in 1..MaxMessages |-> [t \in X |-> Append(t, m)]]
           from == [m \in 1..MaxMessages |-> msg[m].parent]
           T    == Thread
<1>1. MaxMessages \in Nat /\ MsgIds = 1..MaxMessages
  BY ChatBounds DEF MsgIds
<1>2. step \in [1..MaxMessages -> [X -> X]]
  BY <1>1
<1>3. from \in [1..MaxMessages -> 0..MaxMessages] /\ \A m \in 1..MaxMessages : from[m] < m
  BY <1>1 DEF Upwards
<1>4. <<>> \in X
  OBVIOUS
<1>5. HasSteps(MaxMessages, X, from, <<>>, step)
  <2> HIDE DEF step, from, X
  <2>1. QED
    BY <1>1, <1>2, <1>3, <1>4, StepsExist
<1>6. PICK g \in [0..MaxMessages -> X] :
          g[0] = <<>> /\ \A m \in 1..MaxMessages : g[m] = step[m][g[from[m]]]
  <2> HIDE DEF step, from, X
  <2>1. QED
    BY <1>5 DEF HasSteps
<1>7. ASSUME NEW m \in MsgIds PROVE g[m] = Append(g[msg[m].parent], m)
  <2>1. from[m] \in 0..MaxMessages /\ from[m] = msg[m].parent
    BY <1>1, <1>3
  <2>2. g[msg[m].parent] \in X
    BY <2>1
  <2>3. QED
    BY <1>1, <1>6, <2>1, <2>2
<1> DEFINE h == [m \in MsgIds |-> g[m]]
<1>8. h = [m \in MsgIds |-> IF msg[m].parent = 0 THEN <<m>> ELSE Append(h[msg[m].parent], m)]
  <2> SUFFICES ASSUME NEW m \in MsgIds
               PROVE  g[m] = IF msg[m].parent = 0 THEN <<m>> ELSE Append(h[msg[m].parent], m)
    OBVIOUS
  <2>1. CASE msg[m].parent = 0
    <3>1. Append(<<>>, m) = <<m>>
      OBVIOUS
    <3>2. QED
      BY <1>6, <1>7, <2>1, <3>1
  <2>2. CASE msg[m].parent # 0
    <3>1. msg[m].parent \in MsgIds
      BY <1>1, <2>2 DEF Upwards
    <3>2. QED
      BY <1>7, <2>2, <3>1
  <2>3. QED
    BY <2>1, <2>2
<1> HIDE DEF h
<1>9. T = [m \in MsgIds |-> IF msg[m].parent = 0 THEN <<m>> ELSE Append(T[msg[m].parent], m)]
  <2> HIDE DEF step, from
  <2>1. QED
    BY <1>8 DEF Thread
<1> HIDE DEF T
<1>10. \A m \in MsgIds : T[m] = IF msg[m].parent = 0 THEN <<m>> ELSE Append(T[msg[m].parent], m)
  BY <1>9, Zenon
<1>11. QED
  BY <1>10 DEF T
\* A thread goes from a message that hangs under none, each under the one before it, down
\* to the message; and it stays in every set that has a message's parent with the message.
IsThread(t, m) ==
    /\ t \in Seq(MsgIds) /\ Len(t) \in Nat \ {0} /\ t[Len(t)] = m
    /\ msg[t[1]].parent = 0
    /\ \A j \in 2..Len(t) : msg[t[j]].parent = t[j - 1]

LEMMA ThreadFacts ==
    ASSUME Upwards
    PROVE  \A m \in MsgIds : IsThread(Thread[m], m)
<1> DEFINE Bad == {m \in MsgIds : ~IsThread(Thread[m], m)}
<1>1. MaxMessages \in Nat /\ MsgIds = 1..MaxMessages
  BY ChatBounds DEF MsgIds
<1>2. ASSUME NEW m \in MsgIds, msg[m].parent = 0 PROVE IsThread(Thread[m], m)
  <2>1. Thread[m] = <<m>>
    BY <1>2, ThreadIs
  <2>2. <<m>> \in Seq(MsgIds) /\ Len(<<m>>) = 1 /\ <<m>>[1] = m /\ 2..1 = {}
    OBVIOUS
  <2>3. QED
    BY <1>2, <2>1, <2>2 DEF IsThread
<1>3. ASSUME NEW m \in MsgIds, msg[m].parent # 0, IsThread(Thread[msg[m].parent], msg[m].parent)
      PROVE  IsThread(Thread[m], m)
  <2> DEFINE p == msg[m].parent
             u == Thread[p]
             t == Append(u, m)
  <2>1. Thread[m] = t
    BY <1>3, ThreadIs
  <2>2. /\ u \in Seq(MsgIds) /\ Len(u) \in Nat \ {0} /\ u[Len(u)] = p
        /\ msg[u[1]].parent = 0 /\ \A j \in 2..Len(u) : msg[u[j]].parent = u[j - 1]
    BY <1>3 DEF IsThread
  <2> HIDE DEF u
  <2>3. /\ t \in Seq(MsgIds) /\ Len(t) = Len(u) + 1 /\ t[Len(u) + 1] = m
        /\ \A j \in 1..Len(u) : t[j] = u[j]
    BY <2>2
  <2> HIDE DEF t
  <2>4. ASSUME NEW j \in 2..Len(t) PROVE msg[t[j]].parent = t[j - 1]
    <3>1. CASE j = Len(u) + 1
      <4>1. j - 1 = Len(u) /\ j - 1 \in 1..Len(u)
        BY <2>2, <3>1
      <4>2. t[j - 1] = p
        BY <2>2, <2>3, <4>1
      <4>3. QED
        BY <2>3, <3>1, <4>2
    <3>2. CASE j # Len(u) + 1
      <4>1. j \in 2..Len(u) /\ j \in 1..Len(u) /\ j - 1 \in 1..Len(u)
        BY <2>2, <2>3, <3>2
      <4>2. QED
        BY <2>2, <2>3, <4>1
    <3>3. QED
      BY <3>1, <3>2
  <2>5. Len(t) \in Nat \ {0} /\ t[Len(t)] = m /\ msg[t[1]].parent = 0
    <3>1. 1 \in 1..Len(u)
      BY <2>2
    <3>2. QED
      BY <2>2, <2>3, <3>1
  <2>6. QED
    BY <2>1, <2>3, <2>4, <2>5 DEF IsThread
<1>4. Bad = {}
  <2> SUFFICES ASSUME Bad # {} PROVE FALSE
    OBVIOUS
  <2> Bad \in SUBSET Nat
    BY <1>1
  <2> HIDE DEF Bad
  <2>1. PICK m \in Bad : \A n \in Bad : m <= n
    BY LeastIn
  <2> USE DEF Bad
  <2>2. msg[m].parent # 0
    BY <1>2
  <2>3. msg[m].parent \in MsgIds /\ msg[m].parent < m
    BY <1>1, <2>2 DEF Upwards
  <2>4. msg[m].parent \notin Bad
    BY <1>1, <2>1, <2>3
  <2>5. QED
    BY <1>3, <2>2, <2>3, <2>4
<1>5. QED
  BY <1>4

LEMMA ThreadStays ==
    ASSUME Upwards, NEW S \in SUBSET MsgIds, \A n \in S : msg[n].parent = 0 \/ msg[n].parent \in S,
           NEW m \in S
    PROVE  \A i \in DOMAIN Thread[m] : Thread[m][i] \in S
<1> DEFINE t   == Thread[m]
           Bad == {k \in 0..Len(t) : t[Len(t) - k] \notin S /\ k < Len(t)}
<1>1. /\ t \in Seq(MsgIds) /\ Len(t) \in Nat \ {0} /\ t[Len(t)] = m
      /\ \A j \in 2..Len(t) : msg[t[j]].parent = t[j - 1]
      /\ DOMAIN t = 1..Len(t)
  BY ThreadFacts DEF IsThread
<1>2. MaxMessages \in Nat /\ MsgIds = 1..MaxMessages
  BY ChatBounds DEF MsgIds
<1> HIDE DEF t
<1>3. Bad = {}
  <2> SUFFICES ASSUME Bad # {} PROVE FALSE
    OBVIOUS
  <2> Bad \in SUBSET Nat
    BY <1>1
  <2> HIDE DEF Bad
  <2>1. PICK k \in Bad : \A n \in Bad : k <= n
    BY LeastIn
  <2> USE DEF Bad
  <2>2. k # 0 /\ k \in Nat /\ k < Len(t)
    BY <1>1
  <2>3. k - 1 \in 0..Len(t) /\ k - 1 < Len(t) /\ k - 1 < k
    BY <1>1, <2>2
  <2>4. k - 1 \notin Bad
    BY <2>1, <2>2, <2>3
  <2>5. t[Len(t) - (k - 1)] \in S
    BY <2>3, <2>4
  <2>6. Len(t) - (k - 1) \in 2..Len(t) /\ (Len(t) - (k - 1)) - 1 = Len(t) - k /\ Len(t) - k \in 1..Len(t)
    BY <1>1, <2>2
  <2>7. msg[t[Len(t) - (k - 1)]].parent = t[Len(t) - k]
    BY <1>1, <2>6
  <2>8. t[Len(t) - k] \in MsgIds
    BY <1>1, <2>6
  <2>9. t[Len(t) - k] # 0
    BY <1>2, <2>8
  <2>10. QED
    BY <2>5, <2>7, <2>9
<1>4. ASSUME NEW i \in 1..Len(t) PROVE t[i] \in S
  <2>1. Len(t) - i \in 0..Len(t) /\ Len(t) - i < Len(t) /\ Len(t) - (Len(t) - i) = i
    BY <1>1
  <2>2. QED
    BY <1>3, <2>1
<1>5. QED
  BY <1>1, <1>4 DEF t

-----------------------------------------------------------------------------
(* The chats: what their messages are *)

\* Two messages that read alike.
Alike(m, n) == msg[m].role = msg[n].role /\ msg[m].text = msg[n].text

MessageTypes ==
    /\ shown \in BOOLEAN /\ chats \subseteq ChatIds /\ msg \in [MsgIds -> Message]
    /\ ids \in [chat : 0..MaxChats, msg : 0..MaxMessages]
    /\ excerpts \subseteq [source : MsgIds, own : BOOLEAN]

\* Ids are handed out in order, and what is written goes only with its chat.
HandedOut ==
    /\ \A c \in chats : c <= ids.chat
    /\ \A m \in Kept : m <= ids.msg /\ msg[m].chat \in chats /\ msg[m].text <= ids.msg
    /\ \A m \in MsgIds \ Kept : msg[m].parent = 0

\* Messages that read alike hang under messages that read alike.
AlikeAbove ==
    \A m, n \in Kept : Alike(m, n) =>
        \/ msg[m].parent = 0 /\ msg[n].parent = 0
        \/ msg[m].parent # 0 /\ msg[n].parent # 0 /\ Alike(msg[m].parent, msg[n].parent)

\* A message says which question it is of, as this question does itself.
Originals == \A m \in Kept : \A o \in Kept : msg[m].text = o => msg[o].role = "user" /\ msg[o].text = o

MessagesInv == MessageTypes /\ HandedOut /\ Threads /\ AlikeAbove /\ Originals

LEMMA MessageFields ==
    ASSUME MessageTypes
    PROVE  /\ MsgIds = 1..MaxMessages /\ MaxMessages \in Nat /\ MaxChats \in Nat /\ ids.msg \in Nat /\ ids.chat \in Nat
           /\ \A m \in MsgIds : /\ msg[m].parent \in 0..MaxMessages /\ msg[m].chat \in 0..MaxChats
                                /\ msg[m].text \in 0..MaxMessages /\ msg[m].role \in {"none", "user", "assistant"}
           /\ Kept \subseteq MsgIds /\ \A m \in MsgIds : m \in Kept <=> msg[m].chat # 0
           /\ \A c \in chats : c \in Nat /\ c # 0
BY ChatBounds DEF MessageTypes, Message, Kept, MsgIds, ChatIds

\* What Threads says of one message, without its LET.
LEMMA ThreadsOf ==
    ASSUME MessageTypes
    PROVE  Threads <=>
             \A m \in Kept :
                /\ msg[m].parent = 0 => msg[m].role = "user"
                /\ msg[m].parent # 0 =>
                      /\ msg[m].parent < m /\ msg[msg[m].parent].chat = msg[m].chat
                      /\ msg[m].role = "assistant" =>
                            msg[msg[m].parent].role = "user" /\ msg[msg[m].parent].text = msg[m].text
BY DEF Threads

LEMMA ParentsKept ==
    ASSUME MessagesInv
    PROVE  /\ Upwards
           /\ \A m \in Kept : msg[m].parent # 0 =>
                 msg[m].parent \in Kept /\ msg[msg[m].parent].chat = msg[m].chat /\ msg[m].parent < m
<1>1. MessageTypes /\ HandedOut /\ Threads
  BY DEF MessagesInv
<1>2. \A m \in Kept : msg[m].parent # 0 => msg[m].parent < m /\ msg[msg[m].parent].chat = msg[m].chat
  BY <1>1, ThreadsOf
<1>3. ASSUME NEW m \in Kept, msg[m].parent # 0
      PROVE  msg[m].parent \in Kept
  <2>1. msg[m].parent \in MsgIds /\ msg[m].chat # 0
    BY <1>1, <1>3, MessageFields
  <2>2. msg[msg[m].parent].chat # 0
    BY <1>2, <1>3, <2>1
  <2>3. QED
    BY <1>1, <2>1, <2>2, MessageFields
<1>4. Upwards
  <2> SUFFICES ASSUME NEW m \in MsgIds PROVE msg[m].parent \in 0..MaxMessages /\ msg[m].parent < m
    BY DEF Upwards
  <2>1. CASE m \in Kept
    BY <1>1, <1>2, <2>1, MessageFields
  <2>2. CASE m \notin Kept
    BY <1>1, <2>2, MessageFields DEF HandedOut
  <2>3. QED
    BY <2>1, <2>2
<1>5. QED
  BY <1>2, <1>3, <1>4

\* Where every message reads like one that was there, and hangs under what reads like
\* the one above, threads are threads.
LEMMA CopiesRead ==
    ASSUME MessagesInv, MessageTypes', NEW from, \A w \in Kept' : from[w] \in Kept,
           \A w \in Kept' : /\ msg'[w].role = msg[from[w]].role /\ msg'[w].text = msg[from[w]].text
                            /\ msg'[w].parent = 0 <=> msg[from[w]].parent = 0
                            /\ msg'[w].parent # 0 =>
                                  /\ msg'[w].parent \in Kept' /\ from[msg'[w].parent] = msg[from[w]].parent
                                  /\ msg'[w].parent < w /\ msg'[msg'[w].parent].chat = msg'[w].chat
    PROVE  Threads' /\ AlikeAbove'
<1>1. MessageTypes /\ Threads /\ AlikeAbove
  BY DEF MessagesInv
<1>2. \A w \in Kept' :
         /\ msg'[w].parent = 0 => msg'[w].role = "user"
         /\ msg'[w].parent # 0 =>
               /\ msg'[w].parent < w /\ msg'[msg'[w].parent].chat = msg'[w].chat
               /\ msg'[w].role = "assistant" =>
                     msg'[msg'[w].parent].role = "user" /\ msg'[msg'[w].parent].text = msg'[w].text
  <2> SUFFICES ASSUME NEW w \in Kept', msg'[w].parent # 0 => msg'[w].role = "assistant"
               PROVE  /\ msg'[w].parent = 0 => msg'[w].role = "user"
                      /\ msg'[w].parent # 0 =>
                            msg'[msg'[w].parent].role = "user" /\ msg'[msg'[w].parent].text = msg'[w].text
    OBVIOUS
  <2>1. PICK o \in Kept : o = from[w]
    OBVIOUS
  <2>2. /\ msg[o].parent = 0 => msg[o].role = "user"
        /\ msg[o].parent # 0 /\ msg[o].role = "assistant" =>
              msg[msg[o].parent].role = "user" /\ msg[msg[o].parent].text = msg[o].text
    BY <1>1, ThreadsOf
  <2>3. CASE msg'[w].parent = 0
    BY <2>1, <2>2, <2>3
  <2>4. CASE msg'[w].parent # 0
    <3>1. PICK q \in Kept' : q = msg'[w].parent
      BY <2>4
    <3>2. from[q] = msg[o].parent /\ msg'[q].role = msg[from[q]].role /\ msg'[q].text = msg[from[q]].text
      BY <2>1, <2>4, <3>1
    <3>3. QED
      BY <2>1, <2>2, <2>4, <3>1, <3>2
  <2>5. QED
    BY <2>3, <2>4
<1>3. Threads'
  BY <1>2 DEF Threads
<1>4. ASSUME NEW m \in Kept', NEW n \in Kept', msg'[m].role = msg'[n].role, msg'[m].text = msg'[n].text
      PROVE  \/ msg'[m].parent = 0 /\ msg'[n].parent = 0
             \/ /\ msg'[m].parent # 0 /\ msg'[n].parent # 0
                /\ msg'[msg'[m].parent].role = msg'[msg'[n].parent].role
                /\ msg'[msg'[m].parent].text = msg'[msg'[n].parent].text
  <2>1. PICK x \in Kept, y \in Kept : x = from[m] /\ y = from[n]
    OBVIOUS
  <2>2. Alike(x, y)
    BY <1>4, <2>1 DEF Alike
  <2>3. \/ msg[x].parent = 0 /\ msg[y].parent = 0
        \/ msg[x].parent # 0 /\ msg[y].parent # 0 /\ Alike(msg[x].parent, msg[y].parent)
    BY <1>1, <2>2 DEF AlikeAbove
  <2>4. CASE msg[x].parent = 0 /\ msg[y].parent = 0
    BY <2>1, <2>4
  <2>5. CASE msg[x].parent # 0 /\ msg[y].parent # 0 /\ Alike(msg[x].parent, msg[y].parent)
    <3>1. msg'[m].parent # 0 /\ msg'[n].parent # 0
      BY <2>1, <2>5
    <3>2. PICK p \in Kept', q \in Kept' : p = msg'[m].parent /\ q = msg'[n].parent
      BY <3>1
    <3>3. from[p] = msg[x].parent /\ from[q] = msg[y].parent
      BY <2>1, <3>1, <3>2
    <3>4. /\ msg'[p].role = msg[from[p]].role /\ msg'[p].text = msg[from[p]].text
          /\ msg'[q].role = msg[from[q]].role /\ msg'[q].text = msg[from[q]].text
      BY <3>2
    <3>5. QED
      BY <2>5, <3>1, <3>2, <3>3, <3>4 DEF Alike
  <2>6. QED
    BY <2>3, <2>4, <2>5
<1>5. AlikeAbove'
  BY <1>4 DEF AlikeAbove, Alike
<1>6. QED
  BY <1>3, <1>5

\* Messages stay as they are, or go with their chat.
LEMMA MessagesStay ==
    ASSUME MessagesInv, MessageTypes', ids'.msg = ids.msg, \A c \in chats' : c <= ids'.chat,
           \A m \in MsgIds : IF msg[m].chat \in chats'
                             THEN /\ msg'[m].chat = msg[m].chat /\ msg'[m].parent = msg[m].parent
                                  /\ msg'[m].role = msg[m].role /\ msg'[m].text = msg[m].text
                             ELSE msg'[m].chat = 0 /\ msg'[m].parent = 0
    PROVE  MessagesInv'
<1>1. MessageTypes /\ HandedOut
  BY DEF MessagesInv
<1>2. /\ \A m \in Kept' : m \in Kept /\ msg[m].chat \in chats'
      /\ Kept' \subseteq MsgIds /\ \A m \in MsgIds : m \in Kept' <=> msg'[m].chat # 0
  BY <1>1, MessageFields DEF Kept, MsgIds
<1>3. \A m \in Kept' : /\ msg'[m].chat = msg[m].chat /\ msg'[m].parent = msg[m].parent
                       /\ msg'[m].role = msg[m].role /\ msg'[m].text = msg[m].text
  BY <1>1, <1>2, MessageFields
<1>4. \A m \in Kept' : msg[m].parent # 0 =>
         /\ msg[m].parent \in Kept' /\ msg[m].parent < m /\ msg'[msg[m].parent].chat = msg[m].chat
  <2> SUFFICES ASSUME NEW m \in Kept', msg[m].parent # 0
               PROVE  /\ msg[m].parent \in Kept' /\ msg[m].parent < m
                      /\ msg'[msg[m].parent].chat = msg[m].chat
    OBVIOUS
  <2>1. PICK p \in Kept : p = msg[m].parent /\ msg[p].chat = msg[m].chat /\ p < m
    BY <1>2, ParentsKept
  <2>2. p \in MsgIds /\ msg[p].chat \in chats' /\ msg[p].chat # 0
    BY <1>1, <1>2, <2>1, MessageFields
  <2>3. msg'[p].chat = msg[m].chat /\ msg'[p].chat # 0
    BY <2>1, <2>2
  <2>4. QED
    BY <1>2, <2>1, <2>2, <2>3
<1>5. Threads' /\ AlikeAbove'
  <2> DEFINE from == [m \in MsgIds |-> m]
  <2>1. \A m \in Kept' : from[m] = m
    BY <1>2
  <2> HIDE DEF from
  <2>2. \A w \in Kept' : from[w] \in Kept
    BY <1>2, <2>1
  <2>3. \A w \in Kept' : /\ msg'[w].role = msg[from[w]].role /\ msg'[w].text = msg[from[w]].text
                         /\ msg'[w].parent = 0 <=> msg[from[w]].parent = 0
                         /\ msg'[w].parent # 0 =>
                               /\ msg'[w].parent \in Kept' /\ from[msg'[w].parent] = msg[from[w]].parent
                               /\ msg'[w].parent < w /\ msg'[msg'[w].parent].chat = msg'[w].chat
    BY <1>3, <1>4, <2>1
  <2>4. QED
    BY <2>2, <2>3, CopiesRead
<1>6. HandedOut'
  <2>1. \A m \in Kept' : m <= ids'.msg /\ msg'[m].chat \in chats' /\ msg'[m].text <= ids'.msg
    BY <1>1, <1>2, <1>3 DEF HandedOut
  <2>2. \A m \in MsgIds \ Kept' : msg'[m].parent = 0
    <3> SUFFICES ASSUME NEW m \in MsgIds, msg'[m].chat = 0 PROVE msg'[m].parent = 0
      BY <1>2
    <3>1. CASE msg[m].chat \in chats'
      <4>1. msg[m].chat = 0 /\ msg'[m].parent = msg[m].parent
        BY <3>1
      <4>2. m \notin Kept
        BY <1>1, <4>1, MessageFields
      <4>3. QED
        BY <1>1, <4>1, <4>2 DEF HandedOut
    <3>2. CASE msg[m].chat \notin chats'
      BY <3>2
    <3>3. QED
      BY <3>1, <3>2
  <2>3. MsgIds' = MsgIds
    BY DEF MsgIds
  <2>4. QED
    BY <2>1, <2>2, <2>3 DEF HandedOut
<1>7. Originals'
  BY <1>2, <1>3 DEF MessagesInv, Originals
<1>8. QED
  BY <1>5, <1>6, <1>7 DEF MessagesInv

\* A question that says it is itself, or an answer that says which question it is under.
LEMMA MessageAdded ==
    ASSUME MessagesInv, NEW c, NEW p, NEW role, NEW text, AddMessage(c, p, role, text),
           p = 0 \/ (p \in MsgIds /\ msg[p].chat = c),
           \/ role = "user" /\ text = ids.msg + 1
           \/ role = "assistant" /\ p # 0 /\ msg[p].role = "user" /\ text = msg[p].text
    PROVE  MessagesInv'
<1>1. /\ MessageTypes /\ HandedOut /\ Threads /\ AlikeAbove /\ Originals
      /\ MsgIds = 1..MaxMessages /\ MaxMessages \in Nat /\ ids.msg \in Nat
  BY MessageFields DEF MessagesInv
<1>2. PICK n \in MsgIds : n = ids.msg + 1
  BY <1>1 DEF AddMessage
<1> DEFINE new == [chat |-> c, parent |-> p, role |-> role, text |-> text, saved |-> FALSE]
<1>3. /\ c \in chats /\ c # 0 /\ c \in 0..MaxChats /\ c \in Nat
      /\ msg' = [msg EXCEPT ![n] = new] /\ ids' = [ids EXCEPT !.msg = n]
      /\ UNCHANGED <<shown, chats, excerpts>>
  BY <1>1, <1>2, MessageFields, ChatBounds DEF AddMessage, MessageTypes, ChatIds
<1>4. p \in 0..MaxMessages /\ text \in 0..MaxMessages /\ role \in {"user", "assistant"}
  <2>1. p \in 0..MaxMessages
    BY <1>1
  <2>2. n \in 0..MaxMessages
    BY <1>1
  <2>3. p # 0 => p \in MsgIds /\ msg[p].text \in 0..MaxMessages
    BY <1>1, MessageFields
  <2>4. QED
    BY <1>2, <2>1, <2>2, <2>3
<1>5. new \in Message
  BY <1>3, <1>4 DEF Message
<1>6. /\ msg' \in [MsgIds -> Message] /\ ids' \in [chat : 0..MaxChats, msg : 0..MaxMessages]
      /\ msg'[n] = new /\ \A m \in MsgIds : m # n => msg'[m] = msg[m]
      /\ ids'.msg = n /\ ids'.chat = ids.chat
  BY <1>1, <1>2, <1>3, <1>5 DEF MessageTypes
<1>7. /\ msg'[n].chat = c /\ msg'[n].parent = p /\ msg'[n].role = role /\ msg'[n].text = text
  BY <1>6
<1> HIDE DEF new
<1>8. MessageTypes'
  BY <1>1, <1>3, <1>6 DEF MessageTypes
<1>9. /\ Kept' = Kept \cup {n} /\ n \notin Kept /\ \A m \in Kept : m # n /\ m < n /\ msg[m].text < n
      /\ \A m \in Kept : msg[m].parent # n
  <2>1. Kept' = Kept \cup {n}
    BY <1>1, <1>3, <1>6, <1>7 DEF Kept
  <2>2. \A m \in Kept : m <= ids.msg /\ msg[m].text <= ids.msg /\ m \in MsgIds
    BY <1>1, MessageFields DEF HandedOut
  <2>3. \A m \in Kept : m < n /\ msg[m].text < n
    BY <1>1, <1>2, <2>2, MessageFields
  <2>4. \A m \in Kept : msg[m].parent = 0 \/ msg[m].parent \in Kept
    BY ParentsKept
  <2>5. \A m \in Kept : m # n
    BY <1>1, <2>2, <2>3
  <2>6. QED
    BY <1>1, <1>2, <2>1, <2>3, <2>4, <2>5
<1>10. p # 0 => p \in Kept /\ p < n /\ p # n /\ msg'[p] = msg[p]
  BY <1>1, <1>3, <1>6, <1>9, MessageFields
<1>11. HandedOut'
  <2>1. \A m \in Kept' : m <= ids'.msg /\ msg'[m].chat \in chats' /\ msg'[m].text <= ids'.msg
    <3>1. n <= n /\ text <= n
      <4>1. p # 0 => msg[p].text < n
        BY <1>9, <1>10
      <4>2. QED
        BY <1>1, <1>2, <4>1, MessageFields
    <3>2. \A m \in Kept : m <= n /\ msg[m].text <= n /\ msg[m].chat \in chats
      BY <1>1, <1>2, <1>9, MessageFields DEF HandedOut
    <3>3. QED
      BY <1>3, <1>6, <1>7, <1>9, <3>1, <3>2, MessageFields
  <2>2. \A m \in MsgIds \ Kept' : msg'[m].parent = 0
    BY <1>1, <1>6, <1>9 DEF HandedOut
  <2>3. \A d \in chats' : d <= ids'.chat
    BY <1>1, <1>3, <1>6 DEF HandedOut
  <2>4. MsgIds' = MsgIds
    BY DEF MsgIds
  <2>5. QED
    BY <2>1, <2>2, <2>3, <2>4 DEF HandedOut
\* What is above a message that was there is as it was.
<1>12. \A m \in Kept : /\ msg'[m] = msg[m]
                       /\ msg[m].parent # 0 => /\ msg[m].parent \in Kept
                                               /\ msg'[msg[m].parent] = msg[msg[m].parent]
  BY <1>1, <1>6, <1>9, ParentsKept, MessageFields
<1>13. Threads'
  <2>1. \A m \in Kept' :
           /\ msg'[m].parent = 0 => msg'[m].role = "user"
           /\ msg'[m].parent # 0 =>
                 /\ msg'[m].parent < m /\ msg'[msg'[m].parent].chat = msg'[m].chat
                 /\ msg'[m].role = "assistant" =>
                       msg'[msg'[m].parent].role = "user" /\ msg'[msg'[m].parent].text = msg'[m].text
    <3> SUFFICES ASSUME NEW m \in Kept'
                 PROVE  /\ msg'[m].parent = 0 => msg'[m].role = "user"
                        /\ msg'[m].parent # 0 =>
                              /\ msg'[m].parent < m /\ msg'[msg'[m].parent].chat = msg'[m].chat
                              /\ msg'[m].role = "assistant" =>
                                    /\ msg'[msg'[m].parent].role = "user"
                                    /\ msg'[msg'[m].parent].text = msg'[m].text
      OBVIOUS
    <3>1. CASE m = n
      BY <1>7, <1>10, <3>1
    <3>2. CASE m \in Kept
      <4>1. /\ msg[m].parent = 0 => msg[m].role = "user"
            /\ msg[m].parent # 0 =>
                  /\ msg[m].parent < m /\ msg[msg[m].parent].chat = msg[m].chat
                  /\ msg[m].role = "assistant" =>
                        msg[msg[m].parent].role = "user" /\ msg[msg[m].parent].text = msg[m].text
        BY <1>1, <3>2, ThreadsOf
      <4>2. QED
        BY <1>12, <3>2, <4>1
    <3>3. QED
      BY <1>9, <3>1, <3>2
  <2>2. QED
    BY <2>1 DEF Threads
<1>14. Originals'
  <2> SUFFICES ASSUME NEW m \in Kept', NEW o \in Kept', msg'[m].text = o
               PROVE  msg'[o].role = "user" /\ msg'[o].text = o
    BY DEF Originals
  <2>1. CASE m = n /\ role = "user"
    BY <1>2, <1>7, <2>1
  <2>2. CASE m = n /\ role = "assistant"
    <3>1. p \in Kept /\ msg[p].text = o
      BY <1>7, <1>10, <2>2
    <3>2. o \in Kept
      BY <1>1, <1>9, <3>1, MessageFields
    <3>3. QED
      BY <1>1, <1>12, <3>1, <3>2 DEF Originals
  <2>3. CASE m \in Kept
    <3>1. msg[m].text = o /\ o \in Kept
      BY <1>1, <1>9, <1>12, <2>3, MessageFields
    <3>2. QED
      BY <1>1, <1>12, <2>3, <3>1 DEF Originals
  <2>4. QED
    BY <1>4, <1>9, <2>1, <2>2, <2>3
\* A message hangs under what its like hangs under.
<1>15. ASSUME NEW m \in Kept, msg[m].role = role, msg[m].text = text
       PROVE  /\ p # 0 /\ msg[m].parent # 0 /\ msg[m].parent \in Kept
              /\ msg[msg[m].parent].role = msg[p].role /\ msg[msg[m].parent].text = msg[p].text
  <2>1. CASE role = "user" /\ text = ids.msg + 1
    BY <1>1, <1>2, <1>9, <1>15, <2>1, MessageFields
  <2>2. CASE role = "assistant" /\ p # 0 /\ msg[p].role = "user" /\ text = msg[p].text
    BY <1>1, <1>12, <1>15, <2>2, ThreadsOf
  <2>3. QED
    BY <2>1, <2>2
<1>16. AlikeAbove'
  <2> SUFFICES ASSUME NEW m \in Kept', NEW k \in Kept', msg'[m].role = msg'[k].role, msg'[m].text = msg'[k].text
               PROVE  \/ msg'[m].parent = 0 /\ msg'[k].parent = 0
                      \/ /\ msg'[m].parent # 0 /\ msg'[k].parent # 0
                         /\ msg'[msg'[m].parent].role = msg'[msg'[k].parent].role
                         /\ msg'[msg'[m].parent].text = msg'[msg'[k].parent].text
    BY DEF AlikeAbove, Alike
  <2>1. CASE m = n /\ k = n
    BY <2>1
  <2>2. CASE m = n /\ k \in Kept
    <3>1. msg'[k] = msg[k] /\ msg[k].role = role /\ msg[k].text = text
      BY <1>7, <1>12, <2>2
    <3>2. /\ p # 0 /\ msg[k].parent # 0 /\ msg[k].parent \in Kept
          /\ msg[msg[k].parent].role = msg[p].role /\ msg[msg[k].parent].text = msg[p].text
      BY <1>15, <2>2, <3>1
    <3>3. QED
      BY <1>7, <1>10, <1>12, <2>2, <3>1, <3>2
  <2>3. CASE k = n /\ m \in Kept
    <3>1. msg'[m] = msg[m] /\ msg[m].role = role /\ msg[m].text = text
      BY <1>7, <1>12, <2>3
    <3>2. /\ p # 0 /\ msg[m].parent # 0 /\ msg[m].parent \in Kept
          /\ msg[msg[m].parent].role = msg[p].role /\ msg[msg[m].parent].text = msg[p].text
      BY <1>15, <2>3, <3>1
    <3>3. QED
      BY <1>7, <1>10, <1>12, <2>3, <3>1, <3>2
  <2>4. CASE m \in Kept /\ k \in Kept
    <3>1. msg'[m] = msg[m] /\ msg'[k] = msg[k] /\ Alike(m, k)
      BY <1>12, <2>4 DEF Alike
    <3>2. \/ msg[m].parent = 0 /\ msg[k].parent = 0
          \/ msg[m].parent # 0 /\ msg[k].parent # 0 /\ Alike(msg[m].parent, msg[k].parent)
      BY <1>1, <2>4, <3>1 DEF AlikeAbove
    <3>3. QED
      BY <1>12, <2>4, <3>1, <3>2 DEF Alike
  <2>5. QED
    BY <1>9, <2>1, <2>2, <2>3, <2>4
<1>17. QED
  BY <1>8, <1>11, <1>13, <1>14, <1>16 DEF MessagesInv

\* A branch is a copy of a thread: each of its messages reads like the one it was copied
\* from, and hangs under the copy of what that one hangs under.
LEMMA Branched ==
    ASSUME MessagesInv, NEW m \in Kept, Branch(Thread[m])
    PROVE  /\ MessagesInv'
           /\ \A w \in Kept : msg'[w] = msg[w]
           /\ chats' = chats \cup {ids.chat + 1} /\ ids'.chat = ids.chat + 1
<1>1. /\ MessageTypes /\ HandedOut /\ Threads /\ AlikeAbove /\ Originals
      /\ MsgIds = 1..MaxMessages /\ MaxMessages \in Nat /\ MaxChats \in Nat /\ ids.msg \in Nat /\ ids.chat \in Nat
      /\ Kept \subseteq MsgIds /\ \A k \in MsgIds : k \in Kept <=> msg[k].chat # 0
  BY MessageFields DEF MessagesInv
<1>2. PICK t \in Seq(MsgIds), n \in Nat, c \in Nat : t = Thread[m] /\ n = ids.msg /\ c = ids.chat + 1
  BY <1>1, ParentsKept, ThreadFacts DEF IsThread
<1>3. /\ Len(t) \in Nat \ {0} /\ msg[t[1]].parent = 0 /\ \A j \in 2..Len(t) : msg[t[j]].parent = t[j - 1]
  BY <1>1, <1>2, ParentsKept, ThreadFacts DEF IsThread
<1>4. \A j \in 1..Len(t) : t[j] \in Kept
  <2>1. \A k \in Kept : msg[k].parent = 0 \/ msg[k].parent \in Kept
    BY ParentsKept
  <2>2. Kept \in SUBSET MsgIds
    BY <1>1
  <2>3. \A j \in DOMAIN Thread[m] : Thread[m][j] \in Kept
    BY <2>1, <2>2, ParentsKept, ThreadStays
  <2>4. DOMAIN t = 1..Len(t)
    BY <1>2
  <2>5. QED
    BY <1>2, <2>3, <2>4
<1> DEFINE New == (n + 1)..(n + Len(t))
           copy(w) == [msg[t[w - n]] EXCEPT !.chat = c, !.saved = FALSE,
                                            !.parent = IF w = n + 1 THEN 0 ELSE w - 1]
<1>5. /\ c <= MaxChats /\ n + Len(t) <= MaxMessages /\ chats' = chats \cup {c}
      /\ msg' = [w \in MsgIds |-> IF w \in New THEN copy(w) ELSE msg[w]]
      /\ ids' = [chat |-> c, msg |-> n + Len(t)]
      /\ UNCHANGED <<shown, excerpts>>
  <2>1. /\ ids.chat < MaxChats /\ ids.msg + Len(Thread[m]) <= MaxMessages
        /\ chats' = chats \cup {ids.chat + 1}
        /\ msg' = [w \in MsgIds |->
                      IF w \in ids.msg + 1..ids.msg + Len(Thread[m])
                      THEN [msg[Thread[m][w - ids.msg]] EXCEPT
                               !.chat = ids.chat + 1, !.saved = FALSE,
                               !.parent = IF w = ids.msg + 1 THEN 0 ELSE w - 1]
                      ELSE msg[w]]
        /\ ids' = [chat |-> ids.chat + 1, msg |-> ids.msg + Len(Thread[m])]
        /\ UNCHANGED <<shown, excerpts>>
    BY DEF Branch
  <2>2. Thread[m] = t /\ ids.msg = n /\ ids.chat + 1 = c
    BY <1>2
  <2>3. c <= MaxChats
    <3>1. ids.chat < MaxChats /\ c = ids.chat + 1
      BY <1>2, <2>1
    <3>2. QED
      BY <1>1, <3>1
  <2>4. msg' = [w \in MsgIds |-> IF w \in New THEN copy(w) ELSE msg[w]]
    BY <2>1, <2>2, Zenon
  <2>5. QED
    BY <2>1, <2>2, <2>3, <2>4
<1>bounds. n \in Nat /\ c \in Nat \ {0} /\ c <= MaxChats /\ n + Len(t) <= MaxMessages
  <2>1. c = ids.chat + 1 /\ n \in Nat /\ c \in Nat
    BY <1>2
  <2>2. c # 0
    BY <1>1, <2>1
  <2>3. QED
    BY <1>5, <2>1, <2>2
<1>length. Len(t) \in Nat \ {0}
  BY <1>3
<1>6. ASSUME NEW w \in New
      PROVE  w \in MsgIds /\ w > n /\ w - n \in 1..Len(t) /\ t[w - n] \in Kept /\ t[w - n] \in MsgIds
  <2>1. w \in Nat /\ w > n /\ w - n \in 1..Len(t) /\ w \in 1..MaxMessages
    <3>1. w \in Nat /\ w > n /\ w <= n + Len(t)
      BY <1>bounds, <1>length
    <3>2. MaxMessages \in Nat
      BY <1>1
    <3>3. QED
      BY <1>bounds, <1>length, <3>1, <3>2
  <2>2. QED
    BY <1>1, <1>4, <2>1
<1>7. ASSUME NEW w \in New
      PROVE  /\ copy(w) \in Message /\ copy(w).chat = c
             /\ copy(w).parent = IF w = n + 1 THEN 0 ELSE w - 1
             /\ copy(w).role = msg[t[w - n]].role /\ copy(w).text = msg[t[w - n]].text
  <2>1. msg[t[w - n]] \in Message
    BY <1>1, <1>6 DEF MessageTypes
  <2>2. (IF w = n + 1 THEN 0 ELSE w - 1) \in 0..MaxMessages /\ c \in 0..MaxChats
    <3>1. w \in MsgIds /\ MsgIds = 1..MaxMessages /\ MaxMessages \in Nat /\ MaxChats \in Nat
      BY <1>1, <1>6
    <3>2. QED
      BY <1>bounds, <3>1
  <2>3. QED
    BY <2>1, <2>2 DEF Message
<1> HIDE DEF copy
<1>8. MessageTypes'
  <2>1. msg' \in [MsgIds -> Message]
    <3>1. \A w \in MsgIds : (IF w \in New THEN copy(w) ELSE msg[w]) \in Message
      BY <1>1, <1>7 DEF MessageTypes
    <3>2. QED
      BY <1>5, <3>1
  <2>2. chats' \subseteq ChatIds
    <3>1. c \in ChatIds
      BY <1>1, <1>2, <1>5 DEF ChatIds
    <3>2. QED
      BY <1>1, <1>5, <3>1 DEF MessageTypes
  <2>3. ids' \in [chat : 0..MaxChats, msg : 0..MaxMessages]
    BY <1>1, <1>2, <1>3, <1>5
  <2>4. QED
    BY <1>1, <1>5, <2>1, <2>2, <2>3 DEF MessageTypes, MsgIds, ChatIds, Message
<1>9. \A w \in MsgIds : msg'[w] = IF w \in New THEN copy(w) ELSE msg[w]
  BY <1>5
<1>10. Kept' = Kept \cup New
  <2>1. \A w \in New : msg'[w].chat # 0
    <3>1. c # 0
      BY <1>1, <1>2
    <3>2. QED
      BY <1>6, <1>7, <1>9, <3>1
  <2>2. \A w \in MsgIds \ New : msg'[w] = msg[w]
    BY <1>9
  <2>3. \A w \in Kept : w \notin New
    BY <1>1, <1>2, <1>6 DEF HandedOut
  <2>4. QED
    BY <1>1, <1>6, <2>1, <2>2, <2>3 DEF Kept, MsgIds
<1>11. \A w \in Kept : /\ w \notin New /\ w <= n /\ msg'[w] = msg[w]
  BY <1>1, <1>2, <1>6, <1>9 DEF HandedOut
<1>12. \A w \in New : /\ msg'[w].chat = c /\ msg'[w].role = msg[t[w - n]].role /\ msg'[w].text = msg[t[w - n]].text
                      /\ msg'[w].parent = IF w = n + 1 THEN 0 ELSE w - 1
  BY <1>6, <1>7, <1>9
<1> DEFINE from == [w \in MsgIds |-> IF w \in New THEN t[w - n] ELSE w]
<1>13. /\ \A w \in Kept : from[w] = w
       /\ \A w \in New : from[w] = t[w - n]
  BY <1>1, <1>6, <1>11
<1> HIDE DEF from
<1>14. \A w \in Kept' : from[w] \in Kept
  BY <1>6, <1>10, <1>13
<1>15. ASSUME NEW w \in Kept'
       PROVE  /\ msg'[w].role = msg[from[w]].role /\ msg'[w].text = msg[from[w]].text
              /\ msg'[w].parent = 0 <=> msg[from[w]].parent = 0
              /\ msg'[w].parent # 0 =>
                    /\ msg'[w].parent \in Kept' /\ from[msg'[w].parent] = msg[from[w]].parent
                    /\ msg'[w].parent < w /\ msg'[msg'[w].parent].chat = msg'[w].chat
  <2>1. CASE w \in Kept
    <3>1. msg[w].parent # 0 => /\ msg[w].parent \in Kept /\ msg[msg[w].parent].chat = msg[w].chat
                               /\ msg[w].parent < w
      BY <2>1, ParentsKept
    <3>2. QED
      BY <1>10, <1>11, <1>13, <2>1, <3>1
  <2>2. CASE w \in New /\ w = n + 1
    <3>1. w - n = 1
      BY <2>2
    <3>2. QED
      BY <1>3, <1>12, <1>13, <2>2, <3>1
  <2>3. CASE w \in New /\ w # n + 1
    <3>1. /\ w - 1 \in New /\ w - n \in 2..Len(t) /\ (w - 1) - n = (w - n) - 1 /\ w - 1 # 0 /\ w - 1 < w
      BY <1>3, <2>3
    <3>2. msg[t[w - n]].parent = t[(w - 1) - n]
      BY <1>3, <3>1
    <3>3. t[(w - 1) - n] # 0
      BY <1>1, <1>6, <3>1
    <3>4. msg'[w].parent = w - 1
      BY <1>12, <2>3
    <3>5. from[w] = t[w - n] /\ from[w - 1] = t[(w - 1) - n]
      BY <1>13, <2>3, <3>1
    <3>6. msg'[w - 1].chat = msg'[w].chat
      BY <1>12, <2>3, <3>1
    <3>7. msg'[w].role = msg[from[w]].role /\ msg'[w].text = msg[from[w]].text
      BY <1>12, <1>13, <2>3
    <3>8. w - 1 \in Kept'
      BY <1>10, <3>1
    <3>9. QED
      BY <3>1, <3>2, <3>3, <3>4, <3>5, <3>6, <3>7, <3>8
  <2>4. QED
    BY <1>10, <2>1, <2>2, <2>3
<1>16. Threads' /\ AlikeAbove'
  BY <1>8, <1>14, <1>15, CopiesRead
<1>17. HandedOut'
  <2>1. \A w \in Kept : w <= n /\ msg[w].text <= n /\ msg[w].text \in Nat /\ w \in Nat /\ msg[w].chat \in chats
    BY <1>1, <1>2, MessageFields DEF HandedOut
  <2>2. ids'.msg = n + Len(t) /\ ids'.chat = c
    BY <1>5
  <2>3. \A w \in Kept' : w <= ids'.msg /\ msg'[w].chat \in chats' /\ msg'[w].text <= ids'.msg
    <3>1. \A w \in New : w <= n + Len(t) /\ msg'[w].chat \in chats' /\ msg'[w].text <= n + Len(t)
      <4>1. \A w \in New : msg[t[w - n]].text <= n /\ msg[t[w - n]].text \in Nat /\ w <= n + Len(t)
        BY <1>6, <2>1
      <4>2. \A w \in New : msg[t[w - n]].text <= n + Len(t)
        <5>1. \A x \in Nat : x <= n => x <= n + Len(t)
          BY <1>bounds, <1>length
        <5>2. QED
          BY <4>1, <5>1
      <4>3. c \in chats'
        BY <1>5
      <4>4. QED
        BY <1>12, <4>1, <4>2, <4>3
    <3>2. \A w \in Kept : w <= n + Len(t) /\ msg'[w].chat \in chats' /\ msg'[w].text <= n + Len(t)
      BY <1>3, <1>5, <1>11, <2>1
    <3>3. QED
      BY <1>10, <2>2, <3>1, <3>2
  <2>4. \A w \in MsgIds \ Kept' : msg'[w].parent = 0
    BY <1>1, <1>9, <1>10 DEF HandedOut
  <2>5. \A d \in chats' : d <= ids'.chat
    <3>1. \A d \in chats : d <= ids.chat /\ d \in Nat
      BY <1>1, MessageFields DEF HandedOut
    <3>2. QED
      BY <1>1, <1>2, <1>5, <2>2, <3>1
  <2>6. MsgIds' = MsgIds
    BY DEF MsgIds
  <2>7. QED
    BY <2>3, <2>4, <2>5, <2>6 DEF HandedOut
<1>18. Originals'
  <2> SUFFICES ASSUME NEW w \in Kept', NEW o \in Kept', msg'[w].text = o
               PROVE  msg'[o].role = "user" /\ msg'[o].text = o
    BY DEF Originals
  <2>1. from[w] \in Kept /\ msg[from[w]].text = o
    BY <1>14, <1>15
  <2>2. o <= n
    BY <1>1, <1>2, <2>1 DEF HandedOut
  <2>3. o \in Kept
    BY <1>6, <1>10, <2>2
  <2>4. QED
    BY <1>1, <1>11, <2>1, <2>3 DEF Originals
<1>19. MessagesInv'
  BY <1>8, <1>16, <1>17, <1>18 DEF MessagesInv
<1>20. chats' = chats \cup {ids.chat + 1} /\ ids'.chat = ids.chat + 1
  BY <1>2, <1>5
<1>21. QED
  BY <1>11, <1>19, <1>20

-----------------------------------------------------------------------------
(* The chats: what a request has read *)

Busy == {"stream", "told", "turn", "queued", "running"}

\* As long as its chat is there, a request knows its question, or the message this will
\* hang under, by the id it has in that chat; and with each message the tutor has been
\* told, it has been told the one above.
Informed(q) ==
    /\ q.chat <= ids.chat
    /\ q.chat \in chats =>
          /\ q.msg # 0 => q.msg \in MsgIds /\ msg[q.msg].chat = q.chat
          /\ q.pc \in {"told", "queued", "running"} => q.msg # 0 /\ msg[q.msg].role = "user"
          /\ q.pc \in {"stream", "told", "running"} =>
                /\ q.msg # 0 => q.msg \in q.prompt
                /\ \A m \in q.prompt : /\ msg[m].chat = q.chat
                                       /\ msg[m].parent = 0 \/ msg[m].parent \in q.prompt

AsksInv == ask \in [Askers -> Asking] /\ \A a \in Askers : ask[a].pc \in Busy => Informed(ask[a])

ChatsInv == MessagesInv /\ AsksInv

LEMMA AskFields ==
    ASSUME NEW q \in Asking
    PROVE  /\ q.chat \in 0..MaxChats /\ q.msg \in 0..MaxMessages /\ q.prompt \in SUBSET MsgIds
           /\ q.pc \in {"idle", "pane"} \cup Busy
BY DEF Asking, Busy

\* The last of some messages is one of them, or 0 where there is none.
LEMMA LastIn ==
    ASSUME NEW S \in SUBSET MsgIds
    PROVE  LastOf(S) \in S \cup {0} /\ LastOf(S) \in 0..MaxMessages
<1>1. MaxMessages \in Nat /\ MsgIds = 1..MaxMessages
  BY ChatBounds DEF MsgIds
<1>2. \E m \in S \cup {0} : \A n \in S : n <= m
  <2>1. CASE S = {}
    BY <2>1
  <2>2. CASE S # {}
    <3> DEFINE Above == {k \in 0..MaxMessages : MaxMessages - k \in S}
    <3>1. Above # {}
      <4>1. PICK m \in S : m \in 1..MaxMessages
        BY <1>1, <2>2
      <4>2. MaxMessages - m \in 0..MaxMessages /\ MaxMessages - (MaxMessages - m) = m
        BY <1>1, <4>1
      <4>3. QED
        BY <4>1, <4>2
    <3>2. Above \in SUBSET Nat
      OBVIOUS
    <3> HIDE DEF Above
    <3>3. PICK k \in Above : \A j \in Above : k <= j
      BY <3>1, <3>2, LeastIn
    <3> USE DEF Above
    <3>4. ASSUME NEW n \in S PROVE n <= MaxMessages - k
      <4>1. n \in 1..MaxMessages
        BY <1>1
      <4>2. MaxMessages - n \in 0..MaxMessages /\ MaxMessages - (MaxMessages - n) = n
        BY <1>1, <4>1
      <4>3. k <= MaxMessages - n
        BY <3>3, <4>2
      <4>4. QED
        BY <1>1, <4>1, <4>3
    <3>5. MaxMessages - k \in S
      OBVIOUS
    <3>6. QED
      BY <3>4, <3>5
  <2>3. QED
    BY <2>1, <2>2
<1>3. LastOf(S) \in S \cup {0}
  BY <1>2 DEF LastOf
<1>4. S \cup {0} \subseteq 0..MaxMessages
  BY <1>1
<1>5. QED
  BY <1>3, <1>4

\* What a request has read stays what it is while its chat is there.
LEMMA InformedStays ==
    ASSUME MessageTypes, NEW q \in Asking, Informed(q), ids'.chat \in Nat, ids.chat <= ids'.chat,
           \A c \in chats' : c \in chats \/ (c \in Nat /\ c > ids.chat),
           \A m \in MsgIds : msg[m].chat \in chats' =>
               msg'[m].chat = msg[m].chat /\ msg'[m].parent = msg[m].parent /\ msg'[m].role = msg[m].role
    PROVE  /\ q.chat <= ids'.chat
           /\ q.chat \in chats' =>
                 /\ q.msg # 0 => q.msg \in MsgIds /\ msg'[q.msg].chat = q.chat
                 /\ q.pc \in {"told", "queued", "running"} => q.msg # 0 /\ msg'[q.msg].role = "user"
                 /\ q.pc \in {"stream", "told", "running"} =>
                       /\ q.msg # 0 => q.msg \in q.prompt
                       /\ \A m \in q.prompt : /\ msg'[m].chat = q.chat
                                              /\ msg'[m].parent = 0 \/ msg'[m].parent \in q.prompt
<1>1. ids.chat \in Nat /\ q.chat \in Nat /\ q.chat <= ids.chat /\ q.prompt \in SUBSET MsgIds
  BY MessageFields, AskFields DEF Informed
<1>2. q.chat <= ids'.chat
  BY <1>1
<1>3. ASSUME q.chat \in chats' PROVE q.chat \in chats
  BY <1>1, <1>3
<1>4. ASSUME q.chat \in chats', NEW m \in MsgIds, msg[m].chat = q.chat
      PROVE  msg'[m].chat = q.chat /\ msg'[m].parent = msg[m].parent /\ msg'[m].role = msg[m].role
  BY <1>4
<1>5. QED
  BY <1>1, <1>2, <1>3, <1>4 DEF Informed

\* One request at most takes a step, and what the others have read stays.
LEMMA AsksStay ==
    ASSUME ChatsInv, ids'.chat \in Nat, ids.chat <= ids'.chat,
           \A c \in chats' : c \in chats \/ (c \in Nat /\ c > ids.chat),
           \A m \in MsgIds : msg[m].chat \in chats' =>
               msg'[m].chat = msg[m].chat /\ msg'[m].parent = msg[m].parent /\ msg'[m].role = msg[m].role,
           \/ UNCHANGED ask
           \/ \E a \in Askers, q \in Asking :
                 /\ ask' = [ask EXCEPT ![a] = q]
                 /\ q.pc \in Busy => Informed(q)'
    PROVE  AsksInv'
<1>1. MessageTypes /\ AsksInv /\ MsgIds' = MsgIds
  BY DEF ChatsInv, MessagesInv, MsgIds
<1>2. ASSUME NEW b \in Askers, NEW q \in Asking, q = ask[b], q.pc \in Busy
      PROVE  Informed(q)'
  <2>1. Informed(q)
    BY <1>1, <1>2 DEF AsksInv
  <2>2. QED
    BY <1>1, <2>1, InformedStays DEF Informed
<1>3. CASE UNCHANGED ask
  <2>1. \A b \in Askers : ask[b] \in Asking
    BY <1>1 DEF AsksInv
  <2>2. ask' \in [Askers -> Asking]'
    BY <1>1, <1>3 DEF AsksInv, Asking
  <2>3. ASSUME NEW b \in Askers, ask'[b].pc \in Busy PROVE Informed(ask[b])'
    <3>1. PICK q \in Asking : q = ask[b]
      BY <2>1
    <3>2. Informed(q)'
      BY <1>2, <1>3, <2>3, <3>1
    <3>3. q = ask'[b]
      BY <1>3, <3>1
    <3>4. QED
      BY <3>2, <3>3 DEF Informed
  <2>4. QED
    BY <2>2, <2>3 DEF AsksInv, Busy
<1>4. ASSUME NEW a \in Askers, NEW p \in Asking, ask' = [ask EXCEPT ![a] = p], p.pc \in Busy => Informed(p)'
      PROVE  AsksInv'
  <2>1. \A b \in Askers : ask[b] \in Asking
    BY <1>1 DEF AsksInv
  <2>2. ask' \in [Askers -> Asking]'
    BY <1>1, <1>4 DEF AsksInv, Asking
  <2>3. ASSUME NEW b \in Askers, ask'[b].pc \in Busy PROVE Informed(ask[b])'
    <3>1. PICK q \in Asking : q = ask'[b]
      BY <1>1, <1>4, <2>1 DEF AsksInv
    <3>2. Informed(q)'
      <4>1. CASE b = a
        <5>1. q = p
          BY <1>1, <1>4, <3>1, <4>1 DEF AsksInv
        <5>2. QED
          BY <1>4, <2>3, <3>1, <5>1
      <4>2. CASE b # a
        <5>1. q = ask[b]
          BY <1>1, <1>4, <3>1, <4>2 DEF AsksInv
        <5>2. QED
          BY <1>2, <2>3, <3>1, <5>1
      <4>3. QED
        BY <4>1, <4>2
    <3>3. QED
      BY <3>1, <3>2 DEF Informed
  <2>4. QED
    BY <2>2, <2>3 DEF AsksInv, Busy
<1>5. QED
  BY <1>3, <1>4

-----------------------------------------------------------------------------
(* The chats: what a step does *)

\* The messages that were there are as they were.
LEMMA AddedKeeps ==
    ASSUME MessagesInv, NEW c, NEW p, NEW role, NEW text, AddMessage(c, p, role, text)
    PROVE  /\ ids.msg + 1 \in MsgIds \ Kept /\ c \in chats /\ c # 0
           /\ chats' = chats /\ ids'.chat = ids.chat /\ ids.chat \in Nat
           /\ msg'[ids.msg + 1].chat = c /\ msg'[ids.msg + 1].parent = p /\ msg'[ids.msg + 1].role = role
           /\ \A m \in MsgIds : msg[m].chat \in chats => msg'[m] = msg[m]
<1>1. MessageTypes /\ HandedOut
  BY DEF MessagesInv
<1>2. /\ MsgIds = 1..MaxMessages /\ MaxMessages \in Nat /\ ids.msg \in Nat /\ ids.chat \in Nat
      /\ \A m \in MsgIds : m \in Kept <=> msg[m].chat # 0
      /\ \A d \in chats : d # 0
  BY <1>1, MessageFields
<1>3. PICK n \in MsgIds : n = ids.msg + 1
  BY <1>2 DEF AddMessage
<1>4. n \notin Kept
  BY <1>1, <1>2, <1>3 DEF HandedOut
<1>5. \A m \in MsgIds : msg[m].chat \in chats => m # n
  BY <1>2, <1>4
<1>6. /\ c \in chats /\ chats' = chats /\ ids'.chat = ids.chat
      /\ msg' = [msg EXCEPT ![n] = [chat |-> c, parent |-> p, role |-> role, text |-> text, saved |-> FALSE]]
  BY <1>1, <1>3 DEF AddMessage, MessageTypes
<1>7. /\ \A m \in MsgIds : m # n => msg'[m] = msg[m]
      /\ msg'[n].chat = c /\ msg'[n].parent = p /\ msg'[n].role = role
  BY <1>1, <1>6 DEF MessageTypes
<1>8. QED
  BY <1>2, <1>3, <1>4, <1>5, <1>6, <1>7

\* A new chat has the next id.
LEMMA NewChatStep ==
    ASSUME ChatsInv, NewChat, \/ UNCHANGED ask
                              \/ \E a \in Askers : ask' = [ask EXCEPT ![a] = NoAsk]
    PROVE  ChatsInv'
<1>1. MessagesInv /\ MessageTypes /\ HandedOut
  BY DEF ChatsInv, MessagesInv
<1>2. PICK c \in Nat : c = ids.chat + 1
  BY <1>1, MessageFields
<1>3. /\ c \in 1..MaxChats /\ ids.chat \in Nat /\ ids.chat < c
  BY <1>1, <1>2, MessageFields DEF NewChat
<1>4. /\ chats' = chats \cup {c} /\ ids' = [ids EXCEPT !.chat = c] /\ UNCHANGED <<shown, msg, excerpts>>
  BY <1>2 DEF NewChat
<1>5. /\ MessageTypes' /\ ids'.msg = ids.msg /\ ids'.chat = c
  <2>1. c \in 0..MaxChats
    BY <1>3
  <2>2. ids' \in [chat : 0..MaxChats, msg : 0..MaxMessages] /\ ids'.msg = ids.msg /\ ids'.chat = c
    BY <1>1, <1>4, <2>1 DEF MessageTypes
  <2>3. chats' \subseteq ChatIds
    BY <1>1, <1>3, <1>4 DEF MessageTypes, ChatIds
  <2>4. QED
    BY <1>1, <1>4, <2>2, <2>3 DEF MessageTypes, ChatIds, MsgIds, Message
<1>6. \A d \in chats' : d <= c
  BY <1>1, <1>3, <1>4, MessageFields DEF HandedOut
<1>7. \A m \in MsgIds : IF msg[m].chat \in chats'
                        THEN /\ msg'[m].chat = msg[m].chat /\ msg'[m].parent = msg[m].parent
                             /\ msg'[m].role = msg[m].role /\ msg'[m].text = msg[m].text
                        ELSE msg'[m].chat = 0 /\ msg'[m].parent = 0
  <2>1. \A m \in MsgIds : msg[m].chat \notin chats' => msg[m].chat = 0 /\ msg[m].parent = 0
    BY <1>1, <1>4, MessageFields DEF HandedOut
  <2>2. QED
    BY <1>4, <2>1
<1>8. MessagesInv'
  BY <1>1, <1>4, <1>5, <1>6, <1>7, MessagesStay
<1>9. NoAsk \in Asking /\ NoAsk.pc \notin Busy
  BY ChatBounds DEF NoAsk, Asking, Busy
<1>10. AsksInv'
  <2>1. \/ UNCHANGED ask
        \/ \E a \in Askers, q \in Asking : ask' = [ask EXCEPT ![a] = q] /\ (q.pc \in Busy => Informed(q)')
    BY <1>9
  <2>2. \A d \in chats' : d \in chats \/ (d \in Nat /\ d > ids.chat)
    BY <1>3, <1>4
  <2>3. QED
    BY <1>3, <1>4, <1>5, <2>1, <2>2, AsksStay
<1>11. QED
  BY <1>8, <1>10 DEF ChatsInv

\* A chat goes with its messages, and the study with all of them.
LEMMA ChatsGoneStep ==
    ASSUME ChatsInv, chats' \subseteq chats, shown' \in BOOLEAN, excerpts' \subseteq excerpts,
           UNCHANGED <<ids, ask>>, msg' \in [MsgIds -> Message],
           \A m \in MsgIds : IF msg[m].chat \in chats' THEN msg'[m] = msg[m]
                             ELSE msg'[m].chat = 0 /\ msg'[m].parent = 0
    PROVE  ChatsInv'
<1>1. MessagesInv /\ MessageTypes /\ HandedOut
  BY DEF ChatsInv, MessagesInv
<1>2. MessageTypes'
  BY <1>1 DEF MessageTypes, ChatIds, MsgIds, Message
<1>3. MessagesInv'
  <2>1. \A c \in chats' : c <= ids'.chat
    BY <1>1 DEF HandedOut
  <2>2. QED
    BY <1>1, <1>2, <2>1, MessagesStay
<1>4. AsksInv'
  <2>1. ids.chat \in Nat /\ ids'.chat \in Nat /\ ids.chat <= ids'.chat
    BY <1>1, MessageFields
  <2>2. QED
    BY <2>1, AsksStay
<1>5. QED
  BY <1>3, <1>4 DEF ChatsInv

\* A step that writes nothing but what a request has read.
LEMMA AskStep ==
    ASSUME ChatsInv, UNCHANGED <<shown, chats, msg, ids, excerpts>>, NEW a \in Askers, NEW q \in Asking,
           ask' = [ask EXCEPT ![a] = q], q.pc \in Busy => Informed(q)
    PROVE  ChatsInv'
<1>1. MessagesInv /\ MessageTypes
  BY DEF ChatsInv, MessagesInv
<1>2. MessagesInv'
  BY <1>1 DEF MessagesInv, MessageTypes, HandedOut, Threads, AlikeAbove, Originals, Kept, Alike,
              ChatIds, MsgIds, Message
<1>3. q.pc \in Busy => Informed(q)'
  BY DEF Informed, MsgIds
<1>4. AsksInv'
  <2>1. ids.chat \in Nat /\ ids'.chat \in Nat /\ ids.chat <= ids'.chat
    BY <1>1, MessageFields
  <2>2. QED
    BY <1>3, <2>1, AsksStay
<1>5. QED
  BY <1>2, <1>4 DEF ChatsInv

\* A step that changes no request, and no message but its bookmark.
LEMMA MarkStep ==
    ASSUME ChatsInv, UNCHANGED <<shown, chats, ids, ask>>, msg' \in [MsgIds -> Message],
           excerpts' \subseteq [source : MsgIds, own : BOOLEAN],
           \A m \in MsgIds : /\ msg'[m].chat = msg[m].chat /\ msg'[m].parent = msg[m].parent
                             /\ msg'[m].role = msg[m].role /\ msg'[m].text = msg[m].text
    PROVE  ChatsInv'
<1>1. MessagesInv /\ MessageTypes /\ HandedOut
  BY DEF ChatsInv, MessagesInv
<1>2. MessageTypes'
  BY <1>1 DEF MessageTypes, ChatIds, MsgIds, Message
<1>3. \A m \in MsgIds : msg[m].chat \notin chats => msg[m].chat = 0 /\ msg[m].parent = 0
  BY <1>1, MessageFields DEF HandedOut
<1>4. MessagesInv'
  <2>1. \A c \in chats' : c <= ids'.chat
    BY <1>1 DEF HandedOut
  <2>2. QED
    BY <1>1, <1>2, <1>3, <2>1, MessagesStay
<1>5. AsksInv'
  <2>1. ids.chat \in Nat /\ ids'.chat \in Nat /\ ids.chat <= ids'.chat
    BY <1>1, MessageFields
  <2>2. QED
    BY <2>1, AsksStay
<1>6. QED
  BY <1>4, <1>5 DEF ChatsInv

\* A branch leaves every request with what it has read.
LEMMA BranchStep ==
    ASSUME ChatsInv, NEW m \in MsgIds, ChatBranch(m)
    PROVE  ChatsInv'
<1>1. MessagesInv /\ MessageTypes /\ HandedOut /\ m \in Kept /\ Branch(Thread[m]) /\ UNCHANGED ask
  BY DEF ChatsInv, MessagesInv, ChatBranch, Branch
<1>2. /\ MessagesInv' /\ \A w \in Kept : msg'[w] = msg[w]
      /\ chats' = chats \cup {ids.chat + 1} /\ ids'.chat = ids.chat + 1
  BY <1>1, Branched
<1>3. PICK c \in Nat : c = ids.chat + 1 /\ ids.chat \in Nat /\ ids.chat < c
  <2>1. ids.chat \in Nat
    BY <1>1, MessageFields
  <2>2. ids.chat + 1 \in Nat /\ ids.chat < ids.chat + 1
    BY <2>1
  <2>3. QED
    BY <2>1, <2>2
<1>4. \A d \in chats' : d \in chats \/ (d \in Nat /\ d > ids.chat)
  BY <1>2, <1>3
<1>5. ASSUME NEW w \in MsgIds, msg[w].chat \in chats' PROVE w \in Kept
  <2>1. msg[w].chat \in chats' => msg[w].chat # 0
    BY <1>1, <1>2, <1>3, MessageFields
  <2>2. QED
    BY <1>1, <1>5, <2>1, MessageFields
<1>6. AsksInv'
  <2>1. ids'.chat \in Nat /\ ids.chat <= ids'.chat
    BY <1>2, <1>3
  <2>2. QED
    BY <1>1, <1>2, <1>4, <1>5, <2>1, AsksStay
<1>7. QED
  BY <1>2, <1>6 DEF ChatsInv

\* A question is written under the last message its request has read, and what the tutor
\* is told with it is closed under going up.
LEMMA QuestionStep ==
    ASSUME ChatsInv, NEW a \in Askers, AddQuestion(a) \/ CreateTurn(a)
    PROVE  ChatsInv'
<1> DEFINE n == ids.msg + 1
<1>1. MessagesInv /\ MessageTypes /\ AsksInv
  BY DEF ChatsInv, MessagesInv
<1>2. PICK q \in Asking : q = ask[a] /\ q.pc \in {"stream", "turn"} /\ Informed(q)
  BY <1>1 DEF AsksInv, AddQuestion, Question, CreateTurn, Busy
<1>3. AddMessage(q.chat, q.msg, "user", n)
  BY <1>2 DEF AddQuestion, Question, CreateTurn
<1> HIDE DEF n
<1>4. /\ n \in MsgIds \ Kept /\ q.chat \in chats /\ q.chat # 0
      /\ chats' = chats /\ ids'.chat = ids.chat /\ ids.chat \in Nat
      /\ msg'[n].chat = q.chat /\ msg'[n].parent = q.msg /\ msg'[n].role = "user"
      /\ \A m \in MsgIds : msg[m].chat \in chats => msg'[m] = msg[m]
  BY <1>1, <1>3, AddedKeeps DEF n
<1>5. q.msg = 0 \/ (q.msg \in MsgIds /\ msg[q.msg].chat = q.chat)
  BY <1>2, <1>4 DEF Informed
<1>6. MessagesInv'
  BY <1>1, <1>3, <1>5, MessageAdded DEF n
<1>7. n \in MsgIds /\ n # 0 /\ n \in 0..MaxMessages /\ MsgIds' = MsgIds
  <2>1. n \in MsgIds /\ MsgIds = 1..MaxMessages /\ MaxMessages \in Nat
    BY <1>1, <1>4, MessageFields
  <2>2. QED
    BY <2>1 DEF MsgIds
<1>8. PICK p \in Asking :
          /\ ask' = [ask EXCEPT ![a] = p] /\ p.chat = q.chat /\ p.msg = n
          /\ \/ q.pc = "stream" /\ p.pc = "told" /\ p.prompt = q.prompt \cup {n}
             \/ p.pc = "queued"
  <2>1. CASE AddQuestion(a)
    <3> DEFINE r == [q EXCEPT !.pc = "told", !.msg = n, !.prompt = @ \cup {n}]
    <3>1. q.pc = "stream" /\ ask' = [ask EXCEPT ![a] = r]
      BY <1>1, <1>2, <2>1 DEF AddQuestion, Question, AsksInv, n
    <3>2. r \in Asking /\ r.chat = q.chat /\ r.msg = n /\ r.pc = "told" /\ r.prompt = q.prompt \cup {n}
      BY <1>7 DEF Asking
    <3>3. QED
      BY <3>1, <3>2
  <2>2. CASE CreateTurn(a)
    <3> DEFINE r == [q EXCEPT !.pc = "queued", !.msg = n]
    <3>1. ask' = [ask EXCEPT ![a] = r]
      BY <1>1, <1>2, <2>2 DEF CreateTurn, AsksInv, n
    <3>2. r \in Asking /\ r.chat = q.chat /\ r.msg = n /\ r.pc = "queued"
      BY <1>7 DEF Asking
    <3>3. QED
      BY <3>1, <3>2
  <2>3. QED
    BY <2>1, <2>2
<1>9. Informed(p)'
  <2>1. p.chat <= ids'.chat
    BY <1>2, <1>4, <1>8 DEF Informed
  <2>2. p.msg \in MsgIds /\ msg'[p.msg].chat = p.chat /\ p.msg # 0 /\ msg'[p.msg].role = "user"
    BY <1>4, <1>7, <1>8
  <2>3. ASSUME p.pc \in {"stream", "told", "running"}
        PROVE  /\ p.msg \in p.prompt
               /\ \A m \in p.prompt : msg'[m].chat = p.chat /\ (msg'[m].parent = 0 \/ msg'[m].parent \in p.prompt)
    <3>1. q.pc = "stream" /\ p.prompt = q.prompt \cup {n} /\ p.msg \in p.prompt
      BY <1>8, <2>3
    <3>2. /\ q.msg # 0 => q.msg \in q.prompt
          /\ \A m \in q.prompt : msg[m].chat = q.chat /\ (msg[m].parent = 0 \/ msg[m].parent \in q.prompt)
      BY <1>2, <1>4, <3>1 DEF Informed
    <3>3. \A m \in q.prompt : msg'[m] = msg[m]
      BY <1>4, <3>2, AskFields
    <3>4. QED
      BY <1>4, <1>8, <3>1, <3>2, <3>3
  <2>4. QED
    BY <1>7, <2>1, <2>2, <2>3 DEF Informed
<1>10. AsksInv'
  <2>1. ids'.chat \in Nat /\ ids.chat <= ids'.chat
    BY <1>4
  <2>2. QED
    BY <1>4, <1>8, <1>9, <2>1, AsksStay
<1>11. QED
  BY <1>6, <1>10 DEF ChatsInv

\* An answer is written under the question it was asked with.
LEMMA AnswerStep ==
    ASSUME ChatsInv, NEW a \in Askers, Answer(a)
    PROVE  ChatsInv'
<1>1. MessagesInv /\ MessageTypes /\ AsksInv
  BY DEF ChatsInv, MessagesInv
<1>2. PICK q \in Asking : q = ask[a] /\ q.pc \in {"told", "running"} /\ Informed(q)
  BY <1>1 DEF AsksInv, Answer, Busy
<1>3. AddMessage(q.chat, q.msg, "assistant", msg[q.msg].text) /\ ask' = [ask EXCEPT ![a] = NoAsk]
  BY <1>2 DEF Answer, Leaves
<1>4. /\ q.chat \in chats /\ chats' = chats /\ ids'.chat = ids.chat /\ ids.chat \in Nat
      /\ \A m \in MsgIds : msg[m].chat \in chats => msg'[m] = msg[m]
  BY <1>1, <1>3, AddedKeeps
<1>5. q.msg # 0 /\ q.msg \in MsgIds /\ msg[q.msg].chat = q.chat /\ msg[q.msg].role = "user"
  BY <1>2, <1>4 DEF Informed
<1>6. MessagesInv'
  BY <1>1, <1>3, <1>5, MessageAdded
<1>7. NoAsk \in Asking /\ NoAsk.pc \notin Busy
  BY ChatBounds DEF NoAsk, Asking, Busy
<1>8. AsksInv'
  <2>1. ids'.chat \in Nat /\ ids.chat <= ids'.chat
    BY <1>4
  <2>2. QED
    BY <1>3, <1>4, <1>7, <2>1, AsksStay
<1>9. QED
  BY <1>6, <1>8 DEF ChatsInv

LEMMA ChatsInitInv == ChatsInit => ChatsInv
<1> SUFFICES ASSUME ChatsInit PROVE ChatsInv
  OBVIOUS
<1>1. NoMessage \in Message /\ NoMessage.chat = 0 /\ NoMessage.parent = 0 /\ NoAsk \in Asking /\ NoAsk.pc \notin Busy
  BY ChatBounds DEF NoMessage, Message, NoAsk, Asking, Busy
<1>2. 0 \in 0..MaxChats /\ 0 \in 0..MaxMessages
  BY ChatBounds
<1>3. Kept = {} /\ \A m \in MsgIds : msg[m].parent = 0
  BY <1>1 DEF ChatsInit, Kept
<1>4. MessageTypes /\ HandedOut
  BY <1>1, <1>2, <1>3 DEF ChatsInit, MessageTypes, HandedOut
<1>5. Threads /\ AlikeAbove /\ Originals
  BY <1>3 DEF ChatsInit, Threads, AlikeAbove, Originals
<1>6. AsksInv
  BY <1>1 DEF ChatsInit, AsksInv
<1>7. QED
  BY <1>4, <1>5, <1>6 DEF ChatsInv, MessagesInv

\* What a request reads: the messages of its chat, so with each the one above.
LEMMA ReadStep ==
    ASSUME ChatsInv, NEW a \in Askers, NEW c \in ChatIds,
           ChatStream(a, c) \/ ChatTurnCreate(a, c) \/ RunTurn(a)
    PROVE  ChatsInv'
<1>1. MessagesInv /\ MessageTypes /\ HandedOut /\ AsksInv
  BY DEF ChatsInv, MessagesInv
<1>2. /\ ids.chat \in Nat /\ MaxChats \in Nat /\ MsgIds = 1..MaxMessages /\ MaxMessages \in Nat
      /\ Kept \subseteq MsgIds /\ \A m \in MsgIds : m \in Kept <=> msg[m].chat # 0
      /\ \A d \in chats : d \in Nat /\ d # 0 /\ d <= ids.chat /\ d \in 0..MaxChats
  BY <1>1, MessageFields DEF HandedOut, MessageTypes, ChatIds
<1>3. ASSUME NEW d \in chats
      PROVE  /\ Messages(d) \in SUBSET MsgIds
             /\ \A m \in Messages(d) : msg[m].chat = d /\ (msg[m].parent = 0 \/ msg[m].parent \in Messages(d))
  <2>1. Messages(d) = {m \in Kept : msg[m].chat = d}
    BY <1>2 DEF Messages
  <2>2. \A m \in Kept : msg[m].parent # 0 => msg[m].parent \in Kept /\ msg[msg[m].parent].chat = msg[m].chat
    BY <1>1, ParentsKept
  <2>3. QED
    BY <1>2, <2>1, <2>2
<1>4. ASSUME NEW told \in SUBSET MsgIds, \A m \in told : msg[m].chat = c
      PROVE  /\ LastOf(told) \in 0..MaxMessages
             /\ LastOf(told) # 0 => LastOf(told) \in told /\ LastOf(told) \in MsgIds /\ msg[LastOf(told)].chat = c
  BY <1>4, LastIn
<1>5. UNCHANGED <<shown, chats, msg, ids, excerpts>>
  BY DEF ChatStream, ChatTurnCreate, RunTurn
<1>6. CASE ChatStream(a, c)
  <2>1. c \in chats
    BY <1>6 DEF ChatStream, Get
  <2>2. PICK told \in {Messages(c), {}} :
            Takes(a, [NoAsk EXCEPT !.pc = "stream", !.chat = c, !.msg = LastOf(told), !.prompt = told])
    BY <1>6 DEF ChatStream
  <2>3. told \in SUBSET MsgIds /\ \A m \in told : msg[m].chat = c /\ (msg[m].parent = 0 \/ msg[m].parent \in told)
    BY <1>3, <2>1
  <2>4. PICK last \in 0..MaxMessages :
            last = LastOf(told) /\ (last # 0 => last \in told /\ last \in MsgIds /\ msg[last].chat = c)
    BY <1>4, <2>3
  <2> DEFINE q == [NoAsk EXCEPT !.pc = "stream", !.chat = c, !.msg = last, !.prompt = told]
  <2>5. ask' = [ask EXCEPT ![a] = q]
    BY <2>2, <2>4 DEF Takes
  <2>6. q \in Asking /\ q.pc = "stream" /\ q.chat = c /\ q.msg = last /\ q.prompt = told
    BY <1>2, <2>1, <2>3 DEF NoAsk, Asking
  <2> HIDE DEF q
  <2>7. Informed(q)
    BY <1>2, <2>1, <2>3, <2>4, <2>6 DEF Informed
  <2>8. QED
    BY <1>5, <2>5, <2>6, <2>7, AskStep
<1>7. CASE ChatTurnCreate(a, c)
  <2>1. c \in chats
    BY <1>7 DEF ChatTurnCreate, Get
  <2>2. PICK last \in 0..MaxMessages :
            last = LastOf(Messages(c)) /\ (last # 0 => last \in MsgIds /\ msg[last].chat = c)
    BY <1>3, <1>4, <2>1
  <2> DEFINE q == [NoAsk EXCEPT !.pc = "turn", !.chat = c, !.msg = last]
  <2>3. ask' = [ask EXCEPT ![a] = q]
    BY <1>7, <2>2 DEF ChatTurnCreate, Takes
  <2>4. q \in Asking /\ q.pc = "turn" /\ q.chat = c /\ q.msg = last
    BY <1>2, <2>1 DEF NoAsk, Asking
  <2> HIDE DEF q
  <2>5. Informed(q)
    BY <1>2, <2>1, <2>2, <2>4 DEF Informed
  <2>6. QED
    BY <1>5, <2>3, <2>4, <2>5, AskStep
<1>8. CASE RunTurn(a)
  <2>1. PICK p \in Asking : p = ask[a] /\ p.pc = "queued" /\ p.chat \in chats /\ Informed(p)
    BY <1>1, <1>8 DEF RunTurn, AsksInv, Busy
  <2> DEFINE S == Messages(p.chat)
             q == [p EXCEPT !.pc = "running", !.prompt = S]
  <2>2. S \in SUBSET MsgIds /\ \A m \in S : msg[m].chat = p.chat /\ (msg[m].parent = 0 \/ msg[m].parent \in S)
    BY <1>3, <2>1
  <2>3. p.msg \in MsgIds /\ msg[p.msg].chat = p.chat /\ p.msg # 0 /\ msg[p.msg].role = "user" /\ p.chat <= ids.chat
    BY <2>1 DEF Informed
  <2>4. p.msg \in S
    BY <2>3 DEF Messages
  <2>5. ask' = [ask EXCEPT ![a] = q]
    BY <1>1, <1>8, <2>1 DEF RunTurn, AsksInv
  <2> HIDE DEF S
  <2>6. /\ q \in Asking /\ q.chat = p.chat /\ q.msg = p.msg /\ q.prompt = S
    BY <2>2 DEF Asking
  <2> HIDE DEF q
  <2>7. Informed(q)
    BY <2>2, <2>3, <2>4, <2>6 DEF Informed
  <2>8. QED
    BY <1>5, <2>5, <2>6, <2>7, AskStep
<1>9. QED
  BY <1>6, <1>7, <1>8

\* A request that stops, or a turn that is to be run again, has read nothing.
LEMMA StopStep ==
    ASSUME ChatsInv, NEW a \in Askers, Pane(a) \/ Dropped(a) \/ TurnFails(a)
    PROVE  ChatsInv'
<1>1. AsksInv
  BY DEF ChatsInv
<1>2. UNCHANGED <<shown, chats, msg, ids, excerpts>>
  BY DEF Pane, Dropped, TurnFails
<1>3. CASE Pane(a) \/ Dropped(a)
  <2>1. PICK q \in {NoAsk, [NoAsk EXCEPT !.pc = "pane"]} : ask' = [ask EXCEPT ![a] = q]
    BY <1>3 DEF Pane, Dropped, Takes, Leaves
  <2>2. q \in Asking /\ q.pc \notin Busy
    BY ChatBounds DEF NoAsk, Asking, Busy
  <2>3. QED
    BY <1>2, <2>1, <2>2, AskStep
<1>4. CASE TurnFails(a)
  <2>1. PICK p \in Asking : p = ask[a] /\ p.pc = "running" /\ Informed(p)
    BY <1>1, <1>4 DEF TurnFails, AsksInv, Busy
  <2> DEFINE q == [p EXCEPT !.pc = "queued", !.prompt = {}]
  <2>2. ask' = [ask EXCEPT ![a] = q]
    BY <1>1, <1>4, <2>1 DEF TurnFails, AsksInv
  <2>3. q \in Asking /\ q.pc = "queued" /\ q.chat = p.chat /\ q.msg = p.msg
    BY DEF Asking
  <2> HIDE DEF q
  <2>4. Informed(q)
    BY <2>1, <2>3 DEF Informed
  <2>5. QED
    BY <1>2, <2>2, <2>3, <2>4, AskStep
<1>5. QED
  BY <1>3, <1>4

LEMMA MarksStep ==
    ASSUME ChatsInv, NEW m \in MsgIds, SaveMessage(m) \/ CreateHighlight(m) \/ \E x \in excerpts : DeleteHighlight(x)
    PROVE  ChatsInv'
<1>1. MessageTypes /\ \A k \in MsgIds : msg[k] \in Message /\ msg[k].text \in 0..MaxMessages
  BY MessageFields DEF ChatsInv, MessagesInv, MessageTypes
<1>2. CASE SaveMessage(m)
  <2>1. /\ UNCHANGED <<shown, chats, ids, ask, excerpts>> /\ msg' = [msg EXCEPT ![m].saved = ~@]
    BY <1>2 DEF SaveMessage
  <2>2. \A k \in MsgIds : /\ msg'[k].chat = msg[k].chat /\ msg'[k].parent = msg[k].parent
                          /\ msg'[k].role = msg[k].role /\ msg'[k].text = msg[k].text
    BY <1>1, <2>1 DEF MessageTypes, Message
  <2>3. msg' \in [MsgIds -> Message]
    BY <1>1, <2>1 DEF MessageTypes, Message
  <2>4. excerpts' \subseteq [source : MsgIds, own : BOOLEAN]
    BY <1>1, <2>1 DEF MessageTypes
  <2>5. QED
    BY <2>1, <2>2, <2>3, <2>4, MarkStep
<1>3. CASE CreateHighlight(m)
  <2>1. /\ UNCHANGED <<shown, chats, ids, ask, msg>>
        /\ \E own \in BOOLEAN : excerpts' = excerpts \cup {[source |-> m, own |-> own]}
    BY <1>3 DEF CreateHighlight, InsertHighlight
  <2>2. excerpts' \subseteq [source : MsgIds, own : BOOLEAN]
    BY <1>1, <2>1 DEF MessageTypes
  <2>3. msg' \in [MsgIds -> Message]
    BY <1>1, <2>1 DEF MessageTypes
  <2>4. QED
    BY <2>1, <2>2, <2>3, MarkStep
<1>4. CASE \E x \in excerpts : DeleteHighlight(x)
  <2>1. UNCHANGED <<shown, chats, ids, ask, msg>> /\ excerpts' \subseteq excerpts
    BY <1>4 DEF DeleteHighlight, RemoveHighlight
  <2>2. excerpts' \subseteq [source : MsgIds, own : BOOLEAN] /\ msg' \in [MsgIds -> Message]
    BY <1>1, <2>1 DEF MessageTypes
  <2>3. QED
    BY <2>1, <2>2, MarkStep
<1>5. QED
  BY <1>2, <1>3, <1>4

LEMMA ChatDeleteStep ==
    ASSUME ChatsInv, (\E c \in ChatIds : ChatDelete(c)) \/ ChatsGone
    PROVE  ChatsInv'
<1>1. /\ MessageTypes /\ shown \in BOOLEAN /\ msg \in [MsgIds -> Message]
      /\ \A m \in MsgIds : msg[m].chat \notin chats => msg[m].chat = 0 /\ msg[m].parent = 0
      /\ \A d \in chats : d # 0
  BY MessageFields DEF ChatsInv, MessagesInv, HandedOut, MessageTypes
<1>2. NoMessage \in Message /\ NoMessage.chat = 0 /\ NoMessage.parent = 0
  BY ChatBounds DEF NoMessage, Message
<1>3. ASSUME NEW c \in ChatIds, ChatDelete(c) PROVE ChatsInv'
  <2>1. /\ c \in chats /\ chats' = chats \ {c} /\ UNCHANGED <<shown, ids, ask, excerpts>>
        /\ msg' = [m \in MsgIds |-> IF msg[m].chat = c THEN NoMessage ELSE msg[m]]
    BY <1>3 DEF ChatDelete, Get
  <2>2. msg' \in [MsgIds -> Message]
    BY <1>1, <1>2, <2>1
  <2>3. \A m \in MsgIds : IF msg[m].chat \in chats' THEN msg'[m] = msg[m]
                          ELSE msg'[m].chat = 0 /\ msg'[m].parent = 0
    BY <1>1, <1>2, <2>1
  <2>4. QED
    BY <1>1, <2>1, <2>2, <2>3, ChatsGoneStep
<1>4. CASE ChatsGone
  <2>1. chats' = {} /\ shown' \in BOOLEAN /\ excerpts' = {} /\ UNCHANGED <<ids, ask>>
        /\ msg' = [m \in MsgIds |-> NoMessage]
    BY <1>4 DEF ChatsGone
  <2>2. msg' \in [MsgIds -> Message] /\ \A m \in MsgIds : msg'[m].chat = 0 /\ msg'[m].parent = 0
    BY <1>2, <2>1
  <2>3. QED
    BY <2>1, <2>2, ChatsGoneStep
<1>5. QED
  BY <1>3, <1>4

\* Whatever the learner, the tutor and the other requests do.
LEMMA ChatsStepInv == ChatsInv /\ [ChatsNext \/ ChatsGone]_chatVars => ChatsInv'
<1> SUFFICES ASSUME ChatsInv, [ChatsNext \/ ChatsGone]_chatVars PROVE ChatsInv'
  OBVIOUS
<1>1. CASE ChatsNext
  <2>1. CASE ChatCreate
    BY <2>1, NewChatStep DEF ChatCreate
  <2>2. CASE \E c \in ChatIds : ChatDelete(c)
    BY <2>2, ChatDeleteStep
  <2>3. ASSUME NEW a \in Askers, FirstChat(a) PROVE ChatsInv'
    BY <2>3, NewChatStep DEF FirstChat, Leaves
  <2>4. ASSUME NEW a \in Askers, Pane(a) \/ Dropped(a) \/ TurnFails(a) PROVE ChatsInv'
    BY <2>4, StopStep
  <2>5. ASSUME NEW a \in Askers, NEW c \in ChatIds, ChatStream(a, c) \/ ChatTurnCreate(a, c) PROVE ChatsInv'
    BY <2>5, ReadStep
  <2>6. ASSUME NEW a \in Askers, RunTurn(a) PROVE ChatsInv'
    <3>1. ask[a].chat \in ChatIds
      BY <2>6 DEF RunTurn, ChatsInv, MessagesInv, MessageTypes
    <3>2. QED
      BY <2>6, <3>1, ReadStep
  <2>7. ASSUME NEW a \in Askers, AddQuestion(a) \/ CreateTurn(a) PROVE ChatsInv'
    BY <2>7, QuestionStep
  <2>8. ASSUME NEW a \in Askers, Answer(a) PROVE ChatsInv'
    BY <2>8, AnswerStep
  <2>9. ASSUME NEW m \in MsgIds, ChatBranch(m) PROVE ChatsInv'
    BY <2>9, BranchStep
  <2>10. ASSUME NEW m \in MsgIds, SaveMessage(m) \/ CreateHighlight(m) PROVE ChatsInv'
    BY <2>10, MarksStep
  <2>11. ASSUME NEW x \in excerpts, DeleteHighlight(x) PROVE ChatsInv'
    <3>1. x.source \in MsgIds
      BY DEF ChatsInv, MessagesInv, MessageTypes
    <3>2. QED
      BY <2>11, <3>1, MarksStep
  <2>12. QED
    BY <1>1, <2>1, <2>2, <2>3, <2>4, <2>5, <2>6, <2>7, <2>8, <2>9, <2>10, <2>11 DEF ChatsNext
<1>2. CASE ChatsGone
  BY <1>2, ChatDeleteStep
<1>3. CASE UNCHANGED chatVars
  <2>1. MessagesInv'
    BY <1>3 DEF ChatsInv, MessagesInv, MessageTypes, HandedOut, Threads, AlikeAbove, Originals, Kept,
                Alike, ChatIds, MsgIds, Message, chatVars
  <2>2. AsksInv'
    BY <1>3 DEF ChatsInv, AsksInv, Informed, Asking, MsgIds, chatVars
  <2>3. QED
    BY <2>1, <2>2 DEF ChatsInv
<1>4. QED
  BY <1>1, <1>2, <1>3

LEMMA ChatsStep == [Next]_workspaceVars => [ChatsNext \/ ChatsGone]_chatVars
BY DEF Next, DeleteStudy, workspaceVars, chatVars

LEMMA ChatsAlways == Spec => []ChatsInv
<1>1. Init => ChatsInv
  BY ChatsInitInv DEF Init
<1>2. ChatsInv /\ [Next]_workspaceVars => ChatsInv'
  BY ChatsStep, ChatsStepInv
<1>3. QED
  BY <1>1, <1>2, PTL DEF Spec

-----------------------------------------------------------------------------
(* The chats: what the learner reads *)

\* While the tutor answers, it has been told all its question hangs under: what it was
\* told has a message's parent with the message, so it has the question's whole thread.
THEOREM AskedWithContext == Spec => []AskedInContext
<1>1. ChatsInv => AskedInContext
  <2> SUFFICES ASSUME ChatsInv, NEW a \in Askers, ask[a].pc \in {"told", "running"}, ask[a].chat \in chats
               PROVE  \A i \in DOMAIN Thread[ask[a].msg] : Thread[ask[a].msg][i] \in ask[a].prompt
    BY DEF AskedInContext
  <2>1. PICK q \in Asking : q = ask[a] /\ Informed(q)
    BY DEF ChatsInv, AsksInv, Busy
  <2>2. /\ q.msg \in q.prompt /\ q.prompt \in SUBSET MsgIds
        /\ \A m \in q.prompt : msg[m].parent = 0 \/ msg[m].parent \in q.prompt
    BY <2>1, AskFields DEF Informed
  <2>3. Upwards
    BY ParentsKept DEF ChatsInv
  <2>4. \A i \in DOMAIN Thread[q.msg] : Thread[q.msg][i] \in q.prompt
    BY <2>2, <2>3, ThreadStays
  <2>5. QED
    BY <2>1, <2>4
<1>2. QED
  BY <1>1, ChatsAlways, PTL

\* Messages that read alike hang under messages that do, up to the root: so their threads
\* read alike.  The least message with a counterexample would hang under a lesser one.
LEMMA AlikeReads ==
    ASSUME MessagesInv
    PROVE  \A m, n \in Kept : Alike(m, n) => ReadsAs(m) = ReadsAs(n)
<1> DEFINE Bad == {m \in Kept : \E n \in Kept : Alike(m, n) /\ ReadsAs(m) # ReadsAs(n)}
<1>1. Upwards /\ AlikeAbove /\ MsgIds = 1..MaxMessages /\ MaxMessages \in Nat /\ Kept \subseteq MsgIds
  BY ParentsKept, MessageFields DEF MessagesInv
<1>2. \A m \in MsgIds : /\ Thread[m] \in Seq(MsgIds) /\ Len(Thread[m]) \in Nat
                        /\ Thread[m] = IF msg[m].parent = 0 THEN <<m>> ELSE Append(Thread[msg[m].parent], m)
  BY <1>1, ThreadIs, ThreadFacts DEF IsThread
<1>3. ASSUME NEW m \in Kept, NEW n \in Kept, Alike(m, n), msg[m].parent = 0, msg[n].parent = 0
      PROVE  ReadsAs(m) = ReadsAs(n)
  <2>1. Thread[m] = <<m>> /\ Thread[n] = <<n>>
    BY <1>1, <1>2, <1>3
  <2>2. QED
    BY <1>3, <2>1 DEF ReadsAs, Alike
<1>4. ASSUME NEW m \in Kept, NEW n \in Kept, Alike(m, n), msg[m].parent \in Kept, msg[n].parent \in Kept,
             ReadsAs(msg[m].parent) = ReadsAs(msg[n].parent)
      PROVE  ReadsAs(m) = ReadsAs(n)
  <2>1. PICK t \in Seq(MsgIds), u \in Seq(MsgIds) : t = Thread[msg[m].parent] /\ u = Thread[msg[n].parent]
    BY <1>1, <1>2, <1>4
  <2>2. Thread[m] = Append(t, m) /\ Thread[n] = Append(u, n)
    <3>1. m \in MsgIds /\ n \in MsgIds /\ msg[m].parent # 0 /\ msg[n].parent # 0
      BY <1>1, <1>4
    <3>2. QED
      BY <1>2, <2>1, <3>1
  <2>3. /\ DOMAIN t = DOMAIN u
        /\ \A i \in DOMAIN t : msg[t[i]].role = msg[u[i]].role /\ msg[t[i]].text = msg[u[i]].text
    <3> DEFINE R(s) == [i \in DOMAIN s |-> [role |-> msg[s[i]].role, text |-> msg[s[i]].text]]
    <3>1. R(t) = R(u)
      BY <1>4, <2>1 DEF ReadsAs
    <3>2. DOMAIN R(t) = DOMAIN t /\ DOMAIN R(u) = DOMAIN u
      OBVIOUS
    <3>3. DOMAIN t = DOMAIN u
      BY <3>1, <3>2
    <3>4. ASSUME NEW i \in DOMAIN t PROVE msg[t[i]].role = msg[u[i]].role /\ msg[t[i]].text = msg[u[i]].text
      <4>1. R(t)[i] = R(u)[i] /\ R(t)[i].role = msg[t[i]].role /\ R(t)[i].text = msg[t[i]].text
        BY <3>1
      <4>2. R(u)[i].role = msg[u[i]].role /\ R(u)[i].text = msg[u[i]].text
        BY <3>3
      <4>3. QED
        BY <4>1, <4>2
    <3>5. QED
      BY <3>3, <3>4
  <2>4. PICK k \in Nat : Len(t) = k /\ Len(u) = k
    BY <2>3
  <2>5. /\ DOMAIN Append(t, m) = 1..(k + 1) /\ DOMAIN Append(u, n) = 1..(k + 1)
        /\ \A i \in 1..k : Append(t, m)[i] = t[i] /\ Append(u, n)[i] = u[i]
        /\ Append(t, m)[k + 1] = m /\ Append(u, n)[k + 1] = n
    BY <1>1, <2>4
  <2>6. \A i \in 1..(k + 1) : /\ msg[Append(t, m)[i]].role = msg[Append(u, n)[i]].role
                              /\ msg[Append(t, m)[i]].text = msg[Append(u, n)[i]].text
    <3> SUFFICES ASSUME NEW i \in 1..(k + 1)
                 PROVE  /\ msg[Append(t, m)[i]].role = msg[Append(u, n)[i]].role
                        /\ msg[Append(t, m)[i]].text = msg[Append(u, n)[i]].text
      OBVIOUS
    <3>1. CASE i = k + 1
      BY <1>4, <2>5, <3>1 DEF Alike
    <3>2. CASE i # k + 1
      <4>1. i \in 1..k /\ i \in DOMAIN t
        BY <2>4, <3>2
      <4>2. QED
        BY <2>3, <2>5, <4>1
    <3>3. QED
      BY <3>1, <3>2
  <2>7. QED
    BY <2>2, <2>5, <2>6 DEF ReadsAs
<1>5. Bad = {}
  <2> SUFFICES ASSUME Bad # {} PROVE FALSE
    OBVIOUS
  <2> Bad \in SUBSET Nat
    <3>1. Kept \subseteq Nat
      BY <1>1
    <3>2. Bad \subseteq Kept
      OBVIOUS
    <3>3. QED
      BY <3>1, <3>2
  <2> HIDE DEF Bad
  <2>1. PICK m \in Bad : \A k \in Bad : m <= k
    BY LeastIn
  <2> USE DEF Bad
  <2>2. PICK n \in Kept : Alike(m, n) /\ ReadsAs(m) # ReadsAs(n)
    OBVIOUS
  <2>3. \/ msg[m].parent = 0 /\ msg[n].parent = 0
        \/ msg[m].parent # 0 /\ msg[n].parent # 0 /\ Alike(msg[m].parent, msg[n].parent)
    BY <1>1, <2>2 DEF AlikeAbove
  <2>4. CASE msg[m].parent = 0 /\ msg[n].parent = 0
    BY <1>3, <2>2, <2>4
  <2>5. CASE msg[m].parent # 0 /\ msg[n].parent # 0 /\ Alike(msg[m].parent, msg[n].parent)
    <3>1. msg[m].parent \in Kept /\ msg[n].parent \in Kept /\ msg[m].parent < m
      BY <2>5, ParentsKept
    <3>2. msg[m].parent \notin Bad
      <4>1. msg[m].parent \in Nat /\ m \in Nat
        BY <1>1, <3>1
      <4>2. QED
        BY <2>1, <3>1, <4>1
    <3>3. ReadsAs(msg[m].parent) = ReadsAs(msg[n].parent)
      BY <2>5, <3>1, <3>2
    <3>4. QED
      BY <1>4, <2>2, <3>1, <3>3
  <2>6. QED
    BY <2>3, <2>4, <2>5
<1>6. QED
  BY <1>5

\* The messages of a chat are threads that start with a question, an answer under the
\* question it answers; and a branch, or a branch of a branch, reads like the original.
THEOREM ReadingIsWell == Spec => []ReadsWell
<1>1. ChatsInv => ReadsWell
  <2> SUFFICES ASSUME ChatsInv PROVE ReadsWell
    OBVIOUS
  <2>1. MessagesInv /\ Threads /\ Originals
    BY DEF ChatsInv, MessagesInv
  <2>2. ASSUME NEW m \in Kept, msg[m].role = "user", msg[m].text \in Kept
        PROVE  ReadsAs(m) = ReadsAs(msg[m].text)
    <3>1. Alike(m, msg[m].text)
      BY <2>1, <2>2 DEF Originals, Alike
    <3>2. QED
      BY <2>1, <2>2, <3>1, AlikeReads
  <2>3. BranchesRead
    BY <2>1, <2>2 DEF BranchesRead
  <2>4. QED
    BY <2>1, <2>3 DEF ReadsWell
<1>2. QED
  BY <1>1, ChatsAlways, PTL

-----------------------------------------------------------------------------
(* The mind map: levels, branches and paths *)

Most == Cardinality(Ids)

LEMMA MapBounds ==
    /\ IsFiniteSet(Ids) /\ Most \in Nat /\ Rounds = 0..Most /\ Root \in Ids /\ "top" \notin Ids
    /\ None \notin Ids /\ None \notin Node /\ None \notin Graph /\ Gone \notin Graph
    /\ MaxDepth \in Nat
    /\ \A g \in Outlines : g \in Graph /\ Validate(g)
<1>1. IsFiniteSet(Ids) /\ Root \in Ids /\ "top" \notin Ids /\ MaxDepth \in Nat
  BY MindMapAssumption
<1>2. None \notin Ids /\ None \notin Node /\ None \notin Graph /\ Gone \notin Graph
  BY MindMapAssumption
<1>3. \A g \in Outlines : g \in Graph /\ Validate(g)
  BY MindMapAssumption
<1>4. Most \in Nat /\ Rounds = 0..Most
  BY <1>1, FS_CardinalityType DEF Most, Rounds
<1>5. QED
  BY <1>1, <1>2, <1>3, <1>4

LEMMA GraphFields ==
    ASSUME NEW g \in Graph
    PROVE  /\ In(g) \subseteq Ids /\ \A i \in Ids : i \in In(g) <=> g[i] # None
           /\ \A i \in In(g) : g[i] \in Node /\ g[i].up \in Ids \cup {"top"}
           /\ \A S : Children(g, S) \subseteq In(g)
BY DEF Graph, In, Node, Children

\* Sets of ids that are built in rounds, each from the one before.
LEMMA RoundsExist ==
    ASSUME NEW b \in SUBSET Ids, NEW step \in [SUBSET Ids -> SUBSET Ids]
    PROVE  \E h : /\ h \in [Rounds -> SUBSET Ids]
                  /\ h = [n \in Rounds |-> IF n = 0 THEN b ELSE step[h[n - 1]]]
<1> DEFINE X    == SUBSET Ids
           each == [n \in 1..Most |-> step]
           from == [n \in 1..Most |-> n - 1]
<1>1. Most \in Nat /\ Rounds = 0..Most
  BY MapBounds
<1>2. each \in [1..Most -> [X -> X]]
  OBVIOUS
<1>3. from \in [1..Most -> 0..Most] /\ \A n \in 1..Most : from[n] < n /\ from[n] = n - 1
  BY <1>1
<1>4. \A n \in 1..Most : each[n] = step
  OBVIOUS
<1> HIDE DEF each, from
<1>5. HasSteps(Most, X, from, b, each)
  <2> HIDE DEF X
  <2>1. b \in X
    BY DEF X
  <2>2. QED
    BY <1>1, <1>2, <1>3, <2>1, StepsExist
<1>6. PICK h \in [0..Most -> X] : h[0] = b /\ \A n \in 1..Most : h[n] = each[n][h[from[n]]]
  <2> HIDE DEF X
  <2>1. QED
    BY <1>5 DEF HasSteps
<1>7. \A n \in Rounds : h[n] = IF n = 0 THEN b ELSE step[h[n - 1]]
  <2> SUFFICES ASSUME NEW n \in 0..Most, n # 0 PROVE h[n] = step[h[n - 1]]
    BY <1>1, <1>6
  <2>1. n \in 1..Most
    BY <1>1
  <2>2. QED
    BY <1>3, <1>4, <1>6, <2>1
<1>8. h = [n \in Rounds |-> IF n = 0 THEN b ELSE step[h[n - 1]]]
  BY <1>1, <1>7
<1>9. QED
  BY <1>1, <1>8

LEMMA LevelIs ==
    ASSUME NEW g \in Graph
    PROVE  /\ Level(g)[0] = In(g) \cap {Root}
           /\ \A n \in Rounds \ {0} : Level(g)[n] = Children(g, Level(g)[n - 1])
           /\ \A n \in Rounds : Level(g)[n] \subseteq In(g)
<1> DEFINE step == [S \in SUBSET Ids |-> Children(g, S)]
           b    == In(g) \cap {Root}
<1>1. step \in [SUBSET Ids -> SUBSET Ids] /\ b \in SUBSET Ids
  BY GraphFields
<1>2. PICK h \in [Rounds -> SUBSET Ids] : h = [n \in Rounds |-> IF n = 0 THEN b ELSE step[h[n - 1]]]
  <2> HIDE DEF step, b
  <2>1. QED
    BY <1>1, RoundsExist
<1>3. h = [n \in Rounds |-> IF n = 0 THEN In(g) \cap {Root} ELSE Children(g, h[n - 1])]
  <2>1. ASSUME NEW n \in Rounds, n # 0 PROVE step[h[n - 1]] = Children(g, h[n - 1])
    <3>1. n - 1 \in Rounds
      BY <2>1, MapBounds
    <3>2. QED
      BY <3>1
  <2> HIDE DEF step
  <2>2. \A n \in Rounds : h[n] = IF n = 0 THEN In(g) \cap {Root} ELSE Children(g, h[n - 1])
    <3>1. \A n \in Rounds : h[n] = IF n = 0 THEN b ELSE step[h[n - 1]]
      BY <1>2, Zenon
    <3>2. QED
      BY <2>1, <3>1
  <2>3. QED
    BY <2>2
<1>4. Level(g) = [n \in Rounds |-> IF n = 0 THEN In(g) \cap {Root} ELSE Children(g, Level(g)[n - 1])]
  BY <1>3 DEF Level
<1>5. \A n \in Rounds : Level(g)[n] = IF n = 0 THEN In(g) \cap {Root} ELSE Children(g, Level(g)[n - 1])
  BY <1>4, Zenon
<1>6. 0 \in Rounds
  BY MapBounds
<1>7. QED
  BY <1>5, <1>6, GraphFields

\* The rounds in which mark collects a branch.
MarkedIn(g, i, f) ==
    /\ f \in [Rounds -> SUBSET Ids] /\ f[0] = {i}
    /\ \A n \in Rounds \ {0} : f[n] = f[n - 1] \cup Children(g, f[n - 1])

LEMMA SubtreeIs ==
    ASSUME NEW g \in Graph, NEW i \in Ids
    PROVE  \E f : MarkedIn(g, i, f) /\ Subtree(g, i) = f[Most]
<1> DEFINE step == [S \in SUBSET Ids |-> S \cup Children(g, S)]
           F(f) == [n \in Rounds |-> IF n = 0 THEN {i} ELSE f[n - 1] \cup Children(g, f[n - 1])]
           M    == CHOOSE f : f = F(f)
<1>1. step \in [SUBSET Ids -> SUBSET Ids] /\ {i} \in SUBSET Ids
  BY GraphFields
<1>2. PICK h \in [Rounds -> SUBSET Ids] : h = [n \in Rounds |-> IF n = 0 THEN {i} ELSE step[h[n - 1]]]
  <2> HIDE DEF step
  <2>1. QED
    BY <1>1, RoundsExist
<1>3. h = F(h)
  <2>1. ASSUME NEW n \in Rounds, n # 0 PROVE step[h[n - 1]] = h[n - 1] \cup Children(g, h[n - 1])
    <3>1. n - 1 \in Rounds
      BY <2>1, MapBounds
    <3>2. QED
      BY <3>1
  <2> HIDE DEF step
  <2>2. \A n \in Rounds : h[n] = IF n = 0 THEN {i} ELSE h[n - 1] \cup Children(g, h[n - 1])
    <3>1. \A n \in Rounds : h[n] = IF n = 0 THEN {i} ELSE step[h[n - 1]]
      BY <1>2, Zenon
    <3>2. QED
      BY <2>1, <3>1
  <2>3. QED
    BY <2>2
<1>4. M = F(M)
  <2> HIDE DEF F
  <2>1. QED
    BY <1>3
<1>5. Subtree(g, i) = M[Most]
  BY DEF Subtree, Most
<1> HIDE DEF M
<1>6. /\ \A n \in Rounds : M[n] = IF n = 0 THEN {i} ELSE M[n - 1] \cup Children(g, M[n - 1])
      /\ DOMAIN M = Rounds /\ M = [n \in Rounds |-> M[n]]
  BY <1>4, Zenon
<1>7. Most \in Nat /\ Rounds = 0..Most /\ 0 \in Rounds
  BY MapBounds
<1>8. M[0] = {i} /\ \A n \in Rounds \ {0} : M[n] = M[n - 1] \cup Children(g, M[n - 1])
  BY <1>6, <1>7
<1> DEFINE Bad == {n \in Rounds : M[n] \notin SUBSET Ids}
<1>9. Bad = {}
  <2> SUFFICES ASSUME Bad # {} PROVE FALSE
    OBVIOUS
  <2> Bad \in SUBSET Nat
    BY <1>7
  <2> HIDE DEF Bad
  <2>1. PICK n \in Bad : \A m \in Bad : n <= m
    BY LeastIn
  <2> USE DEF Bad
  <2>2. n # 0
    BY <1>8
  <2>3. n - 1 \in Rounds /\ n - 1 < n
    BY <1>7, <2>2
  <2>4. n - 1 \notin Bad
    BY <1>7, <2>1, <2>3
  <2>5. M[n - 1] \in SUBSET Ids
    BY <2>3, <2>4
  <2>6. QED
    BY <1>8, <2>2, <2>5, GraphFields
<1>10. M \in [Rounds -> SUBSET Ids]
  BY <1>6, <1>9
<1>11. QED
  BY <1>5, <1>8, <1>10 DEF MarkedIn

-----------------------------------------------------------------------------
(* The mind map: trees *)

\* The n steps that lead from a node to the root.
Leads(g, p, i, n) ==
    /\ p \in [0..n -> In(g)] /\ p[0] = i /\ p[n] = Root
    /\ \A k \in 1..n : p[k] = g[p[k - 1]].up

Path(g, i, n) == \E p : Leads(g, p, i, n)

LEMMA TreeIs ==
    ASSUME NEW g, NEW d \in Nat
    PROVE  IsTree(g, d) <=> /\ In(g) # {} /\ g[Root].up = "top"
                            /\ \A i \in In(g) : \E n \in 0..d : Path(g, i, n)
<1>1. ASSUME IsTree(g, d)
      PROVE  /\ In(g) # {} /\ g[Root].up = "top"
             /\ \A i \in In(g) : \E n \in 0..d : Path(g, i, n)
  <2>1. ASSUME NEW i \in In(g)
        PROVE  g[Root].up = "top" /\ \E n \in 0..d : Path(g, i, n)
    <3>1. PICK n \in 0..d, path \in [0..d -> In(g)] :
              /\ path[0] = i /\ path[n] = Root /\ g[Root].up = "top"
              /\ \A k \in 1..n : path[k] = g[path[k - 1]].up
      BY <1>1 DEF IsTree
    <3> DEFINE p == [k \in 0..n |-> path[k]]
    <3>2. \A k \in 0..n : k \in 0..d
      OBVIOUS
    <3>3. p \in [0..n -> In(g)] /\ p[0] = i /\ p[n] = Root
      BY <3>1, <3>2
    <3>4. \A k \in 1..n : p[k] = path[k] /\ p[k - 1] = path[k - 1]
      OBVIOUS
    <3> HIDE DEF p
    <3>5. Leads(g, p, i, n)
      BY <3>1, <3>3, <3>4 DEF Leads
    <3>6. QED
      BY <3>1, <3>5 DEF Path
  <2>2. QED
    BY <1>1, <2>1 DEF IsTree
<1>2. ASSUME In(g) # {}, g[Root].up = "top", NEW i \in In(g), NEW n \in 0..d, Path(g, i, n)
      PROVE  \E path \in [0..d -> In(g)] :
                /\ path[0] = i /\ path[n] = Root /\ g[Root].up = "top"
                /\ \A k \in 1..n : path[k] = g[path[k - 1]].up
  <2>1. PICK p : Leads(g, p, i, n)
    BY <1>2 DEF Path
  <2>2. /\ p \in [0..n -> In(g)] /\ p[0] = i /\ p[n] = Root
        /\ \A k \in 1..n : p[k] = g[p[k - 1]].up
    BY <2>1 DEF Leads
  <2> DEFINE path == [k \in 0..d |-> IF k <= n THEN p[k] ELSE Root]
  <2>3. n \in Nat /\ n \in 0..n /\ Root \in In(g)
    BY <2>2
  <2>4. \A k \in 0..d : (IF k <= n THEN p[k] ELSE Root) \in In(g)
    BY <2>2, <2>3
  <2>5. path \in [0..d -> In(g)]
    BY <2>4
  <2>6. \A k \in 0..n : path[k] = p[k]
    BY <2>3
  <2> HIDE DEF path
  <2>7. path[0] = i /\ path[n] = Root /\ \A k \in 1..n : path[k] = g[path[k - 1]].up
    <3>1. \A k \in 1..n : k \in 0..n /\ k - 1 \in 0..n
      BY <2>3
    <3>2. 0 \in 0..n
      BY <2>3
    <3>3. QED
      BY <2>2, <2>3, <2>6, <3>1, <3>2
  <2>8. QED
    BY <1>2, <2>5, <2>7
<1>3. ASSUME In(g) # {}, g[Root].up = "top", \A i \in In(g) : \E n \in 0..d : Path(g, i, n)
      PROVE  IsTree(g, d)
  <2>1. ASSUME NEW i \in In(g)
        PROVE  \E n \in 0..d, path \in [0..d -> In(g)] :
                  /\ path[0] = i /\ path[n] = Root /\ g[Root].up = "top"
                  /\ \A k \in 1..n : path[k] = g[path[k - 1]].up
    <3>1. PICK n \in 0..d : Path(g, i, n)
      BY <1>3
    <3>2. QED
      BY <1>2, <1>3, <3>1
  <2>2. QED
    BY <1>3, <2>1 DEF IsTree
<1>4. QED
  BY <1>1, <1>3

\* A path goes on above a node's parent.
LEMMA PathAbove ==
    ASSUME NEW g, NEW i \in In(g), NEW n \in Nat, g[i].up \in In(g), Path(g, g[i].up, n)
    PROVE  Path(g, i, n + 1)
<1>1. PICK p : Leads(g, p, g[i].up, n)
  BY DEF Path
<1>2. p \in [0..n -> In(g)] /\ p[0] = g[i].up /\ p[n] = Root /\ \A k \in 1..n : p[k] = g[p[k - 1]].up
  BY <1>1 DEF Leads
<1> DEFINE q == [k \in 0..(n + 1) |-> IF k = 0 THEN i ELSE p[k - 1]]
<1>3. \A k \in 0..(n + 1) : k # 0 => k - 1 \in 0..n
  OBVIOUS
<1>4. q \in [0..(n + 1) -> In(g)]
  BY <1>2, <1>3
<1>5. q[0] = i /\ \A k \in 1..(n + 1) : q[k] = p[k - 1]
  OBVIOUS
<1> HIDE DEF q
<1>6. q[n + 1] = Root
  <2>1. n + 1 \in 1..(n + 1) /\ (n + 1) - 1 = n
    OBVIOUS
  <2>2. QED
    BY <1>2, <1>5, <2>1
<1>7. ASSUME NEW k \in 1..(n + 1) PROVE q[k] = g[q[k - 1]].up
  <2>1. CASE k = 1
    BY <1>2, <1>5, <2>1
  <2>2. CASE k # 1
    <3>1. k - 1 \in 1..(n + 1) /\ k - 1 \in 1..n
      BY <2>2
    <3>2. q[k] = p[k - 1] /\ q[k - 1] = p[(k - 1) - 1]
      BY <1>5, <3>1
    <3>3. QED
      BY <1>2, <3>1, <3>2
  <2>3. QED
    BY <2>1, <2>2
<1>8. Leads(g, q, i, n + 1)
  BY <1>4, <1>5, <1>6, <1>7 DEF Leads
<1>9. QED
  BY <1>8 DEF Path

\* The rest of a path is one.
LEMMA PathFrom ==
    ASSUME NEW g, NEW i, NEW n \in Nat, NEW p, Leads(g, p, i, n), NEW j \in 0..n
    PROVE  Leads(g, [k \in 0..(n - j) |-> p[k + j]], p[j], n - j)
<1> DEFINE q == [k \in 0..(n - j) |-> p[k + j]]
<1>1. p \in [0..n -> In(g)] /\ p[n] = Root /\ \A k \in 1..n : p[k] = g[p[k - 1]].up
  BY DEF Leads
<1>2. n - j \in Nat /\ (n - j) + j = n /\ 0 + j = j /\ \A k \in 0..(n - j) : k + j \in 0..n
  OBVIOUS
<1>3. q \in [0..(n - j) -> In(g)]
  BY <1>1, <1>2
<1>4. q[0] = p[j] /\ q[n - j] = Root
  BY <1>1, <1>2
<1>5. ASSUME NEW k \in 1..(n - j) PROVE q[k] = g[q[k - 1]].up
  <2>1. k + j \in 1..n /\ (k - 1) + j = (k + j) - 1 /\ k \in 0..(n - j) /\ k - 1 \in 0..(n - j)
    BY <1>2
  <2>2. QED
    BY <1>1, <2>1
<1>6. QED
  BY <1>3, <1>4, <1>5 DEF Leads

\* A path that is as short as any from its node visits none twice: so a tree needs at
\* most one step less than it has nodes.
LEMMA PathsShort ==
    ASSUME NEW g \in Graph, NEW i \in In(g), NEW n \in Nat, Path(g, i, n)
    PROVE  \E m \in Nat : m < Cardinality(In(g)) /\ Path(g, i, m)
<1> DEFINE Lengths == {m \in Nat : Path(g, i, m)}
<1>1. PICK m \in Lengths : \A k \in Lengths : m <= k
  <2>1. Lengths # {} /\ Lengths \in SUBSET Nat
    OBVIOUS
  <2> HIDE DEF Lengths
  <2>2. QED
    BY <2>1, LeastIn
<1>2. m \in Nat /\ \A k \in Nat : Path(g, i, k) => m <= k
  BY <1>1
<1>3. PICK p : Leads(g, p, i, m)
  BY <1>1 DEF Path
<1>4. p \in [0..m -> In(g)] /\ p[0] = i /\ p[m] = Root /\ \A k \in 1..m : p[k] = g[p[k - 1]].up
  BY <1>3 DEF Leads
<1>5. ASSUME NEW j \in 0..m, NEW k \in 0..m, j < k, p[j] = p[k] PROVE FALSE
  <2> DEFINE l == m - (k - j)
             q == [x \in 0..l |-> IF x <= j THEN p[x] ELSE p[x + (k - j)]]
  <2>1. /\ l \in Nat /\ l < m /\ j <= l /\ k - j \in Nat \ {0}
        /\ \A x \in 0..l : x \in 0..m /\ x + (k - j) \in 0..m
    BY <1>2, <1>5
  <2>2. q \in [0..l -> In(g)]
    BY <1>4, <2>1
  <2>3. /\ \A x \in 0..l : x <= j => q[x] = p[x]
        /\ \A x \in 0..l : x >= j => q[x] = p[x + (k - j)]
    <3>1. j + (k - j) = k /\ \A x \in 0..l : x >= j /\ x <= j => x = j
      BY <1>2
    <3>2. QED
      BY <1>5, <3>1
  <2>4. q[0] = i /\ q[l] = Root
    <3>1. l + (k - j) = m /\ l \in 0..l /\ 0 \in 0..l /\ 0 <= j
      BY <1>2, <2>1
    <3> HIDE DEF l, q
    <3>2. QED
      BY <1>4, <2>1, <2>3, <3>1
  <2> HIDE DEF q
  <2>5. ASSUME NEW x \in 1..l PROVE q[x] = g[q[x - 1]].up
    <3>1. x \in 0..l /\ x - 1 \in 0..l
      BY <2>1
    <3>2. CASE x <= j
      <4>1. x - 1 <= j /\ x \in 1..m
        BY <1>2, <2>1, <3>2
      <4>2. QED
        BY <1>4, <2>3, <3>1, <3>2, <4>1
    <3>3. CASE ~(x <= j)
      <4>1. x >= j /\ x - 1 >= j /\ x + (k - j) \in 1..m /\ (x - 1) + (k - j) = (x + (k - j)) - 1
        BY <1>2, <2>1, <3>3
      <4>2. q[x] = p[x + (k - j)] /\ q[x - 1] = p[(x + (k - j)) - 1]
        BY <2>3, <3>1, <4>1
      <4>3. QED
        BY <1>4, <4>1, <4>2
    <3>4. QED
      BY <3>2, <3>3
  <2>6. Path(g, i, l)
    BY <2>2, <2>4, <2>5 DEF Path, Leads
  <2> HIDE DEF l
  <2>7. QED
    BY <1>2, <2>1, <2>6
<1>6. Cardinality(0..m) <= Cardinality(In(g)) /\ Cardinality(0..m) = m + 1 /\ Cardinality(In(g)) \in Nat
  <2>1. IsFiniteSet(In(g))
    BY MapBounds, GraphFields, FS_Subset
  <2>2. p \in Injection(0..m, In(g))
    <3>1. \A j, k \in 0..m : p[j] = p[k] => j = k
      <4> SUFFICES ASSUME NEW j \in 0..m, NEW k \in 0..m, p[j] = p[k], j # k PROVE FALSE
        OBVIOUS
      <4>1. j < k \/ k < j
        BY <1>2
      <4>2. QED
        BY <1>5, <4>1
    <3>2. QED
      BY <1>4, <3>1 DEF Injection, IsInjective
  <2>3. Cardinality(0..m) = m + 1
    BY <1>2, FS_Interval
  <2>4. QED
    BY <2>1, <2>2, <2>3, FS_Injection, FS_CardinalityType
<1>7. m < Cardinality(In(g))
  BY <1>2, <1>6
<1>8. QED
  BY <1>1, <1>7

\* What Validate accepts is a tree.
LEMMA ValidTree ==
    ASSUME NEW g \in Graph, Validate(g)
    PROVE  /\ IsTree(g, MaxDepth) /\ IsTree(g, Most) /\ Cardinality(In(g)) <= MaxNodes
<1>1. /\ In(g) # {} /\ Cardinality(In(g)) <= MaxNodes
      /\ {i \in In(g) : g[i].up = "top"} = {Root}
      /\ \A n \in Rounds : n > MaxDepth => Level(g)[n] = {}
      /\ UNION {Level(g)[n] : n \in Rounds} = In(g)
  BY DEF Validate
<1>2. Root \in In(g) /\ g[Root].up = "top"
  BY <1>1
<1>3. Most \in Nat /\ MaxDepth \in Nat /\ Rounds = 0..Most
  BY MapBounds
<1> DEFINE Bad == {n \in Rounds : \E i \in Level(g)[n] : ~Path(g, i, n)}
<1>4. ASSUME NEW i \in Level(g)[0] PROVE Path(g, i, 0)
  <2>1. i = Root
    BY LevelIs
  <2> DEFINE p == [k \in 0..0 |-> Root]
  <2>2. p \in [0..0 -> In(g)] /\ p[0] = Root /\ 1..0 = {}
    BY <1>2
  <2> HIDE DEF p
  <2>3. QED
    BY <2>1, <2>2 DEF Path, Leads
<1>5. Bad = {}
  <2> SUFFICES ASSUME Bad # {} PROVE FALSE
    OBVIOUS
  <2> Bad \in SUBSET Nat
    BY <1>3
  <2> HIDE DEF Bad
  <2>1. PICK n \in Bad : \A m \in Bad : n <= m
    BY LeastIn
  <2> USE DEF Bad
  <2>2. PICK i \in Level(g)[n] : ~Path(g, i, n)
    OBVIOUS
  <2>3. n # 0
    BY <1>4, <2>2
  <2>4. n - 1 \in Rounds /\ n - 1 < n /\ n - 1 \in Nat /\ (n - 1) + 1 = n
    BY <1>3, <2>3
  <2>5. n - 1 \notin Bad
    BY <1>3, <2>1, <2>4
  <2>6. i \in Children(g, Level(g)[n - 1])
    BY <2>2, <2>3, LevelIs
  <2>7. i \in In(g) /\ g[i].up \in Level(g)[n - 1]
    BY <2>6 DEF Children
  <2>8. Path(g, g[i].up, n - 1) /\ g[i].up \in In(g)
    BY <2>4, <2>5, <2>7, LevelIs
  <2>9. Path(g, i, (n - 1) + 1)
    BY <2>4, <2>7, <2>8, PathAbove
  <2>10. QED
    BY <2>2, <2>4, <2>9
<1>6. ASSUME NEW i \in In(g) PROVE \E n \in Nat : n <= MaxDepth /\ n <= Most /\ Path(g, i, n)
  <2>1. PICK n \in Rounds : i \in Level(g)[n]
    BY <1>1
  <2>2. ~(n > MaxDepth)
    BY <1>1, <2>1
  <2>3. Path(g, i, n)
    BY <1>5, <2>1
  <2>4. n \in Nat /\ n <= Most /\ n <= MaxDepth
    BY <1>3, <2>2
  <2>5. QED
    BY <2>3, <2>4
<1>7. ASSUME NEW d \in Nat, \A i \in In(g) : \E n \in Nat : n <= d /\ Path(g, i, n)
      PROVE  IsTree(g, d)
  <2>1. \A i \in In(g) : \E n \in 0..d : Path(g, i, n)
    BY <1>7
  <2>2. QED
    BY <1>1, <1>2, <2>1, TreeIs
<1>8. IsTree(g, MaxDepth) /\ IsTree(g, Most)
  BY <1>3, <1>6, <1>7
<1>9. QED
  BY <1>1, <1>8

\* What lies below a node: the nodes it is on the path of, down from it.
LEMMA BranchAbove ==
    ASSUME NEW g \in Graph, g[Root].up = "top", NEW i \in Ids, NEW f, MarkedIn(g, i, f)
    PROVE  \A r \in Rounds : \A y \in f[r] : \A n \in Nat : \A p :
               Leads(g, p, y, n) => \E m \in 0..n : p[m] = i
<1> DEFINE Passes(p, n) == \E m \in 0..n : p[m] = i
           Bad == {r \in Rounds : \E y \in f[r] : \E n \in Nat : \E p : Leads(g, p, y, n) /\ ~Passes(p, n)}
<1>1. /\ f \in [Rounds -> SUBSET Ids] /\ f[0] = {i}
      /\ \A r \in Rounds \ {0} : f[r] = f[r - 1] \cup Children(g, f[r - 1])
  BY DEF MarkedIn
<1>2. Most \in Nat /\ Rounds = 0..Most /\ "top" \notin Ids
  BY MapBounds
<1>3. Bad = {}
  <2> SUFFICES ASSUME Bad # {} PROVE FALSE
    OBVIOUS
  <2> Bad \in SUBSET Nat
    BY <1>2
  <2> HIDE DEF Bad
  <2>1. PICK r \in Bad : \A m \in Bad : r <= m
    BY LeastIn
  <2> USE DEF Bad
  <2>2. PICK y \in f[r], n \in Nat : \E p : Leads(g, p, y, n) /\ ~Passes(p, n)
    OBVIOUS
  <2>3. PICK p : Leads(g, p, y, n) /\ ~Passes(p, n)
    BY <2>2
  <2>4. p \in [0..n -> In(g)] /\ p[0] = y /\ p[n] = Root /\ \A k \in 1..n : p[k] = g[p[k - 1]].up
    BY <2>2, <2>3 DEF Leads
  <2>5. r # 0
    <3>1. 0 \in 0..n
      OBVIOUS
    <3>2. y # i
      BY <2>2, <2>3, <2>4, <3>1
    <3>3. QED
      BY <1>1, <3>2
  <2>6. r \in Rounds \ {0} /\ r - 1 \in Rounds /\ r - 1 < r
    BY <1>2, <2>5
  <2>7. r - 1 \notin Bad
    BY <1>2, <2>1, <2>6
  <2>8. y \notin f[r - 1]
    BY <2>2, <2>3, <2>6, <2>7
  <2>9. g[y].up \in f[r - 1] /\ g[y].up \in Ids
    BY <1>1, <2>6, <2>8 DEF Children
  <2>10. n # 0
    BY <1>2, <2>4, <2>9
  <2>11. 1 \in 0..n /\ n - 1 \in Nat /\ 1 \in 1..n
    BY <2>10
  <2> DEFINE q == [k \in 0..(n - 1) |-> p[k + 1]]
  <2>12. Leads(g, q, p[1], n - 1)
    BY <2>2, <2>3, <2>11, PathFrom
  <2>13. p[1] = g[y].up
    BY <2>4, <2>11
  <2>14. Passes(q, n - 1)
    <3> HIDE DEF q
    <3>1. QED
      BY <2>6, <2>7, <2>9, <2>11, <2>12, <2>13
  <2>15. PICK m \in 0..(n - 1) : q[m] = i
    BY <2>14
  <2>16. m + 1 \in 0..n /\ p[m + 1] = i
    BY <2>11, <2>15
  <2>17. QED
    BY <2>2, <2>3, <2>16
<1>4. QED
  BY <1>3

LEMMA BranchBelow ==
    ASSUME NEW g \in Graph, NEW i \in Ids, NEW f, MarkedIn(g, i, f),
           NEW y, NEW n \in 0..Most, NEW p, Leads(g, p, y, n), NEW m \in 0..n, p[m] = i
    PROVE  y \in f[Most]
<1> DEFINE Early == {t \in 0..m : p[m - t] \notin f[t]}
           Late  == {t \in m..Most : y \notin f[t]}
<1>1. /\ f \in [Rounds -> SUBSET Ids] /\ f[0] = {i}
      /\ \A r \in Rounds \ {0} : f[r] = f[r - 1] \cup Children(g, f[r - 1])
  BY DEF MarkedIn
<1>2. Most \in Nat /\ Rounds = 0..Most /\ m \in Nat /\ n \in Nat /\ m <= n /\ m <= Most
  BY MapBounds
<1>3. p \in [0..n -> In(g)] /\ p[0] = y /\ \A k \in 1..n : p[k] = g[p[k - 1]].up
  BY DEF Leads
<1>4. Early = {}
  <2> SUFFICES ASSUME Early # {} PROVE FALSE
    OBVIOUS
  <2> Early \in SUBSET Nat
    BY <1>2
  <2> HIDE DEF Early
  <2>1. PICK t \in Early : \A k \in Early : t <= k
    BY LeastIn
  <2> USE DEF Early
  <2>2. t # 0
    BY <1>1, <1>2
  <2>3. t \in Rounds \ {0} /\ t - 1 \in 0..m /\ t - 1 < t /\ m - (t - 1) = (m - t) + 1
    BY <1>2, <2>2
  <2>4. t - 1 \notin Early
    BY <2>1, <2>3
  <2>5. p[(m - t) + 1] \in f[t - 1]
    BY <2>3, <2>4
  <2>6. m - t \in 0..n /\ (m - t) + 1 \in 1..n /\ ((m - t) + 1) - 1 = m - t
    BY <1>2, <2>2
  <2>7. p[m - t] \in In(g) /\ g[p[m - t]].up \in f[t - 1]
    BY <1>3, <2>5, <2>6
  <2>8. QED
    BY <1>1, <2>3, <2>7 DEF Children
<1>5. y \in f[m]
  BY <1>2, <1>3, <1>4
<1>6. Late = {}
  <2> SUFFICES ASSUME Late # {} PROVE FALSE
    OBVIOUS
  <2> Late \in SUBSET Nat
    BY <1>2
  <2> HIDE DEF Late
  <2>1. PICK t \in Late : \A k \in Late : t <= k
    BY LeastIn
  <2> USE DEF Late
  <2>2. t # m
    BY <1>5
  <2>3. t \in Rounds \ {0} /\ t - 1 \in m..Most /\ t - 1 < t
    BY <1>2, <2>2
  <2>4. t - 1 \notin Late
    BY <1>2, <2>1, <2>3
  <2>5. QED
    BY <1>1, <2>3, <2>4
<1>7. QED
  BY <1>2, <1>6

\* A path is one of every graph with its nodes under the same parents.
LEMMA PathKept ==
    ASSUME NEW g, NEW h, NEW i, NEW n \in Nat, NEW p, Leads(g, p, i, n),
           \A k \in 0..n : p[k] \in In(h) /\ h[p[k]].up = g[p[k]].up
    PROVE  Path(h, i, n)
<1>1. p \in [0..n -> In(g)] /\ p[0] = i /\ p[n] = Root /\ \A k \in 1..n : p[k] = g[p[k - 1]].up
  BY DEF Leads
<1>2. p \in [0..n -> In(h)]
  BY <1>1
<1>3. \A k \in 1..n : k - 1 \in 0..n
  OBVIOUS
<1>4. QED
  BY <1>1, <1>2, <1>3 DEF Leads, Path

-----------------------------------------------------------------------------
(* The mind map: what a change makes of a tree *)

LEMMA PutGraph ==
    ASSUME NEW g \in Graph, NEW i \in Ids, NEW u \in Ids \cup {"top"}, NEW s \in Says[i]
    PROVE  /\ Put(g, i, u, s) \in Graph /\ Put(g, i, u, s)[i].up = u
           /\ In(Put(g, i, u, s)) = In(g) \cup {i}
           /\ \A j \in Ids : j # i => Put(g, i, u, s)[j] = g[j]
<1> DEFINE new == [up |-> u, says |-> s]
           h   == Put(g, i, u, s)
<1>1. new \in Node /\ new # None /\ new.up = u
  BY MapBounds DEF Node
<1>2. g \in [Ids -> Node \cup {None}]
  BY DEF Graph
<1>3. h = [g EXCEPT ![i] = new]
  BY DEF Put
<1> HIDE DEF new, h
<1>4. h \in [Ids -> Node \cup {None}] /\ h[i] = new /\ \A j \in Ids : j # i => h[j] = g[j]
  BY <1>1, <1>2, <1>3
<1>5. In(h) = In(g) \cup {i}
  BY <1>1, <1>4 DEF In
<1>6. QED
  BY <1>1, <1>4, <1>5 DEF h, Graph

LEMMA WithoutGraph ==
    ASSUME NEW g \in Graph, NEW S
    PROVE  /\ Without(g, S) \in Graph /\ In(Without(g, S)) = In(g) \ S
           /\ \A j \in Ids \ S : Without(g, S)[j] = g[j]
           /\ \A j \in Ids : j \in S => Without(g, S)[j] = None
BY DEF Graph, Without, In

\* A node more, under one that is there.
LEMMA AddTree ==
    ASSUME NEW g \in Graph, IsTree(g, Most), NEW i \in Ids \ In(g), NEW c \in In(g), NEW s \in Says[i]
    PROVE  IsTree(Put(g, i, c, s), Most)
<1> DEFINE h == Put(g, i, c, s)
<1>1. /\ In(g) # {} /\ g[Root].up = "top" /\ Most \in Nat /\ Root \in Ids
      /\ \A j \in In(g) : \E n \in 0..Most : Path(g, j, n)
  BY MapBounds, TreeIs
<1>2. c \in Ids \cup {"top"} /\ In(g) \subseteq Ids
  BY GraphFields
<1>3. h \in Graph /\ h[i].up = c /\ In(h) = In(g) \cup {i} /\ \A j \in In(g) : h[j] = g[j]
  BY <1>2, PutGraph
<1> HIDE DEF h
<1>4. ASSUME NEW j \in In(g), NEW n \in Nat, Path(g, j, n) PROVE Path(h, j, n)
  <2>1. PICK p : Leads(g, p, j, n)
    BY <1>4 DEF Path
  <2>2. \A k \in 0..n : p[k] \in In(g)
    BY <2>1 DEF Leads
  <2>3. QED
    BY <1>3, <2>1, <2>2, PathKept
<1>5. PICK m \in Nat : m < Cardinality(In(g)) /\ Path(g, c, m)
  <2>1. PICK n \in 0..Most : Path(g, c, n)
    BY <1>1
  <2>2. n \in Nat
    OBVIOUS
  <2>3. QED
    BY <2>1, <2>2, PathsShort
<1>6. Path(h, i, m + 1)
  <2>1. Path(h, h[i].up, m) /\ h[i].up \in In(h) /\ i \in In(h)
    BY <1>3, <1>4, <1>5
  <2>2. QED
    BY <2>1, PathAbove
<1>7. Cardinality(In(g)) + 1 <= Most /\ Cardinality(In(g)) \in Nat
  <2>1. IsFiniteSet(Ids) /\ In(g) \in SUBSET Ids /\ In(g) \cup {i} \in SUBSET Ids
    BY <1>2, MapBounds
  <2>2. IsFiniteSet(In(g)) /\ Cardinality(In(g) \cup {i}) <= Cardinality(Ids)
    BY <2>1, FS_Subset
  <2>3. Cardinality(In(g) \cup {i}) = Cardinality(In(g)) + 1 /\ Cardinality(In(g)) \in Nat
    BY <2>2, FS_AddElement, FS_CardinalityType
  <2>4. QED
    BY <2>2, <2>3 DEF Most
<1>8. m + 1 \in 0..Most
  BY <1>1, <1>5, <1>7
<1>9. Root \in In(g)
  <2>1. PICK p : Leads(g, p, c, m)
    BY <1>5 DEF Path
  <2>2. QED
    BY <2>1 DEF Leads
<1>10. /\ In(h) # {} /\ h[Root].up = "top"
       /\ \A j \in In(h) : \E n \in 0..Most : Path(h, j, n)
  <2>1. \A j \in In(g) : \E n \in 0..Most : Path(h, j, n)
    BY <1>1, <1>4
  <2>2. QED
    BY <1>1, <1>3, <1>6, <1>8, <1>9, <2>1
<1>11. QED
  BY <1>1, <1>10, TreeIs DEF h

\* A node that says something else.
LEMMA RetellTree ==
    ASSUME NEW g \in Graph, IsTree(g, Most), NEW i \in In(g), NEW s \in Says[i]
    PROVE  Put(g, i, g[i].up, s) \in Graph /\ IsTree(Put(g, i, g[i].up, s), Most)
<1> DEFINE h == Put(g, i, g[i].up, s)
<1>1. /\ In(g) # {} /\ g[Root].up = "top" /\ Most \in Nat
      /\ \A j \in In(g) : \E n \in 0..Most : Path(g, j, n)
  BY MapBounds, TreeIs
<1>2. i \in Ids /\ g[i].up \in Ids \cup {"top"} /\ In(g) \subseteq Ids
  BY GraphFields
<1>3. h \in Graph /\ h[i].up = g[i].up /\ In(h) = In(g) /\ \A j \in Ids : j # i => h[j] = g[j]
  <2>1. PICK u \in Ids \cup {"top"} : u = g[i].up
    BY <1>2
  <2>2. h = Put(g, i, u, s)
    BY <2>1
  <2> HIDE DEF h
  <2>3. h \in Graph /\ h[i].up = u /\ In(h) = In(g) \cup {i} /\ \A j \in Ids : j # i => h[j] = g[j]
    BY <1>2, <2>2, PutGraph
  <2>4. In(g) \cup {i} = In(g)
    OBVIOUS
  <2>5. QED
    BY <2>1, <2>3, <2>4
<1> HIDE DEF h
<1>4. \A j \in In(g) : h[j].up = g[j].up
  BY <1>2, <1>3
<1>5. ASSUME NEW j \in In(g) PROVE \E n \in 0..Most : Path(h, j, n)
  <2>1. PICK n \in 0..Most : Path(g, j, n)
    BY <1>1
  <2>2. PICK p : Leads(g, p, j, n)
    BY <2>1 DEF Path
  <2>3. n \in Nat /\ \A k \in 0..n : p[k] \in In(g)
    BY <2>2 DEF Leads
  <2>4. Path(h, j, n)
    BY <1>3, <1>4, <2>2, <2>3, PathKept
  <2>5. QED
    BY <2>4
<1>6. h[Root].up = "top"
  <2>1. PICK n \in 0..Most : Path(g, i, n)
    BY <1>1
  <2>2. Root \in In(g)
    BY <2>1 DEF Path, Leads
  <2>3. QED
    BY <1>1, <1>4, <2>2
<1>7. IsTree(h, Most)
  BY <1>1, <1>3, <1>5, <1>6, TreeIs
<1>8. QED
  BY <1>3, <1>7 DEF h

\* A branch less: no path from a node outside it goes through it.
LEMMA RemoveTree ==
    ASSUME NEW g \in Graph, IsTree(g, Most), NEW i \in In(g) \ {Root}
    PROVE  IsTree(Without(g, Subtree(g, i)), Most)
<1> DEFINE h == Without(g, Subtree(g, i))
<1>1. /\ In(g) # {} /\ g[Root].up = "top" /\ Most \in Nat /\ Rounds = 0..Most
      /\ \A j \in In(g) : \E n \in 0..Most : Path(g, j, n)
  BY MapBounds, TreeIs
<1>2. i \in Ids /\ In(g) \subseteq Ids
  BY GraphFields
<1>3. PICK f : MarkedIn(g, i, f) /\ Subtree(g, i) = f[Most]
  BY <1>2, SubtreeIs
<1>4. h \in Graph /\ In(h) = In(g) \ f[Most] /\ \A j \in In(g) \ f[Most] : h[j] = g[j]
  BY <1>2, <1>3, WithoutGraph
<1> HIDE DEF h
<1>5. Most \in Rounds
  BY <1>1
<1>6. Root \in In(g) /\ Root \notin f[Most]
  <2>1. PICK n \in 0..Most : Path(g, i, n)
    BY <1>1
  <2>2. Root \in In(g)
    BY <2>1 DEF Path, Leads
  <2> DEFINE p == [k \in 0..0 |-> Root]
  <2>3. p \in [0..0 -> In(g)] /\ p[0] = Root /\ 1..0 = {}
    BY <2>2
  <2> HIDE DEF p
  <2>4. Leads(g, p, Root, 0)
    BY <2>3 DEF Leads
  <2>5. \A m \in 0..0 : p[m] # i
    BY <2>3
  <2>6. QED
    BY <1>1, <1>2, <1>3, <1>5, <2>2, <2>4, <2>5, BranchAbove
<1>7. ASSUME NEW j \in In(g) \ f[Most] PROVE \E n \in 0..Most : Path(h, j, n)
  <2>1. PICK n \in 0..Most : Path(g, j, n)
    BY <1>1
  <2>2. PICK p : Leads(g, p, j, n)
    BY <2>1 DEF Path
  <2>3. n \in Nat /\ \A k \in 0..n : p[k] \in In(g)
    BY <2>2 DEF Leads
  <2>4. ASSUME NEW k \in 0..n, p[k] \in f[Most] PROVE FALSE
    <3> DEFINE q == [x \in 0..(n - k) |-> p[x + k]]
    <3>1. Leads(g, q, p[k], n - k)
      BY <2>2, <2>3, PathFrom
    <3>2. n - k \in Nat
      BY <2>3
    <3>3. PICK m \in 0..(n - k) : q[m] = i
      <4> HIDE DEF q
      <4>1. QED
        BY <1>1, <1>2, <1>3, <1>5, <2>4, <3>1, <3>2, BranchAbove
    <3>4. m + k \in 0..n /\ p[m + k] = i
      BY <2>3, <3>3
    <3>5. j \in f[Most]
      BY <1>2, <1>3, <2>2, <3>4, BranchBelow
    <3>6. QED
      BY <3>5
  <2>5. Path(h, j, n)
    BY <1>4, <2>2, <2>3, <2>4, PathKept
  <2>6. QED
    BY <2>5
<1>8. IsTree(h, Most)
  BY <1>1, <1>4, <1>6, <1>7, TreeIs
<1>9. QED
  BY <1>8 DEF h

\* A branch is made of nodes that are there.
LEMMA BranchIn ==
    ASSUME NEW g \in Graph, NEW i \in In(g)
    PROVE  Subtree(g, i) \subseteq In(g)
<1>1. i \in Ids /\ Most \in Nat /\ Rounds = 0..Most
  BY GraphFields, MapBounds
<1>2. PICK f : MarkedIn(g, i, f) /\ Subtree(g, i) = f[Most]
  BY <1>1, SubtreeIs
<1> DEFINE Bad == {r \in Rounds : ~(f[r] \subseteq In(g))}
<1>3. /\ f[0] = {i}
      /\ \A r \in Rounds \ {0} : f[r] = f[r - 1] \cup Children(g, f[r - 1])
  BY <1>2 DEF MarkedIn
<1>4. Bad = {}
  <2> SUFFICES ASSUME Bad # {} PROVE FALSE
    OBVIOUS
  <2> Bad \in SUBSET Nat
    BY <1>1
  <2> HIDE DEF Bad
  <2>1. PICK r \in Bad : \A m \in Bad : r <= m
    BY LeastIn
  <2> USE DEF Bad
  <2>2. r # 0
    BY <1>3
  <2>3. r \in Rounds \ {0} /\ r - 1 \in Rounds /\ r - 1 < r
    BY <1>1, <2>2
  <2>4. r - 1 \notin Bad
    BY <1>1, <2>1, <2>3
  <2>5. QED
    BY <1>3, <2>3, <2>4, GraphFields
<1>5. Most \in Rounds
  BY <1>1
<1>6. QED
  BY <1>2, <1>4, <1>5

-----------------------------------------------------------------------------
(* The mind map: the inductive invariant *)

\* What is stored, and what a request has loaded or is about to save, is valid, and the
\* editor's copy is a tree; what it sends is a graph, which is looked at when it arrives.
MapInv ==
    /\ map \in Graph \cup {None, Gone} /\ (map \in Graph => Validate(map))
    /\ caller \in [Callers -> Caller]
    /\ \A c \in Callers : caller[c].pc # "idle" => caller[c].graph \in Graph /\ Validate(caller[c].graph)
    /\ editor \in Graph \cup {None} /\ (editor \in Graph => IsTree(editor, Most))
    /\ chosen \in Ids \cup {None}
    /\ sent \subseteq Graph

LEMMA IdleCaller == Idle \in Caller /\ Idle.pc = "idle"
BY DEF Idle, Caller

LEMMA MapInitInv == MapInit => MapInv
BY MapBounds, IdleCaller DEF MapInit, MapInv

\* What the tools may make of a graph is a graph.
LEMMA ToolsGraph ==
    ASSUME NEW g \in Graph, NEW h \in persistentMindMapTools(g)
    PROVE  h \in Graph
<1>1. In(g) \subseteq Ids
  BY GraphFields
<1>2. ASSUME h \in AddNode(g) PROVE h \in Graph
  <2>1. PICK i \in Ids \ In(g), u \in In(g) : \E s \in Says[i] : h = Put(g, i, u, s)
    BY <1>2 DEF AddNode
  <2>2. u \in Ids \cup {"top"}
    BY <1>1
  <2>3. QED
    BY <2>1, <2>2, PutGraph
<1>3. ASSUME h \in UpdateNode(g) PROVE h \in Graph
  <2>1. PICK i \in In(g), u \in Ids \cup {"top"} : \E s \in Says[i] : h = Put(g, i, u, s)
    BY <1>3 DEF UpdateNode
  <2>2. QED
    BY <1>1, <2>1, PutGraph
<1>4. ASSUME h \in RemoveNode(g) PROVE h \in Graph
  BY <1>4, WithoutGraph DEF RemoveNode
<1>5. QED
  BY <1>2, <1>3, <1>4 DEF persistentMindMapTools

\* What a request holds after its step is what it held, what was stored, or an outline.
LEMMA CallerStep ==
    ASSUME MapInv, NEW c \in Callers, NEW q \in Caller, caller' = [caller EXCEPT ![c] = q],
           q.pc # "idle" => q.graph \in Graph /\ Validate(q.graph)
    PROVE  /\ caller' \in [Callers -> Caller]
           /\ \A d \in Callers : caller'[d].pc # "idle" => caller'[d].graph \in Graph /\ Validate(caller'[d].graph)
BY DEF MapInv

LEMMA RequestStep ==
    ASSUME MapInv, NEW c \in Callers,
           \/ SaveBuilt(c) \/ Mutate(c) \/ GiveUp(c) \/ Open(c)
           \/ \E f \in {"tool", "page"} : Load(c, f)
    PROVE  MapInv'
<1>1. /\ map \in Graph \cup {None, Gone} /\ (map \in Graph => Validate(map)) /\ caller[c] \in Caller
      /\ (caller[c].pc # "idle" => caller[c].graph \in Graph /\ Validate(caller[c].graph))
      /\ editor \in Graph \cup {None} /\ (editor \in Graph => IsTree(editor, Most))
      /\ chosen \in Ids \cup {None} /\ sent \subseteq Graph
  BY DEF MapInv
<1>2. ASSUME NEW f \in {"tool", "page"}, Load(c, f) PROVE MapInv'
  <2>1. UNCHANGED <<map, editor, chosen, sent>>
    BY <1>2 DEF Load
  <2>2. PICK g \in Graph, k \in {"loaded", "build"} :
            Validate(g) /\ caller' = [caller EXCEPT ![c] = [pc |-> k, for |-> f, graph |-> g]]
    <3>1. CASE map \notin {None, Gone} /\ caller' = [caller EXCEPT ![c] = [pc |-> "loaded", for |-> f, graph |-> map]]
      BY <1>1, <3>1
    <3>2. CASE \E g \in Outlines : caller' = [caller EXCEPT ![c] = [pc |-> "build", for |-> f, graph |-> g]]
      BY <3>2, MapBounds
    <3>3. QED
      BY <1>2, <3>1, <3>2 DEF Load
  <2> DEFINE q == [pc |-> k, for |-> f, graph |-> g]
  <2>3. q \in Caller /\ q.graph = g
    BY DEF Caller
  <2> HIDE DEF q
  <2>4. /\ caller' \in [Callers -> Caller]
        /\ \A d \in Callers : caller'[d].pc # "idle" => caller'[d].graph \in Graph /\ Validate(caller'[d].graph)
    <3>1. caller' = [caller EXCEPT ![c] = q]
      BY <2>2 DEF q
    <3>2. QED
      BY <2>2, <2>3, <3>1, CallerStep
  <2>5. QED
    BY <1>1, <2>1, <2>4 DEF MapInv
<1>3. CASE SaveBuilt(c)
  <2>1. /\ caller[c].pc = "build" /\ map' = caller[c].graph /\ Validate(caller[c].graph)
        /\ UNCHANGED <<editor, chosen, sent>>
    BY <1>3 DEF SaveBuilt, Save
  <2> DEFINE q == [caller[c] EXCEPT !.pc = "loaded"]
  <2>2. caller' = [caller EXCEPT ![c] = q] /\ q \in Caller /\ q.graph = caller[c].graph
    BY <1>1, <1>3 DEF SaveBuilt, Caller
  <2> HIDE DEF q
  <2>3. /\ caller' \in [Callers -> Caller]
        /\ \A d \in Callers : caller'[d].pc # "idle" => caller'[d].graph \in Graph /\ Validate(caller'[d].graph)
    BY <1>1, <2>1, <2>2, CallerStep
  <2>4. QED
    BY <1>1, <2>1, <2>3 DEF MapInv
<1>4. ASSUME Mutate(c) \/ GiveUp(c) \/ Open(c)
      PROVE  /\ caller' \in [Callers -> Caller]
             /\ \A d \in Callers : caller'[d].pc # "idle" => caller'[d].graph \in Graph /\ Validate(caller'[d].graph)
  <2>1. caller' = [caller EXCEPT ![c] = Idle]
    BY <1>4 DEF Mutate, GiveUp, Open
  <2>2. QED
    BY <2>1, IdleCaller, CallerStep
<1>5. CASE Mutate(c)
  <2>1. PICK h \in persistentMindMapTools(caller[c].graph) : Validate(h) /\ map' = h
    BY <1>5 DEF Mutate, Save
  <2>2. caller[c].pc = "loaded" /\ UNCHANGED <<editor, chosen, sent>>
    BY <1>5 DEF Mutate
  <2>3. h \in Graph
    BY <1>1, <2>1, <2>2, ToolsGraph
  <2>4. QED
    BY <1>1, <1>4, <1>5, <2>1, <2>2, <2>3 DEF MapInv
<1>6. CASE GiveUp(c)
  <2>1. UNCHANGED <<map, editor, chosen, sent>>
    BY <1>6 DEF GiveUp
  <2>2. QED
    BY <1>1, <1>4, <1>6, <2>1 DEF MapInv
<1>7. CASE Open(c)
  <2>1. caller[c].pc = "loaded" /\ editor' = caller[c].graph /\ chosen' = None /\ UNCHANGED <<map, sent>>
    BY <1>7 DEF Open
  <2>2. editor' \in Graph /\ IsTree(editor', Most)
    <3>1. PICK g \in Graph : g = caller[c].graph /\ Validate(g)
      BY <1>1, <2>1
    <3>2. QED
      BY <2>1, <3>1, ValidTree
  <2>3. QED
    BY <1>1, <1>4, <1>7, <2>1, <2>2 DEF MapInv, Most
<1>8. QED
  BY <1>2, <1>3, <1>5, <1>6, <1>7

\* The editor's steps, in which nothing is stored.
LEMMA EditorStep ==
    ASSUME MapInv, UNCHANGED <<map, caller>>,
           \/ \E i \in Ids : \/ Choose(i) \/ RemoveInEditor(i)
                             \/ \E s \in Says[i] : AddToEditor(i, s) \/ Retell(i, s)
           \/ Send \/ Close
    PROVE  MapInv'
<1>1. /\ editor \in Graph \cup {None} /\ (editor \in Graph => IsTree(editor, Most))
      /\ chosen \in Ids \cup {None} /\ sent \subseteq Graph
  BY DEF MapInv
<1>2. ASSUME editor' \in Graph \cup {None}, editor' \in Graph => IsTree(editor', Most),
             chosen' \in Ids \cup {None}, sent' \subseteq Graph
      PROVE  MapInv'
  BY <1>2 DEF MapInv, Most
<1>3. ASSUME NEW i \in Ids, Choose(i) PROVE MapInv'
  BY <1>1, <1>2, <1>3 DEF Choose
<1>4. CASE Send \/ Close
  BY <1>1, <1>2, <1>4, MapBounds DEF Send, Close
<1>5. ASSUME NEW g \in Graph, editor \in Graph => g \in Graph /\ IsTree(g, Most), editor # None,
             Edit(g), chosen' \in Ids \cup {None}
      PROVE  MapInv'
  BY <1>1, <1>2, <1>5 DEF Edit
<1>6. ASSUME NEW i \in Ids, RemoveInEditor(i) PROVE MapInv'
  <2>1. editor # None /\ i \in In(editor) \ {Root} /\ Edit(Without(editor, Subtree(editor, i))) /\ UNCHANGED chosen
    BY <1>6 DEF RemoveInEditor
  <2>2. PICK h : h = Without(editor, Subtree(editor, i)) /\ Edit(h)
    BY <2>1
  <2>3. h \in Graph /\ IsTree(h, Most)
    BY <1>1, <2>1, <2>2, WithoutGraph, RemoveTree
  <2>4. QED
    BY <1>1, <1>5, <2>1, <2>2, <2>3
<1>7. ASSUME NEW i \in Ids, NEW s \in Says[i], AddToEditor(i, s) PROVE MapInv'
  <2>1. /\ editor # None /\ i \in Ids \ In(editor) /\ chosen \in In(editor) /\ chosen' = None
        /\ Edit(Put(editor, i, chosen, s))
    BY <1>7 DEF AddToEditor
  <2>2. PICK h : h = Put(editor, i, chosen, s) /\ Edit(h)
    BY <2>1
  <2>3. h \in Graph /\ IsTree(h, Most)
    <3>1. editor \in Graph /\ chosen \in Ids \cup {"top"}
      BY <1>1, <2>1, GraphFields
    <3>2. QED
      BY <1>1, <2>1, <2>2, <3>1, PutGraph, AddTree
  <2>4. QED
    BY <1>1, <1>5, <2>1, <2>2, <2>3
<1>8. ASSUME NEW i \in Ids, NEW s \in Says[i], Retell(i, s) PROVE MapInv'
  <2>1. /\ editor # None /\ i \in In(editor) /\ Edit(Put(editor, i, editor[i].up, s)) /\ UNCHANGED chosen
    BY <1>8 DEF Retell
  <2>2. PICK h : h = Put(editor, i, editor[i].up, s) /\ Edit(h)
    BY <2>1
  <2>3. h \in Graph /\ IsTree(h, Most)
    BY <1>1, <2>1, <2>2, RetellTree
  <2>4. QED
    BY <1>1, <1>5, <2>1, <2>2, <2>3
<1>9. QED
  BY <1>3, <1>4, <1>6, <1>7, <1>8

LEMMA MapStepInv == MapInv /\ [MapNext \/ MapGone]_mapVars => MapInv'
<1> SUFFICES ASSUME MapInv, [MapNext \/ MapGone]_mapVars PROVE MapInv'
  OBVIOUS
<1>1. ASSUME NEW c \in Callers,
             \/ SaveBuilt(c) \/ Mutate(c) \/ GiveUp(c) \/ Open(c)
             \/ \E f \in {"tool", "page"} : Load(c, f)
      PROVE  MapInv'
  BY <1>1, RequestStep
<1>2. ASSUME NEW g \in sent, Update(g) PROVE MapInv'
  <2>1. /\ sent' = sent \ {g} /\ UNCHANGED <<caller, editor, chosen>>
        /\ (Validate(g) /\ map' = g) \/ map' = map
    BY <1>2 DEF Update, Save
  <2>2. g \in Graph
    BY DEF MapInv
  <2>3. map' \in Graph \cup {None, Gone} /\ (map' \in Graph => Validate(map'))
    BY <2>1, <2>2 DEF MapInv
  <2>4. QED
    BY <2>1, <2>3 DEF MapInv, Most
<1>3. ASSUME \/ \E i \in Ids : \/ Choose(i) \/ RemoveInEditor(i)
                               \/ \E s \in Says[i] : AddToEditor(i, s) \/ Retell(i, s)
             \/ Send \/ Close
      PROVE  MapInv'
  <2>1. UNCHANGED <<map, caller>>
    BY <1>3 DEF Choose, RemoveInEditor, AddToEditor, Retell, Edit, Send, Close
  <2>2. QED
    BY <1>3, <2>1, EditorStep
<1>4. CASE MapGone
  <2>1. map' = Gone /\ UNCHANGED <<caller, editor, chosen, sent>>
    BY <1>4 DEF MapGone
  <2>2. QED
    BY <2>1, MapBounds DEF MapInv, Most
<1>5. CASE UNCHANGED mapVars
  BY <1>5 DEF mapVars, MapInv, Most
<1>6. QED
  BY <1>1, <1>2, <1>3, <1>4, <1>5 DEF MapNext

LEMMA MapStep == [Next]_workspaceVars => [MapNext \/ MapGone]_mapVars
BY DEF Next, DeleteStudy, workspaceVars, mapVars

LEMMA MapAlways == Spec => []MapInv
<1>1. Init => MapInv
  BY MapInitInv DEF Init
<1>2. MapInv /\ [Next]_workspaceVars => MapInv'
  BY MapStep, MapStepInv
<1>3. QED
  BY <1>1, <1>2, PTL DEF Spec

\* The stored map is a tree that is not too large and not too deep, and the editor's copy
\* is one too, whatever the tutor asks for, the editor sends, and arrives late.
THEOREM MapsStayTrees == Spec => []MapsAreTrees
<1>1. MapInv => MapsAreTrees
  <2> SUFFICES ASSUME MapInv PROVE MapsAreTrees
    OBVIOUS
  <2>1. map \notin {None, Gone} => map \in Graph /\ Validate(map)
    BY DEF MapInv
  <2>2. editor # None => editor \in Graph /\ IsTree(editor, Most)
    BY DEF MapInv
  <2>3. QED
    BY <2>1, <2>2, ValidTree DEF MapsAreTrees, StoredTree, EditorTree, Most
<1>2. QED
  BY <1>1, MapAlways, PTL

\* A tool changes one node, or removes one branch.
LEMMA ToolsNarrow ==
    ASSUME NEW g \in Graph, NEW h \in persistentMindMapTools(g), g # h
    PROVE  \E i \in Ids : Differ(g, h) = {i} \/ (i # Root /\ Differ(g, h) = Subtree(g, i))
<1>1. In(g) \subseteq Ids /\ h \in Graph
  BY GraphFields, ToolsGraph
<1>2. ASSUME NEW i \in Ids, \A j \in Ids : j # i => h[j] = g[j] PROVE Differ(g, h) = {i}
  <2>1. g[i] # h[i]
    BY <1>1, <1>2 DEF Graph
  <2>2. QED
    BY <1>2, <2>1 DEF Differ
<1>3. ASSUME NEW i \in Ids, NEW u \in Ids \cup {"top"}, NEW s \in Says[i], h = Put(g, i, u, s)
      PROVE  Differ(g, h) = {i}
  <2>1. \A j \in Ids : j # i => h[j] = g[j]
    BY <1>3, PutGraph
  <2>2. QED
    BY <1>2, <2>1
<1>4. ASSUME h \in AddNode(g) \cup UpdateNode(g) PROVE \E i \in Ids : Differ(g, h) = {i}
  <2>1. \E i \in Ids, u \in Ids \cup {"top"} : \E s \in Says[i] : h = Put(g, i, u, s)
    BY <1>1, <1>4 DEF AddNode, UpdateNode
  <2>2. QED
    BY <1>3, <2>1
<1>5. ASSUME h \in RemoveNode(g) PROVE \E i \in Ids : i # Root /\ Differ(g, h) = Subtree(g, i)
  <2>1. PICK i \in In(g) \ {Root} : h = Without(g, Subtree(g, i))
    BY <1>5 DEF RemoveNode
  <2>2. Subtree(g, i) \subseteq In(g)
    BY <2>1, BranchIn
  <2>3. Differ(g, h) = Subtree(g, i)
    BY <1>1, <2>1, <2>2, WithoutGraph, GraphFields DEF Differ
  <2>4. QED
    BY <1>1, <2>1, <2>3
<1>6. QED
  BY <1>4, <1>5 DEF persistentMindMapTools

\* A tool that raced with nobody changes one node, or removes one branch.
THEOREM OneBranchOnly == Spec => OneBranch
<1> DEFINE Narrow == \A c \in Callers :
               caller[c].graph = map /\ map' \notin {map, Gone} /\ caller[c].pc = "loaded" /\ caller'[c] = Idle =>
                   \E i \in Ids : \/ Differ(map, map') = {i}
                                  \/ i # Root /\ Differ(map, map') = Subtree(map, i)
<1>1. ASSUME MapInv, [MapNext \/ MapGone]_mapVars PROVE Narrow
  <2> SUFFICES ASSUME NEW c \in Callers, caller[c].graph = map, map' \notin {map, Gone},
                      caller[c].pc = "loaded", caller'[c] = Idle
               PROVE  \E i \in Ids : \/ Differ(map, map') = {i}
                                     \/ i # Root /\ Differ(map, map') = Subtree(map, i)
    OBVIOUS
  <2>1. PICK g \in Graph : g = map
    BY <1>1 DEF MapInv
  <2>2. caller \in [Callers -> Caller] /\ caller'[c] # caller[c]
    BY <1>1, IdleCaller DEF MapInv
  <2>3. Mutate(c)
    <3>1. ASSUME NEW d \in Callers, d # c, NEW q, caller' = [caller EXCEPT ![d] = q] PROVE FALSE
      BY <2>2, <3>1
    <3>2. PICK d \in Callers : SaveBuilt(d) \/ Mutate(d)
      <4>1. UNCHANGED caller => FALSE
        BY <2>2
      <4>2. QED
        BY <1>1, <4>1 DEF MapNext, MapGone, mapVars, GiveUp, Open, Load, Update, Choose, RemoveInEditor,
                          AddToEditor, Retell, Edit, Send, Close
    <3>3. d = c
      BY <3>1, <3>2 DEF SaveBuilt, Mutate
    <3>4. ~SaveBuilt(c)
      BY DEF SaveBuilt
    <3>5. QED
      BY <3>2, <3>3, <3>4
  <2>4. PICK h \in persistentMindMapTools(g) : map' = h
    BY <2>1, <2>3 DEF Mutate, Save
  <2>5. g # h
    BY <2>1, <2>4
  <2>6. QED
    BY <2>1, <2>4, <2>5, ToolsNarrow
<1>2. MapInv /\ [Next]_workspaceVars => [Narrow]_mapVars
  BY <1>1, MapStep
<1>3. QED
  BY <1>2, MapAlways, PTL DEF Spec, OneBranch

=============================================================================
